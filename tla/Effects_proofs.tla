--------------------------- MODULE Effects_proofs ---------------------------
(***************************************************************************)
(* Proofs about effects outside: calls of generated functions, changes of  *)
(* the calendar, paid searches, first messages and answers to sellers      *)
(* happen at most once, for every set of requests and any number of        *)
(* crashes.                                                                *)
(***************************************************************************)
EXTENDS ToolCalls, CalendarWriter, Research, ShopperReplies, Shopper,
        FiniteSetTheorems, SequenceTheorems, TLAPS
-----------------------------------------------------------------------------
(* ToolCalls *)

TcSteps == {"activate", "claim", "run", "keep", "lost", "block", "fail",
            "tellfail", "save", "done", "tell", "close"}

\* The tables, the worker and the world keep their types.
TcTypes ==
    /\ tcReq \in [TcReqs -> {"absent", "queued", "running", "ready", "done", "failed"}]
    /\ tcCall \in [TcReqs -> {"absent", "running", "failed", "done"}]
    /\ tcTask \in [TcReqs -> {"absent", "new", "active", "waiting", "blocked", "done"}]
    /\ tcRuns \in [TcReqs -> Nat]
    /\ tcWork \in {TcIdle} \cup [at : TcSteps, r : TcReqs]

\* A container ran only for a call on record; a saved result was returned; a
\* request with a result to deliver has a saved one.
CallsSound ==
    \A r \in TcReqs :
        /\ tcCall[r] = "absent" => tcRuns[r] = 0
        /\ tcCall[r] = "done" => r \in tcAnswer
        /\ tcReq[r] = "ready" => tcCall[r] = "done"

\* What the worker is about to do is backed by the tables.
WorkSound ==
    /\ tcWork.at = "run" => tcCall[tcWork.r] = "running" /\ tcRuns[tcWork.r] = 0
    /\ tcWork.at = "keep" => tcCall[tcWork.r] = "running" /\ tcWork.r \in tcAnswer
    /\ tcWork.at = "lost" => tcCall[tcWork.r] = "running"
    /\ tcWork.at \in {"save", "done", "tell", "close"} => tcCall[tcWork.r] = "done"

TcInv == TcTypes /\ CallsSound /\ WorkSound /\ TcResultReal

-----------------------------------------------------------------------------
LEMMA TcInvInit == TcInit => TcInv
  <1> SUFFICES ASSUME TcInit PROVE TcInv
    OBVIOUS
  <1>1. TcTypes
    BY DEF TcInit, TcTypes
  <1>2. CallsSound
    BY DEF TcInit, CallsSound
  <1>3. WorkSound
    BY DEF TcInit, WorkSound, TcIdle
  <1>4. TcResultReal
    BY DEF TcInit, TcResultReal
  <1> QED
    BY <1>1, <1>2, <1>3, <1>4 DEF TcInv

\* The worker is idle, or it serves a request.
LEMMA Serving ==
    ASSUME TcTypes, tcWork.at # "idle"
    PROVE  tcWork.r \in TcReqs /\ tcWork.at \in TcSteps
  BY DEF TcTypes, TcIdle

\* Picking a request up: what the worker needs is in the tables.
LEMMA PickSteps ==
    ASSUME TcInv, NEW r \in TcReqs, TcInterrupted(r) \/ TcResume(r) \/ TcTake(r)
    PROVE  TcInv'
  <1>1. TcTypes'
    BY DEF TcInv, TcTypes, TcInterrupted, TcResume, TcTake, TcGo, TcSteps
  <1>2. CallsSound'
    BY DEF TcInv, TcTypes, CallsSound, TcInterrupted, TcResume, TcTake
  <1>3. WorkSound'
    BY DEF TcInv, CallsSound, WorkSound, TcInterrupted, TcResume, TcTake, TcGo, TcSaved
  <1>4. TcResultReal'
    BY DEF TcInv, TcResultReal, TcInterrupted, TcResume, TcTake
  <1> QED
    BY <1>1, <1>2, <1>3, <1>4 DEF TcInv

\* The steps of a call: its row, the container, and its row again.
LEMMA CallSteps ==
    ASSUME TcInv, TcClaim \/ TcContainer \/ TcKeep \/ TcLost
    PROVE  TcInv'
  <1>0. tcWork.r \in TcReqs
    BY Serving DEF TcInv, TcClaim, TcContainer, TcKeep, TcLost, TcAt
  <1>1. TcTypes'
    BY <1>0 DEF TcInv, TcTypes, TcClaim, TcContainer, TcKeep, TcLost, TcGo, TcSteps,
                TcAfterLoss
  <1>2. CallsSound'
    BY <1>0 DEF TcInv, TcTypes, CallsSound, WorkSound, TcClaim, TcContainer, TcKeep,
                TcLost, TcAt
  <1>3. WorkSound'
    BY <1>0 DEF TcInv, TcTypes, CallsSound, WorkSound, TcClaim, TcContainer, TcKeep,
                TcLost, TcAt, TcGo, TcAfterLoss
  <1>4. TcResultReal'
    BY DEF TcInv, TcResultReal, TcClaim, TcContainer, TcKeep, TcLost
  <1> QED
    BY <1>1, <1>2, <1>3, <1>4 DEF TcInv

\* The steps before and after the call: the task, the request and the owner.
LEMMA CloseSteps ==
    ASSUME TcInv,
           TcActivate \/ TcBlock \/ TcFail \/ TcTellFail \/ TcSave \/ TcDone \/ TcTell \/ TcClose
    PROVE  TcInv'
  <1>0. tcWork.r \in TcReqs
    BY Serving DEF TcInv, TcActivate, TcBlock, TcFail, TcTellFail, TcSave, TcDone, TcTell,
                   TcClose, TcAt
  <1>1. TcTypes'
    BY <1>0 DEF TcInv, TcTypes, TcActivate, TcBlock, TcFail, TcTellFail, TcSave, TcDone,
                TcTell, TcClose, TcGo, TcSteps
  <1>2. CallsSound'
    BY <1>0 DEF TcInv, TcTypes, CallsSound, WorkSound, TcActivate, TcBlock, TcFail,
                TcTellFail, TcSave, TcDone, TcTell, TcClose, TcAt
  <1>3. WorkSound'
    BY <1>0 DEF TcInv, WorkSound, TcActivate, TcBlock, TcFail, TcTellFail, TcSave, TcDone,
                TcTell, TcClose, TcAt, TcGo, TcIdle
  <1>4. TcResultReal'
    BY <1>0 DEF TcInv, TcTypes, CallsSound, WorkSound, TcResultReal, TcActivate, TcBlock,
                TcFail, TcTellFail, TcSave, TcDone, TcTell, TcClose, TcAt
  <1> QED
    BY <1>1, <1>2, <1>3, <1>4 DEF TcInv

\* Requests, the owner, a crash and a failed transition.
LEMMA OtherSteps ==
    ASSUME TcInv,
           TcCrash \/ TcStops \/ \E r \in TcReqs : TcEnqueue(r) \/ TcOwner(r)
    PROVE  TcInv'
  <1>1. TcTypes'
    BY DEF TcInv, TcTypes, TcCrash, TcStops, TcEnqueue, TcOwner
  <1>2. CallsSound'
    BY DEF TcInv, TcTypes, CallsSound, TcCrash, TcStops, TcEnqueue, TcOwner
  <1>3. WorkSound'
    BY DEF TcInv, WorkSound, TcCrash, TcStops, TcEnqueue, TcOwner, TcIdle
  <1>4. TcResultReal'
    BY DEF TcInv, TcTypes, TcResultReal, TcCrash, TcStops, TcEnqueue, TcOwner
  <1> QED
    BY <1>1, <1>2, <1>3, <1>4 DEF TcInv

\* Every step keeps it.
LEMMA TcInvStep == TcInv /\ [TcNext]_tcVars => TcInv'
  <1> SUFFICES ASSUME TcInv, [TcNext]_tcVars PROVE TcInv'
    OBVIOUS
  <1>1. CASE UNCHANGED tcVars
    BY <1>1 DEF tcVars, TcInv, TcTypes, CallsSound, WorkSound, TcResultReal
  <1>2. CASE TcNext
    BY <1>2, PickSteps, CallSteps, CloseSteps, OtherSteps DEF TcNext, TcWorker
  <1> QED
    BY <1>1, <1>2

-----------------------------------------------------------------------------
\* A request, and its task, is done only with a result that the container
\* returned, however often the worker dies between the writes.
THEOREM DoneIsReal == TcSpec => []TcResultReal
  <1>1. TcInv => TcResultReal
    BY DEF TcInv
  <1> QED
    BY <1>1, TcInvInit, TcInvStep, PTL DEF TcSpec

-----------------------------------------------------------------------------
(* The refinement of OneShot. *)

\* The initial states map to initial states.
LEMMA EffectInit == TcInit => TcEffect!Init
  <1> SUFFICES ASSUME TcInit PROVE TcEffect!Init
    OBVIOUS
  <1>1. \A r \in TcReqs : tcCall[r] = "absent"
    BY DEF TcInit
  <1>2. [r \in TcReqs |-> CASE tcCall[r] = "absent" -> "open"
                            [] tcCall[r] = "done" -> "confirmed"
                            [] OTHER -> "claimed"] = [r \in TcReqs |-> "open"]
    BY <1>1
  <1>3. [r \in TcReqs |-> r \in tcAnswer] = [r \in TcReqs |-> FALSE]
    <2>1. tcAnswer = {}
      BY DEF TcInit
    <2>2. \A r \in TcReqs : (r \in tcAnswer) = FALSE
      BY <2>1
    <2> QED
      BY <2>2, Zenon
  <1> QED
    BY <1>2, <1>3 DEF TcInit, TcEffect!Init

\* Recording the call is the claim.
LEMMA ClaimMaps ==
    ASSUME TcInv, TcClaim, NEW r \in TcReqs, r = tcWork.r
    PROVE  TcEffect!Claim(r)
  BY DEF TcInv, TcTypes, TcClaim, TcEffect!Claim

\* The container is the effect: it is started at most once.
LEMMA ContainerMaps ==
    ASSUME TcInv, TcContainer, NEW r \in TcReqs, r = tcWork.r
    PROVE  TcEffect!Send(r)
  <1>1. tcCall[r] = "running" /\ tcRuns[r] = 0
    BY DEF TcInv, WorkSound, TcContainer, TcAt
  <1>2. tcRuns' = [tcRuns EXCEPT ![r] = 1]
    BY <1>1 DEF TcInv, TcTypes, TcContainer
  <1>3. tcCall' = tcCall
    BY DEF TcContainer
  <1>4. CASE tcAnswer' = tcAnswer \cup {r}
    <2>1. \A q \in TcReqs : q # r => (q \in tcAnswer') = (q \in tcAnswer)
      BY <1>4
    <2>2. (r \in tcAnswer') = TRUE
      BY <1>4
    <2>3. [q \in TcReqs |-> q \in tcAnswer']
            = [[q \in TcReqs |-> q \in tcAnswer] EXCEPT ![r] = TRUE]
      BY <2>1, <2>2, Zenon
    <2> QED
      BY <1>1, <1>2, <1>3, <2>3 DEF TcEffect!Send
  <1>5. CASE tcAnswer' = tcAnswer
    <2>1. [q \in TcReqs |-> q \in tcAnswer'] = [q \in TcReqs |-> q \in tcAnswer]
      BY <1>5
    <2> QED
      BY <1>1, <1>2, <1>3, <2>1 DEF TcEffect!Send
  <1> QED
    BY <1>4, <1>5 DEF TcContainer

\* Saving the result confirms it.
LEMMA KeepMaps ==
    ASSUME TcInv, TcKeep, NEW r \in TcReqs, r = tcWork.r
    PROVE  TcEffect!Confirm(r)
  BY DEF TcInv, TcTypes, WorkSound, TcKeep, TcAt, TcEffect!Confirm

\* A lost answer leaves the call claimed.
LEMMA LostMaps ==
    ASSUME TcInv, TcLost PROVE UNCHANGED TcEffect!vars
  <1>0. tcWork.r \in TcReqs
    BY Serving DEF TcInv, TcLost, TcAt
  <1> QED
    BY <1>0 DEF TcInv, TcTypes, WorkSound, TcLost, TcAt, TcEffect!vars

\* All other steps leave the call, the container and its answer alone.
LEMMA RestStutters ==
    ASSUME UNCHANGED <<tcCall, tcRuns, tcAnswer>> PROVE UNCHANGED TcEffect!vars
  BY DEF TcEffect!vars

LEMMA EffectNext ==
    ASSUME NEW r \in TcReqs,
           TcEffect!Claim(r) \/ TcEffect!Send(r) \/ TcEffect!Confirm(r)
    PROVE  TcEffect!Next
  BY DEF TcEffect!Next

\* Every step maps to a step of OneShot or to a stutter.
LEMMA EffectStep == TcInv /\ [TcNext]_tcVars => [TcEffect!Next]_TcEffect!vars
  <1> SUFFICES ASSUME TcInv, [TcNext]_tcVars PROVE [TcEffect!Next]_TcEffect!vars
    OBVIOUS
  <1>1. CASE TcClaim \/ TcContainer \/ TcKeep
    <2>1. tcWork.r \in TcReqs
      BY <1>1, Serving DEF TcInv, TcClaim, TcContainer, TcKeep, TcAt
    <2>2. PICK r \in TcReqs : r = tcWork.r
      BY <2>1
    <2>3. TcEffect!Claim(r) \/ TcEffect!Send(r) \/ TcEffect!Confirm(r)
      BY <1>1, <2>2, ClaimMaps, ContainerMaps, KeepMaps
    <2>4. TcEffect!Next
      BY <2>3, EffectNext
    <2> QED
      BY <2>4
  <1>2. CASE TcLost
    BY <1>2, LostMaps
  <1>3. CASE UNCHANGED <<tcCall, tcRuns, tcAnswer>>
    BY <1>3, RestStutters
  <1> QED
    BY <1>1, <1>2, <1>3
    DEF tcVars, TcNext, TcWorker, TcActivate, TcBlock, TcFail, TcTellFail, TcSave, TcDone,
        TcTell, TcClose, TcStops, TcInterrupted, TcResume, TcTake, TcCrash, TcEnqueue, TcOwner

\* A generated function is run at most once for a request, only after its call
\* was recorded, and its result counts only when the container returned it:
\* crashes, interrupted requests and repeated passes never start it again.
THEOREM CallsAreOneShot == TcSpec => TcOneShot
  <1> QED
    BY TcInvInit, TcInvStep, EffectInit, EffectStep, PTL DEF TcSpec, TcOneShot, TcEffect!Spec

\* A call of a generated function is one effect with one true answer: what
\* invoke and process_pending promise together.
THEOREM CallsAreSafe == TcSpec => TcSafe
  <1> QED
    BY DoneIsReal, CallsAreOneShot, PTL DEF TcSafe

-----------------------------------------------------------------------------
(* CalendarWriter *)

CalStatuses == {"none", "ready", "waiting", "sending", "completed"}
CalTasks == {"none", "active", "blocked", "review", "done"}
CalRows == [CalRequests -> CalRow]
CalPlaces == {CalIdle} \cup [pc : CalSteps, r : CalRequests]

\* The statuses of the rows, which is what most of the argument is about.
CalStOf(rows) == [r \in CalRequests |-> rows[r].st]
CalSt == CalStOf(calOp)

CalUnderLock == {"look", "gate", "mark", "send", "confirm", "finish", "done", "failed",
                 "recover", "recovered"}

\* What a process knows where it stands: whoever works on a row holds the
\* lock, so the row is as it left it.
CalStands(p, at) ==
    /\ at.pc \in CalUnderLock => calLock = p
    /\ at.pc \in {"recover", "recovered", "publish", "delivered"} => p = CalWorker
    /\ at.pc \in {"gate", "mark"} => CalSt[at.r] \in {"ready", "waiting"}
    /\ at.pc = "send" => CalSt[at.r] = "sending" /\ calSent[at.r] = 0
    /\ at.pc \in {"confirm", "finish", "done", "failed", "recover", "recovered"} =>
          CalSt[at.r] = "sending"
    /\ at.pc \in {"finish", "done", "recovered"} => calHeld[at.r]
    /\ at.pc \in {"done", "recovered"} => calTask[at.r] = "done"
    /\ at.pc \in {"publish", "delivered"} => CalSt[at.r] = "completed"
CalProcsSound == \A p \in CalProcs : CalStands(p, calPc[p])

\* What row, task, calendar and messages say of a request agrees.
CalAgrees(r) ==
    /\ calSent[r] <= 1
    /\ CalSt[r] \in {"none", "ready", "waiting"} => calSent[r] = 0
    /\ calGoogle[r] = "yes" => calHeld[r]
    /\ calGoogle[r] = "late" => calSent[r] = 1
    /\ CalSt[r] # "none" => calTask[r] # "none"
    /\ CalSt[r] = "completed" => calTask[r] = "done"
    /\ calTold[r] <= 1
    /\ calTold[r] = 1 => CalSt[r] = "completed"
CalRowsAgree == \A r \in CalRequests : CalAgrees(r)

CalInv == CalTypeOK /\ CalProcsSound /\ CalRowsAgree

-----------------------------------------------------------------------------
\* One field of one row changes.
LEMMA CalFields ==
    ASSUME NEW f \in CalRows, NEW r \in CalRequests
    PROVE  /\ \A st \in CalStatuses :
                 /\ [f EXCEPT ![r].st = st] \in CalRows
                 /\ CalStOf([f EXCEPT ![r].st = st]) = [CalStOf(f) EXCEPT ![r] = st]
           /\ \A b \in BOOLEAN :
                 /\ [f EXCEPT ![r].deliver = b] \in CalRows
                 /\ CalStOf([f EXCEPT ![r].deliver = b]) = CalStOf(f)
                 /\ [f EXCEPT ![r].due = b] \in CalRows
                 /\ CalStOf([f EXCEPT ![r].due = b]) = CalStOf(f)
           /\ \A n \in 0..CalChecks :
                 /\ [f EXCEPT ![r].checks = n] \in CalRows
                 /\ CalStOf([f EXCEPT ![r].checks = n]) = CalStOf(f)
  BY DEF CalRows, CalRow, CalStOf, CalStatuses

LEMMA CalParts ==
    ASSUME CalTypeOK
    PROVE  /\ calOp \in CalRows /\ CalSt \in [CalRequests -> CalStatuses]
           /\ calTask \in [CalRequests -> CalTasks] /\ calLock \in CalProcs \cup {CalNone}
           /\ calPc \in [CalProcs -> CalPlaces] /\ calWritable \in BOOLEAN
           /\ calSent \in [CalRequests -> 0..2] /\ calGoogle \in [CalRequests -> {"no", "late", "yes"}]
           /\ calHeld \in [CalRequests -> BOOLEAN] /\ calTold \in [CalRequests -> 0..2]
           /\ calFaults \in 0..CalFaults
  <1>1. calOp \in CalRows
    BY DEF CalTypeOK, CalRows
  <1>2. CalSt \in [CalRequests -> CalStatuses]
    BY <1>1 DEF CalRows, CalRow, CalSt, CalStOf, CalStatuses
  <1> QED
    BY <1>1, <1>2 DEF CalTypeOK, CalTasks, CalPlaces

LEMMA CalWhole ==
    ASSUME calOp \in CalRows, calTask \in [CalRequests -> CalTasks],
           calLock \in CalProcs \cup {CalNone}, calPc \in [CalProcs -> CalPlaces],
           calWritable \in BOOLEAN, calSent \in [CalRequests -> 0..2],
           calGoogle \in [CalRequests -> {"no", "late", "yes"}],
           calHeld \in [CalRequests -> BOOLEAN], calTold \in [CalRequests -> 0..2],
           calFaults \in 0..CalFaults
    PROVE  CalTypeOK
  BY DEF CalTypeOK, CalRows, CalTasks, CalPlaces

LEMMA CalNames ==
    /\ CalNone \notin CalRequests /\ CalNone \notin CalProcs /\ CalWorker \in CalProcs
    /\ \A p \in CalThreads : p \in CalProcs /\ p # CalWorker
    /\ \A pc \in CalSteps, r \in CalRequests : CalAt(pc, r) \in CalPlaces
    /\ \A pc, r : CalAt(pc, r).pc = pc /\ CalAt(pc, r).r = r
    /\ CalIdle \in CalPlaces /\ CalIdle.pc = "idle"
  BY CalAssumption DEF CalProcs, CalPlaces, CalAt, CalIdle

\* A process that is at a step is at it for a request.
LEMMA CalAtRequest ==
    ASSUME CalTypeOK, NEW p \in CalProcs, calPc[p].pc \in CalSteps
    PROVE  calPc[p].r \in CalRequests /\ calPc[p] # CalIdle
  <1>1. calPc[p] \in CalPlaces
    BY CalParts
  <1>2. "idle" \notin CalSteps
    BY DEF CalSteps
  <1> QED
    BY <1>1, <1>2, CalNames DEF CalPlaces

LEMMA CalNobody == ASSUME NEW p PROVE CalStands(p, CalIdle)
  BY CalNames DEF CalStands, CalUnderLock

LEMMA CalInvInit == CalInit => CalInv
  <1> SUFFICES ASSUME CalInit PROVE CalInv
    OBVIOUS
  <1>1. [st |-> "none", deliver |-> FALSE, checks |-> 0, due |-> TRUE] \in CalRow
    BY CalAssumption DEF CalRow
  <1>2. calOp \in CalRows
    BY <1>1 DEF CalInit, CalRows
  <1>3. CalSt = [r \in CalRequests |-> "none"]
    BY DEF CalInit, CalSt, CalStOf
  <1>4. CalTypeOK
    BY <1>2, CalNames, CalAssumption, CalWhole DEF CalInit, CalTasks
  <1>5. CalProcsSound
    BY CalNobody DEF CalInit, CalProcsSound
  <1>6. ASSUME NEW r \in CalRequests PROVE CalAgrees(r)
    <2>1. /\ CalSt[r] = "none" /\ calSent[r] = 0 /\ calGoogle[r] = "no" /\ calTold[r] = 0
      BY <1>3 DEF CalInit
    <2> QED
      BY <2>1 DEF CalAgrees
  <1> QED
    BY <1>4, <1>5, <1>6 DEF CalInv, CalRowsAgree

\* A process that has the lock or takes it moves: the others are not at a row,
\* and what was completed stays so.
LEMMA CalOthers ==
    ASSUME CalInv, NEW p \in CalProcs, calLock \in {p, CalNone}, NEW at, CalTypeOK',
           calPc' = [calPc EXCEPT ![p] = at], CalStands(p, at)',
           \A r \in CalRequests : CalSt[r] = "completed" => CalSt'[r] = "completed"
    PROVE  CalProcsSound'
  <1> SUFFICES ASSUME NEW q \in CalProcs PROVE CalStands(q, calPc[q])'
    BY DEF CalProcsSound
  <1>1. calPc \in [CalProcs -> CalPlaces] /\ CalStands(q, calPc[q])
    BY CalParts DEF CalInv, CalProcsSound
  <1>2. CASE q = p
    <2>1. calPc'[p] = at
      BY <1>1
    <2> QED
      BY <1>2, <2>1 DEF CalStands
  <1>3. CASE q # p
    <2>1. calPc'[q] = calPc[q]
      BY <1>1, <1>3
    <2>2. calPc[q].pc \notin CalUnderLock
      BY <1>1, <1>3, CalNames DEF CalStands
    <2>3. calPc[q].pc \in {"publish", "delivered"} => calPc[q].r \in CalRequests
      BY CalAtRequest DEF CalInv, CalSteps
    <2> QED
      BY <1>1, <2>1, <2>2, <2>3 DEF CalStands, CalUnderLock
  <1> QED
    BY <1>2, <1>3

\* Steps that leave the statuses, the tasks, the calendar and what was told.
LEMMA CalSameRows ==
    ASSUME CalInv, CalSt' = CalSt, UNCHANGED <<calTask, calSent, calGoogle, calHeld, calTold>>
    PROVE  CalRowsAgree'
  BY DEF CalInv, CalRowsAgree, CalAgrees

\* The facts of one request change, and agree again.
LEMMA CalOneRow ==
    ASSUME CalInv, NEW r \in CalRequests, CalAgrees(r)',
           \A q \in CalRequests \ {r} :
              /\ CalSt'[q] = CalSt[q] /\ calTask'[q] = calTask[q] /\ calSent'[q] = calSent[q]
              /\ calGoogle'[q] = calGoogle[q] /\ calHeld'[q] = calHeld[q] /\ calTold'[q] = calTold[q]
    PROVE  CalRowsAgree'
  BY DEF CalInv, CalRowsAgree, CalAgrees

\* A process takes up a request: execute, or one of the ways of reconcile.
LEMMA CalBeginSteps ==
    ASSUME CalInv,
           \/ \E p \in CalThreads, r \in CalRequests : CalExecute(p, r)
           \/ \E r \in CalRequests : CalPickDone(r) \/ CalPickWaiting(r) \/ CalPickLost(r)
    PROVE  CalInv' /\ CalSt' = CalSt /\ UNCHANGED <<calSent, calHeld>>
  <1>0. /\ calOp \in CalRows /\ CalSt \in [CalRequests -> CalStatuses]
        /\ calPc \in [CalProcs -> CalPlaces] /\ calLock \in CalProcs \cup {CalNone}
        /\ UNCHANGED <<calTask, calWritable, calSent, calGoogle, calHeld, calTold, calFaults>>
    BY CalParts DEF CalInv, CalExecute, CalPickDone, CalPickWaiting, CalPickLost
  <1>1. ASSUME NEW p \in CalThreads, NEW r \in CalRequests, CalExecute(p, r)
        PROVE  CalInv' /\ CalSt' = CalSt
    <2>1. /\ calLock = CalNone /\ calLock' = p /\ calOp' = calOp
          /\ calPc' = [calPc EXCEPT ![p] = CalAt("look", r)] /\ p \in CalProcs
      BY <1>1, CalNames DEF CalExecute
    <2>2. CalSt' = CalSt
      BY <2>1 DEF CalSt
    <2>3. CalAt("look", r) \in CalPlaces
      BY CalNames DEF CalSteps
    <2>4. calPc' \in [CalProcs -> CalPlaces]
      BY <1>0, <2>1, <2>3
    <2>5. CalTypeOK'
      BY <1>0, <2>1, <2>4 DEF CalInv, CalTypeOK, CalPlaces
    <2>6. CalStands(p, CalAt("look", r))'
      BY <2>1, CalNames DEF CalStands
    <2> QED
      BY <1>0, <2>1, <2>2, <2>5, <2>6, CalOthers, CalSameRows DEF CalInv
  <1>2. ASSUME NEW r \in CalRequests, CalPickDone(r) PROVE CalInv' /\ CalSt' = CalSt
    <2>1. /\ calLock' = calLock /\ calOp' = calOp /\ CalFirst(r, 0)
          /\ calPc' = [calPc EXCEPT ![CalWorker] = CalAt("publish", r)]
      BY <1>2 DEF CalPickDone
    <2>2. CalSt' = CalSt
      BY <2>1 DEF CalSt
    <2>3. CalSt[r] = "completed"
      BY <2>1 DEF CalFirst, CalRank, CalSt, CalStOf
    <2>4. CalAt("publish", r) \in CalPlaces
      BY CalNames DEF CalSteps
    <2>5. calPc' \in [CalProcs -> CalPlaces]
      BY <1>0, <2>1, <2>4
    <2>6. CalTypeOK'
      BY <1>0, <2>1, <2>5 DEF CalInv, CalTypeOK, CalPlaces
    <2>7. ASSUME NEW q \in CalProcs PROVE CalStands(q, calPc[q])'
      <3>1. CASE q = CalWorker
        BY <1>0, <2>1, <2>2, <2>3, <3>1, CalNames DEF CalStands, CalUnderLock
      <3>2. CASE q # CalWorker
        BY <1>0, <2>1, <2>2, <3>2 DEF CalInv, CalProcsSound, CalStands
      <3> QED
        BY <3>1, <3>2
    <2> QED
      BY <1>0, <2>2, <2>6, <2>7, CalSameRows DEF CalInv, CalProcsSound
  <1>3. ASSUME NEW r \in CalRequests, CalPickWaiting(r) PROVE CalInv' /\ CalSt' = CalSt
    <2>1. /\ calLock = CalNone /\ calLock' = CalWorker /\ calOp' = calOp /\ CalWorker \in CalProcs
          /\ calPc' = [calPc EXCEPT ![CalWorker] = CalAt("look", r)]
      BY <1>3, CalNames DEF CalPickWaiting
    <2>2. CalSt' = CalSt
      BY <2>1 DEF CalSt
    <2>3. CalAt("look", r) \in CalPlaces
      BY CalNames DEF CalSteps
    <2>4. calPc' \in [CalProcs -> CalPlaces]
      BY <1>0, <2>1, <2>3
    <2>5. CalTypeOK'
      BY <1>0, <2>1, <2>4 DEF CalInv, CalTypeOK, CalPlaces
    <2>6. CalStands(CalWorker, CalAt("look", r))'
      BY <2>1, CalNames DEF CalStands
    <2> QED
      BY <1>0, <2>1, <2>2, <2>5, <2>6, CalOthers, CalSameRows DEF CalInv
  <1>4. ASSUME NEW r \in CalRequests, CalPickLost(r) PROVE CalInv' /\ CalSt' = CalSt
    <2>1. /\ calLock = CalNone /\ calLock' = CalWorker /\ CalWorker \in CalProcs /\ CalFirst(r, 2)
          /\ calPc' = [calPc EXCEPT ![CalWorker] = CalAt("recover", r)]
      BY <1>4, CalNames DEF CalPickLost
    <2>2. calOp[r].st = "sending" /\ calOp[r].checks < CalChecks
      BY <2>1 DEF CalFirst, CalRank
    <2>3. PICK n \in 0..CalChecks : n = calOp[r].checks + 1
      BY <1>0, <2>2, CalAssumption DEF CalRows, CalRow
    <2>4. calOp' = [[calOp EXCEPT ![r].checks = n] EXCEPT ![r].due = FALSE]
      BY <1>0, <1>4, <2>3 DEF CalPickLost, CalRows
    <2>5. [calOp EXCEPT ![r].checks = n] \in CalRows /\ CalStOf([calOp EXCEPT ![r].checks = n]) = CalSt
      BY <1>0, CalFields DEF CalSt
    <2>6. calOp' \in CalRows /\ CalSt' = CalSt
      BY <2>4, <2>5, CalFields DEF CalSt
    <2>7. CalSt[r] = "sending"
      BY <2>2 DEF CalSt, CalStOf
    <2>8. CalAt("recover", r) \in CalPlaces
      BY CalNames DEF CalSteps
    <2>9. calPc' \in [CalProcs -> CalPlaces]
      BY <1>0, <2>1, <2>8
    <2>10. CalTypeOK'
      BY <1>0, <2>1, <2>6, <2>9 DEF CalInv, CalTypeOK, CalPlaces, CalRows
    <2>11. CalStands(CalWorker, CalAt("recover", r))'
      BY <2>1, <2>6, <2>7, CalNames DEF CalStands
    <2> QED
      BY <1>0, <2>1, <2>6, <2>10, <2>11, CalOthers, CalSameRows DEF CalInv
  <1> QED
    BY <1>0, <1>1, <1>2, <1>3, <1>4
\* Whoever goes on stands at its next step, whoever leaves stands nowhere; the
\* worker goes on to tell the owner of what is completed.
LEMMA CalGoes ==
    ASSUME CalTypeOK, NEW p \in CalProcs, NEW r \in CalRequests, r = calPc[p].r,
           NEW pc \in CalSteps, CalGo(p, pc)
    PROVE  CalAt(pc, r) \in CalPlaces /\ calPc' = [calPc EXCEPT ![p] = CalAt(pc, r)]
  BY CalNames DEF CalGo

LEMMA CalLeaves ==
    ASSUME CalTypeOK, NEW p \in CalProcs, NEW r \in CalRequests, r = calPc[p].r,
           NEW pc, CalLeave(p, pc), pc = "publish" => CalSt'[r] = "completed"
    PROVE  \E at \in CalPlaces :
              calPc' = [calPc EXCEPT ![p] = at] /\ CalStands(p, at)' /\ calLock' = CalNone
  <1>1. CASE p = CalWorker /\ pc = "publish"
    <2>1. calPc' = [calPc EXCEPT ![p] = CalAt("publish", r)] /\ calLock' = CalNone
      BY <1>1 DEF CalLeave
    <2>2. CalAt("publish", r) \in CalPlaces
      BY CalNames DEF CalSteps
    <2>3. CalStands(p, CalAt("publish", r))'
      BY <1>1, CalNames DEF CalStands, CalUnderLock
    <2> QED
      BY <2>1, <2>2, <2>3
  <1>2. CASE ~(p = CalWorker /\ pc = "publish")
    <2>1. calPc' = [calPc EXCEPT ![p] = CalIdle] /\ calLock' = CalNone
      BY <1>2 DEF CalLeave
    <2>2. CalStands(p, CalIdle)'
      BY CalNames DEF CalStands, CalUnderLock
    <2> QED
      BY <2>1, <2>2, CalNames
  <1> QED
    BY <1>1, <1>2

\* A process at a row moves and changes no other row.
LEMMA CalMoves ==
    ASSUME CalInv, NEW p \in CalProcs, NEW r \in CalRequests, NEW at \in CalPlaces,
           calLock \in {p, CalNone}, calLock' \in CalProcs \cup {CalNone},
           calPc' = [calPc EXCEPT ![p] = at], CalStands(p, at)',
           calOp' \in CalRows, calTask' \in [CalRequests -> CalTasks], calWritable' = calWritable,
           calSent' \in [CalRequests -> 0..2],
           calGoogle' \in [CalRequests -> {"no", "late", "yes"}],
           calHeld' \in [CalRequests -> BOOLEAN], calTold' \in [CalRequests -> 0..2],
           calFaults' \in 0..CalFaults,
           CalAgrees(r)', CalSt[r] = "completed" => CalSt'[r] = "completed",
           \A q \in CalRequests \ {r} :
              /\ CalSt'[q] = CalSt[q] /\ calTask'[q] = calTask[q] /\ calSent'[q] = calSent[q]
              /\ calGoogle'[q] = calGoogle[q] /\ calHeld'[q] = calHeld[q] /\ calTold'[q] = calTold[q]
    PROVE  CalInv'
  <1>1. calPc' \in [CalProcs -> CalPlaces] /\ calWritable' \in BOOLEAN
    BY CalParts DEF CalInv
  <1>2. CalTypeOK'
    BY <1>1 DEF CalTypeOK, CalRows, CalTasks, CalPlaces
  <1>3. \A q \in CalRequests : CalSt[q] = "completed" => CalSt'[q] = "completed"
    OBVIOUS
  <1>4. CalProcsSound'
    BY <1>2, <1>3, CalOthers
  <1>5. CalRowsAgree'
    BY CalOneRow
  <1> QED
    BY <1>2, <1>4, <1>5 DEF CalInv

\* What a process under the lock may count on.
LEMMA CalHolder ==
    ASSUME CalInv, NEW p \in CalProcs, calPc[p].pc \in CalUnderLock
    PROVE  /\ calLock = p /\ calPc[p].r \in CalRequests /\ CalStands(p, calPc[p])
           /\ CalAgrees(calPc[p].r)
  <1>1. calPc[p].pc \in CalSteps
    BY DEF CalUnderLock, CalSteps
  <1>2. calPc[p].r \in CalRequests
    BY <1>1, CalAtRequest DEF CalInv
  <1> QED
    BY <1>2 DEF CalInv, CalProcsSound, CalStands, CalRowsAgree

LEMMA CalFaultBounded == calFaults \in 0..CalFaults /\ CalFault => calFaults' \in 0..CalFaults
  BY CalAssumption DEF CalFault

\* execute reads the row.
LEMMA CalLookStep ==
    ASSUME CalInv, NEW p \in CalProcs, CalLook(p) PROVE CalInv'
  <1>0. /\ calOp \in CalRows /\ CalSt \in [CalRequests -> CalStatuses]
        /\ calTask \in [CalRequests -> CalTasks] /\ calLock \in CalProcs \cup {CalNone}
        /\ calSent \in [CalRequests -> 0..2] /\ calGoogle \in [CalRequests -> {"no", "late", "yes"}]
        /\ calHeld \in [CalRequests -> BOOLEAN] /\ calTold \in [CalRequests -> 0..2]
        /\ calFaults \in 0..CalFaults
        /\ UNCHANGED <<calWritable, calSent, calGoogle, calHeld, calTold, calFaults>>
    BY CalParts DEF CalInv, CalLook
  <1>1. /\ calLock = p /\ CalStands(p, calPc[p]) /\ calPc[p].r \in CalRequests
        /\ CalAgrees(calPc[p].r)
    BY CalHolder DEF CalLook, CalUnderLock
  <1>2. PICK r \in CalRequests : r = calPc[p].r
    BY <1>1
  <1>3. CalSt[r] = calOp[r].st
    BY DEF CalSt, CalStOf
  <1>4. calOp' \in CalRows /\ calTask' \in [CalRequests -> CalTasks]
        /\ \/ /\ CalSt[r] = "none" /\ CalSt' = [CalSt EXCEPT ![r] = "ready"]
              /\ calTask' = [calTask EXCEPT ![r] = "active"]
           \/ CalSt[r] # "none" /\ CalSt' = CalSt /\ calTask' = calTask
    <2>1. CASE CalSt[r] = "none"
      <3>1. calOp' = [calOp EXCEPT ![r].st = "ready"] /\ calTask' = [calTask EXCEPT ![r] = "active"]
        BY <1>2, <1>3, <2>1 DEF CalLook, CalSet, CalMove
      <3>2. "ready" \in CalStatuses /\ "active" \in CalTasks
        BY DEF CalStatuses, CalTasks
      <3>3. calOp' \in CalRows /\ CalSt' = [CalSt EXCEPT ![r] = "ready"]
        BY <1>0, <3>1, CalFields DEF CalSt, CalStatuses
      <3>4. calTask' \in [CalRequests -> CalTasks]
        BY <1>0, <3>1, <3>2
      <3> QED
        BY <2>1, <3>1, <3>3, <3>4
    <2>2. CASE CalSt[r] # "none"
      <3>1. calOp' = calOp /\ calTask' = calTask
        BY <1>2, <1>3, <2>2 DEF CalLook
      <3> QED
        BY <1>0, <2>2, <3>1 DEF CalSt
    <2> QED
      BY <2>1, <2>2
  <1>5. CalAgrees(r)'
    BY <1>0, <1>1, <1>2, <1>4 DEF CalAgrees
  <1>6. CASE CalSt[r] \in {"none", "ready", "waiting"}
    <2>1. CalGo(p, "gate") /\ calLock' = calLock
      BY <1>2, <1>3, <1>6 DEF CalLook
    <2>2. CalAt("gate", r) \in CalPlaces /\ calPc' = [calPc EXCEPT ![p] = CalAt("gate", r)]
      BY <1>2, <2>1, CalGoes DEF CalInv, CalSteps
    <2>3. CalSt'[r] \in {"ready", "waiting"}
      BY <1>0, <1>4, <1>6
    <2>4. CalStands(p, CalAt("gate", r))'
      BY <1>1, <2>1, <2>3, CalNames DEF CalStands
    <2> QED
      BY <1>0, <1>1, <1>4, <1>5, <1>6, <2>1, <2>2, <2>4, CalMoves
  <1>7. CASE CalSt[r] \in {"sending", "completed"}
    <2>1. PICK pc \in {"unknown", "publish"} :
             CalLeave(p, pc) /\ (pc = "publish" => CalSt[r] = "completed")
      BY <1>2, <1>3, <1>7 DEF CalLook
    <2>2. CalSt' = CalSt
      BY <1>4, <1>7
    <2>3. PICK at \in CalPlaces :
             calPc' = [calPc EXCEPT ![p] = at] /\ CalStands(p, at)' /\ calLock' = CalNone
      BY <1>2, <2>1, <2>2, CalLeaves DEF CalInv
    <2> QED
      BY <1>0, <1>1, <1>4, <1>5, <2>2, <2>3, CalMoves
  <1> QED
    BY <1>0, <1>6, <1>7 DEF CalStatuses

\* Write access decides: the command goes on or waits.
LEMMA CalGateStep ==
    ASSUME CalInv, NEW p \in CalProcs, CalGate(p) PROVE CalInv'
  <1>0. /\ calOp \in CalRows /\ CalSt \in [CalRequests -> CalStatuses]
        /\ calTask \in [CalRequests -> CalTasks] /\ calLock \in CalProcs \cup {CalNone}
        /\ calSent \in [CalRequests -> 0..2] /\ calGoogle \in [CalRequests -> {"no", "late", "yes"}]
        /\ calHeld \in [CalRequests -> BOOLEAN] /\ calTold \in [CalRequests -> 0..2]
        /\ calFaults \in 0..CalFaults
        /\ UNCHANGED <<calWritable, calSent, calGoogle, calHeld, calTold, calFaults>>
    BY CalParts DEF CalInv, CalGate
  <1>1. /\ calLock = p /\ CalStands(p, calPc[p]) /\ calPc[p].r \in CalRequests
        /\ CalAgrees(calPc[p].r)
    BY CalHolder DEF CalGate, CalUnderLock
  <1>2. PICK r \in CalRequests : r = calPc[p].r
    BY <1>1
  <1>3. CalSt[r] \in {"ready", "waiting"}
    BY <1>1, <1>2 DEF CalStands, CalGate
  <1>4. PICK status \in CalTasks : calTask' = [calTask EXCEPT ![r] = status] /\ status # "none"
    <2>1. calTask[r] \in CalTasks /\ calTask[r] # "none"
      BY <1>0, <1>1, <1>2, <1>3 DEF CalAgrees
    <2> QED
      BY <1>2, <2>1 DEF CalGate, CalMove, CalTasks
  <1>5. calTask' \in [CalRequests -> CalTasks]
    BY <1>0, <1>4
  <1>6. CASE /\ calWritable /\ CalGo(p, "mark") /\ UNCHANGED <<calOp, calLock>>
    <2>1. CalAt("mark", r) \in CalPlaces /\ calPc' = [calPc EXCEPT ![p] = CalAt("mark", r)]
      BY <1>2, <1>6, CalGoes DEF CalInv, CalSteps
    <2>2. CalSt' = CalSt
      BY <1>6 DEF CalSt
    <2>3. CalStands(p, CalAt("mark", r))'
      BY <1>1, <1>3, <1>6, <2>2, CalNames DEF CalStands
    <2>4. CalAgrees(r)'
      BY <1>0, <1>1, <1>2, <1>3, <1>4, <2>2 DEF CalAgrees
    <2> QED
      BY <1>0, <1>1, <1>4, <1>5, <1>6, <2>1, <2>2, <2>3, <2>4, CalMoves
  <1>7. CASE /\ calOp' = [calOp EXCEPT ![r].st = "waiting", ![r].deliver = TRUE]
             /\ CalLeave(p, "waiting")
    <2>1. calOp' = [[calOp EXCEPT ![r].st = "waiting"] EXCEPT ![r].deliver = TRUE]
      BY <1>7
    <2>2. /\ [calOp EXCEPT ![r].st = "waiting"] \in CalRows
          /\ CalStOf([calOp EXCEPT ![r].st = "waiting"]) = [CalSt EXCEPT ![r] = "waiting"]
      BY <1>0, CalFields DEF CalSt, CalStatuses
    <2>3. calOp' \in CalRows /\ CalSt' = [CalSt EXCEPT ![r] = "waiting"]
      BY <2>1, <2>2, CalFields DEF CalSt
    <2>4. PICK at \in CalPlaces :
             calPc' = [calPc EXCEPT ![p] = at] /\ CalStands(p, at)' /\ calLock' = CalNone
      BY <1>2, <1>7, CalLeaves DEF CalInv
    <2>5. CalAgrees(r)'
      BY <1>0, <1>1, <1>2, <1>3, <1>4, <2>3 DEF CalAgrees
    <2> QED
      BY <1>0, <1>1, <1>3, <1>4, <1>5, <2>3, <2>4, <2>5, CalMoves
  <1> QED
    BY <1>2, <1>6, <1>7 DEF CalGate

\* The decision to send is committed.
LEMMA CalMarkStep ==
    ASSUME CalInv, NEW p \in CalProcs, CalMark(p) PROVE CalInv'
  <1>0. /\ calOp \in CalRows /\ CalSt \in [CalRequests -> CalStatuses]
        /\ calTask \in [CalRequests -> CalTasks] /\ calLock \in CalProcs \cup {CalNone}
        /\ calSent \in [CalRequests -> 0..2] /\ calGoogle \in [CalRequests -> {"no", "late", "yes"}]
        /\ calHeld \in [CalRequests -> BOOLEAN] /\ calTold \in [CalRequests -> 0..2]
        /\ calFaults \in 0..CalFaults
        /\ UNCHANGED <<calTask, calLock, calWritable, calSent, calGoogle, calHeld, calTold, calFaults>>
    BY CalParts DEF CalInv, CalMark
  <1>1. /\ calLock = p /\ CalStands(p, calPc[p]) /\ calPc[p].r \in CalRequests
        /\ CalAgrees(calPc[p].r)
    BY CalHolder DEF CalMark, CalUnderLock
  <1>2. PICK r \in CalRequests : r = calPc[p].r
    BY <1>1
  <1>3. CalSt[r] \in {"ready", "waiting"}
    BY <1>1, <1>2 DEF CalStands, CalMark
  <1>4. calOp' \in CalRows /\ CalSt' = [CalSt EXCEPT ![r] = "sending"]
    BY <1>0, <1>2, CalFields DEF CalMark, CalSet, CalSt, CalStatuses
  <1>5. CalAt("send", r) \in CalPlaces /\ calPc' = [calPc EXCEPT ![p] = CalAt("send", r)]
    BY <1>2, CalGoes DEF CalMark, CalInv, CalSteps
  <1>6. calSent[r] = 0
    BY <1>1, <1>2, <1>3 DEF CalAgrees
  <1>7. CalStands(p, CalAt("send", r))'
    BY <1>0, <1>1, <1>4, <1>6, CalNames DEF CalStands
  <1>8. CalAgrees(r)'
    BY <1>0, <1>1, <1>2, <1>3, <1>4 DEF CalAgrees
  <1> QED
    BY <1>0, <1>1, <1>3, <1>4, <1>5, <1>7, <1>8, CalMoves

\* The mutation, with or without an answer, or none.
LEMMA CalSendStep ==
    ASSUME CalInv, NEW p \in CalProcs, CalSend(p) PROVE CalInv'
  <1>0. /\ calOp \in CalRows /\ CalSt \in [CalRequests -> CalStatuses]
        /\ calTask \in [CalRequests -> CalTasks] /\ calLock \in CalProcs \cup {CalNone}
        /\ calSent \in [CalRequests -> 0..2] /\ calGoogle \in [CalRequests -> {"no", "late", "yes"}]
        /\ calHeld \in [CalRequests -> BOOLEAN] /\ calTold \in [CalRequests -> 0..2]
        /\ calFaults \in 0..CalFaults
        /\ UNCHANGED <<calOp, calTask, calLock, calWritable, calTold>>
    BY CalParts DEF CalInv, CalSend
  <1>1. /\ calLock = p /\ CalStands(p, calPc[p]) /\ calPc[p].r \in CalRequests
        /\ CalAgrees(calPc[p].r)
    BY CalHolder DEF CalSend, CalUnderLock
  <1>2. PICK r \in CalRequests : r = calPc[p].r
    BY <1>1
  <1>3. CalSt[r] = "sending" /\ calSent[r] = 0
    BY <1>1, <1>2 DEF CalStands, CalSend
  <1>4. CalSt' = CalSt
    BY <1>0 DEF CalSt
  <1>5. calFaults' \in 0..CalFaults
    BY <1>0, CalFaultBounded DEF CalSend
  <1>6. PICK pc \in {"confirm", "failed"} : CalGo(p, pc)
    BY DEF CalSend
  <1>7. CalAt(pc, r) \in CalPlaces /\ calPc' = [calPc EXCEPT ![p] = CalAt(pc, r)]
    BY <1>2, <1>6, CalGoes DEF CalInv, CalSteps
  <1>8. CalStands(p, CalAt(pc, r))'
    BY <1>0, <1>1, <1>3, <1>4, CalNames DEF CalStands
  <1>9. \/ /\ calSent' = [calSent EXCEPT ![r] = 1] /\ calGoogle' = [calGoogle EXCEPT ![r] = "yes"]
           /\ calHeld' = [calHeld EXCEPT ![r] = TRUE]
        \/ /\ calSent' = [calSent EXCEPT ![r] = 1] /\ calHeld' = calHeld
           /\ calGoogle' = calGoogle \/ calGoogle' = [calGoogle EXCEPT ![r] = "late"]
        \/ calSent' = calSent /\ calGoogle' = calGoogle /\ calHeld' = calHeld
    BY <1>0, <1>2, <1>3 DEF CalSend, CalApplied
  <1>10. /\ calSent' \in [CalRequests -> 0..2]
         /\ calGoogle' \in [CalRequests -> {"no", "late", "yes"}]
    BY <1>0, <1>9
  <1>11. calHeld' \in [CalRequests -> BOOLEAN]
    BY <1>0, <1>9
  <1>12. CalAgrees(r)'
    BY <1>0, <1>1, <1>2, <1>3, <1>4, <1>9 DEF CalAgrees
  <1>13. \A q \in CalRequests \ {r} :
            calSent'[q] = calSent[q] /\ calGoogle'[q] = calGoogle[q] /\ calHeld'[q] = calHeld[q]
    BY <1>0, <1>9
  <1> QED
    BY <1>0, <1>1, <1>4, <1>5, <1>7, <1>8, <1>10, <1>11, <1>12, <1>13, CalMoves

\* The event is read back.
LEMMA CalConfirmStep ==
    ASSUME CalInv, NEW p \in CalProcs, CalConfirm(p) PROVE CalInv'
  <1>0. /\ calOp \in CalRows /\ CalSt \in [CalRequests -> CalStatuses]
        /\ calTask \in [CalRequests -> CalTasks] /\ calLock \in CalProcs \cup {CalNone}
        /\ calSent \in [CalRequests -> 0..2] /\ calGoogle \in [CalRequests -> {"no", "late", "yes"}]
        /\ calHeld \in [CalRequests -> BOOLEAN] /\ calTold \in [CalRequests -> 0..2]
        /\ calFaults \in 0..CalFaults
        /\ UNCHANGED <<calOp, calLock, calWritable, calSent, calGoogle, calHeld, calTold, calFaults>>
    BY CalParts DEF CalInv, CalConfirm
  <1>1. /\ calLock = p /\ CalStands(p, calPc[p]) /\ calPc[p].r \in CalRequests
        /\ CalAgrees(calPc[p].r)
    BY CalHolder DEF CalConfirm, CalUnderLock
  <1>2. PICK r \in CalRequests : r = calPc[p].r
    BY <1>1
  <1>3. CalSt[r] = "sending" /\ CalSt' = CalSt
    BY <1>0, <1>1, <1>2 DEF CalStands, CalConfirm, CalSt
  <1>4. CASE CalRead(r)
    <2>1. CalAt("finish", r) \in CalPlaces /\ calPc' = [calPc EXCEPT ![p] = CalAt("finish", r)]
      BY <1>2, <1>4, CalGoes DEF CalConfirm, CalInv, CalSteps
    <2>2. calTask' = [calTask EXCEPT ![r] = "review"]
      BY <1>2, <1>4 DEF CalConfirm, CalMove
    <2>3. calTask' \in [CalRequests -> CalTasks]
      BY <1>0, <2>2 DEF CalTasks
    <2>4. calHeld[r]
      BY <1>1, <1>2, <1>4 DEF CalRead, CalAgrees
    <2>5. CalStands(p, CalAt("finish", r))'
      BY <1>0, <1>1, <1>3, <2>4, CalNames DEF CalStands
    <2>6. CalAgrees(r)'
      BY <1>0, <1>1, <1>2, <1>3, <2>2 DEF CalAgrees
    <2> QED
      BY <1>0, <1>1, <1>3, <2>1, <2>2, <2>3, <2>5, <2>6, CalMoves
  <1>5. CASE ~CalRead(r)
    <2>1. CalAt("failed", r) \in CalPlaces /\ calPc' = [calPc EXCEPT ![p] = CalAt("failed", r)]
      BY <1>2, <1>5, CalGoes DEF CalConfirm, CalInv, CalSteps
    <2>2. calTask' = calTask
      BY <1>2, <1>5 DEF CalConfirm
    <2>3. CalStands(p, CalAt("failed", r))'
      BY <1>0, <1>1, <1>3, CalNames DEF CalStands
    <2>4. CalAgrees(r)'
      BY <1>0, <1>1, <1>2, <1>3, <2>2 DEF CalAgrees
    <2> QED
      BY <1>0, <1>1, <1>3, <2>1, <2>2, <2>3, <2>4, CalMoves
  <1> QED
    BY <1>4, <1>5

\* The task is finished.
LEMMA CalFinishStep ==
    ASSUME CalInv, NEW p \in CalProcs, CalFinish(p) PROVE CalInv'
  <1>0. /\ calOp \in CalRows /\ CalSt \in [CalRequests -> CalStatuses]
        /\ calTask \in [CalRequests -> CalTasks] /\ calLock \in CalProcs \cup {CalNone}
        /\ calSent \in [CalRequests -> 0..2] /\ calGoogle \in [CalRequests -> {"no", "late", "yes"}]
        /\ calHeld \in [CalRequests -> BOOLEAN] /\ calTold \in [CalRequests -> 0..2]
        /\ calFaults \in 0..CalFaults
        /\ UNCHANGED <<calOp, calLock, calWritable, calSent, calGoogle, calHeld, calTold, calFaults>>
    BY CalParts DEF CalInv, CalFinish
  <1>1. /\ calLock = p /\ CalStands(p, calPc[p]) /\ calPc[p].r \in CalRequests
        /\ CalAgrees(calPc[p].r)
    BY CalHolder DEF CalFinish, CalUnderLock
  <1>2. PICK r \in CalRequests : r = calPc[p].r
    BY <1>1
  <1>3. CalSt[r] = "sending" /\ CalSt' = CalSt /\ calHeld[r]
    BY <1>0, <1>1, <1>2 DEF CalStands, CalFinish, CalSt
  <1>4. CalAt("done", r) \in CalPlaces /\ calPc' = [calPc EXCEPT ![p] = CalAt("done", r)]
    BY <1>2, CalGoes DEF CalFinish, CalInv, CalSteps
  <1>5. calTask' = [calTask EXCEPT ![r] = "done"]
    BY <1>2 DEF CalFinish, CalMove
  <1>6. calTask' \in [CalRequests -> CalTasks]
    BY <1>0, <1>5 DEF CalTasks
  <1>7. CalStands(p, CalAt("done", r))'
    BY <1>0, <1>1, <1>3, <1>5, CalNames DEF CalStands
  <1>8. CalAgrees(r)'
    BY <1>0, <1>1, <1>2, <1>3, <1>5 DEF CalAgrees
  <1> QED
    BY <1>0, <1>1, <1>3, <1>4, <1>5, <1>6, <1>7, <1>8, CalMoves

\* The row says completed.
LEMMA CalCompleteStep ==
    ASSUME CalInv, NEW p \in CalProcs, CalComplete(p) PROVE CalInv'
  <1>0. /\ calOp \in CalRows /\ CalSt \in [CalRequests -> CalStatuses]
        /\ calTask \in [CalRequests -> CalTasks] /\ calLock \in CalProcs \cup {CalNone}
        /\ calSent \in [CalRequests -> 0..2] /\ calGoogle \in [CalRequests -> {"no", "late", "yes"}]
        /\ calHeld \in [CalRequests -> BOOLEAN] /\ calTold \in [CalRequests -> 0..2]
        /\ calFaults \in 0..CalFaults
        /\ UNCHANGED <<calTask, calWritable, calSent, calGoogle, calHeld, calTold, calFaults>>
    BY CalParts DEF CalInv, CalComplete
  <1>1. /\ calLock = p /\ CalStands(p, calPc[p]) /\ calPc[p].r \in CalRequests
        /\ CalAgrees(calPc[p].r)
    BY CalHolder DEF CalComplete, CalUnderLock
  <1>2. PICK r \in CalRequests : r = calPc[p].r
    BY <1>1
  <1>3. CalSt[r] = "sending" /\ calHeld[r] /\ calTask[r] = "done"
    BY <1>1, <1>2 DEF CalStands, CalComplete
  <1>4. calOp' \in CalRows /\ CalSt' = [CalSt EXCEPT ![r] = "completed"]
    BY <1>0, <1>2, CalFields DEF CalComplete, CalSet, CalSt, CalStatuses
  <1>5. CalSt'[r] = "completed"
    BY <1>0, <1>4
  <1>6. PICK at \in CalPlaces :
           calPc' = [calPc EXCEPT ![p] = at] /\ CalStands(p, at)' /\ calLock' = CalNone
    BY <1>2, <1>5, CalLeaves DEF CalInv, CalComplete
  <1>7. CalAgrees(r)'
    BY <1>0, <1>1, <1>2, <1>3, <1>5 DEF CalAgrees
  <1> QED
    BY <1>0, <1>1, <1>4, <1>5, <1>6, <1>7, CalMoves

\* The outcome is unknown: the row stays as it is, the task is blocked.
LEMMA CalFailStep ==
    ASSUME CalInv, NEW p \in CalProcs, CalFail(p) PROVE CalInv'
  <1>0. /\ calOp \in CalRows /\ CalSt \in [CalRequests -> CalStatuses]
        /\ calTask \in [CalRequests -> CalTasks] /\ calLock \in CalProcs \cup {CalNone}
        /\ calSent \in [CalRequests -> 0..2] /\ calGoogle \in [CalRequests -> {"no", "late", "yes"}]
        /\ calHeld \in [CalRequests -> BOOLEAN] /\ calTold \in [CalRequests -> 0..2]
        /\ calFaults \in 0..CalFaults
        /\ UNCHANGED <<calWritable, calSent, calGoogle, calHeld, calTold, calFaults>>
    BY CalParts DEF CalInv, CalFail
  <1>1. /\ calLock = p /\ CalStands(p, calPc[p]) /\ calPc[p].r \in CalRequests
        /\ CalAgrees(calPc[p].r)
    BY CalHolder DEF CalFail, CalUnderLock
  <1>2. PICK r \in CalRequests : r = calPc[p].r
    BY <1>1
  <1>3. CalSt[r] = "sending"
    BY <1>1, <1>2 DEF CalStands, CalFail
  <1>4. calOp' \in CalRows /\ CalSt' = [CalSt EXCEPT ![r] = "sending"]
    BY <1>0, <1>2, CalFields DEF CalFail, CalSet, CalSt, CalStatuses
  <1>5. CalSt'[r] = "sending"
    BY <1>0, <1>4
  <1>6. PICK at \in CalPlaces :
           calPc' = [calPc EXCEPT ![p] = at] /\ CalStands(p, at)' /\ calLock' = CalNone
    BY <1>2, CalLeaves DEF CalInv, CalFail
  <1>7. PICK status \in CalTasks : calTask' = [calTask EXCEPT ![r] = status] /\ status # "none"
    <2>1. calTask[r] \in CalTasks /\ calTask[r] # "none"
      BY <1>0, <1>1, <1>2, <1>3 DEF CalAgrees
    <2> QED
      BY <1>2, <2>1 DEF CalFail, CalMove, CalTasks
  <1>8. calTask' \in [CalRequests -> CalTasks]
    BY <1>0, <1>7
  <1>9. CalAgrees(r)'
    BY <1>0, <1>1, <1>2, <1>3, <1>5, <1>7 DEF CalAgrees
  <1> QED
    BY <1>0, <1>1, <1>3, <1>4, <1>6, <1>7, <1>8, <1>9, CalMoves

\* The look-up finds the change, or not.
LEMMA CalRecoverStep ==
    ASSUME CalInv, CalRecover PROVE CalInv'
  <1>0. /\ calOp \in CalRows /\ CalSt \in [CalRequests -> CalStatuses]
        /\ calTask \in [CalRequests -> CalTasks] /\ calLock \in CalProcs \cup {CalNone}
        /\ calSent \in [CalRequests -> 0..2] /\ calGoogle \in [CalRequests -> {"no", "late", "yes"}]
        /\ calHeld \in [CalRequests -> BOOLEAN] /\ calTold \in [CalRequests -> 0..2]
        /\ calFaults \in 0..CalFaults
        /\ UNCHANGED <<calOp, calWritable, calSent, calGoogle, calHeld, calTold, calFaults>>
    BY CalParts DEF CalInv, CalRecover
  <1>0a. PICK p : p = CalWorker /\ p \in CalProcs
    BY CalNames
  <1>1. /\ calLock = p /\ CalStands(p, calPc[p]) /\ calPc[p].r \in CalRequests
        /\ CalAgrees(calPc[p].r)
    BY <1>0a, CalHolder DEF CalRecover, CalUnderLock
  <1>2. PICK r \in CalRequests : r = calPc[p].r
    BY <1>1
  <1>3. CalSt[r] = "sending" /\ CalSt' = CalSt
    BY <1>0, <1>0a, <1>1, <1>2 DEF CalStands, CalRecover, CalSt
  <1>4. CASE CalRead(r)
    <2>1. CalAt("recovered", r) \in CalPlaces /\ calPc' = [calPc EXCEPT ![p] = CalAt("recovered", r)]
      BY <1>0a, <1>2, <1>4, CalGoes DEF CalRecover, CalInv, CalSteps
    <2>2. calTask' = [calTask EXCEPT ![r] = "done"] /\ calLock' = calLock
      <3>1. CalRecoveredTask(calTask[r]) = "done"
        BY <1>0, <1>1, <1>2, <1>3 DEF CalAgrees, CalRecoveredTask, CalTasks
      <3> QED
        BY <1>0a, <1>2, <1>4, <3>1 DEF CalRecover, CalMove
    <2>3. calTask' \in [CalRequests -> CalTasks]
      BY <1>0, <2>2 DEF CalTasks
    <2>4. calHeld[r]
      BY <1>1, <1>2, <1>4 DEF CalRead, CalAgrees
    <2>5. CalStands(p, CalAt("recovered", r))'
      BY <1>0, <1>0a, <1>1, <1>3, <2>2, <2>4, CalNames DEF CalStands
    <2>6. CalAgrees(r)'
      BY <1>0, <1>1, <1>2, <1>3, <2>2 DEF CalAgrees
    <2> QED
      BY <1>0, <1>0a, <1>1, <1>3, <2>1, <2>2, <2>3, <2>5, <2>6, CalMoves
  <1>5. CASE ~CalRead(r)
    <2>1. CalLeave(p, "unknown") /\ calTask' = calTask
      BY <1>0a, <1>2, <1>5 DEF CalRecover
    <2>2. PICK at \in CalPlaces :
             calPc' = [calPc EXCEPT ![p] = at] /\ CalStands(p, at)' /\ calLock' = CalNone
      BY <1>0a, <1>2, <2>1, CalLeaves DEF CalInv
    <2>3. CalAgrees(r)'
      BY <1>0, <1>1, <1>2, <1>3, <2>1 DEF CalAgrees
    <2> QED
      BY <1>0, <1>0a, <1>1, <1>3, <2>1, <2>2, <2>3, CalMoves
  <1> QED
    BY <1>4, <1>5

\* A command that was found is completed.
LEMMA CalRecoverWriteStep ==
    ASSUME CalInv, CalRecoverWrite PROVE CalInv'
  <1>0. /\ calOp \in CalRows /\ CalSt \in [CalRequests -> CalStatuses]
        /\ calTask \in [CalRequests -> CalTasks] /\ calLock \in CalProcs \cup {CalNone}
        /\ calSent \in [CalRequests -> 0..2] /\ calGoogle \in [CalRequests -> {"no", "late", "yes"}]
        /\ calHeld \in [CalRequests -> BOOLEAN] /\ calTold \in [CalRequests -> 0..2]
        /\ calFaults \in 0..CalFaults
        /\ UNCHANGED <<calTask, calWritable, calSent, calGoogle, calHeld, calTold, calFaults>>
    BY CalParts DEF CalInv, CalRecoverWrite
  <1>0a. PICK p : p = CalWorker /\ p \in CalProcs
    BY CalNames
  <1>1. /\ calLock = p /\ CalStands(p, calPc[p]) /\ calPc[p].r \in CalRequests
        /\ CalAgrees(calPc[p].r)
    BY <1>0a, CalHolder DEF CalRecoverWrite, CalUnderLock
  <1>2. PICK r \in CalRequests : r = calPc[p].r
    BY <1>1
  <1>3. CalSt[r] = "sending" /\ calHeld[r] /\ calTask[r] = "done"
    BY <1>0a, <1>1, <1>2 DEF CalStands, CalRecoverWrite
  <1>4. calOp' \in CalRows /\ CalSt' = [CalSt EXCEPT ![r] = "completed"]
    <2>1. calOp' = [[calOp EXCEPT ![r].st = "completed"] EXCEPT ![r].deliver = TRUE]
      BY <1>0a, <1>2 DEF CalRecoverWrite
    <2>2. /\ [calOp EXCEPT ![r].st = "completed"] \in CalRows
          /\ CalStOf([calOp EXCEPT ![r].st = "completed"]) = [CalSt EXCEPT ![r] = "completed"]
      BY <1>0, CalFields DEF CalSt, CalStatuses
    <2> QED
      BY <2>1, <2>2, CalFields DEF CalSt
  <1>5. CalSt'[r] = "completed"
    BY <1>0, <1>4
  <1>6. PICK at \in CalPlaces :
           calPc' = [calPc EXCEPT ![p] = at] /\ CalStands(p, at)' /\ calLock' = CalNone
    BY <1>0a, <1>2, <1>5, CalLeaves DEF CalInv, CalRecoverWrite
  <1>7. CalAgrees(r)'
    BY <1>0, <1>1, <1>2, <1>3, <1>5 DEF CalAgrees
  <1> QED
    BY <1>0, <1>0a, <1>1, <1>4, <1>5, <1>6, <1>7, CalMoves

\* The worker tells the owner, which needs no lock.
LEMMA CalTellSteps ==
    ASSUME CalInv, CalPublish \/ CalDelivered PROVE CalInv'
  <1>0. /\ calOp \in CalRows /\ CalSt \in [CalRequests -> CalStatuses]
        /\ calTask \in [CalRequests -> CalTasks] /\ calLock \in CalProcs \cup {CalNone}
        /\ calSent \in [CalRequests -> 0..2] /\ calGoogle \in [CalRequests -> {"no", "late", "yes"}]
        /\ calHeld \in [CalRequests -> BOOLEAN] /\ calTold \in [CalRequests -> 0..2]
        /\ calFaults \in 0..CalFaults
        /\ calPc \in [CalProcs -> CalPlaces] /\ CalWorker \in CalProcs
        /\ UNCHANGED <<calTask, calLock, calWritable, calSent, calGoogle, calHeld, calFaults>>
    BY CalParts, CalNames DEF CalInv, CalPublish, CalDelivered
  <1>1. calPc[CalWorker].pc \in {"publish", "delivered"} /\ calPc[CalWorker].r \in CalRequests
    BY <1>0, CalAtRequest DEF CalPublish, CalDelivered, CalInv, CalSteps
  <1>2. PICK r \in CalRequests : r = calPc[CalWorker].r
    BY <1>1
  <1>3. CalSt[r] = "completed" /\ CalAgrees(r)
    BY <1>0, <1>1, <1>2 DEF CalInv, CalProcsSound, CalStands, CalRowsAgree
  <1>4. calOp' \in CalRows /\ CalSt' = CalSt
    <2>1. calOp' = calOp \/ calOp' = [calOp EXCEPT ![r].deliver = FALSE]
      BY <1>2 DEF CalPublish, CalDelivered
    <2>2. /\ [calOp EXCEPT ![r].deliver = FALSE] \in CalRows
          /\ CalStOf([calOp EXCEPT ![r].deliver = FALSE]) = CalStOf(calOp)
      BY <1>0, CalFields
    <2>3. CASE calOp' = calOp
      BY <1>0, <2>3 DEF CalSt
    <2>4. CASE calOp' = [calOp EXCEPT ![r].deliver = FALSE]
      BY <2>2, <2>4 DEF CalSt
    <2> QED
      BY <2>1, <2>3, <2>4
  <1>5. calTold' = calTold \/ calTold' = [calTold EXCEPT ![r] = 1]
    <2>1. CalSay(calTold[r]) = 1 \/ CalSay(calTold[r]) = calTold[r]
      BY DEF CalSay
    <2>2. calTold[r] \in {0, 1} /\ CalSay(calTold[r]) = 1
      BY <1>0, <1>3 DEF CalAgrees, CalSay
    <2> QED
      BY <1>2, <2>2 DEF CalPublish, CalDelivered
  <1>6. calTold' \in [CalRequests -> 0..2]
    BY <1>0, <1>5
  <1>7. CalRowsAgree'
    <2>1. CalAgrees(r)'
      BY <1>0, <1>3, <1>4, <1>5 DEF CalAgrees
    <2>2. \A q \in CalRequests \ {r} : calTold'[q] = calTold[q]
      BY <1>0, <1>5
    <2> QED
      BY <1>0, <1>4, <2>1, <2>2, CalOneRow
  <1>8. PICK at \in CalPlaces : /\ calPc' = [calPc EXCEPT ![CalWorker] = at]
                                /\ at = CalIdle \/ at = CalAt("delivered", r)
    BY <1>2, CalNames DEF CalPublish, CalDelivered, CalGo, CalSteps
  <1>9. calPc' \in [CalProcs -> CalPlaces]
    BY <1>0, <1>8
  <1>10. CalTypeOK'
    BY <1>0, <1>4, <1>6, <1>9 DEF CalInv, CalTypeOK, CalRows, CalPlaces
  <1>11. ASSUME NEW q \in CalProcs PROVE CalStands(q, calPc[q])'
    <2>1. CASE q = CalWorker
      <3>1. calPc'[q] = at
        BY <1>0, <1>8, <2>1
      <3>2. CalStands(CalWorker, CalIdle)'
        BY CalNames DEF CalStands, CalUnderLock
      <3>3. CalStands(CalWorker, CalAt("delivered", r))'
        BY <1>3, <1>4, CalNames DEF CalStands, CalUnderLock
      <3> QED
        BY <1>8, <2>1, <3>1, <3>2, <3>3 DEF CalStands
    <2>2. CASE q # CalWorker
      <3>1. calPc'[q] = calPc[q] /\ CalStands(q, calPc[q])
        BY <1>0, <1>8, <2>2 DEF CalInv, CalProcsSound
      <3> QED
        BY <1>0, <1>4, <3>1 DEF CalStands
    <2> QED
      BY <2>1, <2>2
  <1> QED
    BY <1>7, <1>10, <1>11 DEF CalInv, CalProcsSound

\* A process dies, and the kernel drops its lock.
LEMMA CalCrashStep ==
    ASSUME CalInv, NEW p \in CalProcs, CalCrash(p) PROVE CalInv'
  <1>0. /\ calPc \in [CalProcs -> CalPlaces] /\ calFaults \in 0..CalFaults
        /\ calPc' = [calPc EXCEPT ![p] = CalIdle]
        /\ calLock' = IF calLock = p THEN CalNone ELSE calLock
        /\ UNCHANGED <<calOp, calTask, calWritable, calSent, calGoogle, calHeld, calTold>>
    BY CalParts DEF CalInv, CalCrash
  <1>1. CalSt' = CalSt
    BY <1>0 DEF CalSt
  <1>2. calPc' \in [CalProcs -> CalPlaces] /\ calFaults' \in 0..CalFaults
    BY <1>0, CalNames, CalFaultBounded DEF CalCrash
  <1>3. CalTypeOK'
    BY <1>0, <1>2 DEF CalInv, CalTypeOK, CalPlaces
  <1>4. ASSUME NEW q \in CalProcs PROVE CalStands(q, calPc[q])'
    <2>1. CASE q = p
      <3>1. calPc'[q] = CalIdle
        BY <1>0, <2>1
      <3> QED
        BY <3>1, CalNames DEF CalStands, CalUnderLock
    <2>2. CASE q # p
      <3>1. calPc'[q] = calPc[q] /\ CalStands(q, calPc[q])
        BY <1>0, <2>2 DEF CalInv, CalProcsSound
      <3> QED
        BY <1>0, <1>1, <2>2, <3>1 DEF CalStands
    <2> QED
      BY <2>1, <2>2
  <1> QED
    BY <1>0, <1>1, <1>3, <1>4, CalSameRows DEF CalInv, CalProcsSound

\* Google grants access, applies a change late; the owner edits; time passes.
LEMMA CalWorldSteps ==
    ASSUME CalInv,
           CalGrant \/ \E r \in CalRequests : CalArrive(r) \/ CalEdit(r) \/ CalMinute(r)
    PROVE  CalInv'
  <1>0. /\ calOp \in CalRows /\ CalSt \in [CalRequests -> CalStatuses]
        /\ calTask \in [CalRequests -> CalTasks] /\ calLock \in CalProcs \cup {CalNone}
        /\ calSent \in [CalRequests -> 0..2] /\ calGoogle \in [CalRequests -> {"no", "late", "yes"}]
        /\ calHeld \in [CalRequests -> BOOLEAN] /\ calTold \in [CalRequests -> 0..2]
        /\ calFaults \in 0..CalFaults
        /\ calPc \in [CalProcs -> CalPlaces] /\ calWritable \in BOOLEAN
        /\ UNCHANGED <<calTask, calLock, calPc, calSent, calTold>>
    BY CalParts DEF CalInv, CalGrant, CalArrive, CalEdit, CalMinute
  <1>1. calOp' \in CalRows /\ CalSt' = CalSt
    <2>1. calOp' = calOp \/ \E r \in CalRequests : calOp' = [calOp EXCEPT ![r].due = TRUE]
      BY DEF CalGrant, CalArrive, CalEdit, CalMinute
    <2>2. CASE calOp' = calOp
      BY <1>0, <2>2 DEF CalSt
    <2>3. ASSUME NEW r \in CalRequests, calOp' = [calOp EXCEPT ![r].due = TRUE]
          PROVE  calOp' \in CalRows /\ CalSt' = CalSt
      <3>1. /\ [calOp EXCEPT ![r].due = TRUE] \in CalRows
            /\ CalStOf([calOp EXCEPT ![r].due = TRUE]) = CalStOf(calOp)
        BY <1>0, CalFields
      <3> QED
        BY <2>3, <3>1 DEF CalSt
    <2> QED
      BY <2>1, <2>2, <2>3
  <1>2. calWritable' \in BOOLEAN
    BY <1>0 DEF CalGrant, CalArrive, CalEdit, CalMinute
  <1>3. calFaults' \in 0..CalFaults
    BY <1>0, CalFaultBounded DEF CalGrant, CalArrive, CalEdit, CalMinute
  <1>4. \/ calGoogle' = calGoogle /\ calHeld' = calHeld
        \/ \E r \in CalRequests :
              \/ /\ calGoogle[r] = "late" /\ calGoogle' = [calGoogle EXCEPT ![r] = "yes"]
                 /\ calHeld' = [calHeld EXCEPT ![r] = TRUE]
              \/ calGoogle' = [calGoogle EXCEPT ![r] = "no"] /\ calHeld' = calHeld
    BY DEF CalGrant, CalArrive, CalEdit, CalMinute, CalApplied
  <1>5. calGoogle' \in [CalRequests -> {"no", "late", "yes"}]
    BY <1>0, <1>4
  <1>6. calHeld' \in [CalRequests -> BOOLEAN]
    BY <1>0, <1>4
  <1>7. \A q \in CalRequests : /\ calHeld[q] => calHeld'[q]
                               /\ calGoogle'[q] = "yes" => calHeld'[q]
                               /\ calGoogle'[q] = "late" => calGoogle[q] = "late"
    BY <1>0, <1>4 DEF CalInv, CalRowsAgree, CalAgrees
  <1>8. CalTypeOK'
    BY <1>0, <1>1, <1>2, <1>3, <1>5, <1>6 DEF CalInv, CalTypeOK, CalRows, CalPlaces
  <1>9. CalRowsAgree'
    BY <1>0, <1>1, <1>7 DEF CalInv, CalRowsAgree, CalAgrees
  <1>10. CalProcsSound'
    <2> SUFFICES ASSUME NEW q \in CalProcs PROVE CalStands(q, calPc[q])'
      BY DEF CalProcsSound
    <2>1. calPc[q].pc \in {"finish", "done", "recovered"} => calPc[q].r \in CalRequests
      BY CalAtRequest DEF CalInv, CalSteps
    <2> QED
      BY <1>0, <1>1, <1>7, <2>1 DEF CalInv, CalProcsSound, CalStands
  <1> QED
    BY <1>8, <1>9, <1>10 DEF CalInv

LEMMA CalInvStep == CalInv /\ [CalNext]_calVars => CalInv'
  <1> SUFFICES ASSUME CalInv, [CalNext]_calVars PROVE CalInv'
    OBVIOUS
  <1>1. CASE UNCHANGED calVars
    BY <1>1 DEF calVars, CalInv, CalTypeOK, CalProcsSound, CalStands, CalRowsAgree, CalAgrees,
                CalSt, CalStOf
  <1>2. ASSUME NEW p \in CalProcs, CalWithin(p) PROVE CalInv'
    BY <1>2, CalLookStep, CalGateStep, CalMarkStep, CalSendStep, CalConfirmStep, CalFinishStep,
       CalCompleteStep, CalFailStep DEF CalWithin
  <1>3. CASE CalReconcile
    BY <1>2, <1>3, CalNames, CalBeginSteps, CalRecoverStep, CalRecoverWriteStep, CalTellSteps
       DEF CalReconcile
  <1> QED
    BY <1>1, <1>2, <1>3, CalNames, CalBeginSteps, CalCrashStep, CalWorldSteps DEF CalNext
-----------------------------------------------------------------------------
\* The stage is read off the statuses.
CalStageOf(st) ==
    [r \in CalRequests |->
        IF st[r] = "sending" THEN "claimed" ELSE IF st[r] = "completed" THEN "confirmed" ELSE "open"]

LEMMA CalStageIs == CalStage = CalStageOf(CalSt) /\ CalStage' = CalStageOf(CalSt')
  <1>1. \A r \in CalRequests : CalSt[r] = calOp[r].st /\ CalSt'[r] = calOp'[r].st
    BY DEF CalSt, CalStOf
  <1>2. CalStage = CalStageOf(CalSt)
    BY <1>1 DEF CalStage, CalStageOf
  <1>3. CalStage' = CalStageOf(CalSt')
    BY <1>1 DEF CalStage, CalStageOf
  <1> QED
    BY <1>2, <1>3

LEMMA CalStageMoves ==
    ASSUME CalSt \in [CalRequests -> CalStatuses], NEW r \in CalRequests,
           NEW st \in CalStatuses, CalSt' = [CalSt EXCEPT ![r] = st]
    PROVE  /\ st = "sending" => CalStage' = [CalStage EXCEPT ![r] = "claimed"]
           /\ st = "completed" => CalStage' = [CalStage EXCEPT ![r] = "confirmed"]
           /\ st \in {"ready", "waiting"} /\ CalSt[r] \in {"none", "ready", "waiting"} =>
                 CalStage' = CalStage
  <1>1. CalStage = CalStageOf(CalSt)
    BY CalStageIs
  <1>2. CalStage' = CalStageOf(CalSt')
    BY CalStageIs
  <1> QED
    BY <1>1, <1>2 DEF CalStageOf, CalStatuses

LEMMA CalStageSame == CalSt' = CalSt => CalStage' = CalStage
  <1>1. CalStage = CalStageOf(CalSt)
    BY CalStageIs
  <1>2. CalStage' = CalStageOf(CalSt')
    BY CalStageIs
  <1> QED
    BY <1>1, <1>2

LEMMA CalEffectInit == CalInit => CalEffect!Init
  BY DEF CalInit, CalEffect!Init, CalStage

\* The decision to send is the claim.
LEMMA CalMarkMaps ==
    ASSUME CalInv, NEW p \in CalProcs, CalMark(p) PROVE \E r \in CalRequests : CalEffect!Claim(r)
  <1>1. PICK r \in CalRequests : r = calPc[p].r /\ CalStands(p, calPc[p])
    BY CalHolder DEF CalMark, CalUnderLock
  <1>2. CalSt[r] \in {"ready", "waiting"}
    BY <1>1 DEF CalStands, CalMark
  <1>3. calOp \in CalRows /\ CalSt \in [CalRequests -> CalStatuses]
    BY CalParts DEF CalInv
  <1>4. CalSt' = [CalSt EXCEPT ![r] = "sending"]
    BY <1>1, <1>3, CalFields DEF CalMark, CalSet, CalSt, CalStatuses
  <1>5. CalStage' = [CalStage EXCEPT ![r] = "claimed"]
    BY <1>3, <1>4, CalStageMoves DEF CalStatuses
  <1>6. CalStage[r] = "open"
    BY <1>2, CalStageIs DEF CalStageOf
  <1>7. UNCHANGED <<calSent, calHeld>>
    BY DEF CalMark
  <1> QED
    BY <1>5, <1>6, <1>7 DEF CalEffect!Claim

\* The mutation is the effect, or nothing was sent.
LEMMA CalSendMaps ==
    ASSUME CalInv, NEW p \in CalProcs, CalSend(p)
    PROVE  (\E r \in CalRequests : CalEffect!Send(r)) \/ UNCHANGED CalEffect!vars
  <1>1. PICK r \in CalRequests : r = calPc[p].r /\ CalStands(p, calPc[p])
    BY CalHolder DEF CalSend, CalUnderLock
  <1>2. CalSt[r] = "sending" /\ calSent[r] = 0
    BY <1>1 DEF CalStands, CalSend
  <1>3. CalStage[r] = "claimed"
    BY <1>2, CalStageIs DEF CalStageOf
  <1>4. calOp' = calOp
    BY DEF CalSend
  <1>5. CalStage' = CalStage
    BY <1>4, CalStageSame DEF CalSt
  <1>6. calSent \in [CalRequests -> 0..2]
    BY CalParts DEF CalInv
  <1>7. \/ /\ calSent' = [calSent EXCEPT ![r] = 1]
           /\ calHeld' = [calHeld EXCEPT ![r] = TRUE] \/ calHeld' = calHeld
        \/ calSent' = calSent /\ calHeld' = calHeld
    BY <1>1, <1>2, <1>6 DEF CalSend, CalApplied
  <1> QED
    BY <1>2, <1>3, <1>5, <1>7 DEF CalEffect!Send, CalEffect!vars

\* A row becomes completed only from sending, over a change that was seen.
LEMMA CalCompleteMaps ==
    ASSUME CalInv, CalRecoverWrite \/ \E p \in CalProcs : CalComplete(p)
    PROVE  \E r \in CalRequests : CalEffect!Confirm(r)
  <1>1. PICK p \in CalProcs : CalComplete(p) \/ (CalRecoverWrite /\ p = CalWorker)
    BY CalNames
  <1>2. PICK r \in CalRequests : r = calPc[p].r /\ CalStands(p, calPc[p])
    BY <1>1, CalHolder DEF CalComplete, CalRecoverWrite, CalUnderLock
  <1>3. CalSt[r] = "sending" /\ calHeld[r]
    BY <1>1, <1>2 DEF CalStands, CalComplete, CalRecoverWrite
  <1>4. calOp \in CalRows /\ CalSt \in [CalRequests -> CalStatuses]
    BY CalParts DEF CalInv
  <1>5. /\ [calOp EXCEPT ![r].st = "completed"] \in CalRows
        /\ CalStOf([calOp EXCEPT ![r].st = "completed"]) = [CalSt EXCEPT ![r] = "completed"]
    BY <1>4, CalFields DEF CalSt, CalStatuses
  <1>6. \/ calOp' = [calOp EXCEPT ![r].st = "completed"]
        \/ calOp' = [[calOp EXCEPT ![r].st = "completed"] EXCEPT ![r].deliver = TRUE]
    BY <1>1, <1>2 DEF CalComplete, CalSet, CalRecoverWrite
  <1>7. CalSt' = [CalSt EXCEPT ![r] = "completed"]
    <2>1. CASE calOp' = [calOp EXCEPT ![r].st = "completed"]
      BY <1>5, <2>1 DEF CalSt
    <2>2. CASE calOp' = [[calOp EXCEPT ![r].st = "completed"] EXCEPT ![r].deliver = TRUE]
      BY <1>5, <2>2, CalFields DEF CalSt
    <2> QED
      BY <1>6, <2>1, <2>2
  <1>8. CalStage' = [CalStage EXCEPT ![r] = "confirmed"]
    BY <1>4, <1>7, CalStageMoves DEF CalStatuses
  <1>9. CalStage[r] = "claimed"
    BY <1>3, CalStageIs DEF CalStageOf
  <1>10. UNCHANGED <<calSent, calHeld>>
    BY <1>1 DEF CalComplete, CalRecoverWrite
  <1> QED
    BY <1>3, <1>8, <1>9, <1>10 DEF CalEffect!Confirm

\* A change without an answer that is applied late.
LEMMA CalArriveMaps ==
    ASSUME CalInv, NEW r \in CalRequests, CalArrive(r) PROVE CalEffect!Arrive(r)
  <1>1. calSent[r] = 1
    BY DEF CalArrive, CalInv, CalRowsAgree, CalAgrees
  <1>2. CalStage' = CalStage
    BY CalStageSame DEF CalArrive, CalSt
  <1> QED
    BY <1>1, <1>2 DEF CalArrive, CalApplied, CalEffect!Arrive

\* What else is done leaves the stage of every command.
LEMMA CalOtherStutters ==
    ASSUME CalInv,
           \/ \E p \in CalProcs : \/ CalLook(p) \/ CalGate(p) \/ CalConfirm(p) \/ CalFinish(p)
                                  \/ CalFail(p) \/ CalCrash(p)
           \/ CalRecover \/ CalPublish \/ CalDelivered \/ CalGrant
           \/ \E r \in CalRequests : CalEdit(r) \/ CalMinute(r)
    PROVE  UNCHANGED CalEffect!vars
  <1>0. calOp \in CalRows /\ CalSt \in [CalRequests -> CalStatuses] /\ UNCHANGED <<calSent, calHeld>>
    BY CalParts DEF CalInv, CalLook, CalGate, CalConfirm, CalFinish, CalFail, CalCrash, CalRecover,
                    CalPublish, CalDelivered, CalGrant, CalEdit, CalMinute
  <1>1. SUFFICES CalStage' = CalStage
    BY <1>0 DEF CalEffect!vars
  <1>2. ASSUME NEW p \in CalProcs, CalLook(p) \/ CalGate(p) \/ CalFail(p) PROVE CalStage' = CalStage
    <2>1. PICK r \in CalRequests : r = calPc[p].r /\ CalStands(p, calPc[p])
      BY <1>2, CalHolder DEF CalLook, CalGate, CalFail, CalUnderLock
    <2>2. CalSt[r] = calOp[r].st
      BY DEF CalSt, CalStOf
    <2>3. CASE calOp' = calOp
      BY <2>3, CalStageSame DEF CalSt
    <2>4. CASE CalLook(p) /\ calOp' # calOp
      <3>1. calOp' = [calOp EXCEPT ![r].st = "ready"] /\ CalSt[r] = "none"
        BY <2>1, <2>2, <2>4 DEF CalLook, CalSet
      <3>2. CalSt' = [CalSt EXCEPT ![r] = "ready"]
        BY <1>0, <3>1, CalFields DEF CalSt, CalStatuses
      <3> QED
        BY <1>0, <3>1, <3>2, CalStageMoves DEF CalStatuses
    <2>5. CASE CalGate(p) /\ calOp' # calOp
      <3>1. CalSt[r] \in {"ready", "waiting"}
        BY <2>1, <2>5 DEF CalStands, CalGate
      <3>2. calOp' = [[calOp EXCEPT ![r].st = "waiting"] EXCEPT ![r].deliver = TRUE]
        BY <2>1, <2>5 DEF CalGate
      <3>3. /\ [calOp EXCEPT ![r].st = "waiting"] \in CalRows
            /\ CalStOf([calOp EXCEPT ![r].st = "waiting"]) = [CalSt EXCEPT ![r] = "waiting"]
        BY <1>0, CalFields DEF CalSt, CalStatuses
      <3>4. CalSt' = [CalSt EXCEPT ![r] = "waiting"]
        BY <3>2, <3>3, CalFields DEF CalSt
      <3> QED
        BY <1>0, <3>1, <3>4, CalStageMoves DEF CalStatuses
    <2>6. CASE CalFail(p)
      <3>1. CalSt[r] = "sending"
        BY <2>1, <2>6 DEF CalStands, CalFail
      <3>2. CalSt' = [CalSt EXCEPT ![r] = "sending"]
        BY <1>0, <2>1, <2>6, CalFields DEF CalFail, CalSet, CalSt, CalStatuses
      <3>3. CalSt' = CalSt
        BY <1>0, <3>1, <3>2
      <3> QED
        BY <3>3, CalStageSame
    <2> QED
      BY <1>2, <2>3, <2>4, <2>5, <2>6
  <1>3. ASSUME calOp' = calOp PROVE CalStage' = CalStage
    BY <1>3, CalStageSame DEF CalSt
  <1>4. ASSUME NEW r \in CalRequests, CalMinute(r) PROVE CalStage' = CalStage
    <2>1. CalSt' = CalSt
      BY <1>0, <1>4, CalFields DEF CalMinute, CalSt
    <2> QED
      BY <2>1, CalStageSame
  <1>5. CASE CalDelivered
    <2>1. calPc[CalWorker].r \in CalRequests
      BY <1>5, CalNames, CalAtRequest DEF CalDelivered, CalInv, CalSteps
    <2>2. CalSt' = CalSt
      BY <1>0, <1>5, <2>1, CalFields DEF CalDelivered, CalSt
    <2> QED
      BY <2>2, CalStageSame
  <1> QED
    BY <1>2, <1>3, <1>4, <1>5
       DEF CalConfirm, CalFinish, CalCrash, CalRecover, CalPublish, CalGrant, CalEdit

\* Every step maps to a step of OneShot or to a stutter.
LEMMA CalEffectStep == CalInv /\ [CalNext]_calVars => [CalEffect!Next]_CalEffect!vars
  <1> SUFFICES ASSUME CalInv, [CalNext]_calVars PROVE [CalEffect!Next]_CalEffect!vars
    OBVIOUS
  <1>1. ASSUME NEW r \in CalRequests,
               CalEffect!Claim(r) \/ CalEffect!Send(r) \/ CalEffect!Arrive(r) \/ CalEffect!Confirm(r)
        PROVE  CalEffect!Next
    BY <1>1 DEF CalEffect!Next
  <1>2. CASE UNCHANGED calVars
    BY <1>2, CalStageSame DEF calVars, CalSt, CalEffect!vars
  <1>3. CASE \/ \E p \in CalThreads, r \in CalRequests : CalExecute(p, r)
             \/ \E r \in CalRequests : CalPickDone(r) \/ CalPickWaiting(r) \/ CalPickLost(r)
    BY <1>3, CalBeginSteps, CalStageSame DEF CalEffect!vars
  <1>4. ASSUME NEW p \in CalProcs, CalWithin(p) PROVE [CalEffect!Next]_CalEffect!vars
    BY <1>1, <1>4, CalMarkMaps, CalSendMaps, CalCompleteMaps, CalOtherStutters DEF CalWithin
  <1>5. CASE CalReconcile
    BY <1>1, <1>3, <1>4, <1>5, CalNames, CalCompleteMaps, CalOtherStutters DEF CalReconcile
  <1> QED
    BY <1>1, <1>2, <1>3, <1>4, <1>5, CalNames, CalArriveMaps, CalOtherStutters DEF CalNext

\* execute, _recover, reconcile: a command changes the calendar at most once,
\* after the decision to send was committed, and is called completed only over
\* a change that was read back, whatever dies, is lost or comes late.
THEOREM CommandsAreOneShot == CalSpec => CalOneShot
  <1> QED
    BY CalInvInit, CalInvStep, CalEffectInit, CalEffectStep, PTL
       DEF CalSpec, CalOneShot, CalEffect!Spec

\* What the rows say is true as well: a completed command has a finished task,
\* and the owner is told once, and only of completed commands.
THEOREM CalendarIsSafe == CalSpec => CalSafe
  <1>1. CalInv => CalTypeOK /\ CalTaskDone /\ CalToldOnce
    <2> SUFFICES ASSUME CalInv PROVE CalTypeOK /\ CalTaskDone /\ CalToldOnce
      OBVIOUS
    <2>1. \A r \in CalRequests : CalSt[r] = calOp[r].st /\ CalAgrees(r)
      BY DEF CalInv, CalRowsAgree, CalSt, CalStOf
    <2> QED
      BY <2>1 DEF CalInv, CalAgrees, CalTaskDone, CalToldOnce
  <1> QED
    BY <1>1, CalInvInit, CalInvStep, CommandsAreOneShot, PTL DEF CalSpec, CalSafe

-----------------------------------------------------------------------------
(* Research: whoever has claimed a preview is alone with it, and the claims *)
(* of a day have fitted into the limit when they were made.                *)

ResChecks == [q : ResQueries \cup {ResNone}, allowed : BOOLEAN, fresh : BOOLEAN]
ResBusy == [pc : {"reserve", "search", "good", "bad"}, id : ResPreviews,
            q : ResQueries, limit : ResLimits]
ResClaiming == {"search", "good", "bad"}

\* A thread serves what a preview has shown; from its claim on it is the only
\* one at that preview, and has recorded nothing yet.
ResThreadSound(t, th, check, claim, sent, good, outcome) ==
    LET p == th[t].id IN
    th[t].pc # "idle" =>
        /\ check[p].q = th[t].q /\ check[p].allowed
        /\ th[t].pc \in ResClaiming => claim[p] # 0 /\ outcome[p] = "none"
        /\ th[t].pc = "search" => sent[p] = 0
        /\ th[t].pc = "good" => good[p]

ResAlone(th) ==
    \A t, u \in ResThreads :
        t # u /\ th[t].pc \in ResClaiming /\ th[u].pc \in ResClaiming => th[t].id # th[u].id

ResPreviewSound(p, check, claim, sent, asked, good, outcome) ==
    /\ sent[p] \in 0..1
    /\ claim[p] = 0 => sent[p] = 0 /\ outcome[p] = "none"
    /\ outcome[p] = "completed" => good[p]
    /\ sent[p] = 1 => check[p].allowed /\ asked[p] = check[p].q /\ check[p].q \in ResQueries

ResOn(claim, d) == {p \in ResPreviews : claim[p] = d}
ResFits(claim) ==
    \A d \in 1..ResDays :
        /\ IsFiniteSet(ResOn(claim, d))
        /\ ResCredits * Cardinality(ResOn(claim, d)) <= ResHard

ResThreadsSound ==
    \A t \in ResThreads : ResThreadSound(t, resTh, resCheck, resClaim, resSent, resGood, resOutcome)
ResPreviewsSound ==
    \A p \in ResPreviews :
        ResPreviewSound(p, resCheck, resClaim, resSent, resAsked, resGood, resOutcome)

ResInv == ResTypeOK /\ ResThreadsSound /\ ResAlone(resTh) /\ ResPreviewsSound /\ ResFits(resClaim)

LEMMA ResIdleIs == ResIdle.pc = "idle" /\ ResIdle \notin ResBusy
  <1>1. ResIdle.pc = "idle"
    BY DEF ResIdle
  <1> QED BY <1>1 DEF ResBusy

LEMMA ResTyped ==
    ASSUME ResTypeOK
    PROVE  /\ resCheck \in [ResPreviews -> ResChecks] /\ resTh \in [ResThreads -> {ResIdle} \cup ResBusy]
           /\ resClaim \in [ResPreviews -> 0..ResDays] /\ resDay \in 1..ResDays
           /\ resConf \in ResConf
           /\ resSent \in [ResPreviews -> 0..2] /\ resAsked \in [ResPreviews -> ResQueries \cup {ResNone}]
           /\ resGood \in [ResPreviews -> BOOLEAN]
           /\ resOutcome \in [ResPreviews -> {"none", "failed", "completed"}]
  BY DEF ResTypeOK, ResChecks, ResBusy

LEMMA ResTyping ==
    ASSUME resCheck \in [ResPreviews -> ResChecks], resTh \in [ResThreads -> {ResIdle} \cup ResBusy],
           resClaim \in [ResPreviews -> 0..ResDays], resDay \in 1..ResDays, resConf \in ResConf,
           resSent \in [ResPreviews -> 0..2], resAsked \in [ResPreviews -> ResQueries \cup {ResNone}],
           resGood \in [ResPreviews -> BOOLEAN],
           resOutcome \in [ResPreviews -> {"none", "failed", "completed"}]
    PROVE  ResTypeOK
  BY DEF ResTypeOK, ResChecks, ResBusy

\* A thread moves on or becomes idle.
LEMMA ResThreadMoves ==
    ASSUME resTh \in [ResThreads -> {ResIdle} \cup ResBusy], NEW t \in ResThreads
    PROVE  /\ \A pc \in {"reserve", "search", "good", "bad"} :
                resTh[t].pc # "idle" =>
                  LET th == [resTh EXCEPT ![t].pc = pc] IN
                  /\ th \in [ResThreads -> {ResIdle} \cup ResBusy]
                  /\ th[t].pc = pc /\ th[t].id = resTh[t].id /\ th[t].q = resTh[t].q
                  /\ \A u \in ResThreads : u # t => th[u] = resTh[u]
           /\ \A v \in {ResIdle} \cup ResBusy :
                  LET th == [resTh EXCEPT ![t] = v] IN
                  /\ th \in [ResThreads -> {ResIdle} \cup ResBusy]
                  /\ th[t] = v
                  /\ \A u \in ResThreads : u # t => th[u] = resTh[u]
  <1>1. \A v \in {ResIdle} \cup ResBusy :
           LET th == [resTh EXCEPT ![t] = v] IN
           /\ th \in [ResThreads -> {ResIdle} \cup ResBusy]
           /\ th[t] = v
           /\ \A u \in ResThreads : u # t => th[u] = resTh[u]
    OBVIOUS
  <1>2. ASSUME NEW pc \in {"reserve", "search", "good", "bad"}, resTh[t].pc # "idle"
        PROVE  LET th == [resTh EXCEPT ![t].pc = pc] IN
               /\ th \in [ResThreads -> {ResIdle} \cup ResBusy]
               /\ th[t].pc = pc /\ th[t].id = resTh[t].id /\ th[t].q = resTh[t].q
               /\ \A u \in ResThreads : u # t => th[u] = resTh[u]
    <2> DEFINE v == [resTh[t] EXCEPT !.pc = pc]
    <2>1. resTh[t] \in ResBusy
      BY <1>2, ResIdleIs
    <2>2. v \in ResBusy /\ v.pc = pc /\ v.id = resTh[t].id /\ v.q = resTh[t].q
      BY <2>1 DEF ResBusy
    <2>3. [resTh EXCEPT ![t].pc = pc] = [resTh EXCEPT ![t] = v]
      OBVIOUS
    <2> HIDE DEF v
    <2> QED BY <2>2, <2>3, <1>1
  <1> QED BY <1>1, <1>2

LEMMA ResAtPreview ==
    ASSUME ResTypeOK, NEW t \in ResThreads, resTh[t].pc # "idle"
    PROVE  /\ resTh[t] \in ResBusy /\ resTh[t].id \in ResPreviews /\ resTh[t].q \in ResQueries
           /\ resTh[t].limit \in ResLimits /\ resTh[t] # ResIdle
  <1>1. resTh[t] \in {ResIdle} \cup ResBusy
    BY ResTyped
  <1> QED BY <1>1, ResIdleIs DEF ResBusy

LEMMA ResInitInv == ResInit => ResInv
  <1> SUFFICES ASSUME ResInit PROVE ResInv
    OBVIOUS
  <1>1. ResTypeOK
    <2>1. [q |-> ResNone, allowed |-> FALSE, fresh |-> FALSE] \in ResChecks
      BY DEF ResChecks
    <2>2. 0 \in 0..ResDays /\ 1 \in 1..ResDays
      BY ResAssumption
    <2>3. /\ resCheck \in [ResPreviews -> ResChecks]
          /\ resTh \in [ResThreads -> {ResIdle} \cup ResBusy]
      BY <2>1 DEF ResInit
    <2>4. /\ resClaim \in [ResPreviews -> 0..ResDays] /\ resDay \in 1..ResDays
          /\ resConf \in ResConf
          /\ resSent \in [ResPreviews -> 0..2]
          /\ resAsked \in [ResPreviews -> ResQueries \cup {ResNone}]
          /\ resGood \in [ResPreviews -> BOOLEAN]
          /\ resOutcome \in [ResPreviews -> {"none", "failed", "completed"}]
      BY <2>2 DEF ResInit
    <2> QED BY <2>3, <2>4, ResTyping
  <1>2. ResThreadsSound /\ ResAlone(resTh)
    BY ResIdleIs DEF ResInit, ResThreadsSound, ResThreadSound, ResAlone, ResClaiming
  <1>3. ResPreviewsSound
    BY DEF ResInit, ResPreviewsSound, ResPreviewSound
  <1>4. ResFits(resClaim)
    <2> SUFFICES ASSUME NEW d \in 1..ResDays
                 PROVE  /\ IsFiniteSet(ResOn(resClaim, d))
                        /\ ResCredits * Cardinality(ResOn(resClaim, d)) <= ResHard
      BY DEF ResFits
    <2>1. ResOn(resClaim, d) = {}
      BY DEF ResInit, ResOn
    <2> QED BY <2>1, FS_EmptySet, ResAssumption
  <1> QED BY <1>1, <1>2, <1>3, <1>4 DEF ResInv

-----------------------------------------------------------------------------
\* The cap is at most the hard limit, whatever the owner sets.
LEMMA ResCapHard == ASSUME NEW limit \in Int PROVE ResCap(limit) \in Int /\ ResCap(limit) <= ResHard
  <1>1. Max({0, limit}) \in Int
    <2>1. \E x \in {0, limit} : \A y \in {0, limit} : x >= y
      OBVIOUS
    <2> QED BY <2>1 DEF Max
  <1> DEFINE m == Max({0, limit})
  <1> HIDE DEF m
  <1>2. m \in Int /\ ResHard \in Int
    BY <1>1, ResAssumption DEF m
  <1>3. \E x \in {ResHard, m} : \A y \in {ResHard, m} : x =< y
    BY <1>2
  <1>4. /\ Min({ResHard, m}) \in {ResHard, m}
        /\ \A y \in {ResHard, m} : Min({ResHard, m}) =< y
    BY <1>3 DEF Min
  <1> QED BY <1>2, <1>4 DEF ResCap, m

\* A claim that fits adds the credits of one search to its day.
LEMMA ResClaimFits ==
    ASSUME ResTypeOK, ResFits(resClaim), NEW p \in ResPreviews, resClaim[p] = 0,
           NEW limit \in Int, ResUsed(resDay) + ResCredits <= ResCap(limit)
    PROVE  ResFits([resClaim EXCEPT ![p] = resDay])
  <1> DEFINE c == [resClaim EXCEPT ![p] = resDay]
  <1>1. resClaim \in [ResPreviews -> 0..ResDays] /\ resDay \in 1..ResDays
    BY ResTyped
  <1> SUFFICES ASSUME NEW d \in 1..ResDays
               PROVE  IsFiniteSet(ResOn(c, d)) /\ ResCredits * Cardinality(ResOn(c, d)) <= ResHard
    BY DEF ResFits
  <1>2. IsFiniteSet(ResOn(resClaim, d)) /\ ResCredits * Cardinality(ResOn(resClaim, d)) <= ResHard
    BY DEF ResFits
  <1>3. CASE d # resDay
    <2>1. ResOn(c, d) = ResOn(resClaim, d)
      BY <1>1, <1>3 DEF ResOn
    <2> QED BY <1>2, <2>1
  <1>4. CASE d = resDay
    <2>1. ResOn(c, d) = ResOn(resClaim, d) \cup {p} /\ p \notin ResOn(resClaim, d)
      BY <1>1, <1>4 DEF ResOn
    <2> DEFINE n == Cardinality(ResOn(resClaim, d))
    <2>2. IsFiniteSet(ResOn(c, d)) /\ Cardinality(ResOn(c, d)) = n + 1 /\ n \in Nat
      <3> HIDE DEF c
      <3> QED BY <1>2, <2>1, FS_AddElement, FS_CardinalityType
    <2>3. ResUsed(resDay) = ResCredits * n
      BY <1>4 DEF ResUsed, ResOn
    <2> HIDE DEF n
    <2>4. ResCredits * (n + 1) = ResCredits * n + ResCredits
      BY <2>2, ResAssumption
    <2>5. ResCredits * n \in Int /\ ResCredits \in Int /\ ResHard \in Int
      BY <2>2, ResAssumption
    <2>6. ResCap(limit) \in Int /\ ResCap(limit) <= ResHard
      BY ResCapHard
    <2>7. ResCredits * (n + 1) <= ResHard
      BY <2>3, <2>4, <2>5, <2>6
    <2> QED BY <2>2, <2>7
  <1> QED BY <1>3, <1>4

-----------------------------------------------------------------------------
\* A thread works on its preview: nobody else has a claim there.
LEMMA ResThreadStep ==
    ASSUME ResInv, ResTypeOK', NEW t \in ResThreads, NEW p \in ResPreviews,
           resTh[t].pc # "idle", p = resTh[t].id, resCheck' = resCheck,
           \A u \in ResThreads : u # t => resTh'[u] = resTh[u],
           \A x \in ResPreviews : x # p =>
              /\ resClaim'[x] = resClaim[x] /\ resSent'[x] = resSent[x] /\ resAsked'[x] = resAsked[x]
              /\ resGood'[x] = resGood[x] /\ resOutcome'[x] = resOutcome[x],
           resTh'[t].pc # "idle" => resTh'[t].id = p,
           \/ resTh[t].pc \in ResClaiming
           \/ resClaim[p] = 0
           \/ resTh'[t].pc \notin ResClaiming /\ UNCHANGED <<resClaim, resSent, resGood, resOutcome>>,
           ResThreadSound(t, resTh', resCheck', resClaim', resSent', resGood', resOutcome'),
           ResPreviewSound(p, resCheck', resClaim', resSent', resAsked', resGood', resOutcome'),
           ResFits(resClaim')
    PROVE  ResInv'
  <1>1. ResThreadsSound /\ ResAlone(resTh) /\ ResPreviewsSound
    BY DEF ResInv
  <1>2. ASSUME NEW u \in ResThreads, u # t, resTh[u].id = p, resTh[u].pc \in ResClaiming
        PROVE  resTh'[t].pc \notin ResClaiming /\ UNCHANGED <<resClaim, resSent, resGood, resOutcome>>
    <2>1. resTh[t].pc \notin ResClaiming
      BY <1>1, <1>2 DEF ResAlone
    <2>2. resClaim[p] # 0
      BY <1>1, <1>2 DEF ResThreadsSound, ResThreadSound, ResClaiming
    <2> QED BY <2>1, <2>2
  <1>3. ResThreadsSound'
    <2> SUFFICES ASSUME NEW u \in ResThreads
                 PROVE  ResThreadSound(u, resTh', resCheck', resClaim', resSent', resGood', resOutcome')
      BY DEF ResThreadsSound
    <2>1. CASE u = t
      BY <2>1
    <2>2. CASE u # t
      <3>1. /\ resTh'[u] = resTh[u]
            /\ ResThreadSound(u, resTh, resCheck, resClaim, resSent, resGood, resOutcome)
        BY <2>2, <1>1 DEF ResThreadsSound
      <3>2. CASE resTh[u].pc = "idle"
        BY <3>1, <3>2 DEF ResThreadSound
      <3>3. CASE resTh[u].pc # "idle" /\ resTh[u].pc \notin ResClaiming
        BY <3>1, <3>3 DEF ResThreadSound, ResClaiming
      <3>4. CASE resTh[u].pc \in ResClaiming
        <4>1. CASE resTh[u].id = p
          BY <1>2, <2>2, <3>1, <3>4, <4>1 DEF ResThreadSound
        <4>2. CASE resTh[u].id # p
          <5>1. resTh[u].id \in ResPreviews
            BY <3>4, ResAtPreview DEF ResInv, ResClaiming
          <5> QED BY <3>1, <4>2, <5>1 DEF ResThreadSound
        <4> QED BY <4>1, <4>2
      <3> QED BY <3>2, <3>3, <3>4
    <2> QED BY <2>1, <2>2
  <1>4. ResAlone(resTh')
    <2>1. ASSUME NEW u \in ResThreads, u # t, resTh'[u].pc \in ResClaiming, resTh'[t].pc \in ResClaiming
          PROVE  resTh'[u].id # resTh'[t].id
      <3>1. resTh'[t].id = p /\ resTh'[u] = resTh[u]
        BY <2>1 DEF ResClaiming
      <3> QED BY <1>2, <2>1, <3>1
    <2> QED BY <1>1, <2>1 DEF ResAlone
  <1>5. ResPreviewsSound'
    <2> SUFFICES ASSUME NEW x \in ResPreviews
                 PROVE  ResPreviewSound(x, resCheck', resClaim', resSent', resAsked', resGood', resOutcome')
      BY DEF ResPreviewsSound
    <2>1. CASE x = p
      BY <2>1
    <2>2. CASE x # p
      BY <1>1, <2>2 DEF ResPreviewsSound, ResPreviewSound
    <2> QED BY <2>1, <2>2
  <1> QED BY <1>3, <1>4, <1>5 DEF ResInv

\* What a thread's step may rely on.
LEMMA ResBefore ==
    ASSUME ResInv, NEW t \in ResThreads, resTh[t].pc # "idle"
    PROVE  /\ ResTypeOK /\ ResFits(resClaim)
           /\ resTh[t] \in ResBusy /\ resTh[t].id \in ResPreviews /\ resTh[t].q \in ResQueries
           /\ resTh[t].limit \in ResLimits
           /\ ResThreadSound(t, resTh, resCheck, resClaim, resSent, resGood, resOutcome)
           /\ ResPreviewSound(resTh[t].id, resCheck, resClaim, resSent, resAsked, resGood, resOutcome)
  <1>1. ResTypeOK
    BY DEF ResInv
  <1>2. /\ resTh[t] \in ResBusy /\ resTh[t].id \in ResPreviews /\ resTh[t].q \in ResQueries
        /\ resTh[t].limit \in ResLimits
    BY <1>1, ResAtPreview
  <1> QED BY <1>1, <1>2 DEF ResInv, ResThreadsSound, ResPreviewsSound

LEMMA ResReserveStep == ASSUME ResInv, NEW t \in ResThreads, ResReserve(t) PROVE ResInv'
  <1> DEFINE p == resTh[t].id
  <1>1. resTh[t].pc = "reserve" /\ resTh[t].pc # "idle"
    BY DEF ResReserve
  <1>2. /\ ResTypeOK /\ ResFits(resClaim) /\ p \in ResPreviews /\ resTh[t].limit \in Int
        /\ ResThreadSound(t, resTh, resCheck, resClaim, resSent, resGood, resOutcome)
        /\ ResPreviewSound(p, resCheck, resClaim, resSent, resAsked, resGood, resOutcome)
    BY <1>1, ResBefore, ResAssumption
  <1>3. UNCHANGED <<resCheck, resDay, resConf, resSent, resAsked, resGood, resOutcome>>
    BY DEF ResReserve
  <1> HIDE DEF p
  <1>4. CASE resTh' = [resTh EXCEPT ![t] = ResIdle]
    <2>1. resClaim' = resClaim
      <3>1. ResIdle.pc = "idle" /\ [resTh EXCEPT ![t].pc = "search"][t].pc = "search"
        BY <1>1, <1>2, ResTyped, ResThreadMoves, ResIdleIs
      <3>2. [resTh EXCEPT ![t] = ResIdle][t] = ResIdle
        BY <1>2, ResTyped, ResThreadMoves
      <3> QED BY <1>4, <3>1, <3>2 DEF ResReserve
    <2>2. /\ resTh' \in [ResThreads -> {ResIdle} \cup ResBusy] /\ resTh'[t] = ResIdle
          /\ \A u \in ResThreads : u # t => resTh'[u] = resTh[u]
      BY <1>2, <1>4, ResTyped, ResThreadMoves
    <2>3. ResTypeOK'
      BY <1>2, <1>3, <2>1, <2>2, ResTyped DEF ResTypeOK, ResBusy
    <2>4. ResThreadSound(t, resTh', resCheck', resClaim', resSent', resGood', resOutcome')
      BY <2>2, ResIdleIs DEF ResThreadSound
    <2>5. resTh'[t].pc = "idle" /\ resTh'[t].pc \notin ResClaiming
      BY <2>2, ResIdleIs DEF ResClaiming
    <2> QED BY <1>1, <1>2, <1>3, <2>1, <2>2, <2>3, <2>4, <2>5, ResThreadStep DEF p
  <1>5. CASE resTh' # [resTh EXCEPT ![t] = ResIdle]
    <2>1. /\ resClaim[p] = 0 /\ ResUsed(resDay) + ResCredits <= ResCap(resTh[t].limit)
          /\ resClaim' = [resClaim EXCEPT ![p] = resDay]
          /\ resTh' = [resTh EXCEPT ![t].pc = "search"]
      BY <1>5 DEF ResReserve, ResClaimed, p
    <2>2. /\ resTh' \in [ResThreads -> {ResIdle} \cup ResBusy] /\ resTh'[t].pc = "search"
          /\ resTh'[t].id = p /\ resTh'[t].q = resTh[t].q
          /\ \A u \in ResThreads : u # t => resTh'[u] = resTh[u]
      BY <1>1, <1>2, <2>1, ResTyped, ResThreadMoves, ZenonT(40) DEF p
    <2>3. /\ resClaim' \in [ResPreviews -> 0..ResDays] /\ resClaim'[p] # 0
          /\ \A x \in ResPreviews : x # p => resClaim'[x] = resClaim[x]
      <3>1. resClaim \in [ResPreviews -> 0..ResDays] /\ resDay \in 1..ResDays
        BY <1>2, ResTyped
      <3> QED BY <1>2, <2>1, <3>1
    <2>4. ResTypeOK'
      BY <1>2, <1>3, <2>2, <2>3, ResTyped DEF ResTypeOK, ResBusy
    <2>5. ResThreadSound(t, resTh', resCheck', resClaim', resSent', resGood', resOutcome')
      BY <1>1, <1>2, <1>3, <2>1, <2>2, <2>3 DEF ResThreadSound, ResPreviewSound, p
    <2>6. ResPreviewSound(p, resCheck', resClaim', resSent', resAsked', resGood', resOutcome')
      BY <1>2, <1>3, <2>3 DEF ResPreviewSound
    <2>7. ResFits(resClaim')
      BY <1>2, <2>1, ResClaimFits
    <2> QED BY <1>1, <1>2, <1>3, <2>1, <2>2, <2>3, <2>4, <2>5, <2>6, <2>7, ResThreadStep DEF p
  <1> QED BY <1>4, <1>5

LEMMA ResPostStep == ASSUME ResInv, NEW t \in ResThreads, ResPost(t) PROVE ResInv'
  <1> DEFINE p == resTh[t].id
  <1>1. resTh[t].pc = "search" /\ resTh[t].pc # "idle" /\ resTh[t].pc \in ResClaiming
    BY DEF ResPost, ResClaiming
  <1>2. /\ ResTypeOK /\ ResFits(resClaim) /\ p \in ResPreviews /\ resTh[t].q \in ResQueries
        /\ ResThreadSound(t, resTh, resCheck, resClaim, resSent, resGood, resOutcome)
        /\ ResPreviewSound(p, resCheck, resClaim, resSent, resAsked, resGood, resOutcome)
    BY <1>1, ResBefore
  <1>3. UNCHANGED <<resCheck, resClaim, resDay, resConf, resOutcome>>
    BY DEF ResPost
  <1>4. resSent[p] = 0 /\ resClaim[p] # 0 /\ resOutcome[p] = "none"
        /\ resCheck[p].q = resTh[t].q /\ resCheck[p].allowed
    BY <1>1, <1>2 DEF ResThreadSound, ResClaiming
  <1> HIDE DEF p
  <1>5. /\ resSent' \in [ResPreviews -> 0..2] /\ resSent'[p] = 1
        /\ resAsked' \in [ResPreviews -> ResQueries \cup {ResNone}] /\ resAsked'[p] = resTh[t].q
        /\ \A x \in ResPreviews : x # p => resSent'[x] = resSent[x] /\ resAsked'[x] = resAsked[x]
    <2>1. /\ resSent \in [ResPreviews -> 0..2]
          /\ resAsked \in [ResPreviews -> ResQueries \cup {ResNone}]
      BY <1>2, ResTyped
    <2>2. /\ resSent' = [resSent EXCEPT ![p] = 1] /\ resAsked' = [resAsked EXCEPT ![p] = resTh[t].q]
      BY <1>4 DEF ResPost, p
    <2> QED BY <1>2, <2>1, <2>2
  <1>6. PICK pc \in {"good", "bad"} : /\ resTh' = [resTh EXCEPT ![t].pc = pc]
                                      /\ pc = "good" => resGood' = [resGood EXCEPT ![p] = TRUE]
                                      /\ pc = "bad" => resGood' = resGood
    BY DEF ResPost, p
  <1>7. /\ resTh' \in [ResThreads -> {ResIdle} \cup ResBusy] /\ resTh'[t].pc = pc
        /\ resTh'[t].id = p /\ resTh'[t].q = resTh[t].q
        /\ \A u \in ResThreads : u # t => resTh'[u] = resTh[u]
    <2>1. /\ pc \in {"reserve", "search", "good", "bad"}
          /\ resTh \in [ResThreads -> {ResIdle} \cup ResBusy]
      BY <1>2, ResTyped
    <2>2. resTh' = [resTh EXCEPT ![t].pc = pc]
      BY <1>6
    <2>3. CASE pc = "good"
      <3>1. resTh' = [resTh EXCEPT ![t].pc = "good"]
        BY <2>2, <2>3
      <3> QED BY <1>1, <2>1, <2>3, <3>1, ResThreadMoves, ZenonT(40) DEF p
    <2>4. CASE pc = "bad"
      <3>1. resTh' = [resTh EXCEPT ![t].pc = "bad"]
        BY <2>2, <2>4
      <3> QED BY <1>1, <2>1, <2>4, <3>1, ResThreadMoves DEF p
    <2> QED BY <2>3, <2>4
  <1>8. /\ resGood' \in [ResPreviews -> BOOLEAN] /\ (pc = "good" => resGood'[p])
        /\ \A x \in ResPreviews : x # p => resGood'[x] = resGood[x]
    <2>1. resGood \in [ResPreviews -> BOOLEAN]
      BY <1>2, ResTyped
    <2> QED BY <1>2, <1>6, <2>1
  <1>9. ResTypeOK'
    BY <1>2, <1>3, <1>5, <1>7, <1>8, ResTyped DEF ResTypeOK, ResBusy
  <1>10. ResThreadSound(t, resTh', resCheck', resClaim', resSent', resGood', resOutcome')
    BY <1>3, <1>4, <1>7, <1>8 DEF ResThreadSound
  <1>11. ResPreviewSound(p, resCheck', resClaim', resSent', resAsked', resGood', resOutcome')
    BY <1>2, <1>3, <1>4, <1>5 DEF ResPreviewSound
  <1>12. /\ p = resTh[t].id
         /\ \A x \in ResPreviews : x # p =>
              /\ resClaim'[x] = resClaim[x] /\ resSent'[x] = resSent[x] /\ resAsked'[x] = resAsked[x]
              /\ resGood'[x] = resGood[x] /\ resOutcome'[x] = resOutcome[x]
    BY <1>3, <1>5, <1>8 DEF p
  <1>13. ResFits(resClaim')
    BY <1>2, <1>3
  <1> QED BY <1>1, <1>2, <1>3, <1>7, <1>9, <1>10, <1>11, <1>12, <1>13, ResThreadStep

LEMMA ResRecordStep == ASSUME ResInv, NEW t \in ResThreads, ResRecord(t) PROVE ResInv'
  <1> DEFINE p == resTh[t].id
  <1>1. resTh[t].pc \in {"good", "bad"} /\ resTh[t].pc # "idle" /\ resTh[t].pc \in ResClaiming
    BY DEF ResRecord, ResClaiming
  <1>2. /\ ResTypeOK /\ ResFits(resClaim) /\ p \in ResPreviews
        /\ ResThreadSound(t, resTh, resCheck, resClaim, resSent, resGood, resOutcome)
        /\ ResPreviewSound(p, resCheck, resClaim, resSent, resAsked, resGood, resOutcome)
    BY <1>1, ResBefore
  <1>3. /\ UNCHANGED <<resCheck, resClaim, resDay, resConf, resSent, resAsked, resGood>>
        /\ resTh' = [resTh EXCEPT ![t] = ResIdle]
    BY DEF ResRecord
  <1>4. /\ resTh' \in [ResThreads -> {ResIdle} \cup ResBusy] /\ resTh'[t].pc = "idle"
        /\ \A u \in ResThreads : u # t => resTh'[u] = resTh[u]
    BY <1>2, <1>3, ResTyped, ResThreadMoves, ResIdleIs
  <1>5. PICK o \in {"completed", "failed"} :
           /\ resOutcome' = [resOutcome EXCEPT ![p] = o]
           /\ o = "completed" => resTh[t].pc = "good"
    BY <1>1 DEF ResRecord
  <1> HIDE DEF p
  <1>6. /\ resOutcome' \in [ResPreviews -> {"none", "failed", "completed"}] /\ resOutcome'[p] = o
        /\ \A x \in ResPreviews : x # p => resOutcome'[x] = resOutcome[x]
    <2>1. resOutcome \in [ResPreviews -> {"none", "failed", "completed"}]
      BY <1>2, ResTyped
    <2> QED BY <1>2, <1>5, <2>1
  <1>7. ResTypeOK'
    BY <1>2, <1>3, <1>4, <1>6, ResTyped DEF ResTypeOK, ResBusy
  <1>8. ResThreadSound(t, resTh', resCheck', resClaim', resSent', resGood', resOutcome')
    BY <1>4 DEF ResThreadSound
  <1>9. ResPreviewSound(p, resCheck', resClaim', resSent', resAsked', resGood', resOutcome')
    <2>1. resClaim[p] # 0 /\ (o = "completed" => resGood[p])
      BY <1>1, <1>2, <1>5 DEF ResThreadSound, p
    <2> QED BY <1>2, <1>3, <1>6, <2>1 DEF ResPreviewSound
  <1>10. p = resTh[t].id
    BY DEF p
  <1>11. ResFits(resClaim')
    BY <1>2, <1>3
  <1> QED BY <1>1, <1>2, <1>3, <1>4, <1>6, <1>7, <1>8, <1>9, <1>10, <1>11, ResThreadStep, ZenonT(40)

LEMMA ResQuietStep ==
    ASSUME ResInv, NEW t \in ResThreads, ResNoBalance(t) \/ ResCrash(t) PROVE ResInv'
  <1> DEFINE p == resTh[t].id
  <1>0. ResTypeOK
    BY DEF ResInv
  <1>1. resTh[t].pc # "idle"
    <2>1. CASE ResNoBalance(t)
      BY <2>1 DEF ResNoBalance
    <2>2. CASE ResCrash(t)
      <3>1. resTh[t] \in ResBusy
        BY <1>0, <2>2, ResTyped DEF ResCrash
      <3> QED BY <3>1 DEF ResBusy
    <2> QED BY <2>1, <2>2
  <1>2. /\ ResFits(resClaim) /\ p \in ResPreviews
        /\ ResThreadSound(t, resTh, resCheck, resClaim, resSent, resGood, resOutcome)
        /\ ResPreviewSound(p, resCheck, resClaim, resSent, resAsked, resGood, resOutcome)
    BY <1>1, ResBefore
  <1>3. UNCHANGED <<resCheck, resClaim, resDay, resConf, resSent, resAsked, resGood, resOutcome>>
    BY DEF ResNoBalance, ResCrash
  <1>4. /\ resTh' \in [ResThreads -> {ResIdle} \cup ResBusy]
        /\ \A u \in ResThreads : u # t => resTh'[u] = resTh[u]
        /\ \/ resTh'[t].pc = "idle"
           \/ /\ resTh[t].pc = "search" /\ resTh'[t].pc = "bad"
              /\ resTh'[t].id = p /\ resTh'[t].q = resTh[t].q
    <2>1. CASE ResNoBalance(t)
      BY <1>0, <1>1, <2>1, ResTyped, ResThreadMoves, ZenonT(40) DEF ResNoBalance
    <2>2. CASE ResCrash(t)
      BY <1>0, <2>2, ResTyped, ResThreadMoves, ResIdleIs DEF ResCrash
    <2> QED BY <2>1, <2>2
  <1> HIDE DEF p
  <1>5. ResTypeOK'
    BY <1>0, <1>3, <1>4, ResTyped DEF ResTypeOK, ResBusy
  <1>6. ResThreadSound(t, resTh', resCheck', resClaim', resSent', resGood', resOutcome')
    BY <1>2, <1>3, <1>4 DEF ResThreadSound, ResClaiming, p
  <1>7. /\ ResPreviewSound(p, resCheck', resClaim', resSent', resAsked', resGood', resOutcome')
        /\ ResFits(resClaim')
    BY <1>2, <1>3
  <1>8. /\ p = resTh[t].id
        /\ resTh[t].pc \in ResClaiming \/ resTh'[t].pc \notin ResClaiming
    BY <1>4 DEF ResClaiming, p
  <1> QED BY <1>1, <1>2, <1>3, <1>4, <1>5, <1>6, <1>7, <1>8, ResThreadStep

\* A request is let in under what the preview showed.
LEMMA ResRunStep ==
    ASSUME ResInv, NEW t \in ResThreads, NEW p \in ResPreviews, NEW q \in ResQueries, ResRun(t, p, q)
    PROVE  ResInv'
  <1> DEFINE v == [pc |-> "reserve", id |-> p, q |-> q, limit |-> resConf.limit]
  <1>1. ResTypeOK /\ ResThreadsSound /\ ResAlone(resTh) /\ ResPreviewsSound /\ ResFits(resClaim)
    BY DEF ResInv
  <1>2. /\ UNCHANGED <<resCheck, resClaim, resDay, resConf, resSent, resAsked, resGood, resOutcome>>
        /\ resTh' = [resTh EXCEPT ![t] = v]
        /\ resCheck[p].allowed /\ resCheck[p].q = q
    BY DEF ResRun, ResPreviewed
  <1>3. v \in ResBusy /\ v.pc = "reserve" /\ v.id = p /\ v.q = q
    <2>1. resConf.limit \in ResLimits
      BY <1>1, ResTyped DEF ResConf
    <2> QED BY <2>1 DEF ResBusy
  <1> HIDE DEF v
  <1>4. /\ resTh' \in [ResThreads -> {ResIdle} \cup ResBusy] /\ resTh'[t] = v
        /\ \A u \in ResThreads : u # t => resTh'[u] = resTh[u]
    BY <1>1, <1>2, <1>3, ResTyped, ResThreadMoves
  <1>5. ResTypeOK'
    BY <1>1, <1>2, <1>4, ResTyped DEF ResTypeOK, ResBusy
  <1>6. ResThreadsSound'
    <2> SUFFICES ASSUME NEW u \in ResThreads
                 PROVE  ResThreadSound(u, resTh', resCheck', resClaim', resSent', resGood', resOutcome')
      BY DEF ResThreadsSound
    <2>1. CASE u = t
      BY <1>2, <1>3, <1>4, <2>1 DEF ResThreadSound, ResClaiming
    <2>2. CASE u # t
      BY <1>1, <1>2, <1>4, <2>2 DEF ResThreadsSound, ResThreadSound
    <2> QED BY <2>1, <2>2
  <1>7. ResAlone(resTh')
    <2>1. resTh'[t].pc \notin ResClaiming
      BY <1>3, <1>4 DEF ResClaiming
    <2> QED BY <1>1, <1>4, <2>1 DEF ResAlone
  <1>8. ResPreviewsSound' /\ ResFits(resClaim')
    BY <1>1, <1>2 DEF ResPreviewsSound, ResPreviewSound
  <1> QED BY <1>5, <1>6, <1>7, <1>8 DEF ResInv

\* The checks of the previews: a new one has no thread and no search yet, and
\* an old one only expires.
LEMMA ResCheckStep ==
    ASSUME ResInv, NEW p \in ResPreviews,
           ResExpire(p) \/ \E q \in ResQueries : ResPreview(p, q)
    PROVE  ResInv'
  <1>1. ResTypeOK /\ ResThreadsSound /\ ResAlone(resTh) /\ ResPreviewsSound /\ ResFits(resClaim)
    BY DEF ResInv
  <1>2. UNCHANGED <<resClaim, resDay, resConf, resTh, resSent, resAsked, resGood, resOutcome>>
    BY DEF ResExpire, ResPreview
  <1>3. resCheck \in [ResPreviews -> ResChecks] /\ resConf.ready \in BOOLEAN
    BY <1>1, ResTyped DEF ResConf
  <1>4. /\ resCheck' \in [ResPreviews -> ResChecks]
        /\ \A x \in ResPreviews :
             \/ resCheck'[x].q = resCheck[x].q /\ resCheck'[x].allowed = resCheck[x].allowed
             \/ resCheck[x].q = ResNone
    <2>1. CASE ResExpire(p)
      <3>1. resCheck' = [resCheck EXCEPT ![p].fresh = FALSE]
        BY <2>1 DEF ResExpire
      <3> QED BY <1>3, <3>1 DEF ResChecks
    <2>2. ASSUME NEW q \in ResQueries, ResPreview(p, q)
          PROVE  /\ resCheck' \in [ResPreviews -> ResChecks]
                 /\ \A x \in ResPreviews :
                      \/ resCheck'[x].q = resCheck[x].q /\ resCheck'[x].allowed = resCheck[x].allowed
                      \/ resCheck[x].q = ResNone
      <3> DEFINE c == [q |-> q, allowed |-> resConf.ready, fresh |-> TRUE]
      <3>1. resCheck' = [resCheck EXCEPT ![p] = c] /\ resCheck[p].q = ResNone
        BY <2>2 DEF ResPreview
      <3>2. c \in ResChecks
        BY <1>3 DEF ResChecks
      <3> HIDE DEF c
      <3> QED BY <1>3, <3>1, <3>2
    <2> QED BY <2>1, <2>2
  <1>5. ResTypeOK'
    BY <1>1, <1>2, <1>4, ResTyped DEF ResTypeOK, ResChecks
  <1>6. ResThreadsSound'
    <2> SUFFICES ASSUME NEW u \in ResThreads
                 PROVE  ResThreadSound(u, resTh', resCheck', resClaim', resSent', resGood', resOutcome')
      BY DEF ResThreadsSound
    <2>1. CASE resTh[u].pc = "idle"
      BY <1>2, <2>1 DEF ResThreadSound
    <2>2. CASE resTh[u].pc # "idle"
      <3>1. /\ resTh[u].id \in ResPreviews /\ resTh[u].q \in ResQueries
            /\ ResThreadSound(u, resTh, resCheck, resClaim, resSent, resGood, resOutcome)
        BY <2>2, ResBefore
      <3>2. resCheck[resTh[u].id].q # ResNone
        BY <2>2, <3>1, ResAssumption DEF ResThreadSound
      <3>3. /\ resCheck'[resTh[u].id].q = resCheck[resTh[u].id].q
            /\ resCheck'[resTh[u].id].allowed = resCheck[resTh[u].id].allowed
        BY <1>4, <3>1, <3>2
      <3> QED BY <1>2, <3>1, <3>3 DEF ResThreadSound
    <2> QED BY <2>1, <2>2
  <1>7. ResPreviewsSound'
    <2> SUFFICES ASSUME NEW x \in ResPreviews
                 PROVE  ResPreviewSound(x, resCheck', resClaim', resSent', resAsked', resGood', resOutcome')
      BY DEF ResPreviewsSound
    <2>1. ResPreviewSound(x, resCheck, resClaim, resSent, resAsked, resGood, resOutcome)
      BY <1>1 DEF ResPreviewsSound
    <2>2. CASE resCheck[x].q = ResNone
      <3>1. resSent[x] # 1
        BY <2>1, <2>2, ResAssumption DEF ResPreviewSound
      <3> QED BY <1>2, <2>1, <3>1 DEF ResPreviewSound
    <2>3. CASE resCheck[x].q # ResNone
      <3>1. resCheck'[x].q = resCheck[x].q /\ resCheck'[x].allowed = resCheck[x].allowed
        BY <1>4, <2>3
      <3> QED BY <1>2, <2>1, <3>1 DEF ResPreviewSound
    <2> QED BY <2>2, <2>3
  <1> QED BY <1>1, <1>2, <1>5, <1>6, <1>7 DEF ResInv

LEMMA ResNextInv == ResInv /\ [ResNext]_resVars => ResInv'
  <1> SUFFICES ASSUME ResInv, [ResNext]_resVars PROVE ResInv'
    OBVIOUS
  <1>1. CASE UNCHANGED resVars \/ ResMidnight \/ \E conf \in ResConf : ResConfigure(conf)
    <2>1. /\ UNCHANGED <<resCheck, resClaim, resTh, resSent, resAsked, resGood, resOutcome>>
          /\ resDay' \in 1..ResDays /\ resConf' \in ResConf
      <3>1. resDay \in 1..ResDays /\ resConf \in ResConf
        BY ResTyped DEF ResInv
      <3> QED BY <1>1, <3>1, ResAssumption DEF resVars, ResMidnight, ResConfigure
    <2>2. ResTypeOK'
      BY <2>1 DEF ResInv, ResTypeOK
    <2> QED BY <2>1, <2>2
            DEF ResInv, ResThreadsSound, ResThreadSound, ResPreviewsSound, ResPreviewSound
  <1>2. CASE \/ \E p \in ResPreviews, q \in ResQueries : ResPreview(p, q)
             \/ \E p \in ResPreviews : ResExpire(p)
    BY <1>2, ResCheckStep
  <1>3. CASE \E t \in ResThreads, p \in ResPreviews, q \in ResQueries : ResRun(t, p, q)
    BY <1>3, ResRunStep
  <1>4. CASE \E t \in ResThreads :
                \/ ResReserve(t) \/ ResNoBalance(t) \/ ResPost(t)
                \/ ResRecord(t) \/ ResCrash(t)
    BY <1>4, ResReserveStep, ResQuietStep, ResPostStep, ResRecordStep
  <1> QED BY <1>1, <1>2, <1>3, <1>4 DEF ResNext

-----------------------------------------------------------------------------
\* The stage of a preview, as OneShot sees it.
ResStageOf(claim, outcome) ==
    [p \in ResPreviews |->
        IF claim[p] = 0 THEN "open" ELSE IF outcome[p] = "completed" THEN "confirmed" ELSE "claimed"]

LEMMA ResEffectInit == ResInit => ResEffect!Init
  BY DEF ResInit, ResEffect!Init

\* Every step maps to a step of OneShot or to a stutter.
LEMMA ResEffectStep == ResInv /\ [ResNext]_resVars => [ResEffect!Next]_ResEffect!vars
  <1> SUFFICES ASSUME ResInv, [ResNext]_resVars PROVE [ResEffect!Next]_ResEffect!vars
    OBVIOUS
  <1> DEFINE stage == ResStageOf(resClaim, resOutcome)
  <1>0. ASSUME NEW p \in ResPreviews,
               \/ /\ stage[p] = "open" /\ stage' = [stage EXCEPT ![p] = "claimed"]
                  /\ UNCHANGED <<resSent, resGood>>
               \/ /\ stage[p] = "claimed" /\ resSent[p] = 0
                  /\ resSent' = [resSent EXCEPT ![p] = 1]
                  /\ resGood' \in {resGood, [resGood EXCEPT ![p] = TRUE]}
                  /\ UNCHANGED stage
               \/ /\ stage[p] = "claimed" /\ resGood[p]
                  /\ stage' = [stage EXCEPT ![p] = "confirmed"]
                  /\ UNCHANGED <<resSent, resGood>>
        PROVE  ResEffect!Next
    BY <1>0 DEF ResStageOf, ResEffect!Next, ResEffect!Claim, ResEffect!Send, ResEffect!Confirm
  <1>s. ASSUME UNCHANGED <<resClaim, resOutcome, resSent, resGood>>
        PROVE  UNCHANGED ResEffect!vars
    BY <1>s DEF ResEffect!vars
  <1>t. /\ resClaim \in [ResPreviews -> Int] /\ resDay \in Int \ {0}
        /\ resOutcome \in [ResPreviews -> {"none", "failed", "completed"}]
    BY ResTyped DEF ResInv
  <1>1. CASE UNCHANGED <<resClaim, resOutcome, resSent, resGood>>
    BY <1>1, <1>s
  <1>2. ASSUME NEW t \in ResThreads, ResReserve(t), ~UNCHANGED <<resClaim, resOutcome, resSent, resGood>>
        PROVE  ResEffect!Next
    <2> DEFINE p == resTh[t].id
    <2>1. /\ p \in ResPreviews
          /\ ResPreviewSound(p, resCheck, resClaim, resSent, resAsked, resGood, resOutcome)
      BY <1>2, ResBefore DEF ResReserve
    <2>2. /\ resClaim[p] = 0 /\ resClaim' = [resClaim EXCEPT ![p] = resDay]
          /\ UNCHANGED <<resSent, resGood, resOutcome>>
      BY <1>2 DEF ResReserve, ResClaimed
    <2>3. resOutcome[p] = "none"
      BY <2>1, <2>2 DEF ResPreviewSound
    <2> HIDE DEF p
    <2>4. /\ ResStageOf(resClaim, resOutcome)[p] = "open"
          /\ ResStageOf([resClaim EXCEPT ![p] = resDay], resOutcome)
                = [ResStageOf(resClaim, resOutcome) EXCEPT ![p] = "claimed"]
      BY <1>t, <2>1, <2>2, <2>3 DEF ResStageOf
    <2>5. stage[p] = "open" /\ stage' = [stage EXCEPT ![p] = "claimed"]
      BY <2>2, <2>4
    <2> HIDE DEF stage
    <2> QED BY <2>1, <2>2, <2>5, <1>0
  <1>3. ASSUME NEW t \in ResThreads, ResPost(t) PROVE ResEffect!Next
    <2> DEFINE p == resTh[t].id
    <2>1. /\ p \in ResPreviews /\ resClaim[p] # 0 /\ resOutcome[p] = "none" /\ resSent[p] = 0
      BY <1>3, ResBefore DEF ResPost, ResThreadSound, ResClaiming
    <2>2. /\ resSent' = [resSent EXCEPT ![p] = 1]
          /\ resGood' \in {resGood, [resGood EXCEPT ![p] = TRUE]}
          /\ UNCHANGED <<resClaim, resOutcome>>
      BY <1>3, <2>1 DEF ResPost
    <2> HIDE DEF p
    <2>3. stage[p] = "claimed" /\ stage' = stage
      BY <1>t, <2>1, <2>2 DEF ResStageOf
    <2> HIDE DEF stage
    <2> QED BY <2>1, <2>2, <2>3, <1>0
  <1>4. ASSUME NEW t \in ResThreads, ResRecord(t) PROVE ResEffect!Next \/ UNCHANGED ResEffect!vars
    <2> DEFINE p == resTh[t].id
    <2>1. /\ p \in ResPreviews /\ resClaim[p] # 0 /\ resOutcome[p] = "none"
          /\ (resTh[t].pc = "good" => resGood[p])
      BY <1>4, ResBefore DEF ResRecord, ResThreadSound, ResClaiming
    <2>2. UNCHANGED <<resClaim, resSent, resGood>>
      BY <1>4 DEF ResRecord
    <2>3. CASE resTh[t].pc = "good"
      <3>1. resOutcome' = [resOutcome EXCEPT ![p] = "completed"]
        BY <1>4, <2>3 DEF ResRecord
      <3> HIDE DEF p
      <3>3. /\ ResStageOf(resClaim, resOutcome)[p] = "claimed"
            /\ ResStageOf(resClaim, [resOutcome EXCEPT ![p] = "completed"])
                  = [ResStageOf(resClaim, resOutcome) EXCEPT ![p] = "confirmed"]
        BY <1>t, <2>1 DEF ResStageOf
      <3>2. stage[p] = "claimed" /\ stage' = [stage EXCEPT ![p] = "confirmed"]
        BY <2>2, <3>1, <3>3
      <3> HIDE DEF stage
      <3> QED BY <2>1, <2>2, <2>3, <3>2, <1>0
    <2>4. CASE resTh[t].pc # "good"
      <3>1. resOutcome' = [resOutcome EXCEPT ![p] = "failed"]
        BY <1>4, <2>4 DEF ResRecord
      <3> HIDE DEF p
      <3>2. stage' = stage
        BY <1>t, <2>1, <2>2, <3>1 DEF ResStageOf
      <3> QED BY <2>2, <3>2 DEF ResEffect!vars, ResStageOf
    <2> QED BY <2>3, <2>4
  <1>5. CASE \/ UNCHANGED resVars \/ ResMidnight \/ \E conf \in ResConf : ResConfigure(conf)
             \/ \E p \in ResPreviews, q \in ResQueries : ResPreview(p, q)
             \/ \E p \in ResPreviews : ResExpire(p)
             \/ \E t \in ResThreads, p \in ResPreviews, q \in ResQueries : ResRun(t, p, q)
             \/ \E t \in ResThreads : ResNoBalance(t) \/ ResCrash(t)
    <2>1. UNCHANGED <<resClaim, resOutcome, resSent, resGood>>
      BY <1>5 DEF resVars, ResMidnight, ResConfigure, ResPreview, ResExpire, ResRun, ResNoBalance, ResCrash
    <2> QED BY <2>1, <1>1
  <1> QED BY <1>1, <1>2, <1>3, <1>4, <1>5 DEF ResNext

\* Over any number of parallel runs, previews and crashes: at most one search
\* is posted per preview, after its credits were reserved, and only what the
\* provider answered is reported completed (run, _budget).
THEOREM ResearchIsOneShot == ResSpec => ResOneShot
  <1> QED BY ResInitInv, ResNextInv, ResEffectInit, ResEffectStep, PTL
          DEF ResSpec, ResOneShot, ResEffect!Spec

\* The credits reserved on a day stay within the hard limit, whatever the
\* owner sets, and what is posted is what an allowed preview showed.
THEOREM ResearchIsSafe == ResSpec => ResSafe
  <1>1. ResInv => ResTypeOK /\ ResWithinCap /\ ResAsPreviewed
    <2> SUFFICES ASSUME ResInv PROVE ResTypeOK /\ ResWithinCap /\ ResAsPreviewed
      OBVIOUS
    <2>1. ResWithinCap
      BY DEF ResInv, ResFits, ResOn, ResWithinCap
    <2>2. ResAsPreviewed
      BY DEF ResInv, ResPreviewsSound, ResPreviewSound, ResAsPreviewed
    <2> QED BY <2>1, <2>2 DEF ResInv
  <1> QED BY <1>1, ResInitInv, ResNextInv, ResearchIsOneShot, PTL DEF ResSpec, ResSafe

-----------------------------------------------------------------------------
(* The conversation with a seller: whoever answers holds the browser lock and *)
(* has claimed the turn before.                                            *)

RepRows == {"none", "pending", "superseded", "on_hold",
            "attempted", "clicked", "unknown", "ready_for_owner"}
RepPcs == {"check", "read", "note", "decide", "reread", "send", "write"}

\* A process that has read a turn keeps to it; from the second read on it
\* holds the lock, and what it sends it has claimed and nobody has sent.
RepProcSound(p, pcs, rows, sent, lock) ==
    LET n == pcs[p].n IN
    /\ pcs[p].pc \in {"note", "decide", "reread", "send", "write"} => n \in RepLengths
    /\ pcs[p].pc \in {"reread", "send", "write"} => lock = p
    /\ pcs[p].pc \in {"send", "write"} => rows[n] = "attempted"
    /\ pcs[p].pc = "send" => sent[n] = 0

\* What was sent was claimed, once; what was held stays on hold.
RepTurnSound(n, rows, sent, held) ==
    /\ sent[n] \in 0..1
    /\ sent[n] = 1 => rows[n] \in {"attempted", "clicked", "unknown", "ready_for_owner"}
    /\ held[n] => rows[n] = "on_hold"

RepProcsSound == \A p \in RepProcs : RepProcSound(p, repPc, repRow, repSent, repLock)
RepTurnsSound == \A n \in RepLengths : RepTurnSound(n, repRow, repSent, repHeld)

RepInv == RepTypeOK /\ RepProcsSound /\ RepTurnsSound

\* The step that RepHeldUnsent asks for.
RepHeldKept == \A n \in RepLengths : repHeld[n] => repSent'[n] = repSent[n]

\* A change of the rows that touches only turns nobody has claimed.
RepOnlyWaiting(row, row2) ==
    \A n \in RepLengths : row2[n] # row[n] => row[n] \in {"none", "pending"}

\* A process that stops, or only changes what it does before the lock, leaves
\* the others as they were.
LEMMA RepPcStep ==
    ASSUME NEW pcs, NEW p \in RepProcs, NEW v,
           pcs \in [RepProcs -> {RepIdle} \cup [pc : RepPcs, n : 0..RepTurns]],
           v \in {RepIdle} \cup [pc : RepPcs, n : 0..RepTurns]
    PROVE  /\ [pcs EXCEPT ![p] = v] \in [RepProcs -> {RepIdle} \cup [pc : RepPcs, n : 0..RepTurns]]
           /\ [pcs EXCEPT ![p] = v][p] = v
           /\ \A q \in RepProcs : q # p => [pcs EXCEPT ![p] = v][q] = pcs[q]
  OBVIOUS

LEMMA RepAtOK ==
    ASSUME NEW pc \in RepPcs, NEW n \in 0..RepTurns
    PROVE  /\ RepAt(pc, n) \in {RepIdle} \cup [pc : RepPcs, n : 0..RepTurns]
           /\ RepAt(pc, n).pc = pc /\ RepAt(pc, n).n = n
  BY DEF RepAt

LEMMA RepIdleOK == RepIdle.pc = "idle" /\ RepIdle.n = 0
  BY DEF RepIdle

\* The types, field by field.
LEMMA RepTyped ==
    ASSUME RepTypeOK
    PROVE  /\ repTalk \in Seq({"own", "seller"}) /\ Len(repTalk) \in RepLengths
           /\ repRow \in [RepLengths -> RepRows]
           /\ repDue \in [RepLengths -> BOOLEAN] /\ repHeld \in [RepLengths -> BOOLEAN]
           /\ repSent \in [RepLengths -> 0..2]
           /\ repPc \in [RepProcs -> {RepIdle} \cup [pc : RepPcs, n : 0..RepTurns]]
           /\ \A p \in RepProcs : repPc[p].n \in 0..RepTurns
  <1>1. repPc \in [RepProcs -> {RepIdle} \cup [pc : RepPcs, n : 0..RepTurns]]
    BY DEF RepTypeOK, RepPcs
  <1>2. \A p \in RepProcs : repPc[p].n \in 0..RepTurns
    BY <1>1, RepIdleOK, RepAssumption
  <1> QED BY <1>1, <1>2 DEF RepTypeOK, RepRows

\* Saying a longer conversation.
LEMMA RepAppended ==
    ASSUME repTalk \in Seq({"own", "seller"}), Len(repTalk) \in RepLengths,
           Len(repTalk) < RepTurns, NEW who \in {"own", "seller"}
    PROVE  /\ Append(repTalk, who) \in Seq({"own", "seller"})
           /\ Len(Append(repTalk, who)) \in RepLengths
  <1>1. Append(repTalk, who) \in Seq({"own", "seller"}) /\ Len(Append(repTalk, who)) = Len(repTalk) + 1
    BY AppendProperties
  <1> QED BY <1>1, RepAssumption DEF RepLengths

\* Superseding, noting and holding touch only turns that nobody has claimed.
LEMMA RepRowChanges ==
    ASSUME repRow \in [RepLengths -> RepRows], NEW n \in 0..RepTurns
    PROVE  /\ RepSuperseded(n) \in [RepLengths -> RepRows]
           /\ RepOnlyWaiting(repRow, RepSuperseded(n))
           /\ n \in RepLengths => /\ RepNoted(n) \in [RepLengths -> RepRows]
                                  /\ RepOnlyWaiting(repRow, RepNoted(n))
  <1>1. RepSuperseded(n) \in [RepLengths -> RepRows]
    BY DEF RepSuperseded, RepRows
  <1>2. \A k \in RepLengths : RepSuperseded(n)[k] =
            IF repRow[k] = "pending" /\ k # n THEN "superseded" ELSE repRow[k]
    BY DEF RepSuperseded
  <1>3. RepOnlyWaiting(repRow, RepSuperseded(n))
    BY <1>2 DEF RepOnlyWaiting
  <1>4. ASSUME n \in RepLengths
        PROVE  /\ RepNoted(n) \in [RepLengths -> RepRows]
               /\ RepOnlyWaiting(repRow, RepNoted(n))
    <2>1. RepNoted(n) = [RepSuperseded(n) EXCEPT ![n] =
                            IF RepSuperseded(n)[n] = "none" THEN "pending" ELSE RepSuperseded(n)[n]]
      BY DEF RepNoted
    <2>2. RepNoted(n) \in [RepLengths -> RepRows]
      BY <1>1, <2>1, <1>4 DEF RepRows
    <2>3. \A k \in RepLengths : RepNoted(n)[k] =
             IF k = n THEN IF RepSuperseded(n)[n] = "none" THEN "pending" ELSE RepSuperseded(n)[n]
             ELSE RepSuperseded(n)[k]
      BY <1>1, <2>1, <1>4
    <2> QED BY <2>2, <2>3, <1>2, <1>4 DEF RepOnlyWaiting
  <1> QED BY <1>1, <1>3, <1>4

\* A step that leaves the processes, the lock and what was sent alone, and
\* touches only unclaimed rows, keeps the processes and the turns sound.
LEMMA RepRowStep ==
    ASSUME RepInv, RepOnlyWaiting(repRow, repRow'), repSent' = repSent,
           NEW p \in RepProcs,
           repLock' = repLock,
           \A q \in RepProcs : q # p => repPc'[q] = repPc[q],
           \/ repPc'[p] = repPc[p]
           \/ /\ repPc'[p].pc \notin {"reread", "send", "write"}
              /\ repPc'[p].pc \in {"note", "decide"} => repPc'[p].n \in RepLengths
    PROVE  RepProcsSound'
  <1> SUFFICES ASSUME NEW q \in RepProcs
               PROVE  RepProcSound(q, repPc', repRow', repSent', repLock')
    BY DEF RepProcsSound
  <1>1. RepProcSound(q, repPc, repRow, repSent, repLock)
    BY DEF RepInv, RepProcsSound
  <1>2. CASE repPc'[q] = repPc[q]
    <2>1. repPc[q].pc \in {"send", "write"} => repRow'[repPc[q].n] = repRow[repPc[q].n]
      BY <1>1 DEF RepOnlyWaiting, RepProcSound
    <2> QED BY <1>1, <1>2, <2>1 DEF RepProcSound
  <1>3. CASE repPc'[q] # repPc[q]
    BY <1>3 DEF RepProcSound
  <1> QED BY <1>2, <1>3

LEMMA RepRowTurns ==
    ASSUME RepInv, RepOnlyWaiting(repRow, repRow'), repSent' = repSent, repHeld' = repHeld
    PROVE  RepTurnsSound'
  <1> SUFFICES ASSUME NEW n \in RepLengths
               PROVE  RepTurnSound(n, repRow', repSent', repHeld')
    BY DEF RepTurnsSound
  <1>1. RepTurnSound(n, repRow, repSent, repHeld)
    BY DEF RepInv, RepTurnsSound
  <1> QED BY <1>1 DEF RepTurnSound, RepOnlyWaiting

LEMMA RepInitInv == RepInit => RepInv
  <1> SUFFICES ASSUME RepInit PROVE RepInv
    OBVIOUS
  <1>1. Len(repTalk) = 1 /\ repTalk \in Seq({"own", "seller"})
    BY DEF RepInit
  <1>2. RepTypeOK
    <2>1. 1 \in RepLengths
      BY RepAssumption DEF RepLengths
    <2>2. repPc \in [RepProcs -> {RepIdle} \cup
             [pc : {"check", "read", "note", "decide", "reread", "send", "write"}, n : 0..RepTurns]]
      BY DEF RepInit
    <2>3. /\ repSent \in [RepLengths -> 0..2] /\ repDue \in [RepLengths -> BOOLEAN]
          /\ repHeld \in [RepLengths -> BOOLEAN]
      BY DEF RepInit
    <2> QED BY <1>1, <2>1, <2>2, <2>3 DEF RepInit, RepTypeOK
  <1>3. RepProcsSound
    BY RepIdleOK DEF RepInit, RepProcsSound, RepProcSound
  <1>4. RepTurnsSound
    BY DEF RepInit, RepTurnsSound, RepTurnSound
  <1> QED BY <1>2, <1>3, <1>4 DEF RepInv

LEMMA RepNextInv == RepInv /\ [RepNext]_repVars => RepInv' /\ RepHeldKept
  <1> SUFFICES ASSUME RepInv, [RepNext]_repVars PROVE RepInv' /\ RepHeldKept
    OBVIOUS
  <1> USE DEF RepHeldKept
  <1>t. RepTypeOK /\ RepProcsSound /\ RepTurnsSound
    BY DEF RepInv
  <1>y. /\ repTalk \in Seq({"own", "seller"}) /\ Len(repTalk) \in RepLengths
        /\ repRow \in [RepLengths -> RepRows]
        /\ repDue \in [RepLengths -> BOOLEAN] /\ repHeld \in [RepLengths -> BOOLEAN]
        /\ repSent \in [RepLengths -> 0..2]
        /\ repPc \in [RepProcs -> {RepIdle} \cup [pc : RepPcs, n : 0..RepTurns]]
        /\ \A p \in RepProcs : repPc[p].n \in 0..RepTurns
    BY <1>t, RepTyped
  <1>z. /\ repPc' \in [RepProcs -> {RepIdle} \cup [pc : RepPcs, n : 0..RepTurns]]
        /\ repRow' \in [RepLengths -> RepRows]
        /\ repTalk' \in Seq({"own", "seller"}) /\ Len(repTalk') \in RepLengths
        /\ repLate' \in BOOLEAN
        /\ repContact' \in {"clicked", "confirmed", "on_hold"}
        /\ repDue' \in [RepLengths -> BOOLEAN]
        /\ repHeld' \in [RepLengths -> BOOLEAN]
        /\ repSent' \in [RepLengths -> 0..2]
        /\ repLock' \in RepProcs \cup {RepFree}
        => RepTypeOK'
    BY DEF RepTypeOK, RepPcs, RepRows
  <1>i. RepIdle \in {RepIdle} \cup [pc : RepPcs, n : 0..RepTurns] /\ RepIdle.pc = "idle"
    BY RepIdleOK
  <1>0. CASE UNCHANGED repVars
    BY <1>0, <1>t DEF repVars, RepInv, RepTypeOK, RepProcsSound, RepProcSound,
                      RepTurnsSound, RepTurnSound
  <1>1. CASE \E who \in {"own", "seller"} : RepWrites(who)
    <2>1. RepTypeOK'
      BY <1>1, <1>t, <1>y, <1>z, RepAppended DEF RepWrites, RepTypeOK
    <2>2. UNCHANGED <<repRow, repPc, repSent, repHeld, repLock>>
      BY <1>1 DEF RepWrites
    <2> QED BY <2>1, <2>2, <1>t DEF RepInv, RepProcsSound, RepProcSound, RepTurnsSound, RepTurnSound
  <1>2. CASE RepArrives
    <2>1. RepTypeOK'
      BY <1>2, <1>t, <1>y, <1>z, RepAppended DEF RepArrives, RepTypeOK
    <2>2. UNCHANGED <<repRow, repPc, repSent, repHeld, repLock>>
      BY <1>2 DEF RepArrives
    <2> QED BY <2>1, <2>2, <1>t DEF RepInv, RepProcsSound, RepProcSound, RepTurnsSound, RepTurnSound
  <1>3. CASE RepHold
    <2>1. RepTypeOK'
      <3>1. repRow' \in [RepLengths -> RepRows] /\ repHeld' \in [RepLengths -> BOOLEAN]
        BY <1>3, <1>y DEF RepHold, RepRows
      <3> QED BY <1>3, <1>t, <1>y, <1>z, <3>1 DEF RepHold, RepTypeOK
    <2>2. RepOnlyWaiting(repRow, repRow')
      BY <1>3 DEF RepHold, RepOnlyWaiting
    <2>3. RepProcsSound'
      <3> SUFFICES ASSUME NEW p \in RepProcs
                   PROVE  RepProcSound(p, repPc', repRow', repSent', repLock')
        BY DEF RepProcsSound
      <3>1. UNCHANGED <<repPc, repSent, repLock>>
        BY <1>3 DEF RepHold
      <3> QED BY <3>1, <2>2, <1>t, RepRowStep DEF RepInv, RepProcsSound
    <2>4. RepTurnsSound'
      <3> SUFFICES ASSUME NEW n \in RepLengths
                   PROVE  RepTurnSound(n, repRow', repSent', repHeld')
        BY DEF RepTurnsSound
      <3>1. RepTurnSound(n, repRow, repSent, repHeld)
        BY <1>t DEF RepTurnsSound
      <3>2. /\ repHeld'[n] <=> repHeld[n] \/ repRow[n] = "pending"
            /\ repRow'[n] = IF repRow[n] = "pending" THEN "on_hold" ELSE repRow[n]
            /\ repSent' = repSent
        BY <1>3 DEF RepHold
      <3> QED BY <3>1, <3>2 DEF RepTurnSound
    <2>5. repSent' = repSent
      BY <1>3 DEF RepHold
    <2> QED BY <2>1, <2>3, <2>4, <2>5 DEF RepInv
  <1>4. CASE \E n \in RepLengths : RepElapses(n)
    <2>1. RepTypeOK'
      BY <1>4, <1>t, <1>y, <1>z DEF RepElapses, RepTypeOK
    <2>2. UNCHANGED <<repRow, repPc, repSent, repHeld, repLock>>
      BY <1>4 DEF RepElapses
    <2> QED BY <2>1, <2>2, <1>t DEF RepInv, RepProcsSound, RepProcSound, RepTurnsSound, RepTurnSound
  <1>5. ASSUME NEW p \in RepProcs,
               RepSelect(p) \/ RepCheck(p) \/ RepRead(p) \/ RepNote(p) \/ RepNight(p) \/ RepDies(p)
        PROVE  RepInv' /\ RepHeldKept
    <2>1. RepTypeOK' /\ UNCHANGED <<repSent, repHeld>> /\ RepOnlyWaiting(repRow, repRow')
          /\ (\A q \in RepProcs : q # p => repPc'[q] = repPc[q])
          /\ (/\ repPc'[p].pc \notin {"reread", "send", "write"}
              /\ repPc'[p].pc \in {"note", "decide"} => repPc'[p].n \in RepLengths)
          /\ (repLock' = repLock \/ (repLock = p /\ repPc'[p].pc = "idle"))
      <3> USE DEF RepGo, RepStop
      <3>0. RepOnlyWaiting(repRow, repRow)
        BY DEF RepOnlyWaiting
      <3>1. CASE RepSelect(p)
        <4>1. 0 \in 0..RepTurns /\ "check" \in RepPcs /\ "read" \in RepPcs
          BY RepAssumption DEF RepPcs
        <4>2. PICK pc \in {"check", "read"} : repPc' = [repPc EXCEPT ![p] = RepAt(pc, 0)]
          BY <3>1 DEF RepSelect
        <4>3. /\ RepAt(pc, 0) \in {RepIdle} \cup [pc : RepPcs, n : 0..RepTurns]
              /\ RepAt(pc, 0).pc = pc
          BY <4>1, RepAtOK
        <4>4. /\ repPc' \in [RepProcs -> {RepIdle} \cup [pc : RepPcs, n : 0..RepTurns]]
              /\ repPc'[p] = RepAt(pc, 0)
              /\ \A q \in RepProcs : q # p => repPc'[q] = repPc[q]
          BY <4>2, <4>3, <1>y, RepPcStep
        <4>5. UNCHANGED <<repTalk, repLate, repContact, repRow, repDue, repHeld, repSent, repLock>>
          BY <3>1 DEF RepSelect
        <4>6. RepTypeOK'
          BY <4>4, <4>5, <1>t, <1>y, <1>z DEF RepTypeOK
        <4> QED BY <4>3, <4>4, <4>5, <4>6, <3>0
      <3>s. ASSUME RepStop(p)
            PROVE  /\ repPc' \in [RepProcs -> {RepIdle} \cup [pc : RepPcs, n : 0..RepTurns]]
                   /\ repPc'[p].pc = "idle"
                   /\ \A q \in RepProcs : q # p => repPc'[q] = repPc[q]
        BY <3>s, <1>y, <1>i, RepPcStep
      <3>g. ASSUME NEW pc \in RepPcs, NEW n \in 0..RepTurns, RepGo(p, pc, n)
            PROVE  /\ repPc' \in [RepProcs -> {RepIdle} \cup [pc : RepPcs, n : 0..RepTurns]]
                   /\ repPc'[p].pc = pc /\ repPc'[p].n = n
                   /\ \A q \in RepProcs : q # p => repPc'[q] = repPc[q]
        <4>1. /\ RepAt(pc, n) \in {RepIdle} \cup [pc : RepPcs, n : 0..RepTurns]
              /\ RepAt(pc, n).pc = pc /\ RepAt(pc, n).n = n
          BY RepAtOK
        <4> QED BY <3>g, <4>1, <1>y, RepPcStep
      <3>2. CASE RepCheck(p)
        <4>1. RepTypeOK'
          BY <3>2, <3>s, <1>t, <1>y, <1>z DEF RepCheck, RepTypeOK
        <4> QED BY <4>1, <3>2, <3>s, <3>0 DEF RepCheck
      <3>3. CASE RepRead(p)
        <4>1. CASE repTalk[Len(repTalk)] = "own"
          <5>1. /\ repRow' \in [RepLengths -> RepRows] /\ RepOnlyWaiting(repRow, repRow')
                /\ RepStop(p)
            <6>1. 0 \in 0..RepTurns
              BY RepAssumption
            <6>2. repRow' = RepSuperseded(0) /\ RepStop(p)
              BY <3>3, <4>1 DEF RepRead
            <6> QED BY <6>1, <6>2, <1>y, RepRowChanges
          <5>2. RepTypeOK'
            BY <5>1, <3>s, <3>3, <1>t, <1>y, <1>z DEF RepRead, RepTypeOK
          <5> QED BY <5>1, <5>2, <3>s, <3>3 DEF RepRead
        <4>2. CASE repTalk[Len(repTalk)] # "own"
          <5>1. RepGo(p, "note", Len(repTalk)) /\ UNCHANGED repRow
            BY <3>3, <4>2 DEF RepRead
          <5>2. "note" \in RepPcs /\ Len(repTalk) \in 0..RepTurns
            BY <1>y, RepAssumption DEF RepPcs, RepLengths
          <5>3. /\ repPc' \in [RepProcs -> {RepIdle} \cup [pc : RepPcs, n : 0..RepTurns]]
                /\ repPc'[p].pc = "note" /\ repPc'[p].n = Len(repTalk)
                /\ \A q \in RepProcs : q # p => repPc'[q] = repPc[q]
            BY <5>1, <5>2, <3>g
          <5>4. RepTypeOK'
            BY <5>1, <5>3, <3>3, <1>t, <1>y, <1>z DEF RepRead, RepTypeOK
          <5> QED BY <5>1, <5>3, <5>4, <3>0, <3>3, <1>y DEF RepRead
        <4> QED BY <4>1, <4>2
      <3>4. CASE RepNote(p)
        <4> DEFINE n == repPc[p].n
        <4>1. n \in RepLengths /\ n \in 0..RepTurns
          BY <3>4, <1>t, <1>y DEF RepNote, RepProcsSound, RepProcSound
        <4>2. /\ repRow' \in [RepLengths -> RepRows] /\ RepOnlyWaiting(repRow, repRow')
          BY <4>1, <3>4, <1>y, RepRowChanges DEF RepNote
        <4>3. "decide" \in RepPcs
          BY DEF RepPcs
        <4>4. RepGo(p, "decide", n) \/ RepStop(p)
          BY <3>4 DEF RepNote
        <4>5. /\ repPc' \in [RepProcs -> {RepIdle} \cup [pc : RepPcs, n : 0..RepTurns]]
              /\ repPc'[p].pc = "idle" \/ (repPc'[p].pc = "decide" /\ repPc'[p].n = n)
              /\ \A q \in RepProcs : q # p => repPc'[q] = repPc[q]
          BY <4>1, <4>3, <4>4, <3>s, <3>g
        <4>6. UNCHANGED <<repTalk, repLate, repContact, repDue, repHeld, repSent, repLock>>
          BY <3>4 DEF RepNote
        <4>7. RepTypeOK'
          BY <4>2, <4>5, <4>6, <1>t, <1>y, <1>z DEF RepTypeOK
        <4> QED BY <4>1, <4>2, <4>5, <4>6, <4>7
      <3>5. CASE RepNight(p)
        <4>1. repDue' \in [RepLengths -> BOOLEAN]
          BY <3>5, <1>y DEF RepNight
        <4>2. RepTypeOK'
          BY <4>1, <3>5, <3>s, <1>t, <1>y, <1>z DEF RepNight, RepTypeOK
        <4> QED BY <4>2, <3>5, <3>s, <3>0 DEF RepNight
      <3>6. CASE RepDies(p)
        <4>1. RepTypeOK'
          BY <3>6, <3>s, <1>t, <1>y, <1>z DEF RepDies, RepTypeOK
        <4> QED BY <4>1, <3>6, <3>s, <3>0 DEF RepDies
      <3> QED BY <1>5, <3>1, <3>2, <3>3, <3>4, <3>5, <3>6
    <2>2. RepTurnsSound'
      BY <2>1, RepRowTurns
    <2>3. RepProcsSound'
      <3>1. CASE repLock' = repLock
        BY <2>1, <3>1, RepRowStep
      <3>2. CASE repLock = p /\ repPc'[p].pc = "idle"
        <4> SUFFICES ASSUME NEW q \in RepProcs
                     PROVE  RepProcSound(q, repPc', repRow', repSent', repLock')
          BY DEF RepProcsSound
        <4>1. CASE q = p
          BY <4>1, <3>2 DEF RepProcSound
        <4>2. CASE q # p
          <5>1. RepProcSound(q, repPc, repRow, repSent, repLock) /\ repPc'[q] = repPc[q]
            BY <4>2, <1>t, <2>1 DEF RepProcsSound
          <5>2. repPc[q].pc \notin {"reread", "send", "write"}
            BY <5>1, <3>2, <4>2 DEF RepProcSound
          <5> QED BY <5>1, <5>2 DEF RepProcSound
        <4> QED BY <4>1, <4>2
      <3> QED BY <2>1, <3>1, <3>2
    <2> QED BY <2>1, <2>2, <2>3 DEF RepInv
  <1>6. ASSUME NEW p \in RepProcs,
               RepDecide(p) \/ RepClaim(p) \/ RepSend(p) \/ RepWrite(p)
        PROVE  RepInv' /\ RepHeldKept
    <2> DEFINE n == repPc[p].n
    <2>a. RepProcSound(p, repPc, repRow, repSent, repLock)
      BY <1>t DEF RepProcsSound
    <2>b. n \in RepLengths /\ n \in 0..RepTurns
      BY <1>6, <1>y, <2>a DEF RepProcSound, RepDecide, RepClaim, RepSend, RepWrite
    <2>c. RepTurnSound(n, repRow, repSent, repHeld)
      BY <2>b, <1>t DEF RepTurnsSound
    <2>d. \A q \in RepProcs : q # p => RepProcSound(q, repPc, repRow, repSent, repLock)
      BY <1>t DEF RepProcsSound
    <2>e. repLock \in RepProcs \cup {RepFree}
      BY <1>t DEF RepTypeOK
    \* Nobody else is past the lock, before and after the step.
    <2>f. \A q \in RepProcs : q # p => repPc[q].pc \notin {"reread", "send", "write"}
      BY <1>6, <2>a, <2>d, <2>e, RepAssumption
         DEF RepProcSound, RepDecide, RepClaim, RepSend, RepWrite
    <2>g. ASSUME \A q \in RepProcs : q # p => repPc'[q] = repPc[q],
                 RepProcSound(p, repPc', repRow', repSent', repLock')
          PROVE  RepProcsSound'
      BY <2>d, <2>f, <2>g DEF RepProcsSound, RepProcSound
    <2>h. ASSUME \A k \in RepLengths : k # n => repRow'[k] = repRow[k] /\ repSent'[k] = repSent[k],
                 repHeld' = repHeld, RepTurnSound(n, repRow', repSent', repHeld')
          PROVE  RepTurnsSound'
      <3> SUFFICES ASSUME NEW k \in RepLengths
                   PROVE  RepTurnSound(k, repRow', repSent', repHeld')
        BY DEF RepTurnsSound
      <3>1. RepTurnSound(k, repRow, repSent, repHeld)
        BY <1>t DEF RepTurnsSound
      <3> QED BY <2>h, <3>1 DEF RepTurnSound
    <2>s. ASSUME RepStop(p)
          PROVE  /\ repPc' \in [RepProcs -> {RepIdle} \cup [pc : RepPcs, n : 0..RepTurns]]
                 /\ repPc'[p].pc = "idle"
                 /\ \A q \in RepProcs : q # p => repPc'[q] = repPc[q]
      BY <2>s, <1>y, <1>i, RepPcStep DEF RepStop
    <2>r. ASSUME NEW pc \in RepPcs, RepGo(p, pc, n)
          PROVE  /\ repPc' \in [RepProcs -> {RepIdle} \cup [pc : RepPcs, n : 0..RepTurns]]
                 /\ repPc'[p].pc = pc /\ repPc'[p].n = n
                 /\ \A q \in RepProcs : q # p => repPc'[q] = repPc[q]
      <3>1. /\ RepAt(pc, n) \in {RepIdle} \cup [pc : RepPcs, n : 0..RepTurns]
            /\ RepAt(pc, n).pc = pc /\ RepAt(pc, n).n = n
        BY <2>b, RepAtOK
      <3> QED BY <2>r, <3>1, <1>y, RepPcStep DEF RepGo
    <2>p. {"reread", "send", "write"} \subseteq RepPcs
      BY DEF RepPcs
    <2> HIDE DEF n
    <2>1. CASE RepDecide(p)
      <3>1. /\ RepGo(p, "reread", n) /\ repLock' = p
            /\ UNCHANGED <<repTalk, repLate, repContact, repRow, repDue, repHeld, repSent>>
        BY <2>1 DEF RepDecide, n
      <3>2. RepTypeOK'
        BY <3>1, <2>r, <2>p, <1>t, <1>y, <1>z DEF RepTypeOK
      <3>3. RepProcsSound'
        BY <3>1, <2>r, <2>p, <2>b, <2>g DEF RepProcSound
      <3>4. RepTurnsSound'
        BY <3>1, <1>t DEF RepTurnsSound, RepTurnSound
      <3> QED BY <3>1, <3>2, <3>3, <3>4 DEF RepInv
    <2>2. CASE RepClaim(p)
      <3>1. CASE Len(repTalk) = n /\ RepClaimable(n)
        <4>1. /\ repRow' = [repRow EXCEPT ![n] = "attempted"] /\ RepGo(p, "send", n)
              /\ repRow[n] = "pending"
              /\ UNCHANGED <<repTalk, repLate, repContact, repDue, repHeld, repSent, repLock>>
          BY <2>2, <3>1 DEF RepClaim, RepClaimable, n
        <4>2. /\ repRow' \in [RepLengths -> RepRows] /\ repRow'[n] = "attempted"
              /\ \A k \in RepLengths : k # n => repRow'[k] = repRow[k]
          BY <4>1, <1>y, <2>b DEF RepRows
        <4>3. RepTypeOK'
          BY <4>1, <4>2, <2>r, <2>p, <1>t, <1>y, <1>z DEF RepTypeOK
        <4>4. repSent[n] = 0 /\ ~repHeld[n]
          BY <4>1, <2>c DEF RepTurnSound
        <4>5. repLock = p
          BY <2>2, <2>a DEF RepClaim, RepProcSound
        <4>6. RepProcsSound'
          BY <4>1, <4>2, <4>4, <4>5, <2>r, <2>p, <2>b, <2>g DEF RepProcSound
        <4>7. RepTurnsSound'
          BY <4>1, <4>2, <4>4, <2>h DEF RepTurnSound
        <4> QED BY <4>1, <4>3, <4>6, <4>7 DEF RepInv
      <3>2. CASE ~(Len(repTalk) = n /\ RepClaimable(n))
        <4>1. /\ RepStop(p) /\ repLock' = RepFree
              /\ UNCHANGED <<repTalk, repLate, repContact, repRow, repDue, repHeld, repSent>>
          BY <2>2, <3>2 DEF RepClaim, n
        <4>3. RepTypeOK'
          BY <4>1, <2>s, <1>t, <1>y, <1>z DEF RepTypeOK
        <4>6. RepProcsSound'
          BY <4>1, <2>s, <2>g DEF RepProcSound
        <4>7. RepTurnsSound'
          BY <4>1, <1>t DEF RepTurnsSound, RepTurnSound
        <4> QED BY <4>1, <4>3, <4>6, <4>7 DEF RepInv
      <3> QED BY <3>1, <3>2
    <2>3. CASE RepSend(p)
      <3>1. repRow[n] = "attempted" /\ repSent[n] = 0 /\ repLock = p /\ ~repHeld[n]
        BY <2>3, <2>a, <2>c DEF RepSend, RepProcSound, RepTurnSound, n
      <3>2. /\ RepGo(p, "write", n) /\ UNCHANGED <<repContact, repRow, repDue, repHeld, repLock>>
        BY <2>3 DEF RepSend, n
      <3>3. /\ repSent' \in [RepLengths -> 0..2] /\ repSent'[n] \in 0..1
            /\ \A k \in RepLengths : k # n => repSent'[k] = repSent[k]
        <4>1. repSent' = [repSent EXCEPT ![n] = 1] \/ repSent' = repSent
          BY <2>3, <3>1, <2>b, <1>y DEF RepSend, n
        <4> QED BY <4>1, <3>1, <2>b, <1>y
      <3>4. /\ repTalk' \in Seq({"own", "seller"}) /\ Len(repTalk') \in RepLengths
            /\ repLate' \in BOOLEAN
        <4>1. \/ Len(repTalk) < RepTurns /\ repTalk' = Append(repTalk, "own") /\ UNCHANGED repLate
              \/ repLate' = TRUE /\ UNCHANGED repTalk
              \/ UNCHANGED <<repTalk, repLate>>
          BY <2>3 DEF RepSend
        <4>2. repLate \in BOOLEAN
          BY <1>t DEF RepTypeOK
        <4>3. CASE Len(repTalk) < RepTurns /\ repTalk' = Append(repTalk, "own") /\ UNCHANGED repLate
          BY <4>3, <4>2, <1>y, RepAppended
        <4> QED BY <4>1, <4>2, <4>3, <1>y
      <3>5. RepTypeOK'
        BY <3>2, <3>3, <3>4, <2>r, <2>p, <1>t, <1>y, <1>z DEF RepTypeOK
      <3>6. RepProcsSound'
        BY <3>1, <3>2, <2>r, <2>p, <2>b, <2>g DEF RepProcSound
      <3>7. RepTurnsSound'
        <4>1. RepTurnSound(n, repRow', repSent', repHeld')
          BY <3>1, <3>2, <3>3 DEF RepTurnSound
        <4> QED BY <4>1, <3>2, <3>3, <2>h
      <3> QED BY <3>1, <3>3, <3>5, <3>6, <3>7 DEF RepInv
    <2>4. CASE RepWrite(p)
      <3>1. repRow[n] = "attempted" /\ ~repHeld[n]
        BY <2>4, <2>a, <2>c DEF RepWrite, RepProcSound, RepTurnSound, n
      <3>2. /\ RepStop(p) /\ repLock' = RepFree
            /\ UNCHANGED <<repTalk, repLate, repContact, repDue, repHeld, repSent>>
        BY <2>4 DEF RepWrite
      <3>3. PICK status \in RepOutcomes : repRow' = [repRow EXCEPT ![n] = status]
        BY <2>4 DEF RepWrite, n
      <3>4. /\ repRow' \in [RepLengths -> RepRows] /\ repRow'[n] \in RepOutcomes
            /\ \A k \in RepLengths : k # n => repRow'[k] = repRow[k]
        BY <3>3, <1>y, <2>b DEF RepRows, RepOutcomes
      <3>5. RepTypeOK'
        BY <3>2, <3>4, <2>s, <1>t, <1>y, <1>z DEF RepTypeOK
      <3>6. RepProcsSound'
        BY <3>2, <2>s, <2>g DEF RepProcSound
      <3>7. RepTurnsSound'
        <4>1. RepTurnSound(n, repRow', repSent', repHeld')
          BY <3>1, <3>2, <3>4, <2>c DEF RepTurnSound, RepOutcomes
        <4> QED BY <4>1, <3>2, <3>4, <2>h
      <3> QED BY <3>2, <3>5, <3>6, <3>7 DEF RepInv
    <2> QED BY <1>6, <2>1, <2>2, <2>3, <2>4
  <1> QED BY <1>0, <1>1, <1>2, <1>3, <1>4, <1>5, <1>6 DEF RepNext

\* A seller's turn gets at most one answer, and none that was on hold when the
\* owner asked for that, for any number of processes and turns (follow_up and
\* hold of shopper_service.py).
THEOREM RepliesAreSafe == RepSpec => RepSafe
  <1>1. RepSpec => []RepInv
    BY RepInitInv, RepNextInv, PTL DEF RepSpec
  <1>2. RepInv => RepTypeOK /\ RepAnsweredOnce
    <2> SUFFICES ASSUME RepInv, NEW n \in RepLengths PROVE RepTypeOK /\ repSent[n] <= 1
      BY DEF RepAnsweredOnce, RepInv
    <2>1. RepTurnSound(n, repRow, repSent, repHeld)
      BY DEF RepInv, RepTurnsSound
    <2> QED BY <2>1 DEF RepInv, RepTurnSound
  <1>3. RepInv /\ [RepNext]_repVars => [RepHeldKept]_repVars
    BY RepNextInv
  <1>4. RepSpec => [][RepHeldKept]_repVars
    BY <1>1, <1>3, PTL DEF RepSpec
  <1> QED BY <1>1, <1>2, <1>4, PTL DEF RepSafe, RepHeldUnsent, RepHeldKept

-----------------------------------------------------------------------------
(* The shopper: a search that writes to a seller has the row of the listing *)
(* to itself, and the rows of a day had room when they were made.          *)

ShopRuled(row) == row.pc \in {"claim", "send", "note"} => row.pick \in ShopListings

\* A search that is about to send has recorded the contact, nobody has sent
\* to it, and no other search is about to.
ShopRunsSound(runs, contact, sent) ==
    /\ \A k \in DOMAIN runs :
         /\ ShopRuled(runs[k])
         /\ runs[k].pc \in {"send", "note"} => contact[runs[k].pick].status # "none"
         /\ runs[k].pc = "send" => sent[runs[k].pick] = 0
    /\ \A k, j \in DOMAIN runs :
         k # j /\ runs[k].pc = "send" /\ runs[j].pc = "send" => runs[k].pick # runs[j].pick

ShopSentOnce(contact, sent) ==
    \A l \in ShopListings :
        sent[l] \in 0..1 /\ (sent[l] = 1 => contact[l].status # "none")

ShopInv ==
    /\ ShopTypeOK /\ Len(shopRun) <= ShopRuns
    /\ ShopRunsSound(shopRun, shopContact, shopSent) /\ ShopSentOnce(shopContact, shopSent)
    /\ IsFiniteSet(ShopContacted) /\ ShopWithinDay

ShopPcs == {"search", "pick", "claim", "send", "note", "finish", "done"}
ShopEnds == {"complete", "partial", "needs_owner", "disconnected"}
ShopStates == {"running", "interrupted", "complete", "partial", "needs_owner", "disconnected"}
ShopContacts == [watch : ShopWatches \cup {ShopNone}, at : 0..ShopHorizon,
                 status : {"none", "attempted", "needs_owner", "clicked", "confirmed", "unknown", "on_hold"}]
ShopWatching == [st : {"none", "on", "off"}, next : 0..ShopHorizon + ShopHour + ShopWeek]

LEMMA ShopTyped ==
    ASSUME ShopTypeOK
    PROVE  /\ shopNow \in 0..ShopHorizon /\ shopWatch \in [ShopWatches -> ShopWatching]
           /\ shopRun \in Seq(ShopRow) /\ shopContact \in [ShopListings -> ShopContacts]
           /\ shopSent \in [ShopListings -> 0..ShopRuns]
           /\ \A k \in DOMAIN shopRun : shopRun[k] \in ShopRow
           /\ DOMAIN shopRun = 1..Len(shopRun) /\ Len(shopRun) \in Nat
  <1>1. shopRun \in Seq(ShopRow)
    BY DEF ShopTypeOK
  <1>2. /\ \A k \in DOMAIN shopRun : shopRun[k] \in ShopRow
        /\ DOMAIN shopRun = 1..Len(shopRun) /\ Len(shopRun) \in Nat
    BY <1>1, ElementOfSeq, LenProperties
  <1> QED BY <1>1, <1>2 DEF ShopTypeOK, ShopContacts, ShopWatching

LEMMA ShopTyping ==
    ASSUME shopNow \in 0..ShopHorizon, shopWatch \in [ShopWatches -> ShopWatching],
           shopRun \in Seq(ShopRow), shopContact \in [ShopListings -> ShopContacts],
           shopSent \in [ShopListings -> 0..ShopRuns]
    PROVE  ShopTypeOK
  BY DEF ShopTypeOK, ShopContacts, ShopWatching

\* One row of the runs is replaced.
LEMMA ShopPut ==
    ASSUME NEW runs \in Seq(ShopRow), NEW k \in DOMAIN runs, NEW row \in ShopRow
    PROVE  /\ [runs EXCEPT ![k] = row] \in Seq(ShopRow)
           /\ Len([runs EXCEPT ![k] = row]) = Len(runs)
           /\ DOMAIN [runs EXCEPT ![k] = row] = DOMAIN runs
           /\ [runs EXCEPT ![k] = row][k] = row
           /\ \A j \in DOMAIN runs : j # k => [runs EXCEPT ![k] = row][j] = runs[j]
  BY ExceptSeq

\* The fields of a row that the argument is about.
LEMMA ShopFields ==
    ASSUME NEW row \in ShopRow
    PROVE  /\ \A pc \in ShopPcs : /\ [row EXCEPT !.pc = pc] \in ShopRow
                                  /\ [row EXCEPT !.pc = pc].pc = pc
                                  /\ [row EXCEPT !.pc = pc].pick = row.pick
           /\ \A m \in SUBSET ShopListings : /\ [row EXCEPT !.matches = m] \in ShopRow
                                             /\ [row EXCEPT !.matches = m].pc = row.pc
                                             /\ [row EXCEPT !.matches = m].pick = row.pick
           /\ \A l \in ShopListings \cup {ShopNone} :
                                  /\ [row EXCEPT !.pick = l] \in ShopRow
                                  /\ [row EXCEPT !.pick = l].pc = row.pc
                                  /\ [row EXCEPT !.pick = l].pick = l
           /\ \A e \in ShopEnds : /\ [row EXCEPT !.ends = e] \in ShopRow
                                  /\ [row EXCEPT !.ends = e].pc = row.pc
                                  /\ [row EXCEPT !.ends = e].pick = row.pick
           /\ \A s \in ShopStates : /\ [row EXCEPT !.status = s] \in ShopRow
                                    /\ [row EXCEPT !.status = s].pc = row.pc
                                    /\ [row EXCEPT !.status = s].pick = row.pick
  BY DEF ShopRow, ShopPcs, ShopEnds, ShopStates

LEMMA ShopRowFields ==
    ASSUME NEW row \in ShopRow
    PROVE  /\ row.pc \in ShopPcs /\ row.matches \in SUBSET ShopListings
           /\ row.pick \in ShopListings \cup {ShopNone} /\ row.ends \in ShopEnds
           /\ row.watch \in ShopWatches
  BY DEF ShopRow, ShopPcs, ShopEnds

\* A thread goes on: only where it stands and its pick matter afterwards.
LEMMA ShopGoes ==
    ASSUME ShopTypeOK, NEW k \in DOMAIN shopRun, NEW pc \in ShopPcs, ShopGo(k, pc)
    PROVE  \E row \in ShopRow :
             /\ row.pc = pc
             /\ row.pick = IF pc \in {"finish", "done"} THEN ShopNone ELSE shopRun[k].pick
             /\ shopRun' = [shopRun EXCEPT ![k] = row]
  <1> DEFINE r0 == shopRun[k]
             l == IF pc \in {"finish", "done"} THEN ShopNone ELSE r0.pick
             r1 == [r0 EXCEPT !.pc = pc]
             r2 == [r1 EXCEPT !.matches = {}]
             r3 == [r2 EXCEPT !.pick = l]
  <1>1. r0 \in ShopRow
    BY ShopTyped
  <1>2. l \in ShopListings \cup {ShopNone} /\ {} \in SUBSET ShopListings
    BY <1>1, ShopRowFields
  <1>3. shopRun' = [shopRun EXCEPT ![k] = [[[shopRun[k] EXCEPT !.pc = pc] EXCEPT !.matches = {}]
                        EXCEPT !.pick = IF pc \in {"finish", "done"} THEN ShopNone ELSE shopRun[k].pick]]
    BY DEF ShopGo
  <1>4. shopRun' = [shopRun EXCEPT ![k] = r3]
    BY <1>3
  <1>5. r1 \in ShopRow /\ r1.pc = pc
    BY <1>1, ShopFields
  <1> HIDE DEF r1, l
  <1>6. r2 \in ShopRow /\ r2.pc = pc
    BY <1>2, <1>5, ShopFields
  <1> HIDE DEF r2
  <1>7. r3 \in ShopRow /\ r3.pc = pc /\ r3.pick = l
    BY <1>2, <1>6, ShopFields
  <1> HIDE DEF r3
  <1> QED BY <1>4, <1>7 DEF l

LEMMA ShopInitInv == ShopInit => ShopInv
  <1> SUFFICES ASSUME ShopInit PROVE ShopInv
    OBVIOUS
  <1>1. /\ [st |-> "none", next |-> 0] \in ShopWatching
        /\ [watch |-> ShopNone, at |-> 0, status |-> "none"] \in ShopContacts
        /\ 0 \in 0..ShopHorizon /\ 0 \in 0..ShopRuns
    <2>1. /\ 0 \in 0..ShopHorizon /\ 0 \in 0..ShopRuns
          /\ 0 \in 0..ShopHorizon + ShopHour + ShopWeek
      BY ShopAssumption
    <2> QED BY <2>1 DEF ShopWatching, ShopContacts
  <1>2. shopRun \in Seq(ShopRow) /\ Len(shopRun) = 0 /\ DOMAIN shopRun = {}
    BY DEF ShopInit
  <1>3. ShopTypeOK
    <2>1. /\ shopWatch \in [ShopWatches -> ShopWatching] /\ shopNow \in 0..ShopHorizon
          /\ shopContact \in [ShopListings -> ShopContacts]
          /\ shopSent \in [ShopListings -> 0..ShopRuns]
      BY <1>1 DEF ShopInit
    <2> QED BY <1>2, <2>1, ShopTyping
  <1>4. ShopContacted = {} /\ ShopRecent = {}
    BY DEF ShopInit, ShopContacted, ShopRecent
  <1>5. IsFiniteSet(ShopContacted) /\ ShopWithinDay
    BY <1>4, FS_EmptySet, ShopAssumption DEF ShopWithinDay
  <1>6. ShopRunsSound(shopRun, shopContact, shopSent)
    BY <1>2 DEF ShopRunsSound
  <1>7. ShopSentOnce(shopContact, shopSent)
    BY DEF ShopInit, ShopSentOnce
  <1>8. Len(shopRun) <= ShopRuns
    BY <1>2, ShopAssumption
  <1> QED BY <1>3, <1>5, <1>6, <1>7, <1>8 DEF ShopInv

LEMMA ShopInvFacts ==
    ASSUME ShopInv
    PROVE  /\ ShopTypeOK /\ Len(shopRun) <= ShopRuns
           /\ ShopRunsSound(shopRun, shopContact, shopSent)
           /\ ShopSentOnce(shopContact, shopSent)
           /\ IsFiniteSet(ShopContacted) /\ IsFiniteSet(ShopRecent)
           /\ Cardinality(ShopRecent) <= ShopDaily
  <1>1. ShopRecent \subseteq ShopContacted
    BY DEF ShopRecent
  <1>2. IsFiniteSet(ShopContacted)
    BY DEF ShopInv
  <1>3. IsFiniteSet(ShopRecent)
    BY <1>1, <1>2, FS_Subset
  <1> QED BY <1>2, <1>3 DEF ShopInv, ShopWithinDay

\* One run goes on: the others keep what they rely on when contacts stay
\* recorded and nobody else's seller is written to.
LEMMA ShopOneRow ==
    ASSUME NEW runs \in Seq(ShopRow), NEW k \in DOMAIN runs, NEW row \in ShopRow,
           NEW c1, NEW s1, NEW c2, NEW s2,
           ShopRunsSound(runs, c1, s1), ShopRuled(row),
           row.pc \in {"send", "note"} => c2[row.pick].status # "none",
           row.pc = "send" => s2[row.pick] = 0,
           \A l \in ShopListings : c1[l].status # "none" => c2[l].status # "none",
           \A j \in DOMAIN runs : j # k /\ runs[j].pc = "send" =>
                /\ s2[runs[j].pick] = s1[runs[j].pick]
                /\ row.pc = "send" => runs[j].pick # row.pick
    PROVE  ShopRunsSound([runs EXCEPT ![k] = row], c2, s2)
  <1> DEFINE new == [runs EXCEPT ![k] = row]
  <1>1. /\ DOMAIN new = DOMAIN runs /\ new[k] = row
        /\ \A j \in DOMAIN runs : j # k => new[j] = runs[j]
    BY ShopPut
  <1> HIDE DEF new
  <1>2. ASSUME NEW j \in DOMAIN runs
        PROVE  /\ ShopRuled(new[j])
               /\ new[j].pc \in {"send", "note"} => c2[new[j].pick].status # "none"
               /\ new[j].pc = "send" => s2[new[j].pick] = 0
    <2>1. CASE j = k
      BY <1>1, <2>1
    <2>2. CASE j # k
      <3>1. /\ new[j] = runs[j] /\ ShopRuled(runs[j])
            /\ runs[j].pc \in {"send", "note"} => c1[runs[j].pick].status # "none"
            /\ runs[j].pc = "send" => s1[runs[j].pick] = 0
        BY <1>1, <2>2 DEF ShopRunsSound
      <3> QED BY <2>2, <3>1 DEF ShopRuled
    <2> QED BY <2>1, <2>2
  <1>3. ASSUME NEW i \in DOMAIN runs, NEW j \in DOMAIN runs, i # j,
               new[i].pc = "send", new[j].pc = "send"
        PROVE  new[i].pick # new[j].pick
    <2>1. CASE i = k
      BY <1>1, <1>3, <2>1
    <2>2. CASE j = k
      BY <1>1, <1>3, <2>2
    <2>3. CASE i # k /\ j # k
      BY <1>1, <1>3, <2>3 DEF ShopRunsSound
    <2> QED BY <2>1, <2>2, <2>3
  <1> QED BY <1>1, <1>2, <1>3 DEF ShopRunsSound, new

\* A step that leaves contacts, messages and the clock alone, and after which
\* the run that moved does not send.
LEMMA ShopQuiet ==
    ASSUME ShopInv, NEW k \in DOMAIN shopRun, NEW row \in ShopRow,
           shopRun' = [shopRun EXCEPT ![k] = row], ShopRuled(row),
           row.pc \in {"send", "note"} => shopContact[row.pick].status # "none",
           row.pc # "send", shopWatch' \in [ShopWatches -> ShopWatching],
           UNCHANGED <<shopNow, shopContact, shopSent>>
    PROVE  ShopInv'
  <1>1. shopRun' \in Seq(ShopRow) /\ Len(shopRun') = Len(shopRun)
    BY ShopInvFacts, ShopTyped, ShopPut
  <1>2. ShopTypeOK'
    BY <1>1, ShopInvFacts, ShopTyped DEF ShopTypeOK, ShopContacts, ShopWatching
  <1>3. ShopRunsSound(shopRun', shopContact, shopSent)
    <2>1. shopRun \in Seq(ShopRow) /\ ShopRunsSound(shopRun, shopContact, shopSent)
      BY ShopInvFacts, ShopTyped
    <2> QED BY <2>1, ShopOneRow
  <1>4. ShopContacted' = ShopContacted /\ ShopRecent' = ShopRecent
    BY DEF ShopContacted, ShopRecent
  <1>5. /\ ShopRunsSound(shopRun', shopContact', shopSent')
        /\ ShopSentOnce(shopContact', shopSent')
    BY <1>3, ShopInvFacts
  <1> QED BY <1>1, <1>2, <1>4, <1>5, ShopInvFacts DEF ShopInv, ShopWithinDay

\* A step that leaves runs, contacts, messages and the clock alone.
LEMMA ShopStill ==
    ASSUME ShopInv, shopWatch' \in [ShopWatches -> ShopWatching],
           UNCHANGED <<shopNow, shopRun, shopContact, shopSent>>
    PROVE  ShopInv'
  <1>1. ShopTypeOK'
    BY ShopInvFacts, ShopTyped DEF ShopTypeOK, ShopContacts, ShopWatching
  <1>2. ShopContacted' = ShopContacted /\ ShopRecent' = ShopRecent
    BY DEF ShopContacted, ShopRecent
  <1> QED BY <1>1, <1>2, ShopInvFacts DEF ShopInv, ShopWithinDay

LEMMA ShopLater ==
    ASSUME ShopTypeOK
    PROVE  /\ shopNow \in 0..ShopHorizon + ShopHour + ShopWeek
           /\ shopNow + ShopHour \in 0..ShopHorizon + ShopHour + ShopWeek
           /\ shopNow + ShopWeek \in 0..ShopHorizon + ShopHour + ShopWeek
  BY ShopAssumption, SMTT(30) DEF ShopTypeOK

LEMMA ShopWatchPut ==
    ASSUME NEW w \in ShopWatching
    PROVE  /\ \A n \in 0..ShopHorizon + ShopHour + ShopWeek : [w EXCEPT !.next = n] \in ShopWatching
           /\ \A st \in {"on", "off"} : [w EXCEPT !.st = st] \in ShopWatching
  BY DEF ShopWatching

LEMMA ShopCreateInv == ASSUME ShopInv, NEW w \in ShopWatches, ShopCreate(w) PROVE ShopInv'
  <1>1. [st |-> "on", next |-> shopNow] \in ShopWatching
    BY ShopInvFacts, ShopLater DEF ShopWatching
  <1>2. shopWatch' \in [ShopWatches -> ShopWatching]
    BY <1>1, ShopInvFacts, ShopTyped DEF ShopCreate
  <1> QED BY <1>2, ShopStill DEF ShopCreate

LEMMA ShopSetEnabledInv ==
    ASSUME ShopInv, NEW w \in ShopWatches, NEW st \in {"on", "off"}, ShopSetEnabled(w, st)
    PROVE  ShopInv'
  <1>1. shopWatch \in [ShopWatches -> ShopWatching]
    BY ShopInvFacts, ShopTyped
  <1>2. [shopWatch[w] EXCEPT !.st = st] \in ShopWatching
    BY <1>1, ShopWatchPut
  <1>3. shopWatch' = [shopWatch EXCEPT ![w] = [shopWatch[w] EXCEPT !.st = st]]
    BY DEF ShopSetEnabled
  <1>4. shopWatch' \in [ShopWatches -> ShopWatching]
    BY <1>1, <1>2, <1>3
  <1> QED BY <1>4, ShopStill DEF ShopSetEnabled

LEMMA ShopSearchInv ==
    ASSUME ShopInv, NEW k \in DOMAIN shopRun, NEW ends \in ShopEnds,
           NEW matches \in SUBSET ShopListings, ShopSearch(k, ends, matches)
    PROVE  ShopInv'
  <1> DEFINE r0 == shopRun[k]
             pc == IF matches = {} THEN "finish" ELSE "pick"
             r1 == [r0 EXCEPT !.ends = ends]
             r2 == [r1 EXCEPT !.matches = matches]
             r3 == [r2 EXCEPT !.pc = pc]
  <1>1. shopRun' = [shopRun EXCEPT ![k] = r3]
    BY DEF ShopSearch
  <1>2. r0 \in ShopRow /\ pc \in ShopPcs /\ pc \in {"finish", "pick"}
    BY ShopInvFacts, ShopTyped DEF ShopPcs
  <1> HIDE DEF pc
  <1>3. r1 \in ShopRow
    BY <1>2, ShopFields
  <1> HIDE DEF r1
  <1>4. r2 \in ShopRow
    BY <1>3, ShopFields
  <1> HIDE DEF r2
  <1>5. r3 \in ShopRow /\ r3.pc = pc
    BY <1>2, <1>4, ShopFields
  <1> HIDE DEF r3
  <1>6. ShopRuled(r3) /\ r3.pc \notin {"send", "note"}
    BY <1>2, <1>5 DEF ShopRuled
  <1>7. /\ shopWatch' \in [ShopWatches -> ShopWatching]
        /\ UNCHANGED <<shopNow, shopContact, shopSent>>
    BY ShopInvFacts, ShopTyped DEF ShopSearch
  <1> QED BY <1>1, <1>5, <1>6, <1>7, ShopQuiet

\* A run that goes to its end relies on nothing.
LEMMA ShopGoesOut ==
    ASSUME ShopInv, NEW k \in DOMAIN shopRun, ShopGo(k, "finish"),
           UNCHANGED <<shopNow, shopWatch, shopContact, shopSent>>
    PROVE  ShopInv'
  <1>1. "finish" \in ShopPcs
    BY DEF ShopPcs
  <1>2. PICK row \in ShopRow : row.pc = "finish" /\ shopRun' = [shopRun EXCEPT ![k] = row]
    BY <1>1, ShopInvFacts, ShopGoes
  <1>3. ShopRuled(row) /\ row.pc \notin {"send", "note"}
    BY <1>2 DEF ShopRuled
  <1>4. shopWatch' \in [ShopWatches -> ShopWatching]
    BY ShopInvFacts, ShopTyped
  <1> QED BY <1>2, <1>3, <1>4, ShopQuiet

LEMMA ShopPickInv == ASSUME ShopInv, NEW k \in DOMAIN shopRun, ShopPick(k) PROVE ShopInv'
  <1>1. UNCHANGED <<shopNow, shopWatch, shopContact, shopSent>>
    BY DEF ShopPick
  <1>2. CASE ShopGo(k, "finish")
    BY <1>1, <1>2, ShopGoesOut
  <1>3. ASSUME NEW l \in shopRun[k].matches \ ShopContacted,
               shopRun' = [shopRun EXCEPT ![k].pc = "claim", ![k].pick = l, ![k].matches = {}]
        PROVE  ShopInv'
    <2> DEFINE r0 == shopRun[k]
               r1 == [r0 EXCEPT !.pc = "claim"]
               r2 == [r1 EXCEPT !.pick = l]
               r3 == [r2 EXCEPT !.matches = {}]
    <2>1. shopRun' = [shopRun EXCEPT ![k] = r3]
      BY <1>3
    <2>2. r0 \in ShopRow /\ "claim" \in ShopPcs
      BY ShopInvFacts, ShopTyped DEF ShopPcs
    <2>3. l \in ShopListings /\ {} \in SUBSET ShopListings
      BY <2>2, ShopRowFields
    <2>4. r1 \in ShopRow /\ r1.pc = "claim"
      BY <2>2, ShopFields
    <2> HIDE DEF r1
    <2>5. r2 \in ShopRow /\ r2.pc = "claim" /\ r2.pick = l
      BY <2>3, <2>4, ShopFields
    <2> HIDE DEF r2
    <2>6. r3 \in ShopRow /\ r3.pc = "claim" /\ r3.pick = l
      BY <2>3, <2>5, ShopFields
    <2> HIDE DEF r3
    <2>7. ShopRuled(r3) /\ r3.pc \notin {"send", "note"}
      BY <2>3, <2>6 DEF ShopRuled
    <2>8. shopWatch' \in [ShopWatches -> ShopWatching]
      BY <1>1, ShopInvFacts, ShopTyped
    <2> QED BY <1>1, <2>1, <2>6, <2>7, <2>8, ShopQuiet
  <1> QED BY <1>2, <1>3 DEF ShopPick

LEMMA ShopFinishInv == ASSUME ShopInv, NEW k \in DOMAIN shopRun, ShopFinish(k) PROVE ShopInv'
  <1> DEFINE r0 == shopRun[k]
             r1 == [r0 EXCEPT !.pc = "done"]
             r2 == [r1 EXCEPT !.status = r0.ends]
             r3 == [r2 EXCEPT !.ends = "disconnected"]
  <1>1. shopRun' = [shopRun EXCEPT ![k] = r3]
    BY DEF ShopFinish
  <1>2. /\ r0 \in ShopRow /\ "done" \in ShopPcs /\ "disconnected" \in ShopEnds
        /\ ShopEnds \subseteq ShopStates
    BY ShopInvFacts, ShopTyped DEF ShopPcs, ShopEnds, ShopStates
  <1>3. r0.ends \in ShopStates /\ r0.watch \in ShopWatches
    BY <1>2, ShopRowFields
  <1>4. r1 \in ShopRow /\ r1.pc = "done"
    BY <1>2, ShopFields
  <1> HIDE DEF r1
  <1>5. r2 \in ShopRow /\ r2.pc = "done"
    BY <1>3, <1>4, ShopFields
  <1> HIDE DEF r2
  <1>6. r3 \in ShopRow /\ r3.pc = "done"
    BY <1>2, <1>5, ShopFields
  <1> HIDE DEF r3
  <1>7. ShopRuled(r3) /\ r3.pc \notin {"send", "note"}
    BY <1>6 DEF ShopRuled
  <1>8. shopWatch' \in [ShopWatches -> ShopWatching]
    <2> DEFINE w == shopRun[k].watch
    <2>1. /\ shopWatch \in [ShopWatches -> ShopWatching] /\ w \in ShopWatches
          /\ shopNow + ShopHour \in 0..ShopHorizon + ShopHour + ShopWeek
      BY <1>3, ShopInvFacts, ShopTyped, ShopLater
    <2>2. \/ shopWatch' = shopWatch
          \/ shopWatch' = [shopWatch EXCEPT ![w] = [shopWatch[w] EXCEPT !.next = shopNow + ShopHour]]
      BY DEF ShopFinish
    <2> HIDE DEF w
    <2>3. [shopWatch[w] EXCEPT !.next = shopNow + ShopHour] \in ShopWatching
      BY <2>1, ShopWatchPut
    <2> QED BY <2>1, <2>2, <2>3
  <1> QED BY <1>1, <1>6, <1>7, <1>8, ShopQuiet DEF ShopFinish

LEMMA ShopCrashInv == ASSUME ShopInv, NEW k \in DOMAIN shopRun, ShopCrash(k) PROVE ShopInv'
  <1> DEFINE r0 == shopRun[k]
             r1 == [r0 EXCEPT !.pc = "done"]
             r2 == [r1 EXCEPT !.matches = {}]
             r3 == [r2 EXCEPT !.pick = ShopNone]
             r4 == [r3 EXCEPT !.ends = "disconnected"]
  <1>1. shopRun' = [shopRun EXCEPT ![k] = r4]
    BY DEF ShopCrash
  <1>2. /\ r0 \in ShopRow /\ "done" \in ShopPcs /\ "disconnected" \in ShopEnds
        /\ {} \in SUBSET ShopListings /\ ShopNone \in ShopListings \cup {ShopNone}
    BY ShopInvFacts, ShopTyped DEF ShopPcs, ShopEnds
  <1>3. r1 \in ShopRow /\ r1.pc = "done"
    BY <1>2, ShopFields
  <1> HIDE DEF r1
  <1>4. r2 \in ShopRow /\ r2.pc = "done"
    BY <1>2, <1>3, ShopFields
  <1> HIDE DEF r2
  <1>5. r3 \in ShopRow /\ r3.pc = "done"
    BY <1>2, <1>4, ShopFields
  <1> HIDE DEF r3
  <1>6. r4 \in ShopRow /\ r4.pc = "done"
    BY <1>2, <1>5, ShopFields
  <1> HIDE DEF r4
  <1>7. ShopRuled(r4) /\ r4.pc \notin {"send", "note"}
    BY <1>6 DEF ShopRuled
  <1>8. /\ shopWatch' \in [ShopWatches -> ShopWatching]
        /\ UNCHANGED <<shopNow, shopContact, shopSent>>
    BY ShopInvFacts, ShopTyped DEF ShopCrash
  <1> QED BY <1>1, <1>6, <1>7, <1>8, ShopQuiet

\* Time only takes contacts out of the day.
LEMMA ShopTickInv == ASSUME ShopInv, ShopTick PROVE ShopInv'
  <1>1. /\ shopNow \in Nat /\ shopNow' = shopNow + 1 /\ shopNow' \in 0..ShopHorizon
        /\ UNCHANGED <<shopWatch, shopRun, shopContact, shopSent>>
    BY ShopInvFacts, ShopTyped, ShopAssumption DEF ShopTick
  <1>2. ShopTypeOK'
    BY <1>1, ShopInvFacts, ShopTyped DEF ShopTypeOK, ShopContacts, ShopWatching
  <1>3. ShopContacted' = ShopContacted
    BY <1>1 DEF ShopContacted
  <1>4. ShopRecent' \subseteq ShopRecent
    <2> SUFFICES ASSUME NEW l \in ShopContacted, shopContact[l].at > shopNow + 1 - ShopDay
                 PROVE  shopContact[l].at > shopNow - ShopDay
      <3>1. ShopRecent' = {l \in ShopContacted' : shopContact'[l].at > shopNow' - ShopDay}
        BY DEF ShopRecent
      <3>2. ShopRecent = {l \in ShopContacted : shopContact[l].at > shopNow - ShopDay}
        BY DEF ShopRecent
      <3>3. \A l \in ShopRecent' : l \in ShopContacted /\ shopContact[l].at > shopNow' - ShopDay
        BY <1>1, <1>3, <3>1
      <3>4. shopNow' - ShopDay = shopNow + 1 - ShopDay
        BY <1>1, ShopAssumption
      <3> QED BY <3>2, <3>3, <3>4
    <2>1. shopContact[l].at \in Nat
      BY ShopInvFacts, ShopTyped DEF ShopContacted, ShopContacts
    <2> QED BY <1>1, <2>1, ShopAssumption
  <1>5. Cardinality(ShopRecent') <= ShopDaily
    <2>1. /\ IsFiniteSet(ShopRecent) /\ Cardinality(ShopRecent) <= ShopDaily
          /\ ShopDaily \in Nat
      BY ShopInvFacts, ShopAssumption
    <2>2. /\ Cardinality(ShopRecent') <= Cardinality(ShopRecent)
          /\ IsFiniteSet(ShopRecent')
      BY <1>4, <2>1, FS_Subset
    <2>3. Cardinality(ShopRecent') \in Nat /\ Cardinality(ShopRecent) \in Nat
      BY <2>1, <2>2, FS_CardinalityType
    <2> QED BY <2>1, <2>2, <2>3
  <1> QED BY <1>1, <1>2, <1>3, <1>5, ShopInvFacts DEF ShopInv, ShopWithinDay

LEMMA ShopSoundRow ==
    ASSUME ShopInv, NEW k \in DOMAIN shopRun
    PROVE  /\ shopRun[k] \in ShopRow /\ shopRun[k].watch \in ShopWatches
           /\ shopRun[k].pc \in {"claim", "send", "note"} => shopRun[k].pick \in ShopListings
           /\ shopRun[k].pc \in {"send", "note"} => shopRun[k].pick \in ShopContacted
           /\ shopRun[k].pc = "send" => shopSent[shopRun[k].pick] = 0
           /\ \A j \in DOMAIN shopRun : j # k /\ shopRun[k].pc = "send" /\ shopRun[j].pc = "send" =>
                 shopRun[k].pick # shopRun[j].pick
  <1>1. ShopRunsSound(shopRun, shopContact, shopSent)
    BY ShopInvFacts
  <1>2. shopRun[k] \in ShopRow
    BY ShopInvFacts, ShopTyped
  <1>3. shopRun[k].watch \in ShopWatches
    BY <1>2, ShopRowFields
  <1>4. shopRun[k].pc \in {"claim", "send", "note"} => shopRun[k].pick \in ShopListings
    BY <1>1 DEF ShopRunsSound, ShopRuled
  <1>5. shopRun[k].pc \in {"send", "note"} => shopRun[k].pick \in ShopContacted
    BY <1>1, <1>4 DEF ShopRunsSound, ShopContacted
  <1> QED BY <1>1, <1>2, <1>3, <1>4, <1>5 DEF ShopRunsSound

LEMMA ShopContactPut ==
    ASSUME NEW c \in ShopContacts, NEW status \in {"needs_owner", "clicked", "confirmed", "unknown", "on_hold"}
    PROVE  /\ [c EXCEPT !.status = status] \in ShopContacts
           /\ [c EXCEPT !.status = status].status = status
           /\ [c EXCEPT !.status = status].at = c.at
  BY DEF ShopContacts

\* A contact whose outcome changes stays a contact of the same day.
LEMMA ShopMarked ==
    ASSUME ShopInv, NEW l \in ShopContacted,
           NEW status \in {"needs_owner", "clicked", "confirmed", "unknown", "on_hold"},
           shopContact' = [shopContact EXCEPT ![l].status = status], UNCHANGED shopNow
    PROVE  /\ shopContact' \in [ShopListings -> ShopContacts]
           /\ ShopContacted' = ShopContacted /\ ShopRecent' = ShopRecent
           /\ \A x \in ShopListings : shopContact[x].status # "none" => shopContact'[x].status # "none"
  <1> DEFINE c == [shopContact[l] EXCEPT !.status = status]
  <1>1. shopContact \in [ShopListings -> ShopContacts] /\ l \in ShopListings
    BY ShopInvFacts, ShopTyped DEF ShopContacted
  <1>2. c \in ShopContacts /\ c.status = status /\ c.at = shopContact[l].at
    BY <1>1, ShopContactPut
  <1>3. shopContact' = [shopContact EXCEPT ![l] = c]
    OBVIOUS
  <1> HIDE DEF c
  <1>4. shopContact' \in [ShopListings -> ShopContacts]
    BY <1>1, <1>2, <1>3
  <1>5. shopContact[l].status # "none" /\ c.status # "none"
    BY <1>2 DEF ShopContacted
  <1>6. \A x \in ShopListings : /\ shopContact[x].status # "none" <=> shopContact'[x].status # "none"
                                /\ shopContact'[x].at = shopContact[x].at
    BY <1>1, <1>2, <1>3, <1>5
  <1>7. ShopContacted' = ShopContacted
    BY <1>6 DEF ShopContacted
  <1>8. ShopRecent' = ShopRecent
    <2>1. ShopContacted \subseteq ShopListings
      BY DEF ShopContacted
    <2> QED BY <1>6, <1>7, <2>1 DEF ShopRecent
  <1> QED BY <1>4, <1>6, <1>7, <1>8

LEMMA ShopSentKept ==
    ASSUME NEW c1, NEW c2, NEW s, ShopSentOnce(c1, s),
           \A x \in ShopListings : c1[x].status # "none" => c2[x].status # "none"
    PROVE  ShopSentOnce(c2, s)
  BY DEF ShopSentOnce

LEMMA ShopHoldInv == ASSUME ShopInv, NEW w \in ShopWatches, ShopHold(w) PROVE ShopInv'
  <1>1. UNCHANGED <<shopNow, shopWatch, shopRun, shopSent>>
    BY DEF ShopHold
  <1>2. PICK l \in ShopContacted : shopContact' = [shopContact EXCEPT ![l].status = "on_hold"]
    BY DEF ShopHold
  <1>3. /\ shopContact' \in [ShopListings -> ShopContacts]
        /\ ShopContacted' = ShopContacted /\ ShopRecent' = ShopRecent
        /\ \A x \in ShopListings : shopContact[x].status # "none" => shopContact'[x].status # "none"
    BY <1>1, <1>2, ShopMarked
  <1>4. ShopTypeOK'
    BY <1>1, <1>3, ShopInvFacts, ShopTyped DEF ShopTypeOK, ShopContacts, ShopWatching
  <1>5. ShopRunsSound(shopRun, shopContact', shopSent)
    BY <1>3, ShopInvFacts DEF ShopRunsSound, ShopRuled
  <1>6. ShopSentOnce(shopContact', shopSent)
    BY <1>3, ShopInvFacts, ShopSentKept
  <1>7. ShopRunsSound(shopRun', shopContact', shopSent') /\ ShopSentOnce(shopContact', shopSent')
    BY <1>1, <1>5, <1>6
  <1> QED BY <1>1, <1>3, <1>4, <1>7, ShopInvFacts DEF ShopInv, ShopWithinDay

LEMMA ShopNoteInv ==
    ASSUME ShopInv, NEW k \in DOMAIN shopRun,
           NEW status \in {"needs_owner", "clicked", "confirmed", "unknown"}, ShopNote(k, status)
    PROVE  ShopInv'
  <1> DEFINE l == shopRun[k].pick
  <1>1. /\ UNCHANGED <<shopNow, shopWatch, shopSent>> /\ ShopGo(k, "finish")
        /\ shopRun[k].pc = "note" /\ shopContact' = [shopContact EXCEPT ![l].status = status]
    BY DEF ShopNote
  <1>2. l \in ShopContacted /\ "finish" \in ShopPcs
    BY <1>1, ShopSoundRow DEF ShopPcs
  <1> HIDE DEF l
  <1>3. /\ shopContact' \in [ShopListings -> ShopContacts]
        /\ ShopContacted' = ShopContacted /\ ShopRecent' = ShopRecent
        /\ \A x \in ShopListings : shopContact[x].status # "none" => shopContact'[x].status # "none"
    BY <1>1, <1>2, ShopMarked
  <1>4. PICK row \in ShopRow : row.pc = "finish" /\ shopRun' = [shopRun EXCEPT ![k] = row]
    BY <1>1, <1>2, ShopInvFacts, ShopGoes
  <1>5. shopRun' \in Seq(ShopRow) /\ Len(shopRun') = Len(shopRun)
    BY <1>4, ShopInvFacts, ShopTyped, ShopPut
  <1>6. ShopTypeOK'
    BY <1>1, <1>3, <1>5, ShopInvFacts, ShopTyped DEF ShopTypeOK, ShopContacts, ShopWatching
  <1>7. ShopRunsSound(shopRun', shopContact', shopSent)
    <2>1. ShopRuled(row) /\ row.pc \notin {"send", "note"}
      BY <1>4 DEF ShopRuled
    <2>2. shopRun \in Seq(ShopRow) /\ ShopRunsSound(shopRun, shopContact, shopSent)
      BY ShopInvFacts, ShopTyped
    <2> QED BY <1>3, <1>4, <2>1, <2>2, ShopOneRow
  <1>8. ShopSentOnce(shopContact', shopSent)
    BY <1>3, ShopInvFacts, ShopSentKept
  <1>9. ShopRunsSound(shopRun', shopContact', shopSent') /\ ShopSentOnce(shopContact', shopSent')
    BY <1>1, <1>7, <1>8
  <1> QED BY <1>1, <1>3, <1>5, <1>6, <1>9, ShopInvFacts DEF ShopInv, ShopWithinDay

LEMMA ShopClaimInv == ASSUME ShopInv, NEW k \in DOMAIN shopRun, ShopClaim(k) PROVE ShopInv'
  <1> DEFINE l == shopRun[k].pick
             c == [watch |-> shopRun[k].watch, at |-> shopNow, status |-> "attempted"]
  <1>1. UNCHANGED <<shopNow, shopWatch, shopSent>> /\ shopRun[k].pc = "claim"
    BY DEF ShopClaim
  <1>2. CASE ShopGo(k, "finish") /\ UNCHANGED shopContact
    BY <1>1, <1>2, ShopGoesOut
  <1>3. CASE /\ ShopRoom /\ ShopFree(l) /\ shopContact' = [shopContact EXCEPT ![l] = c]
             /\ ShopGo(k, "send")
    <2>1. /\ l \in ShopListings /\ "send" \in ShopPcs /\ shopRun[k].watch \in ShopWatches
          /\ l \notin ShopContacted
      BY <1>1, <1>3, ShopSoundRow DEF ShopPcs, ShopFree
    <2>2. c \in ShopContacts /\ c.status = "attempted"
      <3>1. shopNow \in 0..ShopHorizon
        BY ShopInvFacts, ShopTyped
      <3> QED BY <2>1, <3>1 DEF ShopContacts
    <2>3. PICK row \in ShopRow : /\ row.pc = "send" /\ row.pick = l
                                 /\ shopRun' = [shopRun EXCEPT ![k] = row]
      BY <1>3, <2>1, ShopInvFacts, ShopGoes
    <2>4. shopContact' = [shopContact EXCEPT ![l] = c]
      BY <1>3
    <2> HIDE DEF l, c
    <2>5. /\ shopContact \in [ShopListings -> ShopContacts]
          /\ shopContact' \in [ShopListings -> ShopContacts] /\ shopContact'[l] = c
          /\ \A x \in ShopListings : x # l => shopContact'[x] = shopContact[x]
      BY <2>1, <2>2, <2>4, ShopInvFacts, ShopTyped
    <2>6. \A x \in ShopListings : shopContact[x].status # "none" => shopContact'[x].status # "none"
      BY <2>2, <2>5
    <2>7. shopRun' \in Seq(ShopRow) /\ Len(shopRun') = Len(shopRun)
      BY <2>3, ShopInvFacts, ShopTyped, ShopPut
    <2>8. ShopTypeOK'
      BY <1>1, <2>5, <2>7, ShopInvFacts, ShopTyped DEF ShopTypeOK, ShopContacts, ShopWatching
    <2>9. ShopRunsSound(shopRun', shopContact', shopSent)
      <3>1. ShopRuled(row) /\ shopContact'[row.pick].status # "none"
        BY <2>1, <2>2, <2>3, <2>5 DEF ShopRuled
      <3>2. shopSent[l] = 0
        BY <2>1, ShopInvFacts DEF ShopSentOnce, ShopContacted
      <3>3. \A j \in DOMAIN shopRun : shopRun[j].pc = "send" => shopRun[j].pick # l
        BY <2>1, ShopSoundRow
      <3>4. shopRun \in Seq(ShopRow) /\ ShopRunsSound(shopRun, shopContact, shopSent)
        BY ShopInvFacts, ShopTyped
      <3> QED BY <2>3, <2>6, <3>1, <3>2, <3>3, <3>4, ShopOneRow
    <2>10. ShopSentOnce(shopContact', shopSent)
      BY <2>6, ShopInvFacts, ShopSentKept
    <2>11. ShopRunsSound(shopRun', shopContact', shopSent') /\ ShopSentOnce(shopContact', shopSent')
      BY <1>1, <2>9, <2>10
    <2>12. /\ IsFiniteSet(ShopContacted \cup {l}) /\ IsFiniteSet(ShopRecent \cup {l})
           /\ Cardinality(ShopRecent \cup {l}) <= ShopDaily
      <3>1. l \notin ShopRecent
        BY <2>1 DEF ShopRecent
      <3>2. /\ IsFiniteSet(ShopRecent \cup {l}) /\ IsFiniteSet(ShopContacted \cup {l})
            /\ Cardinality(ShopRecent \cup {l}) = Cardinality(ShopRecent) + 1
        BY <3>1, ShopInvFacts, FS_AddElement
      <3>3. Cardinality(ShopRecent) < ShopDaily /\ Cardinality(ShopRecent) \in Nat
        BY <1>3, ShopInvFacts, FS_CardinalityType DEF ShopRoom
      <3> QED BY <3>2, <3>3, ShopAssumption
    <2>13. ShopContacted' \subseteq ShopContacted \cup {l}
      BY <2>5 DEF ShopContacted
    <2>14. ShopRecent' \subseteq ShopRecent \cup {l}
      <3>1. ShopRecent' = {x \in ShopContacted' : shopContact'[x].at > shopNow - ShopDay}
        BY <1>1 DEF ShopRecent
      <3>2. ShopRecent = {x \in ShopContacted : shopContact[x].at > shopNow - ShopDay}
        BY DEF ShopRecent
      <3>3. \A x \in ShopContacted : x \in ShopListings
        BY DEF ShopContacted
      <3> QED BY <2>5, <2>13, <3>1, <3>2, <3>3
    <2>15. IsFiniteSet(ShopContacted')
      BY <2>12, <2>13, FS_Subset
    <2>16. Cardinality(ShopRecent') <= ShopDaily
      <3>1. /\ Cardinality(ShopRecent') <= Cardinality(ShopRecent \cup {l})
            /\ IsFiniteSet(ShopRecent')
        BY <2>12, <2>14, FS_Subset
      <3>2. Cardinality(ShopRecent') \in Nat /\ Cardinality(ShopRecent \cup {l}) \in Nat
        BY <2>12, <3>1, FS_CardinalityType
      <3> QED BY <2>12, <3>1, <3>2, ShopAssumption
    <2> QED BY <2>7, <2>8, <2>11, <2>15, <2>16, ShopInvFacts DEF ShopInv, ShopWithinDay
  <1> QED BY <1>2, <1>3 DEF ShopClaim

LEMMA ShopSendInv == ASSUME ShopInv, NEW k \in DOMAIN shopRun, ShopSend(k) PROVE ShopInv'
  <1> DEFINE l == shopRun[k].pick
  <1>1. /\ UNCHANGED <<shopNow, shopWatch, shopContact>> /\ shopRun[k].pc = "send"
        /\ shopSent' = shopSent \/ shopSent' = [shopSent EXCEPT ![l] = @ + 1]
        /\ ShopGo(k, "note") \/ ShopGo(k, "finish")
    BY DEF ShopSend
  <1>2. /\ l \in ShopContacted /\ l \in ShopListings /\ shopSent[l] = 0
        /\ \A j \in DOMAIN shopRun : j # k /\ shopRun[j].pc = "send" => shopRun[j].pick # l
        /\ \A j \in DOMAIN shopRun : shopRun[j].pc = "send" => shopRun[j].pick \in ShopListings
    BY <1>1, ShopSoundRow
  <1>3. PICK row \in ShopRow : /\ \/ row.pc = "note" /\ row.pick = l
                                  \/ row.pc = "finish"
                               /\ shopRun' = [shopRun EXCEPT ![k] = row]
    <2>1. "note" \in ShopPcs /\ "finish" \in ShopPcs
      BY DEF ShopPcs
    <2>2. CASE ShopGo(k, "note")
      BY <2>1, <2>2, ShopInvFacts, ShopGoes
    <2>3. CASE ShopGo(k, "finish")
      BY <2>1, <2>3, ShopInvFacts, ShopGoes
    <2> QED BY <1>1, <2>2, <2>3
  <1> HIDE DEF l
  <1>4. shopSent \in [ShopListings -> 0..ShopRuns] /\ 1 \in 0..ShopRuns
    <2>1. Len(shopRun) \in Nat /\ DOMAIN shopRun = 1..Len(shopRun) /\ Len(shopRun) <= ShopRuns
      BY ShopInvFacts, ShopTyped
    <2>2. k \in 1..Len(shopRun)
      BY <2>1
    <2>3. 1 \in 0..ShopRuns
      BY <2>1, <2>2, ShopAssumption
    <2> QED BY <2>3, ShopInvFacts, ShopTyped
  <1>5. shopSent' = shopSent \/ shopSent' = [shopSent EXCEPT ![l] = 1]
    BY <1>1, <1>2, <1>4
  <1>6. /\ shopSent' \in [ShopListings -> 0..ShopRuns]
        /\ \A x \in ShopListings : x # l => shopSent'[x] = shopSent[x]
        /\ shopSent'[l] \in 0..1
    BY <1>2, <1>4, <1>5
  <1>7. shopRun' \in Seq(ShopRow) /\ Len(shopRun') = Len(shopRun)
    BY <1>3, ShopInvFacts, ShopTyped, ShopPut
  <1>8. ShopTypeOK'
    BY <1>1, <1>6, <1>7, ShopInvFacts, ShopTyped DEF ShopTypeOK, ShopContacts, ShopWatching
  <1>9. ShopRunsSound(shopRun', shopContact, shopSent')
    <2>1. /\ ShopRuled(row) /\ row.pc # "send"
          /\ row.pc \in {"send", "note"} => shopContact[row.pick].status # "none"
      BY <1>2, <1>3 DEF ShopRuled, ShopContacted
    <2>2. \A j \in DOMAIN shopRun : j # k /\ shopRun[j].pc = "send" =>
             shopSent'[shopRun[j].pick] = shopSent[shopRun[j].pick]
      BY <1>2, <1>6
    <2>3. shopRun \in Seq(ShopRow) /\ ShopRunsSound(shopRun, shopContact, shopSent)
      BY ShopInvFacts, ShopTyped
    <2> QED BY <1>3, <2>1, <2>2, <2>3, ShopOneRow
  <1>10. ShopSentOnce(shopContact, shopSent')
    BY <1>2, <1>6, ShopInvFacts DEF ShopSentOnce, ShopContacted
  <1>11. ShopRunsSound(shopRun', shopContact', shopSent') /\ ShopSentOnce(shopContact', shopSent')
    BY <1>1, <1>9, <1>10
  <1>12. ShopContacted' = ShopContacted /\ ShopRecent' = ShopRecent
    BY <1>1 DEF ShopContacted, ShopRecent
  <1> QED BY <1>7, <1>8, <1>11, <1>12, ShopInvFacts DEF ShopInv, ShopWithinDay

\* A new search stands at its beginning; the searches it takes for dead keep
\* their place.
LEMMA ShopStartInv ==
    ASSUME ShopInv, NEW w \in ShopWatches, NEW due \in BOOLEAN, ShopStart(w, due)
    PROVE  ShopInv'
  <1> DEFINE active == {k \in ShopRunsOf(w) : shopRun[k].status = "running"}
             marked == [k \in DOMAIN shopRun |->
                 IF k \in active THEN [shopRun[k] EXCEPT !.status = "interrupted"] ELSE shopRun[k]]
             new == [watch |-> w, at |-> shopNow, status |-> "running", pc |-> "search",
                     matches |-> {}, pick |-> ShopNone, ends |-> "disconnected"]
             n == Len(shopRun)
  <1>1. /\ shopRun' = Append(marked, new) /\ n < ShopRuns
        /\ shopWatch' = [shopWatch EXCEPT ![w].next = shopNow + ShopWeek]
        /\ UNCHANGED <<shopNow, shopContact, shopSent>>
    BY DEF ShopStart
  <1>2. /\ shopRun \in Seq(ShopRow) /\ n \in Nat /\ DOMAIN shopRun = 1..n
        /\ \A k \in 1..n : shopRun[k] \in ShopRow
    BY ShopInvFacts, ShopTyped
  <1> HIDE DEF active
  <1>3. \A k \in 1..n : /\ marked[k] \in ShopRow /\ marked[k].pc = shopRun[k].pc
                         /\ marked[k].pick = shopRun[k].pick
    BY <1>2, ShopFields DEF ShopStates
  <1>4. marked \in Seq(ShopRow) /\ Len(marked) = n /\ DOMAIN marked = 1..n
    <2>1. marked = [k \in 1..n |-> marked[k]]
      BY <1>2
    <2>2. DOMAIN marked = 1..n
      BY <1>2
    <2> HIDE DEF marked
    <2>3. [k \in 1..n |-> marked[k]] \in Seq(ShopRow)
      BY <1>2, <1>3, SeqDef
    <2> QED BY <1>2, <2>1, <2>2, <2>3, LenProperties
  <1> HIDE DEF marked
  <1>5. new \in ShopRow /\ new.pc = "search"
    <2>1. shopNow \in 0..ShopHorizon
      BY ShopInvFacts, ShopTyped
    <2> QED BY <2>1 DEF ShopRow
  <1> HIDE DEF new
  <1>6. /\ shopRun' \in Seq(ShopRow) /\ Len(shopRun') = n + 1 /\ DOMAIN shopRun' = 1..n + 1
        /\ \A k \in 1..n : shopRun'[k] = marked[k]
        /\ shopRun'[n + 1] = new
    BY <1>1, <1>2, <1>4, <1>5, AppendProperties
  <1>7. \A k \in 1..n + 1 : k \in 1..n \/ k = n + 1
    BY <1>2
  <1>8. \A k \in 1..n + 1 : \/ k \in 1..n /\ shopRun'[k].pc = shopRun[k].pc
                                          /\ shopRun'[k].pick = shopRun[k].pick
                            \/ shopRun'[k].pc = "search"
    BY <1>3, <1>5, <1>6, <1>7
  <1>9. ShopRunsSound(shopRun', shopContact, shopSent)
    <2>1. ShopRunsSound(shopRun, shopContact, shopSent)
      BY ShopInvFacts
    <2>2. \A k \in 1..n + 1 :
            /\ ShopRuled(shopRun'[k])
            /\ shopRun'[k].pc \in {"send", "note"} => shopContact[shopRun'[k].pick].status # "none"
            /\ shopRun'[k].pc = "send" => shopSent[shopRun'[k].pick] = 0
      BY <1>2, <1>8, <2>1 DEF ShopRunsSound, ShopRuled
    <2>3. \A k, j \in 1..n + 1 :
            k # j /\ shopRun'[k].pc = "send" /\ shopRun'[j].pc = "send" =>
                shopRun'[k].pick # shopRun'[j].pick
      BY <1>2, <1>8, <2>1 DEF ShopRunsSound
    <2> QED BY <1>6, <2>2, <2>3 DEF ShopRunsSound
  <1>10. shopWatch' \in [ShopWatches -> ShopWatching]
    <2>1. shopWatch \in [ShopWatches -> ShopWatching]
      BY ShopInvFacts, ShopTyped
    <2>2. [shopWatch[w] EXCEPT !.next = shopNow + ShopWeek] \in ShopWatching
      BY <2>1, ShopInvFacts, ShopLater, ShopWatchPut
    <2>3. shopWatch' = [shopWatch EXCEPT ![w] = [shopWatch[w] EXCEPT !.next = shopNow + ShopWeek]]
      BY <1>1
    <2> QED BY <2>1, <2>2, <2>3
  <1>11. ShopTypeOK'
    BY <1>1, <1>6, <1>10, ShopInvFacts, ShopTyped DEF ShopTypeOK, ShopContacts, ShopWatching
  <1>12. Len(shopRun') <= ShopRuns
    BY <1>1, <1>2, <1>6, ShopAssumption
  <1>13. ShopContacted' = ShopContacted /\ ShopRecent' = ShopRecent
    BY <1>1 DEF ShopContacted, ShopRecent
  <1>14. ShopRunsSound(shopRun', shopContact', shopSent') /\ ShopSentOnce(shopContact', shopSent')
    BY <1>1, <1>9, ShopInvFacts
  <1> QED BY <1>11, <1>12, <1>13, <1>14, ShopInvFacts DEF ShopInv, ShopWithinDay

LEMMA ShopNextInv == ShopInv /\ [ShopNext]_shopVars => ShopInv'
  <1> SUFFICES ASSUME ShopInv, [ShopNext]_shopVars PROVE ShopInv'
    OBVIOUS
  <1>1. CASE UNCHANGED shopVars
    BY <1>1, ShopInvFacts, ShopTyped, ShopStill DEF shopVars
  <1>2. ASSUME NEW w \in ShopWatches,
               \/ ShopCreate(w) \/ ShopHold(w)
               \/ \E st \in {"on", "off"} : ShopSetEnabled(w, st)
               \/ \E due \in BOOLEAN : ShopStart(w, due)
        PROVE  ShopInv'
    BY <1>2, ShopCreateInv, ShopHoldInv, ShopSetEnabledInv, ShopStartInv
  <1>3. ASSUME NEW k \in DOMAIN shopRun,
               \/ \E ends \in ShopEnds, matches \in SUBSET ShopListings : ShopSearch(k, ends, matches)
               \/ ShopPick(k) \/ ShopClaim(k) \/ ShopSend(k)
               \/ \E status \in {"needs_owner", "clicked", "confirmed", "unknown"} : ShopNote(k, status)
               \/ ShopFinish(k) \/ ShopCrash(k)
        PROVE  ShopInv'
    BY <1>3, ShopSearchInv, ShopPickInv, ShopClaimInv, ShopSendInv, ShopNoteInv, ShopFinishInv, ShopCrashInv
  <1>4. CASE ShopTick
    BY <1>4, ShopTickInv
  <1> QED BY <1>1, <1>2, <1>3, <1>4 DEF ShopNext, ShopEnds

\* run, contact: whatever watches are searched, however many searches run beside
\* one another and wherever they stop, a seller gets at most one first message,
\* and the contacts of a day stay within the limit.
THEOREM SellersAreWrittenToOnce == ShopSpec => []ShopSafe
  <1>1. ShopInv => ShopSafe
    <2> SUFFICES ASSUME ShopInv PROVE ShopTypeOK /\ ShopContactOnce /\ ShopWithinDay
      BY DEF ShopSafe
    <2>1. ShopContactOnce
      <3>1. \A l \in ShopListings : shopSent[l] \in 0..1 /\ (shopSent[l] = 1 => l \in ShopContacted)
        BY ShopInvFacts DEF ShopSentOnce, ShopContacted
      <3> QED BY <3>1 DEF ShopContactOnce
    <2> QED BY <2>1 DEF ShopInv
  <1> QED BY <1>1, ShopInitInv, ShopNextInv, PTL DEF ShopSpec
=============================================================================
