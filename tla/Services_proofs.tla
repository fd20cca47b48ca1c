-------------------------- MODULE Services_proofs ---------------------------
(***************************************************************************)
(* Proofs about the services: code builds, personal tasks, the chat, the   *)
(* thermal guard, the GPU lease, learning and learned skills, for every    *)
(* set of requests and any number of crashes.                              *)
(***************************************************************************)
EXTENDS CodeBuild, PersonalTasks, Chat, ThermalGuard, GpuLease, Learning, Skills,
        WellFoundedInduction, SequenceTheorems, TLAPS
-----------------------------------------------------------------------------
(* CodeBuild *)

CbStatus == {"absent", "queued", "building", "ready", "built", "failed"}
CbTaskStatus == {"absent", "new", "active", "waiting", "blocked", "done"}
CbSteps == {"fail", "tellfail", "finish", "activate", "generate", "result"}

CbTypes ==
    /\ cbRow \in [CbBuilds -> [status : CbStatus, payload : {CbNone, "bad", "plain", "tool"}]]
    /\ cbTask \in [CbBuilds -> [parent : CbTaskStatus, child : CbTaskStatus]]
    /\ cbMade \in [CbBuilds -> [parent : {0, 1}, child : {0, 1}]]
    /\ cbLeft \in [CbBuilds -> {0, 1}]
    /\ cbEnq \in {CbIdle} \cup [at : {"parent", "child", "row"}, b : CbBuilds, k : {1}]
    /\ cbWork \in {CbIdle, [at |-> "scan", b |-> CbNone, k |-> 1]}
                  \cup [at : CbSteps, b : CbBuilds, k : 1..5]

\* A task was made before it is there, and the request that makes tasks has no
\* row yet.
CbTasksMade ==
    /\ \A b \in CbBuilds : /\ cbMade[b].parent = 1 => cbTask[b].parent # "absent"
                           /\ cbMade[b].child = 1 => cbTask[b].child # "absent"
    /\ cbEnq # CbIdle => cbRow[cbEnq.b].status = "absent"

\* What is queued has left nothing behind, and the status of the row says where
\* the worker is with it.
CbAttempts ==
    /\ \A b \in CbBuilds : cbRow[b].status \in {"absent", "queued"} => cbLeft[b] = 0
    /\ cbWork.at \in {"activate", "generate", "result", "fail"} =>
          cbRow[cbWork.b].status = "building"
    /\ cbWork.at \in {"activate", "generate"} => cbLeft[cbWork.b] = 0
    /\ cbWork.at = "finish" => cbRow[cbWork.b].status = "ready"
    /\ cbWork.at = "result" => cbLeft[cbWork.b] = 1

\* What finish has done up to its step k, and what done means.
CbFinished ==
    /\ cbWork.at = "finish" =>
          /\ cbWork.k > 1 /\ CbRegisters(cbWork.b) => cbWork.b \in cbTools
          /\ cbWork.k > 4 => <<"built", cbWork.b>> \in cbTold
    /\ \A b \in CbBuilds : cbTask[b].parent = "done" =>
          cbRow[b].status \in {"ready", "built"} /\ b \in cbTools /\ CbComplete(b)

CbInv == CbTypes /\ CbTasksMade /\ CbAttempts /\ CbFinished /\ CbBuiltIsTold

LEMMA CbInvInit == CbInit => CbInv
  <1> SUFFICES ASSUME CbInit PROVE CbInv
    OBVIOUS
  <1>1. CbTypes
    BY DEF CbInit, CbTypes, CbStatus, CbTaskStatus
  <1>2. CbTasksMade /\ CbAttempts /\ CbFinished /\ CbBuiltIsTold
    BY DEF CbInit, CbTasksMade, CbAttempts, CbFinished, CbBuiltIsTold, CbIn, CbIdle
  <1> QED
    BY <1>1, <1>2 DEF CbInv

\* Away from its scan the worker is at a step of one build.
LEMMA CbAtStep ==
    ASSUME CbTypes, cbWork.at \in CbSteps
    PROVE  cbWork \in [at : CbSteps, b : CbBuilds, k : 1..5]
  BY DEF CbTypes, CbSteps, CbIdle

\* A request is looked up, its tasks and its row are made.
LEMMA CbEnqueueSteps ==
    ASSUME CbInv,
           \/ CbEnqueueRow \/ \E w \in {"parent", "child"} : CbEnqueueTask(w)
           \/ \E b \in CbBuilds : CbEnqueue(b)
    PROVE  CbInv'
  <1>1. CASE \E b \in CbBuilds : CbEnqueue(b)
    BY <1>1 DEF CbInv, CbTypes, CbTasksMade, CbAttempts, CbFinished, CbBuiltIsTold, CbIn,
                CbEnqueue, CbIdle, CbRegisters, CbComplete
  <1>2. ASSUME NEW w \in {"parent", "child"}, CbEnqueueTask(w) PROVE CbInv'
    <2>1. PICK b \in CbBuilds : b = cbEnq.b /\ cbEnq = [at |-> w, b |-> b, k |-> 1]
      BY <1>2 DEF CbInv, CbTypes, CbEnqueueTask, CbIdle
    <2>2. /\ cbEnq' = [at |-> IF w = "parent" THEN "child" ELSE "row", b |-> b, k |-> 1]
          /\ UNCHANGED <<cbRow, cbWork, cbLeft, cbTools, cbTold>>
      BY <1>2, <2>1 DEF CbEnqueueTask
    <2>3. /\ cbTask' \in [CbBuilds -> [parent : CbTaskStatus, child : CbTaskStatus]]
          /\ cbMade' \in [CbBuilds -> [parent : {0, 1}, child : {0, 1}]]
          /\ \A c \in CbBuilds : /\ cbMade'[c].parent = 1 => cbTask'[c].parent # "absent"
                                 /\ cbMade'[c].child = 1 => cbTask'[c].child # "absent"
                                 /\ cbTask'[c].parent = "done" => cbTask[c].parent = "done"
      <3>1. CASE ~CbNeedsTask(b, w)
        <4>1. UNCHANGED <<cbTask, cbMade>>
          BY <1>2, <2>1, <3>1 DEF CbEnqueueTask
        <4> QED
          BY <4>1 DEF CbInv, CbTypes, CbTasksMade
      <3>2. CASE CbNeedsTask(b, w) /\ w = "parent"
        <4>1. /\ cbTask' = [cbTask EXCEPT ![b]["parent"] = "new"]
              /\ cbMade' = [cbMade EXCEPT ![b]["parent"] = @ + 1]
              /\ cbTask[b]["parent"] = "absent"
          BY <1>2, <2>1, <3>2 DEF CbEnqueueTask, CbNeedsTask
        <4>2. cbMade[b].parent = 0
          BY <4>1 DEF CbInv, CbTypes, CbTasksMade
        <4> QED
          BY <4>1, <4>2, SMTT(30) DEF CbInv, CbTypes, CbTasksMade, CbTaskStatus
      <3>3. CASE CbNeedsTask(b, w) /\ w = "child"
        <4>1. /\ cbTask' = [cbTask EXCEPT ![b]["child"] = "new"]
              /\ cbMade' = [cbMade EXCEPT ![b]["child"] = @ + 1]
              /\ cbTask[b]["child"] = "absent"
          BY <1>2, <2>1, <3>3 DEF CbEnqueueTask, CbNeedsTask
        <4>2. cbMade[b].child = 0
          BY <4>1 DEF CbInv, CbTypes, CbTasksMade
        <4> QED
          BY <4>1, <4>2 DEF CbInv, CbTypes, CbTasksMade, CbTaskStatus
      <3> QED
        BY <3>1, <3>2, <3>3
    <2>4. CbTypes' /\ CbTasksMade'
      BY <2>1, <2>2, <2>3 DEF CbInv, CbTypes, CbTasksMade, CbIdle
    <2>5. CbAttempts' /\ CbFinished' /\ CbBuiltIsTold'
      BY <2>2, <2>3 DEF CbInv, CbAttempts, CbFinished, CbBuiltIsTold, CbIn, CbRegisters, CbComplete
    <2> QED
      BY <2>4, <2>5 DEF CbInv
  <1>3. CASE CbEnqueueRow
    <2>1. PICK b \in CbBuilds : b = cbEnq.b /\ cbEnq.at = "row"
      BY <1>3 DEF CbInv, CbTypes, CbEnqueueRow, CbIdle
    <2>2. cbRow[b].status = "absent"
      BY <2>1 DEF CbInv, CbTasksMade, CbIdle
    <2>3. /\ cbRow'[b].status = "queued" /\ \A c \in CbBuilds : cbRow'[c].payload = cbRow[c].payload
          /\ \A c \in CbBuilds \ {b} : cbRow'[c] = cbRow[c]
          /\ cbRow' \in [CbBuilds -> [status : CbStatus, payload : {CbNone, "bad", "plain", "tool"}]]
          /\ cbEnq' = CbIdle /\ UNCHANGED <<cbTask, cbMade, cbWork, cbLeft, cbTools, cbTold>>
      BY <1>3, <2>1 DEF CbInv, CbTypes, CbEnqueueRow, CbStatus
    <2>4. CbTypes' /\ CbTasksMade'
      BY <2>3 DEF CbInv, CbTypes, CbTasksMade
    <2>5. cbWork.at \in {"activate", "generate", "result", "fail", "finish"} =>
             cbWork.b \in CbBuilds \ {b}
      BY <2>2, CbAtStep DEF CbInv, CbAttempts, CbSteps
    <2>6. cbLeft[b] = 0
      BY <2>2 DEF CbInv, CbAttempts
    <2>7. CbAttempts'
      BY <2>2, <2>3, <2>5, <2>6 DEF CbInv, CbAttempts
    <2>8. CbFinished' /\ CbBuiltIsTold'
      BY <2>2, <2>3, <2>5 DEF CbInv, CbFinished, CbBuiltIsTold, CbIn, CbRegisters, CbComplete
    <2> QED
      BY <2>4, <2>7, <2>8 DEF CbInv
  <1> QED
    BY <1>1, <1>2, <1>3

\* The worker looks around, is stopped or dies: only where it is changes.
LEMMA CbMovesOnly ==
    ASSUME CbInv, UNCHANGED <<cbRow, cbTask, cbMade, cbLeft, cbTools, cbTold>>,
           cbEnq' \in {cbEnq, CbIdle},
           \/ cbWork' \in {cbWork, CbIdle, [at |-> "scan", b |-> CbNone, k |-> 1]}
           \/ \E b \in CbBuilds : /\ cbRow[b].status = "ready"
                                  /\ cbWork' = [at |-> "finish", b |-> b, k |-> 1]
    PROVE  CbInv'
  <1>1. CbTypes'
    BY DEF CbInv, CbTypes, CbSteps
  <1>2. CbTasksMade'
    BY DEF CbInv, CbTasksMade
  <1>3. CbAttempts'
    BY DEF CbInv, CbAttempts, CbIdle
  <1>4. CbFinished' /\ CbBuiltIsTold'
    BY DEF CbInv, CbFinished, CbBuiltIsTold, CbIn, CbRegisters, CbComplete, CbIdle
  <1> QED
    BY <1>1, <1>2, <1>3, <1>4 DEF CbInv

LEMMA CbQuietSteps ==
    ASSUME CbInv,
           \/ CbWake \/ CbNothing \/ CbStops \/ CbCrash \/ \E b \in CbBuilds : CbResume(b)
    PROVE  CbInv'
  <1>1. /\ UNCHANGED <<cbRow, cbTask, cbMade, cbLeft, cbTools, cbTold>>
        /\ cbEnq' \in {cbEnq, CbIdle}
    BY DEF CbWake, CbNothing, CbStops, CbCrash, CbResume
  <1>2. \/ cbWork' \in {cbWork, CbIdle, [at |-> "scan", b |-> CbNone, k |-> 1]}
        \/ \E b \in CbBuilds : /\ cbRow[b].status = "ready"
                               /\ cbWork' = [at |-> "finish", b |-> b, k |-> 1]
    BY DEF CbWake, CbNothing, CbStops, CbCrash, CbResume, CbResumable, CbIn, CbGo
  <1> QED
    BY <1>1, <1>2, CbMovesOnly

\* Tasks are blocked, activated or moved by the owner: none becomes done.
LEMMA CbTasksMove ==
    ASSUME CbInv, UNCHANGED <<cbRow, cbMade, cbEnq, cbLeft, cbTools, cbTold>>,
           cbTask' \in [CbBuilds -> [parent : CbTaskStatus, child : CbTaskStatus]],
           \A c \in CbBuilds : /\ cbTask[c].parent # "absent" => cbTask'[c].parent # "absent"
                               /\ cbTask[c].child # "absent" => cbTask'[c].child # "absent"
                               /\ cbTask'[c].parent = "done" => cbTask[c].parent = "done",
           \/ cbWork' = cbWork
           \/ \E b \in CbBuilds :
                 /\ cbRow[b].status = "building"
                 /\ \/ cbWork' = [at |-> "fail", b |-> b, k |-> 1]
                    \/ cbWork' = [at |-> "generate", b |-> b, k |-> 1] /\ cbLeft[b] = 0
    PROVE  CbInv'
  <1>1. CbTypes'
    BY DEF CbInv, CbTypes, CbSteps
  <1>2. CbTasksMade'
    BY DEF CbInv, CbTasksMade
  <1>3. CbAttempts'
    BY DEF CbInv, CbAttempts
  <1>4. CbFinished' /\ CbBuiltIsTold'
    BY DEF CbInv, CbFinished, CbBuiltIsTold, CbIn, CbRegisters, CbComplete
  <1> QED
    BY <1>1, <1>2, <1>3, <1>4 DEF CbInv

LEMMA CbTaskSteps ==
    ASSUME CbInv,
           \/ CbActivate \/ CbBuilderRaises
           \/ \E b \in CbBuilds : CbInterrupted(b) \/ \E w \in {"parent", "child"} : CbOwner(b, w)
    PROVE  CbInv'
  <1>1. ASSUME NEW b \in CbBuilds, NEW s \in {"active", "blocked"},
               cbTask' = [cbTask EXCEPT ![b] = [parent |-> s, child |-> s]]
        PROVE  /\ cbTask' \in [CbBuilds -> [parent : CbTaskStatus, child : CbTaskStatus]]
               /\ \A c \in CbBuilds :
                     /\ cbTask[c].parent # "absent" => cbTask'[c].parent # "absent"
                     /\ cbTask[c].child # "absent" => cbTask'[c].child # "absent"
                     /\ cbTask'[c].parent = "done" => cbTask[c].parent = "done"
    BY <1>1 DEF CbInv, CbTypes, CbTaskStatus
  <1>2. CASE CbActivate
    <2>1. PICK b \in CbBuilds : b = cbWork.b
      BY <1>2, CbAtStep DEF CbInv, CbActivate, CbSteps
    <2>2. /\ cbTask' = [cbTask EXCEPT ![b] = [parent |-> "active", child |-> "active"]]
          /\ cbWork' = [at |-> "generate", b |-> b, k |-> 1]
          /\ UNCHANGED <<cbRow, cbMade, cbEnq, cbLeft, cbTools, cbTold>>
          /\ cbRow[b].status = "building" /\ cbLeft[b] = 0
      BY <1>2, <2>1 DEF CbInv, CbAttempts, CbActivate, CbGo
    <2> QED
      BY <1>1, <2>2, CbTasksMove
  <1>3. CASE CbBuilderRaises
    <2>1. PICK b \in CbBuilds : b = cbWork.b
      BY <1>3, CbAtStep DEF CbInv, CbBuilderRaises, CbSteps
    <2>2. /\ cbTask' = [cbTask EXCEPT ![b] = [parent |-> "blocked", child |-> "blocked"]]
          /\ cbWork' = [at |-> "fail", b |-> b, k |-> 1]
          /\ UNCHANGED <<cbRow, cbMade, cbEnq, cbLeft, cbTools, cbTold>>
          /\ cbRow[b].status = "building"
      BY <1>3, <2>1 DEF CbInv, CbAttempts, CbBuilderRaises, CbGo
    <2> QED
      BY <1>1, <2>2, CbTasksMove
  <1>4. ASSUME NEW b \in CbBuilds, CbInterrupted(b) PROVE CbInv'
    <2>1. /\ cbTask' = [cbTask EXCEPT ![b] = [parent |-> "blocked", child |-> "blocked"]]
          /\ cbWork' = [at |-> "fail", b |-> b, k |-> 1]
          /\ UNCHANGED <<cbRow, cbMade, cbEnq, cbLeft, cbTools, cbTold>>
          /\ cbRow[b].status = "building"
      BY <1>4 DEF CbInterrupted, CbGo, CbIn
    <2> QED
      BY <1>1, <2>1, CbTasksMove
  <1>5. ASSUME NEW b \in CbBuilds, NEW w \in {"parent", "child"}, CbOwner(b, w) PROVE CbInv'
    <2>1. PICK s \in {"waiting", "active"} : cbTask' = [cbTask EXCEPT ![b][w] = s]
      BY <1>5 DEF CbOwner
    <2>2. /\ cbTask' \in [CbBuilds -> [parent : CbTaskStatus, child : CbTaskStatus]]
          /\ \A c \in CbBuilds : /\ cbTask[c].parent # "absent" => cbTask'[c].parent # "absent"
                                 /\ cbTask[c].child # "absent" => cbTask'[c].child # "absent"
                                 /\ cbTask'[c].parent = "done" => cbTask[c].parent = "done"
      <3>1. CASE w = "parent"
        <4>1. cbTask' = [cbTask EXCEPT ![b]["parent"] = s]
          BY <2>1, <3>1
        <4> QED
          BY <4>1 DEF CbInv, CbTypes, CbTaskStatus
      <3>2. CASE w = "child"
        <4>1. cbTask' = [cbTask EXCEPT ![b]["child"] = s]
          BY <2>1, <3>2
        <4> QED
          BY <4>1 DEF CbInv, CbTypes, CbTaskStatus
      <3> QED
        BY <3>1, <3>2
    <2>3. UNCHANGED <<cbRow, cbMade, cbEnq, cbWork, cbLeft, cbTools, cbTold>>
      BY <1>5 DEF CbOwner
    <2> QED
      BY <2>2, <2>3, CbTasksMove
  <1> QED
    BY <1>2, <1>3, <1>4, <1>5

\* A row is taken, given up, given back or ready; the model writes its files.
LEMMA CbRowSteps ==
    ASSUME CbInv,
           \/ CbGenerate \/ CbYield \/ CbReady \/ CbFail \/ CbTellFail \/ \E b \in CbBuilds : CbTake(b)
    PROVE  CbInv'
  <1>1. CASE CbGenerate
    <2>1. PICK b \in CbBuilds : b = cbWork.b
      BY <1>1, CbAtStep DEF CbInv, CbGenerate, CbSteps
    <2>2. /\ cbLeft' = [cbLeft EXCEPT ![b] = @ + 1] /\ cbLeft[b] = 0
          /\ cbRow[b].status = "building" /\ cbWork' = [at |-> "result", b |-> b, k |-> 1]
          /\ UNCHANGED <<cbRow, cbTask, cbMade, cbEnq, cbTools, cbTold>>
      BY <1>1, <2>1 DEF CbInv, CbAttempts, CbGenerate, CbGo
    <2>3. /\ cbLeft' \in [CbBuilds -> {0, 1}] /\ cbLeft'[b] = 1
          /\ \A c \in CbBuilds \ {b} : cbLeft'[c] = cbLeft[c]
      BY <2>2 DEF CbInv, CbTypes
    <2>4. CbTypes' /\ CbTasksMade'
      BY <2>2, <2>3 DEF CbInv, CbTypes, CbTasksMade, CbSteps
    <2>5. CbAttempts'
      BY <2>2, <2>3 DEF CbInv, CbAttempts
    <2>6. CbFinished' /\ CbBuiltIsTold'
      BY <2>2 DEF CbInv, CbFinished, CbBuiltIsTold, CbIn, CbRegisters, CbComplete
    <2> QED
      BY <2>4, <2>5, <2>6 DEF CbInv
  <1>2. ASSUME NEW b \in CbBuilds, NEW s \in {"queued", "building", "failed", "ready"},
               NEW p \in {CbNone, "bad", "plain", "tool"},
               cbRow' = [cbRow EXCEPT ![b] = [status |-> s, payload |-> p]],
               cbRow[b].status \in {"queued", "building"},
               cbLeft' \in [CbBuilds -> {0, 1}],
               \A c \in CbBuilds \ {b} : cbLeft'[c] = cbLeft[c],
               s = "queued" => cbLeft'[b] = 0,
               UNCHANGED <<cbTask, cbMade, cbEnq, cbTools, cbTold>>,
               \/ cbWork' = CbIdle
               \/ cbWork' = [at |-> "tellfail", b |-> b, k |-> 1]
               \/ cbWork' = [at |-> "finish", b |-> b, k |-> 1] /\ s = "ready"
               \/ cbWork' = [at |-> "activate", b |-> b, k |-> 1] /\ s = "building" /\ cbLeft'[b] = 0
        PROVE  CbInv'
    <2>1. /\ cbRow' \in [CbBuilds -> [status : CbStatus, payload : {CbNone, "bad", "plain", "tool"}]]
          /\ cbRow'[b].status = s /\ \A c \in CbBuilds \ {b} : cbRow'[c] = cbRow[c]
      BY <1>2 DEF CbInv, CbTypes, CbStatus
    <2>2. CbTypes'
      BY <1>2, <2>1 DEF CbInv, CbTypes, CbSteps
    <2>3. CbTasksMade'
      <3>1. cbEnq # CbIdle => cbEnq.b # b /\ cbEnq.b \in CbBuilds
        BY <1>2 DEF CbInv, CbTypes, CbTasksMade
      <3> QED
        BY <1>2, <2>1, <3>1 DEF CbInv, CbTasksMade
    <2>4. CbAttempts'
      BY <1>2, <2>1 DEF CbInv, CbAttempts, CbIdle
    <2>5. CbFinished' /\ CbBuiltIsTold'
      BY <1>2, <2>1 DEF CbInv, CbFinished, CbBuiltIsTold, CbIn, CbRegisters, CbComplete, CbIdle
    <2> QED
      BY <2>2, <2>3, <2>4, <2>5 DEF CbInv
  <1>3. \A b \in CbBuilds : \A s : [cbRow EXCEPT ![b].status = s]
           = [cbRow EXCEPT ![b] = [status |-> s, payload |-> cbRow[b].payload]]
    <2> TAKE b \in CbBuilds
    <2> TAKE s
    <2>1. cbRow[b] \in [status : CbStatus, payload : {CbNone, "bad", "plain", "tool"}]
      BY DEF CbInv, CbTypes
    <2>2. [cbRow[b] EXCEPT !.status = s] = [status |-> s, payload |-> cbRow[b].payload]
      BY <2>1
    <2> QED
      BY <2>2
  <1>4. \A b \in CbBuilds : cbRow[b].payload \in {CbNone, "bad", "plain", "tool"}
    BY DEF CbInv, CbTypes
  <1>5. cbLeft \in [CbBuilds -> {0, 1}]
    BY DEF CbInv, CbTypes
  <1>6. CASE CbYield
    <2>1. PICK b \in CbBuilds : b = cbWork.b
      BY <1>6, CbAtStep DEF CbInv, CbYield, CbSteps
    <2>2. cbLeft[b] = 1 /\ cbRow[b].status = "building"
      BY <1>6, <2>1 DEF CbInv, CbAttempts, CbYield
    <2>3. cbLeft' = [cbLeft EXCEPT ![b] = @ - 1]
      BY <1>6, <2>1 DEF CbYield
    <2>4. cbLeft' \in [CbBuilds -> {0, 1}] /\ cbLeft'[b] = 0
          /\ \A c \in CbBuilds \ {b} : cbLeft'[c] = cbLeft[c]
      BY <1>5, <2>2, <2>3
    <2>5. /\ cbRow' = [cbRow EXCEPT ![b] = [status |-> "queued", payload |-> cbRow[b].payload]]
          /\ cbWork' = CbIdle /\ UNCHANGED <<cbTask, cbMade, cbEnq, cbTools, cbTold>>
      BY <1>3, <1>6, <2>1 DEF CbYield
    <2> QED
      BY <1>2, <1>4, <2>2, <2>4, <2>5
  <1>7. CASE CbReady
    <2>1. PICK b \in CbBuilds : b = cbWork.b
      BY <1>7, CbAtStep DEF CbInv, CbReady, CbSteps
    <2>2. cbRow[b].status = "building"
      BY <1>7, <2>1 DEF CbInv, CbAttempts, CbReady
    <2>3. PICK p \in {"bad", "plain", "tool"} :
             cbRow' = [cbRow EXCEPT ![b] = [status |-> "ready", payload |-> p]]
      BY <1>7, <2>1 DEF CbReady
    <2>4. /\ cbWork' = [at |-> "finish", b |-> b, k |-> 1]
          /\ UNCHANGED <<cbTask, cbMade, cbEnq, cbLeft, cbTools, cbTold>>
      BY <1>7, <2>1 DEF CbReady, CbGo
    <2> QED
      BY <1>2, <1>5, <2>2, <2>3, <2>4
  <1>8. CASE CbFail
    <2>1. PICK b \in CbBuilds : b = cbWork.b
      BY <1>8, CbAtStep DEF CbInv, CbFail, CbSteps
    <2>2. cbRow[b].status = "building"
      BY <1>8, <2>1 DEF CbInv, CbAttempts, CbFail
    <2>3. /\ cbRow' = [cbRow EXCEPT ![b] = [status |-> "failed", payload |-> cbRow[b].payload]]
          /\ cbWork' = [at |-> "tellfail", b |-> b, k |-> 1]
          /\ UNCHANGED <<cbTask, cbMade, cbEnq, cbLeft, cbTools, cbTold>>
      BY <1>3, <1>8, <2>1 DEF CbFail, CbGo, CbGivenUp
    <2> QED
      BY <1>2, <1>4, <1>5, <2>2, <2>3
  <1>9. ASSUME NEW b \in CbBuilds, CbTake(b) PROVE CbInv'
    <2>1. /\ cbRow' = [cbRow EXCEPT ![b] = [status |-> "building", payload |-> cbRow[b].payload]]
          /\ cbWork' = [at |-> "activate", b |-> b, k |-> 1]
          /\ cbRow[b].status = "queued"
          /\ UNCHANGED <<cbTask, cbMade, cbEnq, cbLeft, cbTools, cbTold>>
      BY <1>3, <1>9 DEF CbTake, CbGo, CbIn
    <2>2. cbLeft[b] = 0
      BY <2>1 DEF CbInv, CbAttempts
    <2> QED
      BY <1>2, <1>4, <1>5, <2>1, <2>2
  <1>10. CASE CbTellFail
    BY <1>10 DEF CbInv, CbTypes, CbTasksMade, CbAttempts, CbFinished, CbBuiltIsTold, CbIn,
                 CbRegisters, CbComplete, CbTellFail, CbGo
  <1> QED
    BY <1>1, <1>6, <1>7, <1>8, <1>9, <1>10

\* finish goes on by one write.
LEMMA CbFinishStep == ASSUME CbInv, CbFinish PROVE CbInv'
  <1>1. PICK b \in CbBuilds, k \in 1..5 : cbWork = [at |-> "finish", b |-> b, k |-> k]
    BY CbAtStep DEF CbInv, CbFinish, CbSteps
  <1>2. /\ cbRow[b].status = "ready"
        /\ k > 1 /\ CbRegisters(b) => b \in cbTools
        /\ k > 4 => <<"built", b>> \in cbTold
    BY <1>1 DEF CbInv, CbAttempts, CbFinished
  <1>3. UNCHANGED <<cbMade, cbEnq, cbLeft>>
    BY DEF CbFinish
  <1>4. cbWork' = IF k = 5 THEN CbIdle ELSE [at |-> "finish", b |-> b, k |-> k + 1]
    BY <1>1 DEF CbFinish, CbOrder
  <1>5. cbTools' = IF k = 1 /\ CbRegisters(b) THEN cbTools \cup {b} ELSE cbTools
    BY <1>1 DEF CbFinish, CbOrder
  <1>6. cbTold' = IF k = 4 THEN cbTold \cup {<<"built", b>>} ELSE cbTold
    BY <1>1 DEF CbFinish, CbOrder
  <1>7. cbRow' = IF k = 5 THEN [cbRow EXCEPT ![b].status = "built"] ELSE cbRow
    BY <1>1 DEF CbFinish, CbOrder
  <1>8. cbTask' = IF k = 2 THEN [cbTask EXCEPT ![b]["child"] = "done"]
                  ELSE IF k = 3 THEN [cbTask EXCEPT ![b]["parent"] =
                                         IF CbComplete(b) THEN "done" ELSE "blocked"]
                  ELSE cbTask
    BY <1>1 DEF CbFinish, CbOrder, CbTransition
  <1>9. /\ cbRow' \in [CbBuilds -> [status : CbStatus, payload : {CbNone, "bad", "plain", "tool"}]]
        /\ \A c \in CbBuilds : cbRow'[c].payload = cbRow[c].payload
        /\ \A c \in CbBuilds \ {b} : cbRow'[c] = cbRow[c]
        /\ cbRow'[b].status = IF k = 5 THEN "built" ELSE "ready"
    BY <1>2, <1>7 DEF CbInv, CbTypes, CbStatus
  <1>10. /\ cbTask' \in [CbBuilds -> [parent : CbTaskStatus, child : CbTaskStatus]]
         /\ \A c \in CbBuilds : /\ cbTask[c].parent # "absent" => cbTask'[c].parent # "absent"
                                /\ cbTask[c].child # "absent" => cbTask'[c].child # "absent"
                                /\ cbTask'[c].parent = "done" =>
                                      \/ cbTask[c].parent = "done"
                                      \/ c = b /\ k = 3 /\ CbComplete(b)
    <2>1. CASE k = 2
      BY <1>8, <2>1 DEF CbInv, CbTypes, CbTaskStatus
    <2>2. CASE k = 3
      <3>1. PICK s \in {"done", "blocked"} : /\ cbTask' = [cbTask EXCEPT ![b]["parent"] = s]
                                             /\ s = "done" => CbComplete(b)
        <4>1. CASE CbComplete(b)
          BY <1>8, <2>2, <4>1
        <4>2. CASE ~CbComplete(b)
          BY <1>8, <2>2, <4>2
        <4> QED
          BY <4>1, <4>2
      <3> QED
        BY <2>2, <3>1 DEF CbInv, CbTypes, CbTaskStatus
    <2>3. CASE k \notin {2, 3}
      BY <1>8, <2>3 DEF CbInv, CbTypes
    <2> QED
      BY <2>1, <2>2, <2>3
  <1>11. CbTypes'
    BY <1>3, <1>4, <1>9, <1>10 DEF CbInv, CbTypes, CbSteps
  <1>12. CbTasksMade'
    <2>1. cbEnq # CbIdle => cbEnq.b # b /\ cbEnq.b \in CbBuilds
      BY <1>2 DEF CbInv, CbTypes, CbTasksMade
    <2> QED
      BY <1>3, <1>9, <1>10, <2>1 DEF CbInv, CbTasksMade
  <1>13. CbAttempts'
    BY <1>2, <1>3, <1>4, <1>9 DEF CbInv, CbAttempts, CbIdle
  <1>14. /\ \A c : CbRegisters(c)' <=> (cbRow'[c].payload = "tool" /\ c \notin CbExternal)
         /\ \A c : CbComplete(c)' <=> (cbRow'[c].payload = "tool" /\ c \notin CbExternal)
         /\ \A c : CbRegisters(c) <=> (cbRow[c].payload = "tool" /\ c \notin CbExternal)
         /\ \A c : CbComplete(c) <=> (cbRow[c].payload = "tool" /\ c \notin CbExternal)
    BY DEF CbRegisters, CbComplete
  <1>15. CbFinished'
    <2>1. cbWork'.at = "finish" => /\ cbWork'.b = b /\ cbWork'.k = k + 1 /\ k # 5
      BY <1>4 DEF CbIdle
    <2>2. CbRegisters(b) => b \in cbTools'
      BY <1>2, <1>5
    <2>3. k >= 4 => <<"built", b>> \in cbTold'
      BY <1>2, <1>6
    <2>4. \A c \in CbBuilds : cbTask'[c].parent = "done" =>
             cbRow'[c].status \in {"ready", "built"} /\ c \in cbTools' /\ CbComplete(c)'
      BY <1>5, <1>9, <1>10, <1>14, <2>2 DEF CbInv, CbFinished
    <2> QED
      BY <1>9, <1>14, <2>1, <2>2, <2>3, <2>4 DEF CbFinished
  <1>16. CbBuiltIsTold'
    <2>1. cbTold \subseteq cbTold' /\ (k = 5 => <<"built", b>> \in cbTold')
      BY <1>2, <1>6
    <2>2. \A c \in CbBuilds : cbRow'[c].status = "built" =>
             cbRow[c].status = "built" \/ (c = b /\ k = 5)
      BY <1>9
    <2> QED
      BY <2>1, <2>2 DEF CbInv, CbBuiltIsTold, CbIn
  <1> QED
    BY <1>11, <1>12, <1>13, <1>15, <1>16 DEF CbInv

LEMMA CbInvStep == CbInv /\ [CbNext]_cbVars => CbInv'
  <1> SUFFICES ASSUME CbInv, [CbNext]_cbVars PROVE CbInv'
    OBVIOUS
  <1>1. CASE UNCHANGED cbVars
    BY <1>1 DEF cbVars, CbInv, CbTypes, CbTasksMade, CbAttempts, CbFinished, CbBuiltIsTold, CbIn,
                CbRegisters, CbComplete
  <1>2. CASE CbNext
    BY <1>2, CbEnqueueSteps, CbQuietSteps, CbTaskSteps, CbRowSteps, CbFinishStep
       DEF CbNext, CbWorker
  <1> QED
    BY <1>1, <1>2

\* run_once, finish: nothing is built twice, and nothing unfinished is called
\* done, over any number of crashes, GPU yields and moves of the owner.
THEOREM BuildsAreSafe == CbSpec => []CbSafe
  <1>1. CbInv => CbSafe
    <2> SUFFICES ASSUME CbInv PROVE CbSafe
      OBVIOUS
    <2>1. CbOneTask /\ CbOneAttempt
      BY DEF CbInv, CbTypes, CbOneTask, CbOneAttempt
    <2>2. CbDoneIsUsable
      BY DEF CbInv, CbFinished, CbDoneIsUsable, CbComplete, CbRegisters
    <2> QED
      BY <2>1, <2>2 DEF CbInv, CbSafe
  <1> QED
    BY <1>1, CbInvInit, CbInvStep, PTL DEF CbSpec

-----------------------------------------------------------------------------
(* PersonalTasks *)

PtStatus == {"absent", "new", "planned", "active", "review", "done", "waiting", "blocked"}
PtEnded == {"text", "empty", "failed", "cancelled"}

\* What is left to do for a text when the task has a status of the chain.
PtAfter == [new     |-> <<"planned", "active", "review", "done", "publish">>,
            planned |-> <<"active", "review", "done", "publish">>,
            active  |-> <<"review", "done", "publish">>,
            review  |-> <<"done", "publish">>,
            done    |-> <<"publish">>]
PtChain == {"new", "planned", "active", "review", "done"}

PtTypes ==
    /\ ptTask \in [PtRequests -> PtStatus]
    /\ ptJob \in [PtRequests -> {"absent", "queued"} \cup PtEnded]
    /\ ptChat \in [PtRequests -> {"idle", "plan", "enqueue", "look", "activate", "end"}]
    /\ ptSent \in [PtRequests -> {PtNone} \cup PtEnded]
    /\ ptMoved \subseteq PtRequests

\* A chat thread plans the task before the job is queued.
PtPlanned ==
    \A p \in PtRequests :
        /\ ptJob[p] # "absent" => ptTask[p] \notin {"absent", "new"}
        /\ ptChat[p] \in {"plan", "enqueue"} => ptJob[p] = "absent" /\ ptTask[p] # "absent"
        /\ ptChat[p] = "enqueue" => ptTask[p] # "new"

\* Only a failed job blocks its task, and only the owner makes it wait.
PtOffChain ==
    \A p \in PtRequests : /\ ptTask[p] = "blocked" => ptJob[p] = "failed"
                          /\ ptTask[p] = "waiting" => p \in ptMoved

\* The reconciler delivers last, and moves the task of a text only along the
\* chain: unless the owner moved the task, what is left begins where the task is,
\* or at most at the step that the chat thread took meanwhile.
PtOnCourse ==
    ptRec # PtIdle =>
        /\ ptRec = [p |-> ptRec.p, todo |-> ptRec.todo]
        /\ ptRec.p \in PtRequests /\ ptSent[ptRec.p] = PtNone /\ ptJob[ptRec.p] \in PtEnded
        /\ IF ptJob[ptRec.p] = "text"
           THEN \E st \in PtChain :
                   /\ ptRec.todo = PtAfter[st]
                   /\ ptRec.p \notin ptMoved =>
                         ptTask[ptRec.p] = st \/ (st = "planned" /\ ptTask[ptRec.p] = "active")
           ELSE \/ ptRec.todo = <<"publish">>
                \/ ptRec.todo = <<"blocked", "publish">> /\ ptJob[ptRec.p] = "failed"

PtInv == PtTypes /\ PtPlanned /\ PtOffChain /\ PtOnCourse /\ PtSafe

LEMMA PtInvInit == PtInit => PtInv
  <1> SUFFICES ASSUME PtInit PROVE PtInv
    OBVIOUS
  <1>1. PtTypes
    BY DEF PtInit, PtTypes, PtStatus
  <1>2. PtPlanned /\ PtOffChain /\ PtOnCourse
    BY DEF PtInit, PtPlanned, PtOffChain, PtOnCourse
  <1>3. PtSafe
    BY PtAssumption DEF PtInit, PtSafe, PtDoneHasText, PtDeliveredIsDone
  <1> QED
    BY <1>1, <1>2, <1>3 DEF PtInv

\* The row that is read tells what is to be done.
LEMMA PtTodoIs ==
    ASSUME PtInv, NEW p \in PtRequests, ptJob[p] \in PtEnded
    PROVE  /\ ptJob[p] = "text" /\ ptTask[p] \in PtChain => PtTodo(p) = PtAfter[ptTask[p]]
           /\ ptJob[p] = "text" /\ ptTask[p] \notin PtChain => PtTodo(p) = <<"publish">>
           /\ ptJob[p] # "text" =>
                 \/ PtTodo(p) = <<"publish">>
                 \/ PtTodo(p) = <<"blocked", "publish">> /\ ptJob[p] = "failed"
  <1> DEFINE chain == <<"new", "planned", "active", "review", "done">>
  <1>1. ASSUME ptJob[p] = "text", ptTask[p] \in PtChain PROVE PtTodo(p) = PtAfter[ptTask[p]]
    <2>1. PICK i \in 1..5 : chain[i] = ptTask[p]
      <3>1. chain[1] = "new" /\ chain[2] = "planned" /\ chain[3] = "active"
            /\ chain[4] = "review" /\ chain[5] = "done"
        OBVIOUS
      <3> QED
        BY <1>1, <3>1 DEF PtChain
    <2>2. (CHOOSE j \in 1..5 : chain[j] = ptTask[p]) = i
      BY <2>1
    <2>3. PtTodo(p) = SubSeq(chain, 1 + i, 5) \o <<"publish">>
      BY <1>1, <2>1, <2>2 DEF PtTodo, PtMoves, PtSequence
    <2>4. CASE i = 1
      BY <2>1, <2>3, <2>4 DEF PtAfter
    <2>5. CASE i = 2
      BY <2>1, <2>3, <2>5 DEF PtAfter
    <2>6. CASE i = 3
      BY <2>1, <2>3, <2>6 DEF PtAfter
    <2>7. CASE i = 4
      BY <2>1, <2>3, <2>7 DEF PtAfter
    <2>8. CASE i = 5
      BY <2>1, <2>3, <2>8 DEF PtAfter
    <2> QED
      BY <2>4, <2>5, <2>6, <2>7, <2>8
  <1>2. ASSUME ptJob[p] = "text", ptTask[p] \notin PtChain PROVE PtTodo(p) = <<"publish">>
    <2>1. \A i \in 1..5 : chain[i] # ptTask[p]
      BY <1>2 DEF PtChain
    <2>2. PtTodo(p) = <<>> \o <<"publish">>
      BY <1>2, <2>1 DEF PtTodo, PtMoves, PtSequence
    <2> QED
      BY <2>2
  <1>3. ASSUME ptJob[p] # "text"
        PROVE  \/ PtTodo(p) = <<"publish">>
               \/ PtTodo(p) = <<"blocked", "publish">> /\ ptJob[p] = "failed"
    <2>1. \/ PtTodo(p) = <<>> \o <<"publish">>
          \/ PtTodo(p) = <<"blocked">> \o <<"publish">> /\ ptJob[p] = "failed"
      BY <1>3 DEF PtTodo, PtMoves
    <2> QED
      BY <2>1
  <1> QED
    BY <1>1, <1>2, <1>3

\* A row is read.
LEMMA PtReadStep == ASSUME PtInv, NEW p \in PtRequests, PtRead(p) PROVE PtInv'
  <1>1. /\ ptRec' = [p |-> p, todo |-> PtTodo(p)]
        /\ ptJob[p] \in PtEnded /\ ptSent[p] = PtNone
        /\ UNCHANGED <<ptTask, ptJob, ptChat, ptSent, ptMoved>>
    BY DEF PtRead, PtRows, PtEnded
  <1>2. ptTask[p] \notin PtChain /\ ptJob[p] = "text" => p \in ptMoved
    BY <1>1 DEF PtInv, PtTypes, PtStatus, PtPlanned, PtOffChain, PtChain
  <1>3. PtOnCourse'
    <2>1. ptJob[p] = "text" => \E st \in PtChain : /\ PtTodo(p) = PtAfter[st]
                                                   /\ p \notin ptMoved => ptTask[p] = st
      <3>1. CASE ptTask[p] \in PtChain
        BY <1>1, <3>1, PtTodoIs
      <3>2. CASE ptTask[p] \notin PtChain
        BY <1>1, <1>2, <3>2, PtTodoIs DEF PtChain, PtAfter
      <3> QED
        BY <3>1, <3>2
    <2> QED
      BY <1>1, <2>1, PtTodoIs DEF PtOnCourse
  <1>4. PtTypes' /\ PtPlanned' /\ PtOffChain' /\ PtSafe'
    BY <1>1 DEF PtInv, PtTypes, PtPlanned, PtOffChain, PtSafe, PtDoneHasText, PtDeliveredIsDone
  <1> QED
    BY <1>3, <1>4 DEF PtInv

\* A task is moved, or a step is refused.
LEMMA PtMoveStep == ASSUME PtInv, PtMove PROVE PtInv'
  <1>0. PICK p \in PtRequests : p = ptRec.p /\ ptRec = [p |-> p, todo |-> ptRec.todo]
    BY DEF PtInv, PtOnCourse, PtMove
  <1>1. PICK todo : ptRec = [p |-> p, todo |-> todo]
    BY <1>0
  <1>2. /\ Head(todo) # "publish" /\ ptRec # PtIdle
        /\ UNCHANGED <<ptJob, ptChat, ptSent, ptMoved>>
        /\ \/ /\ PtAccepts(p, Head(todo)) /\ ptTask' = [ptTask EXCEPT ![p] = Head(todo)]
              /\ ptRec' = IF Len(todo) = 1 THEN PtIdle ELSE [ptRec EXCEPT !.todo = Tail(@)]
           \/ /\ ~PtAccepts(p, Head(todo)) /\ ptRec' = PtIdle /\ ptTask' = ptTask
    BY <1>1 DEF PtMove, PtRest
  <1>3. CASE ~PtAccepts(p, Head(todo))
    BY <1>2, <1>3 DEF PtInv, PtTypes, PtPlanned, PtOffChain, PtOnCourse, PtSafe, PtDoneHasText,
                      PtDeliveredIsDone
  <1>4. CASE PtAccepts(p, Head(todo))
    <2>1. /\ ptTask' = [ptTask EXCEPT ![p] = Head(todo)]
          /\ ptRec' = IF Len(todo) = 1 THEN PtIdle ELSE [p |-> p, todo |-> Tail(todo)]
      <3>1. [ptRec EXCEPT !.todo = Tail(@)] = [p |-> p, todo |-> Tail(todo)]
        <4>1. ptRec.todo = todo
          BY <1>1
        <4>2. \A v : [[p |-> p, todo |-> todo] EXCEPT !.todo = v] = [p |-> p, todo |-> v]
          OBVIOUS
        <4> QED
          BY <1>1, <4>1, <4>2, Zenon
      <3> QED
        BY <1>2, <1>4, <3>1
    <2>2. /\ ptSent[p] = PtNone /\ ptJob[p] \in PtEnded
          /\ IF ptJob[p] = "text"
             THEN \E st \in PtChain :
                     /\ todo = PtAfter[st]
                     /\ p \notin ptMoved => ptTask[p] = st \/ (st = "planned" /\ ptTask[p] = "active")
             ELSE \/ todo = <<"publish">>
                  \/ todo = <<"blocked", "publish">> /\ ptJob[p] = "failed"
      BY <1>1, <1>2 DEF PtInv, PtOnCourse
    <2>3. CASE ptJob[p] = "text"
      <3>1. PICK st \in PtChain :
               /\ todo = PtAfter[st]
               /\ p \notin ptMoved => ptTask[p] = st \/ (st = "planned" /\ ptTask[p] = "active")
        BY <2>2, <2>3
      <3>2. PICK to \in {"planned", "active", "review", "done"} :
               /\ Head(todo) = to /\ Tail(todo) = PtAfter[to] /\ Len(todo) # 1
               /\ to = "planned" => st = "new"
        <4>1. CASE st = "new"
          BY <3>1, <4>1 DEF PtAfter
        <4>2. CASE st = "planned"
          BY <3>1, <4>2 DEF PtAfter
        <4>3. CASE st = "active"
          BY <3>1, <4>3 DEF PtAfter
        <4>4. CASE st = "review"
          BY <3>1, <4>4 DEF PtAfter
        <4>5. CASE st = "done"
          <5>1. todo = <<"publish">>
            BY <3>1, <4>5 DEF PtAfter
          <5> QED
            BY <1>2, <5>1
        <4> QED
          BY <4>1, <4>2, <4>3, <4>4, <4>5 DEF PtChain
      <3>3. ptTask' = [ptTask EXCEPT ![p] = to] /\ ptRec' = [p |-> p, todo |-> PtAfter[to]]
        BY <2>1, <3>2
      <3>4. /\ PtOnCourse' /\ PtTypes'
        BY <1>2, <2>2, <2>3, <3>2, <3>3 DEF PtInv, PtTypes, PtOnCourse, PtChain, PtStatus
      <3>5. PtPlanned' /\ PtOffChain'
        BY <1>2, <2>2, <2>3, <3>2, <3>3 DEF PtInv, PtTypes, PtPlanned, PtOffChain, PtEnded
      <3>6. PtSafe'
        BY <1>2, <2>2, <2>3, <3>2, <3>3, PtAssumption
           DEF PtInv, PtTypes, PtSafe, PtDoneHasText, PtDeliveredIsDone
      <3> QED
        BY <3>4, <3>5, <3>6 DEF PtInv
    <2>4. CASE ptJob[p] # "text"
      <3>1. todo = <<"blocked", "publish">> /\ ptJob[p] = "failed"
        <4>1. todo # <<"publish">>
          BY <1>2
        <4> QED
          BY <2>2, <2>4, <4>1
      <3>2. /\ ptTask' = [ptTask EXCEPT ![p] = "blocked"]
            /\ ptRec' = [p |-> p, todo |-> <<"publish">>]
        BY <2>1, <3>1
      <3>3. PtOnCourse' /\ PtTypes'
        BY <1>2, <2>2, <3>1, <3>2 DEF PtInv, PtTypes, PtOnCourse, PtStatus
      <3>4. PtPlanned' /\ PtOffChain'
        BY <1>2, <3>1, <3>2 DEF PtInv, PtTypes, PtPlanned, PtOffChain
      <3>5. PtSafe'
        BY <1>2, <2>2, <3>1, <3>2, PtAssumption
           DEF PtInv, PtTypes, PtSafe, PtDoneHasText, PtDeliveredIsDone
      <3> QED
        BY <3>3, <3>4, <3>5 DEF PtInv
    <2> QED
      BY <2>3, <2>4
  <1> QED
    BY <1>3, <1>4

\* _publish: by then the task of a text is done, unless the owner moved it.
LEMMA PtPublishStep == ASSUME PtInv, PtPublish PROVE PtInv'
  <1>0. PICK p \in PtRequests : p = ptRec.p /\ ptRec = [p |-> p, todo |-> ptRec.todo]
    BY DEF PtInv, PtOnCourse, PtPublish
  <1>1. PICK todo : ptRec = [p |-> p, todo |-> todo]
    BY <1>0
  <1>2. /\ ptRec # PtIdle /\ Head(todo) = "publish"
        /\ ptSent' = [ptSent EXCEPT ![p] = ptJob[p]]
        /\ UNCHANGED <<ptTask, ptJob, ptChat, ptMoved>>
    BY <1>1 DEF PtPublish
  <1>3. /\ ptJob[p] \in PtEnded
        /\ IF ptJob[p] = "text"
           THEN \E st \in PtChain :
                   /\ todo = PtAfter[st]
                   /\ p \notin ptMoved => ptTask[p] = st \/ (st = "planned" /\ ptTask[p] = "active")
           ELSE \/ todo = <<"publish">>
                \/ todo = <<"blocked", "publish">> /\ ptJob[p] = "failed"
    BY <1>1, <1>2 DEF PtInv, PtOnCourse
  <1>4. todo = <<"publish">> /\ (ptJob[p] = "text" /\ p \notin ptMoved => ptTask[p] = "done")
    <2>1. CASE ptJob[p] = "text"
      <3>1. PICK st \in PtChain :
               /\ todo = PtAfter[st]
               /\ p \notin ptMoved => ptTask[p] = st \/ (st = "planned" /\ ptTask[p] = "active")
        BY <1>3, <2>1
      <3>2. st = "done"
        <4>1. CASE st = "new"
          BY <1>2, <3>1, <4>1 DEF PtAfter
        <4>2. CASE st = "planned"
          BY <1>2, <3>1, <4>2 DEF PtAfter
        <4>3. CASE st = "active"
          BY <1>2, <3>1, <4>3 DEF PtAfter
        <4>4. CASE st = "review"
          BY <1>2, <3>1, <4>4 DEF PtAfter
        <4> QED
          BY <4>1, <4>2, <4>3, <4>4 DEF PtChain
      <3> QED
        BY <3>1, <3>2 DEF PtAfter
    <2>2. CASE ptJob[p] # "text"
      BY <1>2, <1>3, <2>2
    <2> QED
      BY <2>1, <2>2
  <1>5. ptRec' = PtIdle
    BY <1>1, <1>4 DEF PtPublish, PtRest
  <1>6. PtTypes' /\ PtPlanned' /\ PtOffChain' /\ PtOnCourse'
    BY <1>2, <1>3, <1>5 DEF PtInv, PtTypes, PtPlanned, PtOffChain, PtOnCourse
  <1>7. PtSafe'
    BY <1>2, <1>4 DEF PtInv, PtTypes, PtSafe, PtDoneHasText, PtDeliveredIsDone
  <1> QED
    BY <1>6, <1>7 DEF PtInv

\* The chat thread goes on, up to the queued job.
LEMMA PtChatSteps ==
    ASSUME PtInv, NEW p \in PtRequests, PtFirst(p) \/ PtPlan(p) \/ PtEnqueue(p) \/ PtLook(p)
    PROVE  PtInv'
  <1>1. ptRec' = ptRec /\ ptSent' = ptSent /\ ptMoved' = ptMoved
    BY DEF PtFirst, PtPlan, PtEnqueue, PtLook
  <1>2. PtTypes'
    BY DEF PtInv, PtTypes, PtStatus, PtFirst, PtPlan, PtEnqueue, PtLook
  <1>3. PtPlanned'
    BY DEF PtInv, PtTypes, PtPlanned, PtFirst, PtPlan, PtEnqueue, PtLook
  <1>4. PtOffChain'
    BY DEF PtInv, PtTypes, PtPlanned, PtOffChain, PtFirst, PtPlan, PtEnqueue, PtLook
  <1>5. /\ \A q \in PtRequests : ptJob[q] \in PtEnded => ptTask'[q] = ptTask[q] /\ ptJob'[q] = ptJob[q]
        /\ \A q \in PtRequests : ptTask[q] = "done" => ptTask'[q] = "done"
        /\ \A q \in PtRequests : ptTask'[q] = "done" => ptTask[q] = "done"
    BY DEF PtInv, PtTypes, PtPlanned, PtEnded, PtFirst, PtPlan, PtEnqueue, PtLook
  <1>6. PtOnCourse'
    BY <1>1, <1>5 DEF PtInv, PtOnCourse
  <1>7. PtSafe'
    BY <1>1, <1>5 DEF PtInv, PtSafe, PtDoneHasText, PtDeliveredIsDone, PtEnded
  <1> QED
    BY <1>2, <1>3, <1>4, <1>6, <1>7 DEF PtInv

\* It activates the task, unless the worker was faster.
LEMMA PtActivateStep == ASSUME PtInv, NEW p \in PtRequests, PtActivate(p) PROVE PtInv'
  <1>1. /\ UNCHANGED <<ptJob, ptRec, ptSent, ptMoved>>
        /\ ptChat' = [ptChat EXCEPT ![p] = "end"]
        /\ \/ ptTask' = ptTask
           \/ /\ ptTask[p] \in {"active", "planned", "waiting"}
              /\ ptTask' = [ptTask EXCEPT ![p] = "active"]
    <2>1. PtAccepts(p, "active") => ptTask[p] \in {"active", "planned", "waiting"}
      BY DEF PtAccepts, PtValid
    <2>2. ptTask = [ptTask EXCEPT ![p] = ptTask[p]]
      BY DEF PtInv, PtTypes
    <2> QED
      BY <2>1, <2>2 DEF PtActivate
  <1>2. PtTypes' /\ PtPlanned' /\ PtOffChain'
    BY <1>1 DEF PtInv, PtTypes, PtPlanned, PtOffChain, PtStatus
  <1>3. PtSafe'
    BY <1>1 DEF PtInv, PtTypes, PtSafe, PtDoneHasText, PtDeliveredIsDone
  <1>4. \A q \in PtRequests \ ptMoved :
           ptTask'[q] = ptTask[q] \/ (ptTask[q] = "planned" /\ ptTask'[q] = "active")
    BY <1>1 DEF PtInv, PtTypes, PtOffChain
  <1>5. PtOnCourse'
    <2> SUFFICES ASSUME ptRec # PtIdle, ptJob[ptRec.p] = "text",
                        NEW st \in PtChain, ptRec.todo = PtAfter[st], ptRec.p \notin ptMoved,
                        ptTask[ptRec.p] = st \/ (st = "planned" /\ ptTask[ptRec.p] = "active")
                 PROVE  ptTask'[ptRec.p] = st \/ (st = "planned" /\ ptTask'[ptRec.p] = "active")
      BY <1>1 DEF PtInv, PtOnCourse
    <2>1. ptRec.p \in PtRequests
      BY DEF PtInv, PtOnCourse
    <2> QED
      BY <1>4, <2>1
  <1> QED
    BY <1>2, <1>3, <1>5 DEF PtInv

\* The job ends, a process dies, the owner moves a task.
LEMMA PtWorldSteps ==
    ASSUME PtInv, PtCrash \/ \E p \in PtRequests : PtJobEnds(p) \/ PtOwner(p)
    PROVE  PtInv'
  <1>1. CASE PtCrash
    BY <1>1 DEF PtInv, PtTypes, PtPlanned, PtOffChain, PtOnCourse, PtSafe, PtDoneHasText,
                PtDeliveredIsDone, PtCrash
  <1>2. ASSUME NEW p \in PtRequests, PtJobEnds(p) PROVE PtInv'
    <2>1. PICK s \in PtEnded : ptJob' = [ptJob EXCEPT ![p] = s]
      BY <1>2 DEF PtJobEnds, PtEnded
    <2>2. ptJob[p] = "queued" /\ UNCHANGED <<ptTask, ptChat, ptRec, ptSent, ptMoved>>
      BY <1>2 DEF PtJobEnds
    <2>3. PtTypes' /\ PtPlanned' /\ PtOffChain'
      BY <2>1, <2>2 DEF PtInv, PtTypes, PtPlanned, PtOffChain, PtEnded
    <2>4. ptRec # PtIdle => ptRec.p # p /\ ptRec.p \in PtRequests
      BY <2>2 DEF PtInv, PtOnCourse, PtEnded
    <2>5. PtOnCourse'
      BY <2>1, <2>2, <2>4 DEF PtInv, PtTypes, PtOnCourse
    <2>6. PtSafe'
      BY <2>1, <2>2 DEF PtInv, PtTypes, PtSafe, PtDoneHasText, PtDeliveredIsDone
    <2> QED
      BY <2>3, <2>5, <2>6 DEF PtInv
  <1>3. ASSUME NEW p \in PtRequests, PtOwner(p) PROVE PtInv'
    <2>1. PICK s \in {"active", "waiting"} : ptTask' = [ptTask EXCEPT ![p] = s]
      BY <1>3 DEF PtOwner
    <2>2. /\ ptTask[p] \in {"active", "waiting"} /\ ptMoved' = ptMoved \cup {p}
          /\ UNCHANGED <<ptJob, ptChat, ptRec, ptSent>>
      BY <1>3 DEF PtOwner
    <2>3. PtTypes' /\ PtPlanned' /\ PtOffChain'
      BY <2>1, <2>2 DEF PtInv, PtTypes, PtPlanned, PtOffChain, PtStatus
    <2>4. PtOnCourse'
      BY <2>1, <2>2 DEF PtInv, PtTypes, PtOnCourse
    <2>5. PtSafe'
      BY <2>1, <2>2 DEF PtInv, PtTypes, PtSafe, PtDoneHasText, PtDeliveredIsDone
    <2> QED
      BY <2>3, <2>4, <2>5 DEF PtInv
  <1> QED
    BY <1>1, <1>2, <1>3

LEMMA PtInvStep == PtInv /\ [PtNext]_ptVars => PtInv'
  <1> SUFFICES ASSUME PtInv, [PtNext]_ptVars PROVE PtInv'
    OBVIOUS
  <1>1. CASE UNCHANGED ptVars
    BY <1>1 DEF ptVars, PtInv, PtTypes, PtPlanned, PtOffChain, PtOnCourse, PtSafe, PtDoneHasText,
                PtDeliveredIsDone
  <1>2. CASE PtNext
    BY <1>2, PtReadStep, PtMoveStep, PtPublishStep, PtChatSteps, PtActivateStep, PtWorldSteps
       DEF PtNext, PtReconcile
  <1> QED
    BY <1>1, <1>2

\* execute, reconcile: task and text agree over any number of crashes, whatever
\* the race of chat thread, worker and owner.
THEOREM PersonalTasksAreSafe == PtSpec => []PtSafe
  <1>1. PtInv => PtSafe
    BY DEF PtInv
  <1> QED
    BY <1>1, PtInvInit, PtInvStep, PTL DEF PtSpec

-----------------------------------------------------------------------------
(* Chat *)

\* A command that was never started, or is about to be applied, has had no
\* effect; what is about to be applied was started.
ChatUnapplied ==
    \A r \in ChatRequests :
        /\ chatAct[r].st = "none" => chatApplied[r] = 0
        /\ chatRun[r] \in {"route", "apply"} => chatApplied[r] = 0 /\ chatAct[r].st # "none"

\* The prompt of a message is what was approved, sent or not.
ChatPromptKept == \A r \in ChatRequests : chatMsg[r].prompt = chatMsg[r].approved

ChatInv == ChatTypeOK /\ ChatAppliedOnce /\ ChatUnapplied /\ ChatPromptKept

LEMMA ChatInvInit == ChatInit => ChatInv
  <1> SUFFICES ASSUME ChatInit PROVE ChatInv
    OBVIOUS
  <1>1. ChatNothing \in ChatContext
    BY DEF ChatNothing, ChatContext
  <1>2. ChatFree \in [pc : {"idle", "orphans", "recover", "bind", "insert"},
                      goal : {"poll", "preview", "submit", "replay"}, r : SUBSET ChatRequests,
                      todo : SUBSET ChatRequests, at : SUBSET ChatRequests, approved : ChatContext]
    BY <1>1 DEF ChatFree, ChatCalls
  <1>3. ChatTypeOK
    BY <1>1, <1>2, ChatAssumption DEF ChatInit, ChatTypeOK, ChatUnsent
  <1>4. ChatAppliedOnce /\ ChatUnapplied /\ ChatPromptKept
    BY DEF ChatInit, ChatAppliedOnce, ChatUnapplied, ChatPromptKept, ChatUnsent
  <1> QED
    BY <1>3, <1>4 DEF ChatInv

ChatCallRec ==
    [pc : {"idle", "orphans", "recover", "bind", "insert"},
     goal : {"poll", "preview", "submit", "replay"},
     r : SUBSET ChatRequests, todo : SUBSET ChatRequests, at : SUBSET ChatRequests,
     approved : ChatContext]
ChatCallMaps == [ChatCallers -> ChatCallRec]
ChatCallType == chatCall \in ChatCallMaps

ChatMsgMaps ==
    [ChatRequests ->
        [st : {"none", "pending", "complete", "unknown", "error"}, job : BOOLEAN,
         prompt : ChatContext, approved : ChatContext]]
ChatMsgType == chatMsg \in ChatMsgMaps
ChatKept(f) == \A r \in ChatRequests : f[r].prompt = f[r].approved

\* What the turns of the conversation make is a context.
LEMMA ChatContexts ==
    /\ ChatNothing \in ChatContext
    /\ \A msg : ChatTurns(msg) \in ChatContext
  BY DEF ChatNothing, ChatContext, ChatTurns

\* What holds of the whole state holds of its parts.
LEMMA ChatParts ==
    ASSUME ChatInv
    PROVE  /\ ChatCallType /\ ChatMsgType /\ ChatKept(chatMsg) /\ chatFaults \in 0..ChatFaults
           /\ chatShown \in [ChatRequests -> ChatContext]
           /\ chatJob \in [ChatRequests -> {"none", "queued", "succeeded", "failed", "unknown"}]
  BY DEF ChatInv, ChatTypeOK, ChatCallType, ChatCallMaps, ChatCallRec, ChatMsgType, ChatMsgMaps,
         ChatPromptKept, ChatKept

\* One field of one request of the page, or of one message, changes.
LEMMA ChatCallFields ==
    ASSUME NEW f \in ChatCallMaps, NEW c \in ChatCallers
    PROVE  /\ \A pc \in {"idle", "orphans", "recover", "bind", "insert"} :
                 [f EXCEPT ![c].pc = pc] \in ChatCallMaps
           /\ \A goal \in {"poll", "preview", "submit", "replay"} :
                 [f EXCEPT ![c].goal = goal] \in ChatCallMaps
           /\ \A s \in SUBSET ChatRequests :
                 [f EXCEPT ![c].todo = s] \in ChatCallMaps /\ [f EXCEPT ![c].at = s] \in ChatCallMaps
  BY ZenonT(40) DEF ChatCallMaps, ChatCallRec

LEMMA ChatMsgFields ==
    ASSUME NEW f \in ChatMsgMaps, NEW r \in ChatRequests, ChatKept(f)
    PROVE  /\ \A st \in {"pending", "complete", "unknown", "error"} :
                 [f EXCEPT ![r].st = st] \in ChatMsgMaps /\ ChatKept([f EXCEPT ![r].st = st])
           /\ \A job \in BOOLEAN :
                 [f EXCEPT ![r].job = job] \in ChatMsgMaps /\ ChatKept([f EXCEPT ![r].job = job])
  BY DEF ChatMsgMaps, ChatKept

\* A request of the page asks anew, is free, or goes on.
LEMMA ChatCallMoves ==
    ASSUME ChatCallType, NEW c \in ChatCallers
    PROVE  /\ \A x \in ChatCallRec : [chatCall EXCEPT ![c] = x] \in ChatCallMaps
           /\ ChatEnd(c) => ChatCallType'
           /\ \A pc \in {"idle", "orphans", "recover", "bind", "insert"}, todo \in SUBSET ChatRequests :
                 ChatStep(c, pc, todo) => ChatCallType'
  <1>1. ChatFree \in ChatCallRec
    BY ChatContexts DEF ChatFree, ChatCalls, ChatCallRec
  <1>2. \A x \in ChatCallRec : [chatCall EXCEPT ![c] = x] \in ChatCallMaps
    BY DEF ChatCallType, ChatCallMaps
  <1>3. ASSUME NEW pc \in {"idle", "orphans", "recover", "bind", "insert"},
               NEW todo \in SUBSET ChatRequests, ChatStep(c, pc, todo)
        PROVE  ChatCallType'
    <2>1. chatCall' = [[chatCall EXCEPT ![c].pc = pc] EXCEPT ![c].todo = todo]
      BY <1>3 DEF ChatStep
    <2>2. [chatCall EXCEPT ![c].pc = pc] \in ChatCallMaps
      BY ChatCallFields DEF ChatCallType
    <2> QED
      BY <2>1, <2>2, ChatCallFields DEF ChatCallType
  <1> QED
    BY <1>1, <1>2, <1>3 DEF ChatEnd, ChatCallType

\* Steps that leave commands and their applications alone.
LEMMA ChatQuiet ==
    ASSUME ChatInv, UNCHANGED <<chatAct, chatRun, chatApplied>>, ChatMsgType', ChatKept(chatMsg'),
           chatShown' \in [ChatRequests -> ChatContext], ChatCallType',
           chatJob' \in [ChatRequests -> {"none", "queued", "succeeded", "failed", "unknown"}],
           chatFaults' \in 0..ChatFaults
    PROVE  ChatInv'
  BY DEF ChatInv, ChatTypeOK, ChatAppliedOnce, ChatUnapplied, ChatMsgType, ChatMsgMaps,
         ChatCallType, ChatCallMaps, ChatCallRec, ChatPromptKept, ChatKept

\* The page asks: it polls, previews or submits.
LEMMA ChatAskSteps ==
    ASSUME ChatInv,
           ChatPolls \/ \E c \in ChatClients, r \in ChatRequests : ChatAsks(c, r) \/ ChatSubmits(c, r)
    PROVE  ChatInv'
  <1>0. /\ ChatCallType /\ ChatMsgType /\ ChatKept(chatMsg) /\ chatFaults \in 0..ChatFaults
        /\ chatShown \in [ChatRequests -> ChatContext]
        /\ chatJob \in [ChatRequests -> {"none", "queued", "succeeded", "failed", "unknown"}]
    BY ChatParts
  <1>1. SUFFICES /\ ChatCallType'
                 /\ UNCHANGED <<chatMsg, chatShown, chatJob, chatAct, chatRun, chatApplied, chatFaults>>
    BY <1>0, ChatQuiet DEF ChatMsgType
  <1>2. CASE ChatPolls
    BY <1>0, <1>2, ChatCallFields DEF ChatPolls, ChatCallType, ChatCallers
  <1>3. ASSUME NEW c \in ChatClients, NEW r \in ChatRequests, ChatAsks(c, r)
        PROVE  ChatCallType' /\ UNCHANGED <<chatMsg, chatShown, chatJob, chatAct, chatRun,
                                            chatApplied, chatFaults>>
    <2>1. ChatCalls("orphans", "preview", {r}, {}, ChatNothing) \in ChatCallRec
      BY ChatContexts DEF ChatCalls, ChatCallRec
    <2> QED
      BY <1>0, <1>3, <2>1, ChatCallMoves DEF ChatAsks, ChatCallType, ChatCallers
  <1>4. ASSUME NEW c \in ChatClients, NEW r \in ChatRequests, ChatSubmits(c, r)
        PROVE  ChatCallType' /\ UNCHANGED <<chatMsg, chatShown, chatJob, chatAct, chatRun,
                                            chatApplied, chatFaults>>
    <2>1. ChatCalls("recover", "replay", {r}, {r} \cap ChatOrphanRows, ChatNothing) \in ChatCallRec
      BY ChatContexts DEF ChatCalls, ChatCallRec
    <2>2. ChatCalls("orphans", "submit", {r}, {}, chatShown[r]) \in ChatCallRec
      BY <1>0 DEF ChatCalls, ChatCallRec
    <2>3. PICK x \in ChatCallRec : chatCall' = [chatCall EXCEPT ![c] = x]
      BY <1>4, <2>1, <2>2 DEF ChatSubmits
    <2>4. c \in ChatCallers
      BY DEF ChatCallers
    <2>5. [chatCall EXCEPT ![c] = x] \in ChatCallMaps
      BY <1>0, <2>4, ChatCallMoves
    <2>6. UNCHANGED <<chatMsg, chatShown, chatJob, chatAct, chatRun, chatApplied, chatFaults>>
      BY <1>4 DEF ChatSubmits
    <2> QED
      BY <2>3, <2>5, <2>6 DEF ChatCallType
  <1> QED
    BY <1>2, <1>3, <1>4

\* It recovers: rows are listed, a job is queued and bound, the queue is full.
LEMMA ChatRecoverSteps ==
    ASSUME ChatInv, NEW c \in ChatCallers,
           \/ ChatOrphans(c) \/ ChatQueueFull(c)
           \/ \E r \in ChatRequests : ChatEnqueue(c, r) \/ ChatBind(c, r)
    PROVE  ChatInv'
  <1>0. /\ ChatCallType /\ ChatMsgType /\ ChatKept(chatMsg) /\ chatFaults \in 0..ChatFaults
        /\ chatShown \in [ChatRequests -> ChatContext]
        /\ chatJob \in [ChatRequests -> {"none", "queued", "succeeded", "failed", "unknown"}]
    BY ChatParts
  <1>1. CASE ChatOrphans(c)
    <2>1. ChatOrphanRows \in SUBSET ChatRequests
      BY DEF ChatOrphanRows, ChatSent
    <2>2. ChatCallType'
      BY <1>0, <1>1, <2>1, ChatCallMoves DEF ChatOrphans
    <2> QED
      BY <1>0, <1>1, <2>2, ChatQuiet DEF ChatMsgType, ChatOrphans
  <1>2. CASE ChatQueueFull(c)
    <2>1. ChatCallType'
      BY <1>0, <1>2, ChatCallMoves DEF ChatQueueFull
    <2>2. chatFaults' \in 0..ChatFaults
      BY <1>0, <1>2, ChatAssumption DEF ChatQueueFull, ChatFault
    <2> QED
      BY <1>0, <1>2, <2>1, <2>2, ChatQuiet DEF ChatMsgType, ChatQueueFull
  <1>3. ASSUME NEW r \in ChatRequests, ChatEnqueue(c, r) PROVE ChatInv'
    <2>1. ChatCallType'
      <3>1. chatCall' = [[chatCall EXCEPT ![c].pc = "bind"] EXCEPT ![c].at = {r}]
        BY <1>3 DEF ChatEnqueue
      <3>2. [chatCall EXCEPT ![c].pc = "bind"] \in ChatCallMaps
        BY <1>0, ChatCallFields DEF ChatCallType
      <3> QED
        BY <3>1, <3>2, ChatCallFields, ZenonT(40) DEF ChatCallType
    <2>2. chatJob' \in [ChatRequests -> {"none", "queued", "succeeded", "failed", "unknown"}]
      BY <1>0, <1>3 DEF ChatEnqueue
    <2> QED
      BY <1>0, <1>3, <2>1, <2>2, ChatQuiet DEF ChatMsgType, ChatEnqueue
  <1>4. ASSUME NEW r \in ChatRequests, ChatBind(c, r) PROVE ChatInv'
    <2>1. ChatCallType'
      <3> DEFINE left == chatCall[c].todo \ {r}
      <3>1. chatCall' = [[[chatCall EXCEPT ![c].pc = "recover"] EXCEPT ![c].at = {}]
                            EXCEPT ![c].todo = left]
        BY <1>0, <1>4 DEF ChatBind, ChatCallType, ChatCallMaps, ChatCallRec
      <3>2. left \in SUBSET ChatRequests
        BY <1>0 DEF ChatCallType, ChatCallMaps, ChatCallRec
      <3> HIDE DEF left
      <3>3. [chatCall EXCEPT ![c].pc = "recover"] \in ChatCallMaps
        BY <1>0, ChatCallFields DEF ChatCallType
      <3>4. [[chatCall EXCEPT ![c].pc = "recover"] EXCEPT ![c].at = {}] \in ChatCallMaps
        BY <3>3, ChatCallFields
      <3> QED
        BY <3>1, <3>2, <3>4, ChatCallFields DEF ChatCallType
    <2>2. ChatMsgType' /\ ChatKept(chatMsg')
      <3>1. chatMsg' = [[chatMsg EXCEPT ![r].job = TRUE] EXCEPT ![r].st = "pending"]
        BY <1>4 DEF ChatBind
      <3>2. /\ [chatMsg EXCEPT ![r].job = TRUE] \in ChatMsgMaps
            /\ ChatKept([chatMsg EXCEPT ![r].job = TRUE])
        BY <1>0, ChatMsgFields DEF ChatMsgType
      <3> QED
        BY <3>1, <3>2, ChatMsgFields DEF ChatMsgType
    <2> QED
      BY <1>0, <1>4, <2>1, <2>2, ChatQuiet DEF ChatBind
  <1> QED
    BY <1>1, <1>2, <1>3, <1>4

\* The rows are refreshed, and a message is stored with what was approved.
LEMMA ChatStoreSteps ==
    ASSUME ChatInv, NEW c \in ChatCallers, ChatRefresh(c) \/ ChatInsert(c) PROVE ChatInv'
  <1>0. /\ ChatCallType /\ ChatMsgType /\ ChatKept(chatMsg) /\ chatFaults \in 0..ChatFaults
        /\ chatShown \in [ChatRequests -> ChatContext]
        /\ chatJob \in [ChatRequests -> {"none", "queued", "succeeded", "failed", "unknown"}]
    BY ChatParts
  <1>1. CASE ChatRefresh(c)
    <2>1. ChatMsgType' /\ ChatKept(chatMsg')
      <3>1. chatMsg' = chatMsg \/ chatMsg' = ChatRefreshed
        BY <1>1 DEF ChatRefresh
      <3>2. \A r \in ChatRequests : \/ ChatRefreshed[r] = chatMsg[r]
                                    \/ \E st \in {"pending", "complete", "unknown", "error"} :
                                          ChatRefreshed[r] = [chatMsg[r] EXCEPT !.st = st]
        BY DEF ChatRefreshed
      <3>3. ChatRefreshed = [r \in ChatRequests |-> ChatRefreshed[r]]
        BY DEF ChatRefreshed
      <3> HIDE DEF ChatRefreshed
      <3>4. \A r \in ChatRequests : \A st \in {"pending", "complete", "unknown", "error"} :
               /\ [chatMsg[r] EXCEPT !.st = st]
                     \in [st : {"none", "pending", "complete", "unknown", "error"}, job : BOOLEAN,
                          prompt : ChatContext, approved : ChatContext]
               /\ [chatMsg[r] EXCEPT !.st = st].prompt = [chatMsg[r] EXCEPT !.st = st].approved
        BY <1>0 DEF ChatMsgType, ChatMsgMaps, ChatKept
      <3>5. \A r \in ChatRequests :
               /\ chatMsg[r] \in [st : {"none", "pending", "complete", "unknown", "error"},
                                  job : BOOLEAN, prompt : ChatContext, approved : ChatContext]
               /\ chatMsg[r].prompt = chatMsg[r].approved
        BY <1>0 DEF ChatMsgType, ChatMsgMaps, ChatKept
      <3>6. \A r \in ChatRequests :
               /\ ChatRefreshed[r] \in [st : {"none", "pending", "complete", "unknown", "error"},
                                        job : BOOLEAN, prompt : ChatContext, approved : ChatContext]
               /\ ChatRefreshed[r].prompt = ChatRefreshed[r].approved
        <4> SUFFICES ASSUME NEW r \in ChatRequests
                     PROVE  /\ ChatRefreshed[r]
                                  \in [st : {"none", "pending", "complete", "unknown", "error"},
                                       job : BOOLEAN, prompt : ChatContext, approved : ChatContext]
                            /\ ChatRefreshed[r].prompt = ChatRefreshed[r].approved
          OBVIOUS
        <4>1. CASE ChatRefreshed[r] = chatMsg[r]
          BY <3>5, <4>1
        <4>2. ASSUME NEW st \in {"pending", "complete", "unknown", "error"},
                     ChatRefreshed[r] = [chatMsg[r] EXCEPT !.st = st]
              PROVE  /\ ChatRefreshed[r]
                           \in [st : {"none", "pending", "complete", "unknown", "error"},
                                job : BOOLEAN, prompt : ChatContext, approved : ChatContext]
                     /\ ChatRefreshed[r].prompt = ChatRefreshed[r].approved
          BY <3>4, <4>2, ZenonT(40)
        <4> QED
          BY <3>2, <4>1, <4>2
      <3>7. ChatRefreshed \in ChatMsgMaps /\ ChatKept(ChatRefreshed)
        BY <3>3, <3>6 DEF ChatMsgMaps, ChatKept
      <3> QED
        BY <1>0, <3>1, <3>7 DEF ChatMsgType
    <2>2. chatShown' \in [ChatRequests -> ChatContext]
      <3>1. ChatTurns(ChatRefreshed) \in ChatContext
        BY ChatContexts
      <3> QED
        BY <1>0, <1>1, <3>1 DEF ChatRefresh
    <2>3. ChatCallType'
      BY <1>0, <1>1, ChatCallMoves DEF ChatRefresh
    <2> QED
      BY <1>0, <1>1, <2>1, <2>2, <2>3, ChatQuiet DEF ChatRefresh
  <1>2. CASE ChatInsert(c)
    <2>1. PICK r \in ChatRequests :
             \/ /\ ChatUnchanged(c)
                /\ chatMsg' = [chatMsg EXCEPT ![r] =
                      [st |-> "pending", job |-> FALSE, prompt |-> ChatTurns(chatMsg),
                       approved |-> chatCall[c].approved]]
                /\ chatCall' = [chatCall EXCEPT ![c].pc = "recover", ![c].goal = "replay",
                                                ![c].todo = {r}]
             \/ /\ chatCall' = [chatCall EXCEPT ![c].pc = "recover", ![c].goal = "replay",
                                                ![c].todo = {r} \cap ChatOrphanRows]
                /\ chatMsg' = chatMsg
             \/ ChatEnd(c) /\ chatMsg' = chatMsg
      <3>1. \A r \in chatCall[c].r : r \in ChatRequests
        BY <1>0 DEF ChatCallType, ChatCallMaps, ChatCallRec
      <3> QED
        BY <1>2, <3>1 DEF ChatInsert
    <2>2. ChatCallType'
      <3>1. CASE ChatEnd(c)
        BY <1>0, <3>1, ChatCallMoves
      <3>2. ASSUME NEW todo \in SUBSET ChatRequests,
                   chatCall' = [chatCall EXCEPT ![c].pc = "recover", ![c].goal = "replay",
                                                ![c].todo = todo]
            PROVE  ChatCallType'
        <4>1. chatCall' = [[[chatCall EXCEPT ![c].pc = "recover"] EXCEPT ![c].goal = "replay"]
                              EXCEPT ![c].todo = todo]
          BY <3>2
        <4>2. [chatCall EXCEPT ![c].pc = "recover"] \in ChatCallMaps
          BY <1>0, ChatCallFields DEF ChatCallType
        <4>3. [[chatCall EXCEPT ![c].pc = "recover"] EXCEPT ![c].goal = "replay"] \in ChatCallMaps
          BY <4>2, ChatCallFields
        <4> QED
          BY <4>1, <4>3, ChatCallFields DEF ChatCallType
      <3>3. {r} \in SUBSET ChatRequests /\ {r} \cap ChatOrphanRows \in SUBSET ChatRequests
        OBVIOUS
      <3> QED
        BY <2>1, <3>1, <3>2, <3>3
    <2>3. ChatMsgType' /\ ChatKept(chatMsg')
      <3>1. CASE chatMsg' = chatMsg
        BY <1>0, <3>1 DEF ChatMsgType
      <3>2. CASE /\ ChatUnchanged(c)
                 /\ chatMsg' = [chatMsg EXCEPT ![r] =
                       [st |-> "pending", job |-> FALSE, prompt |-> ChatTurns(chatMsg),
                        approved |-> chatCall[c].approved]]
        <4>1. ChatTurns(chatMsg) = chatCall[c].approved /\ ChatTurns(chatMsg) \in ChatContext
          BY <3>2, ChatContexts DEF ChatUnchanged
        <4> QED
          BY <1>0, <3>2, <4>1 DEF ChatMsgType, ChatMsgMaps, ChatKept
      <3> QED
        BY <2>1, <3>1, <3>2
    <2> QED
      BY <1>0, <1>2, <2>2, <2>3, ChatQuiet DEF ChatInsert
  <1> QED
    BY <1>1, <1>2

\* The row of a command, its thread and its effects move together.
ChatActType ==
    /\ chatAct \in [ChatRequests ->
          [st : {"none", "routing", "applying", "complete", "error", "unknown"}, old : BOOLEAN]]
    /\ chatRun \in [ChatRequests -> {"none", "route", "apply", "complete", "error"}]
    /\ chatApplied \in [ChatRequests -> 0..2]

\* Steps that change commands, with no more than the status of their messages.
LEMMA ChatActive ==
    ASSUME ChatInv, UNCHANGED <<chatShown, chatJob>>, ChatMsgType', ChatKept(chatMsg'),
           ChatCallType', chatFaults' \in 0..ChatFaults, ChatActType',
           ChatAppliedOnce', ChatUnapplied'
    PROVE  ChatInv'
  BY DEF ChatInv, ChatTypeOK, ChatMsgType, ChatMsgMaps, ChatCallType, ChatCallMaps, ChatCallRec,
         ChatPromptKept, ChatKept, ChatActType

\* ActionRunner.start
LEMMA ChatStartStep ==
    ASSUME ChatInv, NEW c \in ChatCallers, NEW r \in ChatRequests, ChatStart(c, r) PROVE ChatInv'
  <1>0. ChatCallType /\ ChatMsgType /\ ChatKept(chatMsg) /\ chatFaults \in 0..ChatFaults
    BY ChatParts
  <1>1. ChatCallType'
    <2>1. chatCall[c].todo \ {r} \in SUBSET ChatRequests
      BY <1>0 DEF ChatCallType, ChatCallMaps, ChatCallRec
    <2> QED
      BY <1>0, <2>1, ChatCallMoves DEF ChatStart
  <1>2. UNCHANGED <<chatShown, chatJob, chatApplied, chatFaults>>
    BY DEF ChatStart
  <1>3. ChatActType /\ ChatAppliedOnce /\ ChatUnapplied
    BY DEF ChatInv, ChatTypeOK, ChatActType
  <1>4. CASE /\ ChatStartable(r)
             /\ chatAct' = [chatAct EXCEPT ![r] = [st |-> "routing", old |-> FALSE]]
             /\ chatRun' = [chatRun EXCEPT ![r] = "route"] /\ chatMsg' = chatMsg
    <2>1. ChatActType' /\ ChatAppliedOnce' /\ ChatUnapplied'
      BY <1>2, <1>3, <1>4 DEF ChatActType, ChatAppliedOnce, ChatUnapplied, ChatStartable
    <2> QED
      BY <1>0, <1>1, <1>2, <1>4, <2>1, ChatActive DEF ChatMsgType
  <1>5. CASE /\ chatAct[r].st \in {"routing", "applying"}
             /\ chatAct' = [chatAct EXCEPT ![r].st = "unknown"]
             /\ chatMsg' = [chatMsg EXCEPT ![r].st = "unknown"] /\ chatRun' = chatRun
    <2>1. ChatActType' /\ ChatAppliedOnce' /\ ChatUnapplied'
      BY <1>2, <1>3, <1>5 DEF ChatActType, ChatAppliedOnce, ChatUnapplied
    <2>2. ChatMsgType' /\ ChatKept(chatMsg')
      BY <1>0, <1>5, ChatMsgFields DEF ChatMsgType
    <2> QED
      BY <1>0, <1>1, <1>2, <2>1, <2>2, ChatActive
  <1>6. CASE UNCHANGED <<chatAct, chatRun, chatMsg>>
    <2>1. ChatActType' /\ ChatAppliedOnce' /\ ChatUnapplied'
      BY <1>2, <1>3, <1>6 DEF ChatActType, ChatAppliedOnce, ChatUnapplied
    <2> QED
      BY <1>0, <1>1, <1>2, <1>6, <2>1, ChatActive DEF ChatMsgType
  <1> QED
    BY <1>4, <1>5, <1>6 DEF ChatStart

\* ActionRunner.execute, jobs, time and crashes.
LEMMA ChatWorldSteps ==
    ASSUME ChatInv,
           \/ ChatCrash
           \/ \E r \in ChatRequests :
                 ChatRoute(r) \/ ChatApply(r) \/ ChatReport(r) \/ ChatAges(r) \/ ChatJobEnds(r)
    PROVE  ChatInv'
  <1>0. /\ ChatCallType /\ ChatMsgType /\ ChatKept(chatMsg) /\ chatFaults \in 0..ChatFaults
        /\ chatShown \in [ChatRequests -> ChatContext]
        /\ chatJob \in [ChatRequests -> {"none", "queued", "succeeded", "failed", "unknown"}]
    BY ChatParts
  <1>a. ChatActType /\ ChatAppliedOnce /\ ChatUnapplied
    BY DEF ChatInv, ChatTypeOK, ChatActType
  <1>1. CASE ChatCrash
    <2>1. ChatCallType'
      <3>1. ChatFree \in ChatCallRec
        BY ChatContexts DEF ChatFree, ChatCalls, ChatCallRec
      <3> QED
        BY <1>1, <3>1 DEF ChatCrash, ChatCallType, ChatCallMaps
    <2>2. chatFaults' \in 0..ChatFaults
      BY <1>0, <1>1, ChatAssumption DEF ChatCrash, ChatFault
    <2>3. ChatActType' /\ ChatAppliedOnce' /\ ChatUnapplied'
      BY <1>1, <1>a DEF ChatActType, ChatAppliedOnce, ChatUnapplied, ChatCrash
    <2>4. ChatMsgType' /\ ChatKept(chatMsg') /\ UNCHANGED <<chatShown, chatJob>>
      BY <1>0, <1>1 DEF ChatMsgType, ChatCrash
    <2> QED
      BY <2>1, <2>2, <2>3, <2>4, ChatActive
  <1>2. ASSUME NEW r \in ChatRequests, ChatRoute(r) \/ ChatApply(r) \/ ChatAges(r) PROVE ChatInv'
    <2>1. /\ UNCHANGED <<chatMsg, chatShown, chatJob, chatCall, chatFaults>>
      BY <1>2 DEF ChatRoute, ChatApply, ChatAges
    <2>2. CASE ChatRoute(r)
      <3>1. ChatActType'
        <4>1. \E st \in {"apply", "error"} : chatRun' = [chatRun EXCEPT ![r] = st]
          BY <2>2 DEF ChatRoute
        <4>2. \/ chatAct' = [chatAct EXCEPT ![r] = [st |-> "applying", old |-> FALSE]]
              \/ chatAct' = chatAct
          BY <2>2 DEF ChatRoute
        <4>3. chatApplied' = chatApplied
          BY <2>2 DEF ChatRoute
        <4>4. chatAct' \in [ChatRequests ->
                 [st : {"none", "routing", "applying", "complete", "error", "unknown"}, old : BOOLEAN]]
          <5>1. [st |-> "applying", old |-> FALSE] \in
                   [st : {"none", "routing", "applying", "complete", "error", "unknown"}, old : BOOLEAN]
            OBVIOUS
          <5> QED
            BY <1>a, <4>2, <5>1 DEF ChatActType
        <4>5. chatRun' \in [ChatRequests -> {"none", "route", "apply", "complete", "error"}]
          BY <1>a, <4>1 DEF ChatActType
        <4> QED
          BY <1>a, <4>3, <4>4, <4>5 DEF ChatActType
      <3>2. ChatAppliedOnce' /\ ChatUnapplied'
        BY <1>a, <2>2 DEF ChatActType, ChatAppliedOnce, ChatUnapplied, ChatRoute
      <3> QED
        BY <1>0, <2>1, <3>1, <3>2, ChatActive DEF ChatMsgType, ChatCallType
    <2>3. CASE ChatApply(r)
      <3>1. ChatActType' /\ ChatAppliedOnce' /\ ChatUnapplied'
        <4>1. chatApplied[r] = 0 /\ chatAct[r].st # "none"
          BY <1>a, <2>3 DEF ChatUnapplied, ChatApply
        <4>2. \E st \in {"complete", "error"} : chatRun' = [chatRun EXCEPT ![r] = st]
          BY <2>3 DEF ChatApply
        <4>3. \/ chatApplied' = [chatApplied EXCEPT ![r] = 1]
              \/ chatApplied' = chatApplied
          BY <2>3, <4>1, <1>a DEF ChatApply, ChatActType
        <4>4. chatAct' = chatAct
          BY <2>3 DEF ChatApply
        <4> QED
          BY <1>a, <4>1, <4>2, <4>3, <4>4 DEF ChatActType, ChatAppliedOnce, ChatUnapplied
      <3> QED
        BY <1>0, <2>1, <3>1, ChatActive DEF ChatMsgType, ChatCallType
    <2>4. CASE ChatAges(r)
      <3>1. ChatActType' /\ ChatAppliedOnce' /\ ChatUnapplied'
        BY <1>a, <2>4 DEF ChatActType, ChatAppliedOnce, ChatUnapplied, ChatAges
      <3> QED
        BY <1>0, <2>1, <3>1, ChatActive DEF ChatMsgType, ChatCallType
    <2> QED
      BY <1>2, <2>2, <2>3, <2>4
  <1>3. ASSUME NEW r \in ChatRequests, ChatReport(r) PROVE ChatInv'
    <2>1. ChatMsgType' /\ ChatKept(chatMsg')
      <3>1. PICK st \in {"complete", "error"} : chatMsg' = [chatMsg EXCEPT ![r].st = st]
        BY <1>3 DEF ChatReport
      <3> QED
        BY <1>0, <3>1, ChatMsgFields DEF ChatMsgType
    <2>2. ChatActType' /\ ChatAppliedOnce' /\ ChatUnapplied'
      <3>1. PICK st \in {"complete", "error"} :
               chatAct' = [chatAct EXCEPT ![r] = [st |-> st, old |-> FALSE]]
        BY <1>3 DEF ChatReport
      <3>2. chatRun' = [chatRun EXCEPT ![r] = "none"] /\ chatApplied' = chatApplied
        BY <1>3 DEF ChatReport
      <3> QED
        BY <1>a, <3>1, <3>2 DEF ChatActType, ChatAppliedOnce, ChatUnapplied
    <2>3. UNCHANGED <<chatShown, chatJob, chatCall, chatFaults>>
      BY <1>3 DEF ChatReport
    <2> QED
      BY <1>0, <2>1, <2>2, <2>3, ChatActive DEF ChatCallType
  <1>4. ASSUME NEW r \in ChatRequests, ChatJobEnds(r) PROVE ChatInv'
    <2>1. chatJob' \in [ChatRequests -> {"none", "queued", "succeeded", "failed", "unknown"}]
      BY <1>0, <1>4 DEF ChatJobEnds
    <2> QED
      BY <1>0, <1>4, <2>1, ChatQuiet DEF ChatJobEnds, ChatMsgType, ChatCallType
  <1> QED
    BY <1>1, <1>2, <1>3, <1>4

LEMMA ChatInvStep == ChatInv /\ [ChatNext]_chatVars => ChatInv'
  <1> SUFFICES ASSUME ChatInv, [ChatNext]_chatVars PROVE ChatInv'
    OBVIOUS
  <1>1. CASE UNCHANGED chatVars
    BY <1>1 DEF chatVars, ChatInv, ChatTypeOK, ChatAppliedOnce, ChatUnapplied, ChatPromptKept
  <1>2. CASE ChatNext
    BY <1>2, ChatAskSteps, ChatRecoverSteps, ChatStoreSteps, ChatStartStep, ChatWorldSteps
       DEF ChatNext, ChatHandles
  <1> QED
    BY <1>1, <1>2

\* submit, ActionRunner.start: a command is applied at most once, whoever starts
\* it again, and a prompt holds the context that was approved.
THEOREM ChatIsSafe == ChatSpec => []ChatSafe
  <1>1. ChatInv => ChatSafe
    BY DEF ChatInv, ChatPromptKept, ChatSafe, ChatAsApproved, ChatSent
  <1> QED
    BY <1>1, ChatInvInit, ChatInvStep, PTL DEF ChatSpec

-----------------------------------------------------------------------------
(* ThermalGuard *)

ThermPhases == {"down", "sample", "write", "notify", "tell"}

\* Something is to be told while the guard is at it.
ThermEventPending == thermPc \in {"notify", "tell"} => thermMem.event # ThermQuiet

\* While it cools, the guard counts no more calm than there was, and a restart is
\* owed only while it cools, and only for a stop of its own.
ThermHonest ==
    thermPc # "down" =>
        /\ thermMem.cooling => thermMem.since <= thermCalm
        /\ thermMem.owed => thermMem.cooling /\ thermStopped

\* What the file says outlives the guard: while it says cooling a guard that
\* runs is cooling too, or has just seen the whole cool period.
ThermFileHonest ==
    thermFile.status = "cooling" =>
        /\ thermFile.owed => thermStopped
        /\ \/ thermPc = "down" \/ thermMem.cooling
           \/ thermPc = "write" /\ thermCalm = ThermCool

\* Who cools, cools for an incident.
ThermNamed ==
    /\ thermMem.cooling => thermMem.incident # 0
    /\ thermFile.status = "cooling" => thermFile.incident # 0

ThermInv == ThermTypeOK /\ ThermEventPending /\ ThermHonest /\ ThermFileHonest /\ ThermNamed

LEMMA ThermNumbers == ThermCool \in Nat \ {0} /\ ThermIncidents \in Nat \ {0} /\ ThermFaults \in Nat
  BY ThermAssumption

LEMMA ThermQuietIsNone == ThermQuiet \notin ThermEvents
  BY DEF ThermQuiet, ThermEvents

LEMMA ThermLoads ==
    ASSUME NEW file \in ThermFile
    PROVE  /\ ThermLoaded(file) \in ThermMem /\ ThermLoaded(file).since = -1
           /\ ThermLoaded(file).cooling = (file.status = "cooling")
           /\ ThermLoaded(file).owed = (file.status = "cooling" /\ file.owed)
           /\ file.status = "cooling" => ThermLoaded(file).incident = file.incident
  <1>1. (IF file.status = "cooling" THEN file.incident ELSE 0) \in 0..ThermIncidents
    BY ThermNumbers DEF ThermFile
  <1>2. -1 \in (-1)..ThermCool
    BY ThermNumbers
  <1> QED
    BY <1>1, <1>2 DEF ThermFile, ThermMem, ThermLoaded

LEMMA ThermInvInit == ThermInit => ThermInv
  <1> SUFFICES ASSUME ThermInit PROVE ThermInv
    OBVIOUS
  <1>1. ThermFirst \in ThermFile
    BY ThermNumbers DEF ThermFirst, ThermFile
  <1>2. /\ thermMem \in ThermMem /\ thermMem.since = -1
        /\ thermMem.cooling = (ThermFirst.status = "cooling")
        /\ thermMem.owed = (ThermFirst.status = "cooling" /\ ThermFirst.owed)
    BY <1>1, ThermLoads DEF ThermInit
  <1>3. /\ thermFile = ThermFirst /\ thermPc = "sample" /\ thermUp \in BOOLEAN
        /\ thermIncident = 0 /\ thermTask = [i \in ThermIds |-> "none"]
        /\ thermSaid = {} /\ thermCalm = 0 /\ thermStopped = FALSE /\ thermFaults = 0
    BY DEF ThermInit
  <1>4. ThermTypeOK
    <2>1. /\ thermIncident \in 0..ThermIncidents /\ thermCalm \in 0..ThermCool
          /\ thermFaults \in 0..ThermFaults
      BY <1>3, ThermNumbers
    <2>2. /\ thermTask \in [ThermIds -> {"none", "active", "blocked", "done"}]
          /\ thermPc \in {"down", "sample", "write", "notify", "tell"}
          /\ thermStopped \in BOOLEAN /\ thermSaid \subseteq ThermEvents
      BY <1>3
    <2> QED
      BY <1>1, <1>2, <1>3, <2>1, <2>2, Zenon DEF ThermTypeOK
  <1>5. ~thermMem.owed /\ ~thermMem.cooling /\ thermFile.status = "ready"
    BY <1>2, <1>3 DEF ThermFirst
  <1> QED
    BY <1>2, <1>3, <1>4, <1>5 DEF ThermInv, ThermEventPending, ThermHonest, ThermFileHonest, ThermNamed

LEMMA ThermFaultBounded == thermFaults \in 0..ThermFaults /\ ThermFault => thermFaults' \in 0..ThermFaults
  BY ThermNumbers DEF ThermFault

LEMMA ThermStopTypes ==
    ASSUME ThermTypeOK, NEW confirmed \in BOOLEAN, ThermStop(confirmed)
    PROVE  /\ thermUp' \in BOOLEAN /\ thermFaults' \in 0..ThermFaults
           /\ ~thermUp => thermUp' = FALSE
  BY ThermFaultBounded DEF ThermTypeOK, ThermStop

\* step: the card is hot or unreadable.
LEMMA ThermTripStep ==
    ASSUME ThermInv, NEW temp \in ThermSamples, ThermTrip(temp) PROVE ThermInv'
  <1> DEFINE new == ~thermMem.cooling
             id == IF new THEN thermIncident + 1 ELSE thermMem.incident
  <1>1. PICK confirmed \in BOOLEAN :
           /\ ThermStop(confirmed)
           /\ thermStopped' = (confirmed \/ (thermStopped /\ ~new))
           /\ thermMem' = [cooling |-> TRUE, owed |-> thermMem.owed \/ confirmed,
                           incident |-> id, since |-> -1,
                           event |-> IF new THEN [phase |-> "trip", incident |-> id]
                                     ELSE thermMem.event]
    BY DEF ThermTrip
  <1>2. id \in 0..ThermIncidents /\ (new => id \in ThermIds)
    BY ThermNumbers DEF ThermTrip, ThermInv, ThermTypeOK, ThermMem, ThermIds
  <1>2a. id # 0
    BY <1>2, ThermNumbers DEF ThermIds, ThermInv, ThermNamed
  <1> HIDE DEF id
  <1>3. (IF new THEN [phase |-> "trip", incident |-> id] ELSE thermMem.event)
           \in ThermEvents \cup {ThermQuiet}
    BY <1>2 DEF ThermInv, ThermTypeOK, ThermMem, ThermEvents
  <1>4. thermMem.owed \in BOOLEAN /\ thermStopped \in BOOLEAN /\ thermCalm \in 0..ThermCool
    BY DEF ThermInv, ThermTypeOK, ThermMem
  <1>5. thermMem' \in ThermMem
    <2>1. -1 \in (-1)..ThermCool
      BY ThermNumbers
    <2>2. (thermMem.owed \/ confirmed) \in BOOLEAN
      OBVIOUS
    <2> QED
      BY <1>1, <1>2, <1>3, <2>1, <2>2 DEF ThermMem
  <1>6. thermStopped' \in BOOLEAN
    BY <1>1
  <1>7. thermUp' \in BOOLEAN /\ thermFaults' \in 0..ThermFaults
    BY <1>1, ThermStopTypes DEF ThermInv
  <1>8. thermIncident' \in 0..ThermIncidents
    BY <1>2 DEF ThermTrip, ThermInv, ThermTypeOK, id
  <1>9. thermPc = "sample" /\ thermPc' = "write" /\ thermCalm' = 0
        /\ UNCHANGED <<thermFile, thermTask, thermSaid>>
    BY DEF ThermTrip
  <1>10. ThermTypeOK'
    BY <1>5, <1>6, <1>7, <1>8, <1>9, ThermNumbers DEF ThermInv, ThermTypeOK
  <1>10a. thermMem'.incident # 0 /\ (thermFile'.status = "cooling" => thermFile'.incident # 0)
    BY <1>1, <1>2a, <1>9 DEF ThermInv, ThermNamed
  <1>11. thermMem'.owed = (thermMem.owed \/ confirmed) /\ thermMem'.cooling /\ thermMem'.since = -1
    BY <1>1
  <1>12. thermMem.owed => thermMem.cooling /\ thermStopped
    BY <1>9 DEF ThermInv, ThermHonest
  <1>13. thermMem'.owed => thermStopped'
    BY <1>1, <1>11, <1>12
  <1>14. thermFile'.status = "cooling" /\ thermFile'.owed => thermStopped'
    BY <1>1, <1>9 DEF ThermInv, ThermFileHonest
  <1>15. thermMem'.since <= thermCalm'
    BY <1>9, <1>11
  <1> QED
    BY <1>9, <1>10, <1>10a, <1>11, <1>13, <1>14, <1>15
       DEF ThermInv, ThermEventPending, ThermHonest, ThermFileHonest, ThermNamed

\* The memory with another moment of the first cool sample.
LEMMA ThermSinceType ==
    ASSUME NEW mem \in ThermMem, NEW s \in (-1)..ThermCool
    PROVE  /\ [mem EXCEPT !.since = s] \in ThermMem
           /\ [mem EXCEPT !.since = s].since = s
           /\ [mem EXCEPT !.since = s].owed = mem.owed
           /\ [mem EXCEPT !.since = s].cooling = mem.cooling
           /\ [mem EXCEPT !.since = s].incident = mem.incident
  BY DEF ThermMem

LEMMA ThermFields ==
    ASSUME NEW mem \in ThermMem
    PROVE  /\ \A b \in BOOLEAN :
                 /\ [mem EXCEPT !.cooling = b] \in ThermMem
                 /\ [mem EXCEPT !.cooling = b].incident = mem.incident
           /\ \A b \in BOOLEAN :
                 /\ [mem EXCEPT !.owed = b] \in ThermMem
                 /\ [mem EXCEPT !.owed = b].incident = mem.incident
                 /\ [mem EXCEPT !.owed = b].owed = b
           /\ \A e \in ThermEvents \cup {ThermQuiet} :
                 /\ [mem EXCEPT !.event = e] \in ThermMem
                 /\ [mem EXCEPT !.event = e].since = mem.since
                 /\ [mem EXCEPT !.event = e].owed = mem.owed
                 /\ [mem EXCEPT !.event = e].incident = mem.incident
                 /\ [mem EXCEPT !.event = e].cooling = mem.cooling
  BY DEF ThermMem

\* step: the card is not hot, the cool period not over; or time passes.
LEMMA ThermWaitStep ==
    ASSUME ThermInv, ThermTick \/ \E temp \in ThermSamples : ThermWait(temp) PROVE ThermInv'
  <1>1. /\ thermPc = "sample" /\ thermMem \in ThermMem /\ thermCalm \in 0..ThermCool
        /\ thermMem.since \in (-1)..ThermCool /\ (thermMem.cooling => thermMem.since <= thermCalm)
        /\ UNCHANGED <<thermFile, thermUp, thermIncident, thermTask, thermSaid, thermStopped,
                       thermFaults>>
        /\ thermPc' \in {"sample", "write"}
    BY DEF ThermInv, ThermTypeOK, ThermMem, ThermHonest, ThermWait, ThermTick
  <1>2. /\ thermCalm' \in 0..ThermCool
        /\ \/ thermMem' = thermMem /\ ~thermMem.cooling
           \/ \E s \in (-1)..ThermCool :
                 (thermMem.cooling => s <= thermCalm') /\ thermMem' = [thermMem EXCEPT !.since = s]
    <2>1. CASE ThermTick
      <3> DEFINE s == IF thermMem.since \in 0..(ThermCool - 1) THEN thermMem.since + 1
                      ELSE thermMem.since
      <3>1. thermMem' = [thermMem EXCEPT !.since = s]
        BY <2>1 DEF ThermTick
      <3>2. thermCalm' = IF thermCalm < ThermCool THEN thermCalm + 1 ELSE thermCalm
        BY <2>1 DEF ThermTick
      <3>3. s \in (-1)..ThermCool /\ (thermMem.cooling => s <= thermCalm')
            /\ thermCalm' \in 0..ThermCool
        BY <1>1, <3>2, ThermNumbers
      <3> HIDE DEF s
      <3> QED
        BY <3>1, <3>3
    <2>2. ASSUME NEW temp \in ThermSamples, ThermWait(temp)
          PROVE  /\ thermCalm' \in 0..ThermCool
                 /\ \/ thermMem' = thermMem /\ ~thermMem.cooling
                    \/ \E s \in (-1)..ThermCool :
                          /\ thermMem.cooling => s <= thermCalm'
                          /\ thermMem' = [thermMem EXCEPT !.since = s]
      <3> DEFINE s == ThermSince(thermMem.since, temp)
      <3>1. /\ temp \in {"warm", "cool"}
            /\ thermMem' = IF thermMem.cooling THEN [thermMem EXCEPT !.since = s] ELSE thermMem
            /\ thermCalm' = IF temp = "warm" THEN 0 ELSE thermCalm
        BY <2>2 DEF ThermWait
      <3>2. s \in (-1)..ThermCool /\ (thermMem.cooling => s <= thermCalm')
            /\ thermCalm' \in 0..ThermCool
        BY <1>1, <3>1, ThermNumbers DEF ThermSince
      <3> HIDE DEF s
      <3> QED
        BY <3>1, <3>2
    <2> QED
      BY <2>1, <2>2
  <1>3. /\ thermMem' \in ThermMem /\ thermMem'.owed = thermMem.owed
        /\ thermMem'.cooling = thermMem.cooling /\ thermMem'.incident = thermMem.incident
        /\ thermMem.cooling => thermMem'.since <= thermCalm'
    <2>1. CASE thermMem' = thermMem /\ ~thermMem.cooling
      BY <1>1, <2>1
    <2>2. ASSUME NEW s \in (-1)..ThermCool, thermMem.cooling => s <= thermCalm',
                 thermMem' = [thermMem EXCEPT !.since = s]
          PROVE  /\ thermMem' \in ThermMem /\ thermMem'.owed = thermMem.owed
                 /\ thermMem'.cooling = thermMem.cooling /\ thermMem'.incident = thermMem.incident
                 /\ thermMem.cooling => thermMem'.since <= thermCalm'
      BY <1>1, <2>2, ThermSinceType
    <2> QED
      BY <1>2, <2>1, <2>2
  <1>4. ThermTypeOK'
    BY <1>1, <1>2, <1>3 DEF ThermInv, ThermTypeOK
  <1> QED
    BY <1>1, <1>3, <1>4 DEF ThermInv, ThermEventPending, ThermHonest, ThermFileHonest, ThermNamed

\* step: the cool period is over; a restart that is not confirmed is tried again.
LEMMA ThermRecoverStep == ThermInv /\ ThermRecover => ThermInv'
  <1> SUFFICES ASSUME ThermInv, ThermRecover PROVE ThermInv'
    OBVIOUS
  <1>1. /\ thermPc = "sample" /\ thermPc' = "write" /\ thermMem \in ThermMem
        /\ thermMem.cooling /\ thermMem.since = ThermCool
        /\ UNCHANGED <<thermFile, thermIncident, thermTask, thermSaid, thermCalm, thermStopped>>
    BY DEF ThermInv, ThermTypeOK, ThermRecover
  <1>2. thermCalm = ThermCool
    BY <1>1, ThermNumbers DEF ThermInv, ThermHonest, ThermTypeOK
  <1>3. thermUp' \in BOOLEAN /\ thermFaults' \in 0..ThermFaults
    <2>1. (thermUp \/ thermMem.owed) \in BOOLEAN /\ thermUp \in BOOLEAN /\ thermFaults \in 0..ThermFaults
      BY DEF ThermInv, ThermTypeOK
    <2> QED
      BY <2>1, ThermFaultBounded DEF ThermRecover
  <1>4. thermMem' = thermMem \/ thermMem' = ThermRecovered(thermMem)
    BY DEF ThermRecover
  <1>5. /\ ThermRecovered(thermMem) \in ThermMem /\ ~ThermRecovered(thermMem).owed
        /\ ThermRecovered(thermMem).incident = thermMem.incident
    <2>1. thermMem.incident \in ThermIds
      BY <1>1, ThermNumbers DEF ThermMem, ThermIds, ThermInv, ThermNamed
    <2>2. [phase |-> "recovered", incident |-> thermMem.incident] \in ThermEvents \cup {ThermQuiet}
      BY <2>1 DEF ThermEvents
    <2>3. PICK m1 : m1 = [thermMem EXCEPT !.cooling = FALSE]
      OBVIOUS
    <2>4. m1 \in ThermMem /\ m1.incident = thermMem.incident
      BY <1>1, <2>3, ThermFields
    <2>5. PICK m2 : m2 = [m1 EXCEPT !.owed = FALSE]
      OBVIOUS
    <2>6. m2 \in ThermMem /\ m2.incident = thermMem.incident /\ m2.owed = FALSE
      BY <2>4, <2>5, ThermFields
    <2>7. ThermRecovered(thermMem) =
             [m2 EXCEPT !.event = [phase |-> "recovered", incident |-> thermMem.incident]]
      BY <2>3, <2>5 DEF ThermRecovered
    <2> QED
      BY <2>2, <2>6, <2>7, ThermFields
  <1>6. ThermTypeOK'
    BY <1>1, <1>3, <1>4, <1>5 DEF ThermInv, ThermTypeOK
  <1>7. ThermHonest'
    <2>1. CASE thermMem' = thermMem
      BY <1>1, <1>2, <2>1 DEF ThermInv, ThermHonest
    <2>2. CASE thermMem' = ThermRecovered(thermMem)
      BY <1>1, <1>2, <1>5, <2>2, ThermNumbers DEF ThermInv, ThermHonest, ThermRecovered, ThermMem
    <2> QED
      BY <1>4, <2>1, <2>2
  <1>8. ThermFileHonest'
    BY <1>1, <1>2 DEF ThermInv, ThermFileHonest
  <1>9. ThermNamed'
    BY <1>1, <1>4, <1>5 DEF ThermInv, ThermNamed
  <1> QED
    BY <1>1, <1>6, <1>7, <1>8, <1>9 DEF ThermInv, ThermEventPending

\* The file is replaced.
LEMMA ThermWriteStep == ThermInv /\ ThermWrite => ThermInv'
  <1> SUFFICES ASSUME ThermInv, ThermWrite PROVE ThermInv'
    OBVIOUS
  <1> DEFINE file == [status |-> IF thermMem.cooling THEN "cooling" ELSE "ready",
                      owed |-> thermMem.owed, incident |-> thermMem.incident,
                      event |-> thermMem.event]
  <1>1. /\ thermPc = "write" /\ thermFile' = file
        /\ thermPc' = IF thermMem.event = ThermQuiet THEN "sample" ELSE "notify"
        /\ UNCHANGED <<thermMem, thermUp, thermIncident, thermTask, thermSaid, thermCalm,
                       thermStopped, thermFaults>>
    BY DEF ThermWrite
  <1>2. file \in ThermFile
    BY DEF ThermInv, ThermTypeOK, ThermMem, ThermFile
  <1>3. /\ file.status = "cooling" => thermMem.cooling
        /\ file.owed = thermMem.owed /\ file.incident = thermMem.incident
    OBVIOUS
  <1> HIDE DEF file
  <1>4. ThermTypeOK'
    BY <1>1, <1>2 DEF ThermInv, ThermTypeOK
  <1> QED
    BY <1>1, <1>3, <1>4 DEF ThermInv, ThermEventPending, ThermHonest, ThermFileHonest, ThermNamed

\* notify: the task of the incident is moved, the event is said or fails.
LEMMA ThermTellSteps ==
    ASSUME ThermInv, ThermNotify \/ ThermTell \/ ThermNotifyFails PROVE ThermInv'
  <1>1. CASE ThermNotify
    <2>1. thermTask' \in [ThermIds -> {"none", "active", "blocked", "done"}]
      <3> DEFINE old == thermTask[thermMem.event.incident]
                 st == CASE thermMem.event.phase = "recovered" -> "done"
                         [] thermMem.event.phase = "trip" /\ old \in {"none", "active"} -> "blocked"
                         [] OTHER -> old
      <3>1. thermTask' = [thermTask EXCEPT ![thermMem.event.incident] = st]
        BY <1>1 DEF ThermNotify
      <3>2. thermMem.event \in ThermEvents
        BY <1>1 DEF ThermNotify, ThermInv, ThermEventPending, ThermTypeOK, ThermMem
      <3>3. thermMem.event.incident \in ThermIds
        BY <3>2 DEF ThermEvents
      <3>4. old \in {"none", "active", "blocked", "done"}
        BY <3>3 DEF ThermInv, ThermTypeOK
      <3>5. st \in {"none", "active", "blocked", "done"}
        BY <3>4
      <3> HIDE DEF st
      <3> QED
        BY <3>1, <3>3, <3>5 DEF ThermInv, ThermTypeOK
    <2> QED
      BY <1>1, <2>1
         DEF ThermNotify, ThermInv, ThermTypeOK, ThermEventPending, ThermHonest, ThermFileHonest,
             ThermNamed
  <1>2. CASE ThermTell
    <2>1. /\ thermMem' = [thermMem EXCEPT !.event = ThermQuiet] /\ thermMem \in ThermMem
          /\ thermPc = "tell" /\ thermPc' = "sample"
          /\ thermSaid' = thermSaid \cup {thermMem.event}
          /\ UNCHANGED <<thermFile, thermUp, thermIncident, thermTask, thermCalm, thermStopped,
                         thermFaults>>
      BY <1>2 DEF ThermTell, ThermInv, ThermTypeOK
    <2>2. /\ thermMem' \in ThermMem /\ thermMem'.since = thermMem.since
          /\ thermMem'.owed = thermMem.owed /\ thermMem'.cooling = thermMem.cooling
          /\ thermMem'.incident = thermMem.incident
      BY <2>1, ThermFields
    <2>3. thermSaid' \subseteq ThermEvents
      BY <2>1 DEF ThermInv, ThermTypeOK, ThermEventPending, ThermMem
    <2>4. ThermTypeOK'
      BY <2>1, <2>2, <2>3 DEF ThermInv, ThermTypeOK
    <2> QED
      BY <2>1, <2>2, <2>4 DEF ThermInv, ThermEventPending, ThermHonest, ThermFileHonest, ThermNamed
  <1>3. CASE ThermNotifyFails
    <2>1. thermTask' \in [ThermIds -> {"none", "active", "blocked", "done"}]
      BY <1>3 DEF ThermNotifyFails, ThermInv, ThermTypeOK
    <2>2. thermFaults' \in 0..ThermFaults
      BY <1>3, ThermFaultBounded DEF ThermNotifyFails, ThermInv, ThermTypeOK
    <2>3. /\ thermPc \in {"notify", "tell"} /\ thermPc' = "sample"
          /\ UNCHANGED <<thermMem, thermFile, thermUp, thermIncident, thermSaid, thermCalm,
                         thermStopped>>
      BY <1>3 DEF ThermNotifyFails
    <2> QED
      BY <2>1, <2>2, <2>3
         DEF ThermInv, ThermTypeOK, ThermEventPending, ThermHonest, ThermFileHonest,
             ThermNamed
  <1> QED
    BY <1>1, <1>2, <1>3

\* The guard dies and starts again, and the operator has his way.
LEMMA ThermWorldSteps ==
    ASSUME ThermInv, ThermCrash \/ ThermStart \/ ThermOperator PROVE ThermInv'
  <1>1. CASE ThermCrash
    <2>1. thermFaults' \in 0..ThermFaults
      BY <1>1, ThermFaultBounded DEF ThermCrash, ThermInv, ThermTypeOK
    <2> QED
      BY <1>1, <2>1
         DEF ThermCrash, ThermInv, ThermTypeOK, ThermEventPending, ThermHonest, ThermFileHonest,
             ThermNamed
  <1>2. CASE ThermStart
    <2>1. /\ thermPc = "down" /\ thermPc' = "sample" /\ thermMem' = ThermLoaded(thermFile)
          /\ UNCHANGED <<thermFile, thermUp, thermIncident, thermTask, thermSaid, thermCalm,
                         thermStopped, thermFaults>>
      BY <1>2 DEF ThermStart
    <2>2. /\ thermMem' \in ThermMem /\ thermMem'.since = -1
          /\ thermMem'.cooling = (thermFile.status = "cooling")
          /\ thermMem'.owed = (thermFile.status = "cooling" /\ thermFile.owed)
          /\ thermFile.status = "cooling" => thermMem'.incident = thermFile.incident
      BY <2>1, ThermLoads DEF ThermInv, ThermTypeOK
    <2>3. ThermTypeOK'
      BY <2>1, <2>2 DEF ThermInv, ThermTypeOK
    <2>4. -1 <= thermCalm
      BY DEF ThermInv, ThermTypeOK
    <2>5. ThermHonest'
      BY <2>1, <2>2, <2>4 DEF ThermInv, ThermHonest, ThermFileHonest
    <2>6. ThermFileHonest'
      BY <2>1, <2>2 DEF ThermInv, ThermFileHonest
    <2>7. ThermNamed'
      BY <2>1, <2>2 DEF ThermInv, ThermNamed
    <2> QED
      BY <2>1, <2>3, <2>5, <2>6, <2>7 DEF ThermInv, ThermEventPending
  <1>3. CASE ThermOperator
    <2>1. thermUp' \in BOOLEAN
      BY <1>3 DEF ThermOperator
    <2> QED
      BY <1>3, <2>1
         DEF ThermOperator, ThermInv, ThermTypeOK, ThermEventPending, ThermHonest, ThermFileHonest,
             ThermNamed
  <1> QED
    BY <1>1, <1>2, <1>3

LEMMA ThermInvStep == ThermInv /\ [ThermNext]_thermVars => ThermInv'
  <1> SUFFICES ASSUME ThermInv, [ThermNext]_thermVars PROVE ThermInv'
    OBVIOUS
  <1>1. CASE UNCHANGED thermVars
    BY <1>1 DEF thermVars, ThermInv, ThermTypeOK, ThermEventPending, ThermHonest, ThermFileHonest,
             ThermNamed
  <1>2. CASE ThermNext
    BY <1>2, ThermTripStep, ThermWaitStep, ThermRecoverStep, ThermWriteStep, ThermTellSteps,
       ThermWorldSteps DEF ThermNext, ThermStep
  <1> QED
    BY <1>1, <1>2

\* The file says ready again only when the whole cool period was seen: it is
\* replaced by what the guard found, and the guard's count was honest.
LEMMA ThermCoolsDown ==
    ASSUME ThermInv, [ThermNext]_thermVars,
           thermFile.status = "cooling", thermFile'.status = "ready"
    PROVE  thermCalm >= ThermCool
  <1>1. thermFile' # thermFile
    OBVIOUS
  <1>2. ThermWrite
    BY <1>1 DEF ThermNext, ThermStep, thermVars, ThermTrip, ThermWait, ThermRecover, ThermNotify,
                ThermTell, ThermNotifyFails, ThermCrash, ThermStart, ThermOperator, ThermTick
  <1>3. thermPc = "write" /\ ~thermMem.cooling
    BY <1>2 DEF ThermWrite
  <1> QED
    BY <1>3, ThermNumbers DEF ThermInv, ThermFileHonest

\* A step that brings the service up does it for a stop of the guard's own.
LEMMA ThermStartsOwn ==
    ASSUME ThermInv, [ThermNext]_thermVars,
           thermPc = "sample", thermPc' = "write", ~thermUp, thermUp'
    PROVE  thermStopped
  <1>1. ThermStep
    BY DEF ThermNext, thermVars, ThermWrite, ThermNotify, ThermTell, ThermNotifyFails, ThermCrash,
           ThermStart, ThermOperator, ThermTick
  <1>2. ASSUME NEW temp \in ThermSamples, ThermTrip(temp) PROVE FALSE
    BY <1>2, ThermStopTypes DEF ThermInv, ThermTrip
  <1>3. ASSUME NEW temp \in ThermSamples, ThermWait(temp) PROVE FALSE
    BY <1>3 DEF ThermWait
  <1>4. CASE ThermRecover
    <2>1. thermMem.owed
      BY <1>4 DEF ThermRecover
    <2> QED
      BY <2>1 DEF ThermInv, ThermHonest
  <1> QED
    BY <1>1, <1>2, <1>3, <1>4 DEF ThermStep

\* main, step, Guard.__init__: over crashes and restarts of the guard the card
\* stays out of use for a whole cool period, and the guard starts the service
\* only if it stopped it in the same incident.
THEOREM CoolingIsReal == ThermSpec => ThermSafe
  <1>1. ThermSpec => []ThermInv
    BY ThermInvInit, ThermInvStep, PTL DEF ThermSpec
  <1>2. ThermInv => ThermTypeOK
    BY DEF ThermInv
  <1>3. ThermInv /\ [ThermNext]_thermVars =>
           [thermFile.status = "cooling" /\ thermFile'.status = "ready"
              => thermCalm >= ThermCool]_thermVars
    BY ThermCoolsDown
  <1>4. ThermInv /\ [ThermNext]_thermVars =>
           [(thermPc = "sample" /\ thermPc' = "write" /\ ~thermUp /\ thermUp')
              => thermStopped]_thermVars
    BY ThermStartsOwn
  <1> QED
    BY <1>1, <1>2, <1>3, <1>4, PTL DEF ThermSpec, ThermSafe, ThermHysteresis, ThermOwnRestart

-----------------------------------------------------------------------------
(* Conversation learning: what a batch has passed exists, what it is about *)
(* to make does not, and the messages a run still holds are in no batch.   *)

LrnJournal == [msgs : SUBSET LrnMessages, items : SUBSET LrnItems,
               status : {"pending", "done"}, summary : Nat \cup {LrnUncounted}]
LrnWhere == {"idle", "ask", "item", "make", "tell", "close"}
LrnStates == [at : LrnWhere, b : Nat, item : LrnItems \cup {LrnNone}, left : SUBSET LrnItems,
              created : Nat, todo : SUBSET LrnMessages]

LrnTyped ==
    /\ lrnSent \in 0..LrnMax /\ lrnOld \in 0..lrnSent /\ lrnSeen \subseteq 1..lrnSent
    /\ lrnBatch \in Seq(LrnJournal)
    /\ lrnMade \in [LrnItems -> 0..1] /\ lrnLive \subseteq {i \in LrnPrefs : lrnMade[i] > 0}
    /\ lrnOwn \in [LrnItems -> {"never", "live", "gone"}]
    /\ lrnTold \subseteq DOMAIN lrnBatch /\ lrnRun \in LrnStates

\* The item exists or existed, or the owner has or had it himself.
LrnHandled(i) == lrnMade[i] > 0 \/ (i \in LrnPrefs /\ lrnOwn[i] # "never")

\* One batch of the journal.
LrnRowSound(b) ==
    /\ lrnBatch[b].msgs \subseteq 1..lrnSent /\ lrnBatch[b].msgs \cap LrnPrivate = {}
    /\ b \in lrnTold => lrnBatch[b].summary \in Nat \ {0}
    /\ lrnBatch[b].status = "done" =>
         /\ lrnBatch[b].msgs \subseteq lrnSeen
         /\ \A i \in lrnBatch[b].items : LrnHandled(i)
         /\ lrnBatch[b].summary \in Nat
         /\ lrnBatch[b].summary > 0 => b \in lrnTold

LrnJournalSound ==
    /\ \A b \in DOMAIN lrnBatch : LrnRowSound(b)
    /\ \A b, c \in DOMAIN lrnBatch : b # c => lrnBatch[b].msgs \cap lrnBatch[c].msgs = {}
    /\ \A m \in lrnSeen \ LrnPrivate :
         \E b \in DOMAIN lrnBatch : m \in lrnBatch[b].msgs /\ lrnBatch[b].status = "done"

\* The run and the batch it works on.
LrnRunSound ==
    /\ lrnRun.b \in {0} \cup DOMAIN lrnBatch
    /\ lrnRun.at \in {"item", "make", "tell", "close"} => lrnRun.b \in DOMAIN lrnBatch
    /\ lrnRun.at = "make" => lrnRun.item \in LrnItems /\ lrnMade[lrnRun.item] = 0
    /\ lrnRun.at \in {"item", "make"} =>
         \A i \in lrnBatch[lrnRun.b].items : i \in lrnRun.left \cup {lrnRun.item} \/ LrnHandled(i)
    /\ lrnRun.at = "item" => lrnRun.item = LrnNone
    /\ lrnRun.at \in {"tell", "close"} =>
         /\ \A i \in lrnBatch[lrnRun.b].items : LrnHandled(i)
         /\ lrnBatch[lrnRun.b].summary \in Nat
    /\ lrnRun.at = "close" => (lrnBatch[lrnRun.b].summary > 0 => lrnRun.b \in lrnTold)
    /\ lrnRun.todo \subseteq 1..lrnSent /\ lrnRun.todo \cap LrnPrivate = {}
    /\ \A b \in DOMAIN lrnBatch : lrnRun.todo \cap lrnBatch[b].msgs = {}

LrnInv == LrnTyped /\ LrnJournalSound /\ LrnRunSound

LEMMA LrnNoneIsNew == LrnNone \notin LrnItems /\ LrnUncounted \notin Nat
  BY LrnAssumption DEF LrnUncounted

LEMMA LrnBatches ==
    ASSUME LrnInv
    PROVE  /\ lrnBatch \in Seq(LrnJournal) /\ Len(lrnBatch) \in Nat
           /\ DOMAIN lrnBatch = 1..Len(lrnBatch)
           /\ \A b \in DOMAIN lrnBatch : lrnBatch[b] \in LrnJournal /\ b \in Nat
           /\ 0 \notin DOMAIN lrnBatch
  <1>1. lrnBatch \in Seq(LrnJournal)
    BY DEF LrnInv, LrnTyped
  <1>2. Len(lrnBatch) \in Nat /\ DOMAIN lrnBatch = 1..Len(lrnBatch)
    BY <1>1, LenProperties
  <1>3. \A b \in DOMAIN lrnBatch : lrnBatch[b] \in LrnJournal
    BY <1>1, ElementOfSeq, <1>2
  <1> QED BY <1>1, <1>2, <1>3

LEMMA LrnIdleTyped == LrnIdle \in LrnStates /\ LrnIdle.at = "idle" /\ LrnIdle.b = 0 /\ LrnIdle.todo = {}
  BY DEF LrnIdle, LrnStates, LrnWhere

\* A run that is idle relies on nothing.
LEMMA LrnIdleSound ==
    ASSUME lrnRun = LrnIdle PROVE LrnRunSound /\ lrnRun \in LrnStates
  BY LrnIdleTyped DEF LrnRunSound

\* What one field of the run's locals becomes leaves the others.
LEMMA LrnFields ==
    ASSUME NEW r \in LrnStates
    PROVE  /\ \A at \in LrnWhere : LET x == [r EXCEPT !.at = at] IN
                /\ x \in LrnStates /\ x.at = at /\ x.b = r.b /\ x.item = r.item /\ x.left = r.left
                /\ x.todo = r.todo /\ x.created = r.created
           /\ \A b \in Nat : LET x == [r EXCEPT !.b = b] IN
                /\ x \in LrnStates /\ x.at = r.at /\ x.b = b /\ x.item = r.item /\ x.left = r.left
                /\ x.todo = r.todo /\ x.created = r.created
           /\ \A i \in LrnItems \cup {LrnNone} : LET x == [r EXCEPT !.item = i] IN
                /\ x \in LrnStates /\ x.at = r.at /\ x.b = r.b /\ x.item = i /\ x.left = r.left
                /\ x.todo = r.todo /\ x.created = r.created
           /\ \A s \in SUBSET LrnItems : LET x == [r EXCEPT !.left = s] IN
                /\ x \in LrnStates /\ x.at = r.at /\ x.b = r.b /\ x.item = r.item /\ x.left = s
                /\ x.todo = r.todo /\ x.created = r.created
           /\ \A n \in Nat : LET x == [r EXCEPT !.created = n] IN
                /\ x \in LrnStates /\ x.at = r.at /\ x.b = r.b /\ x.item = r.item /\ x.left = r.left
                /\ x.todo = r.todo /\ x.created = n
           /\ \A t \in SUBSET LrnMessages : LET x == [r EXCEPT !.todo = t] IN
                /\ x \in LrnStates /\ x.at = r.at /\ x.b = r.b /\ x.item = r.item /\ x.left = r.left
                /\ x.todo = t /\ x.created = r.created
  BY DEF LrnStates

LEMMA LrnRunFields ==
    ASSUME NEW r \in LrnStates
    PROVE  /\ r.at \in LrnWhere /\ r.b \in Nat /\ r.item \in LrnItems \cup {LrnNone}
           /\ r.left \in SUBSET LrnItems /\ r.created \in Nat /\ r.todo \in SUBSET LrnMessages
  BY DEF LrnStates

\* A run begins with the items of a batch.
LEMMA LrnBegins ==
    ASSUME NEW b \in Nat, NEW items \in SUBSET LrnItems, NEW todo \in SUBSET LrnMessages,
           LrnBegin(b, items, todo)
    PROVE  /\ lrnRun' \in LrnStates /\ lrnRun'.at = "item" /\ lrnRun'.b = b
           /\ lrnRun'.item = LrnNone /\ lrnRun'.left = items /\ lrnRun'.todo = todo
  BY DEF LrnBegin, LrnIdle, LrnStates, LrnWhere

LEMMA LrnInitInv == LrnInit => LrnInv
  <1> SUFFICES ASSUME LrnInit PROVE LrnInv
    OBVIOUS
  <1>1. lrnBatch \in Seq(LrnJournal) /\ DOMAIN lrnBatch = {}
    BY DEF LrnInit
  <1>2. LrnRunSound /\ lrnRun \in LrnStates
    BY LrnIdleSound DEF LrnInit
  <1>3. LrnTyped
    <2>1. 0 \in 0..LrnMax /\ 0 \in 0..0 /\ 0 \in 0..1
      BY LrnAssumption
    <2> QED BY <1>1, <1>2, <2>1 DEF LrnInit, LrnTyped
  <1>4. LrnJournalSound
    BY <1>1 DEF LrnInit, LrnJournalSound
  <1> QED BY <1>2, <1>3, <1>4 DEF LrnInv

LEMMA LrnParts ==
    ASSUME LrnInv PROVE LrnTyped /\ LrnJournalSound /\ LrnRunSound
  BY DEF LrnInv

\* The journal, the facts and the events stay; only the run moves.
LEMMA LrnMoves ==
    ASSUME LrnInv, lrnRun' \in LrnStates, LrnRunSound',
           UNCHANGED <<lrnEvents, lrnFacts, lrnSeen, lrnBatch, lrnTold>>
    PROVE  LrnInv'
  <1>1. LrnTyped'
    BY LrnParts DEF LrnTyped, lrnEvents, lrnFacts
  <1>2. LrnJournalSound'
    BY LrnParts DEF LrnJournalSound, LrnRowSound, LrnHandled, lrnEvents, lrnFacts
  <1> QED BY <1>1, <1>2 DEF LrnInv

LEMMA LrnStill == ASSUME LrnInv, UNCHANGED lrnVars PROVE LrnInv'
  BY DEF LrnInv, LrnTyped, LrnJournalSound, LrnRowSound, LrnHandled, LrnRunSound, lrnVars, lrnEvents

\* A set of numbers that is not empty holds its least one.
LEMMA LeastIn ==
    ASSUME NEW S, S \subseteq Nat, S # {}
    PROVE  Min(S) \in S
  <1> DEFINE Less == OpToRel(<, Nat)
  <1>1. IsWellFoundedOn(Less, Nat)
    BY NatLessThanWellFounded
  <1>2. \A x, y \in Nat : x < y => <<x, y>> \in Less
    BY DEF OpToRel
  <1> HIDE DEF Less
  <1>3. PICK x \in S : \A y \in S : <<y, x>> \notin Less
    BY <1>1, WFMin
  <1>4. ASSUME NEW y \in S PROVE x <= y
    <2>1. x \in Nat /\ y \in Nat /\ <<y, x>> \notin Less
      BY <1>3
    <2>2. ~(y < x)
      BY <1>2, <2>1
    <2> QED BY <2>1, <2>2
  <1> QED BY <1>3, <1>4 DEF Min

LEMMA LrnResumeInv == ASSUME LrnInv, LrnResume PROVE LrnInv'
  <1> DEFINE b == Min(LrnPending)
  <1>1. /\ LrnPending # {} /\ LrnBegin(b, lrnBatch[b].items, {})
        /\ UNCHANGED <<lrnEvents, lrnFacts, lrnSeen, lrnBatch, lrnTold>>
    BY DEF LrnResume
  <1>2. b \in LrnPending
    <2>1. LrnPending \subseteq Nat
      BY LrnBatches DEF LrnPending
    <2> QED BY <1>1, <2>1, LeastIn
  <1> HIDE DEF b
  <1>3. b \in DOMAIN lrnBatch /\ b \in Nat /\ lrnBatch[b].items \in SUBSET LrnItems
    BY <1>2, LrnBatches DEF LrnPending, LrnJournal
  <1>4. /\ lrnRun' \in LrnStates /\ lrnRun'.at = "item" /\ lrnRun'.b = b
        /\ lrnRun'.item = LrnNone /\ lrnRun'.left = lrnBatch[b].items /\ lrnRun'.todo = {}
    <2>1. {} \in SUBSET LrnMessages
      OBVIOUS
    <2> QED BY <1>1, <1>3, <2>1, LrnBegins
  <1>5. LrnRunSound'
    BY <1>1, <1>3, <1>4 DEF LrnRunSound
  <1> QED BY <1>1, <1>4, <1>5, LrnMoves

\* Messages of the week that are in no batch yet, once nothing is pending.
LEMMA LrnSelectInv == ASSUME LrnInv, LrnSelect PROVE LrnInv'
  <1> DEFINE ask == LrnRows \ LrnPrivate
             closed == LrnRows \cap LrnPrivate
  <1>1. /\ LrnPending = {} /\ lrnSeen' = lrnSeen \cup closed
        /\ lrnRun' = IF ask = {} THEN LrnIdle ELSE [LrnIdle EXCEPT !.at = "ask", !.todo = ask]
        /\ UNCHANGED <<lrnEvents, lrnFacts, lrnBatch, lrnTold>>
    BY DEF LrnSelect
  <1>2. LrnRows \subseteq 1..lrnSent /\ LrnRows \cap lrnSeen = {} /\ 1..lrnSent \subseteq LrnMessages
    <2>1. lrnSent \in 0..LrnMax
      BY LrnParts DEF LrnTyped
    <2> QED BY <2>1, LrnAssumption DEF LrnRows, LrnFirst, LrnNew, LrnMessages
  <1>3. \A b \in DOMAIN lrnBatch : lrnBatch[b].status = "done" /\ lrnBatch[b].msgs \subseteq lrnSeen
    <2>1. \A b \in DOMAIN lrnBatch : lrnBatch[b].status = "done"
      BY <1>1, LrnBatches DEF LrnPending, LrnJournal
    <2> QED BY <2>1, LrnParts DEF LrnJournalSound, LrnRowSound
  <1>4. lrnRun' \in LrnStates /\ (lrnRun' = LrnIdle \/ (lrnRun'.at = "ask" /\ lrnRun'.todo = ask /\ lrnRun'.b = 0))
    <2>1. ask \in SUBSET LrnMessages
      BY <1>2
    <2> HIDE DEF ask
    <2>2. [LrnIdle EXCEPT !.at = "ask", !.todo = ask] = [[LrnIdle EXCEPT !.at = "ask"] EXCEPT !.todo = ask]
      OBVIOUS
    <2>3. LrnIdle \in LrnStates /\ LrnIdle.b = 0 /\ "ask" \in LrnWhere
      BY LrnIdleTyped DEF LrnWhere
    <2> DEFINE r1 == [LrnIdle EXCEPT !.at = "ask"]
    <2>4. r1 \in LrnStates /\ r1.at = "ask" /\ r1.b = 0
      BY <2>3, LrnFields
    <2>5. lrnRun' = IF ask = {} THEN LrnIdle ELSE [r1 EXCEPT !.todo = ask]
      BY <1>1, <2>2
    <2> HIDE DEF r1
    <2>6. LET x == [r1 EXCEPT !.todo = ask] IN x \in LrnStates /\ x.at = "ask" /\ x.todo = ask /\ x.b = 0
      BY <2>1, <2>4, LrnFields
    <2> QED BY <2>3, <2>5, <2>6
  <1>5. LrnTyped'
    <2>1. lrnSeen' \subseteq 1..lrnSent
      BY <1>1, <1>2, LrnParts DEF LrnTyped
    <2> QED BY <1>1, <1>4, <2>1, LrnParts DEF LrnTyped, lrnEvents, lrnFacts
  <1>6. LrnJournalSound'
    <2>1. \A b \in DOMAIN lrnBatch : LrnRowSound(b)'
      BY <1>1, LrnParts DEF LrnJournalSound, LrnRowSound, LrnHandled, lrnEvents, lrnFacts
    <2>2. \A b, c \in DOMAIN lrnBatch : b # c => lrnBatch[b].msgs \cap lrnBatch[c].msgs = {}
      BY LrnParts DEF LrnJournalSound
    <2>3. \A m \in lrnSeen' \ LrnPrivate : m \in lrnSeen \ LrnPrivate
      BY <1>1
    <2>4. \A m \in lrnSeen \ LrnPrivate :
            \E b \in DOMAIN lrnBatch : m \in lrnBatch[b].msgs /\ lrnBatch[b].status = "done"
      BY LrnParts DEF LrnJournalSound
    <2> QED BY <1>1, <2>1, <2>2, <2>3, <2>4 DEF LrnJournalSound
  <1>7. LrnRunSound'
    <2>1. CASE lrnRun' = LrnIdle
      BY <2>1, LrnIdleTyped DEF LrnRunSound
    <2>2. CASE lrnRun'.at = "ask" /\ lrnRun'.todo = ask /\ lrnRun'.b = 0
      <3>1. ask \subseteq 1..lrnSent /\ ask \cap LrnPrivate = {} /\ ask \cap lrnSeen = {}
        BY <1>2
      <3>2. lrnBatch' = lrnBatch /\ lrnSent' = lrnSent
        BY <1>1 DEF lrnEvents
      <3> QED BY <1>3, <2>2, <3>1, <3>2 DEF LrnRunSound
    <2> QED BY <1>4, <2>1, <2>2
  <1> QED BY <1>5, <1>6, <1>7 DEF LrnInv

LEMMA LrnAnswerInv == ASSUME LrnInv, LrnAnswer PROVE LrnInv'
  <1> DEFINE group == LrnFirst(lrnRun.todo, LrnGroup)
  <1>0. PICK n \in Nat : n = Len(lrnBatch)
    BY LrnBatches
  <1>1. /\ lrnRun.at = "ask" /\ UNCHANGED <<lrnEvents, lrnFacts, lrnSeen, lrnTold>>
    BY DEF LrnAnswer
  <1>2. PICK items \in SUBSET UNION {LrnSays[m] : m \in group} :
          /\ lrnBatch' = Append(lrnBatch, [msgs |-> group, items |-> items,
                                           status |-> "pending", summary |-> LrnUncounted])
          /\ LrnBegin(Len(lrnBatch) + 1, items, lrnRun.todo \ group)
    BY DEF LrnAnswer
  <1>3. /\ lrnBatch \in Seq(LrnJournal) /\ n \in Nat /\ DOMAIN lrnBatch = 1..n
        /\ \A b \in 1..n : lrnBatch[b] \in LrnJournal
    BY <1>0, LrnBatches
  <1>4. /\ group \subseteq lrnRun.todo /\ lrnRun.todo \subseteq 1..lrnSent
        /\ lrnRun.todo \cap LrnPrivate = {} /\ lrnRun.todo \in SUBSET LrnMessages
        /\ \A b \in 1..n : lrnRun.todo \cap lrnBatch[b].msgs = {}
    <2>1. lrnRun \in LrnStates
      BY LrnParts DEF LrnTyped
    <2>2. lrnRun.todo \in SUBSET LrnMessages
      BY <2>1, LrnRunFields
    <2> QED BY <1>3, <2>2, LrnParts DEF LrnFirst, LrnRunSound
  <1>5. items \in SUBSET LrnItems
    BY <1>4, LrnAssumption
  <1> DEFINE new == [msgs |-> group, items |-> items, status |-> "pending", summary |-> LrnUncounted]
  <1>6. new \in LrnJournal /\ new.msgs = group /\ new.items = items /\ new.status = "pending"
    BY <1>4, <1>5 DEF LrnJournal
  <1>7. lrnBatch' = Append(lrnBatch, new) /\ LrnBegin(n + 1, items, lrnRun.todo \ group)
    BY <1>0, <1>2
  <1> HIDE DEF new, group
  <1>8. /\ lrnBatch' \in Seq(LrnJournal) /\ DOMAIN lrnBatch' = 1..n + 1 /\ lrnBatch'[n + 1] = new
        /\ \A b \in 1..n : lrnBatch'[b] = lrnBatch[b]
        /\ \A b \in 1..n + 1 : b \in 1..n \/ b = n + 1
        /\ n + 1 \in 1..n + 1 /\ n + 1 \notin 1..n
    <2>1. /\ lrnBatch' \in Seq(LrnJournal) /\ Len(lrnBatch') = n + 1 /\ lrnBatch'[n + 1] = new
          /\ \A b \in 1..n : lrnBatch'[b] = lrnBatch[b]
      BY <1>0, <1>3, <1>6, <1>7, AppendProperties
    <2>2. DOMAIN lrnBatch' = 1..n + 1
      BY <2>1, LenProperties
    <2> QED BY <1>3, <2>1, <2>2
  <1>9. /\ lrnRun' \in LrnStates /\ lrnRun'.at = "item" /\ lrnRun'.b = n + 1
        /\ lrnRun'.item = LrnNone /\ lrnRun'.left = items /\ lrnRun'.todo = lrnRun.todo \ group
    BY <1>3, <1>4, <1>5, <1>7, LrnBegins
  <1>10. LrnTyped'
    <2>1. lrnTold \subseteq DOMAIN lrnBatch'
      BY <1>3, <1>8, LrnParts DEF LrnTyped
    <2> QED BY <1>1, <1>8, <1>9, <2>1, LrnParts DEF LrnTyped, lrnEvents, lrnFacts
  <1>11. LrnJournalSound'
    <2>1. \A b \in 1..n : LrnRowSound(b)'
      <3>1. \A b \in 1..n : LrnRowSound(b)
        BY <1>3, LrnParts DEF LrnJournalSound
      <3> QED BY <1>1, <1>8, <3>1 DEF LrnRowSound, LrnHandled, lrnEvents, lrnFacts
    <2>2. LrnRowSound(n + 1)'
      <3>1. n + 1 \notin lrnTold
        BY <1>3, <1>8, LrnParts DEF LrnTyped
      <3> QED BY <1>1, <1>4, <1>6, <1>8, <3>1 DEF LrnRowSound, lrnEvents
    <2>3. \A b, c \in 1..n + 1 : b # c => lrnBatch'[b].msgs \cap lrnBatch'[c].msgs = {}
      <3>1. \A b, c \in 1..n : b # c => lrnBatch[b].msgs \cap lrnBatch[c].msgs = {}
        BY <1>3, LrnParts DEF LrnJournalSound
      <3>2. \A b \in 1..n : lrnBatch[b].msgs \cap group = {}
        BY <1>4
      <3> QED BY <1>6, <1>8, <3>1, <3>2
    <2>4. ASSUME NEW m \in lrnSeen \ LrnPrivate
          PROVE  \E b \in 1..n + 1 : m \in lrnBatch'[b].msgs /\ lrnBatch'[b].status = "done"
      <3>1. PICK b \in 1..n : m \in lrnBatch[b].msgs /\ lrnBatch[b].status = "done"
        BY <1>3, LrnParts DEF LrnJournalSound
      <3>2. b \in 1..n + 1 /\ lrnBatch'[b] = lrnBatch[b]
        BY <1>3, <1>8
      <3> QED BY <3>1, <3>2
    <2> QED BY <1>1, <1>8, <2>1, <2>2, <2>3, <2>4 DEF LrnJournalSound
  <1>12. LrnRunSound'
    <2>1. \A b \in 1..n + 1 : lrnRun'.todo \cap lrnBatch'[b].msgs = {}
      BY <1>4, <1>6, <1>8, <1>9
    <2>2. /\ lrnRun'.todo \subseteq 1..lrnSent' /\ lrnRun'.todo \cap LrnPrivate = {}
          /\ lrnBatch'[lrnRun'.b].items = lrnRun'.left
      BY <1>1, <1>4, <1>6, <1>8, <1>9 DEF lrnEvents
    <2> QED BY <1>8, <1>9, <2>1, <2>2 DEF LrnRunSound
  <1> QED BY <1>10, <1>11, <1>12 DEF LrnInv

LEMMA LrnSkipInv == ASSUME LrnInv, NEW i \in LrnItems, LrnSkip(i) PROVE LrnInv'
  <1> DEFINE r1 == [lrnRun EXCEPT !.left = lrnRun.left \ {i}]
  <1>1. /\ lrnRun.at = "item" /\ ~LrnIsNew(i) /\ lrnRun' = r1
        /\ UNCHANGED <<lrnEvents, lrnFacts, lrnSeen, lrnBatch, lrnTold>>
    BY DEF LrnSkip
  <1>2. lrnRun \in LrnStates /\ lrnRun.left \ {i} \in SUBSET LrnItems
    BY LrnParts, LrnRunFields DEF LrnTyped
  <1>3. /\ r1 \in LrnStates /\ r1.at = lrnRun.at /\ r1.b = lrnRun.b /\ r1.item = lrnRun.item
        /\ r1.left = lrnRun.left \ {i} /\ r1.todo = lrnRun.todo
    BY <1>2, LrnFields
  <1> HIDE DEF r1
  <1>4. LrnHandled(i)
    <2>1. lrnMade[i] \in 0..1 /\ LrnPrefs \subseteq LrnItems
      BY LrnParts, LrnAssumption DEF LrnTyped
    <2> QED BY <1>1, <2>1 DEF LrnIsNew, LrnHandled
  <1>5. LrnRunSound'
    <2>1. \A j \in lrnBatch[lrnRun.b].items : j \in lrnRun'.left \cup {lrnRun'.item} \/ LrnHandled(j)
      BY <1>1, <1>3, <1>4, LrnParts DEF LrnRunSound
    <2>2. lrnRun.b \in DOMAIN lrnBatch
      BY <1>1, LrnParts DEF LrnRunSound
    <2> QED BY <1>1, <1>3, <2>1, LrnParts DEF LrnRunSound, LrnHandled, lrnEvents, lrnFacts
  <1> QED BY <1>1, <1>3, <1>5, LrnMoves

LEMMA LrnLookInv == ASSUME LrnInv, NEW i \in LrnItems, LrnLook(i) PROVE LrnInv'
  <1> DEFINE r1 == [lrnRun EXCEPT !.at = "make"]
             r2 == [r1 EXCEPT !.left = r1.left \ {i}]
             r3 == [r2 EXCEPT !.item = i]
  <1>1. /\ lrnRun.at = "item" /\ LrnIsNew(i) /\ lrnRun' = r3
        /\ UNCHANGED <<lrnEvents, lrnFacts, lrnSeen, lrnBatch, lrnTold>>
    BY DEF LrnLook
  <1>2. lrnRun \in LrnStates /\ "make" \in LrnWhere
    BY LrnParts DEF LrnTyped, LrnWhere
  <1>3. /\ r1 \in LrnStates /\ r1.at = "make" /\ r1.b = lrnRun.b
        /\ r1.left = lrnRun.left /\ r1.todo = lrnRun.todo
    BY <1>2, LrnFields
  <1> HIDE DEF r1
  <1>4. /\ r2 \in LrnStates /\ r2.at = "make" /\ r2.b = lrnRun.b
        /\ r2.left = lrnRun.left \ {i} /\ r2.todo = lrnRun.todo
    <2>1. r1.left \ {i} \in SUBSET LrnItems
      BY <1>3, LrnRunFields
    <2> QED BY <1>3, <2>1, LrnFields
  <1> HIDE DEF r2
  <1>5. /\ r3 \in LrnStates /\ r3.at = "make" /\ r3.b = lrnRun.b /\ r3.item = i
        /\ r3.left = lrnRun.left \ {i} /\ r3.todo = lrnRun.todo
    BY <1>4, LrnFields
  <1> HIDE DEF r3
  <1>6. LrnRunSound'
    <2>1. lrnRun.item = LrnNone /\ LrnNone \notin LrnItems /\ lrnRun.b \in DOMAIN lrnBatch
      BY <1>1, LrnNoneIsNew, LrnParts DEF LrnRunSound
    <2>2. lrnBatch[lrnRun.b].items \in SUBSET LrnItems
      BY <2>1, LrnBatches DEF LrnJournal
    <2>3. \A j \in lrnBatch[lrnRun.b].items : j \in lrnRun'.left \cup {lrnRun'.item} \/ LrnHandled(j)
      BY <1>1, <1>5, <2>1, <2>2, LrnParts DEF LrnRunSound
    <2>4. lrnMade[i] = 0
      BY <1>1 DEF LrnIsNew
    <2> QED BY <1>1, <1>5, <2>1, <2>3, <2>4, LrnParts DEF LrnRunSound, LrnHandled, lrnEvents, lrnFacts
  <1> QED BY <1>1, <1>5, <1>6, LrnMoves

\* What is handled stays handled: the journal relies on nothing else that moves.
LEMMA LrnJournalKept ==
    ASSUME LrnInv, UNCHANGED <<lrnBatch, lrnSeen, lrnTold>>, 1..lrnSent \subseteq 1..lrnSent',
           \A i \in LrnItems : LrnHandled(i) => LrnHandled(i)'
    PROVE  LrnJournalSound'
  <1>1. \A b \in DOMAIN lrnBatch : LrnRowSound(b)'
    <2> SUFFICES ASSUME NEW b \in DOMAIN lrnBatch PROVE LrnRowSound(b)'
      OBVIOUS
    <2>1. LrnRowSound(b)
      BY LrnParts DEF LrnJournalSound
    <2>2. lrnBatch[b].items \subseteq LrnItems
      BY LrnBatches DEF LrnJournal
    <2>3. ASSUME lrnBatch[b].status = "done", NEW i \in lrnBatch[b].items PROVE LrnHandled(i)'
      BY <2>1, <2>2, <2>3 DEF LrnRowSound
    <2>4. lrnBatch[b].msgs \subseteq 1..lrnSent'
      BY <2>1 DEF LrnRowSound
    <2> QED BY <2>1, <2>3, <2>4 DEF LrnRowSound
  <1> QED BY <1>1, LrnParts DEF LrnJournalSound

LEMMA LrnRunKept ==
    ASSUME LrnInv, UNCHANGED <<lrnBatch, lrnTold, lrnRun, lrnMade>>,
           1..lrnSent \subseteq 1..lrnSent',
           \A i \in LrnItems : LrnHandled(i) => LrnHandled(i)'
    PROVE  LrnRunSound'
  <1>1. ASSUME lrnRun.b \in DOMAIN lrnBatch, NEW i \in lrnBatch[lrnRun.b].items, LrnHandled(i)
        PROVE  LrnHandled(i)'
    <2>1. i \in LrnItems
      BY <1>1, LrnBatches DEF LrnJournal
    <2> QED BY <1>1, <2>1
  <1>2. lrnRun.todo \subseteq 1..lrnSent'
    BY LrnParts DEF LrnRunSound
  <1> QED BY <1>1, <1>2, LrnParts DEF LrnRunSound

LEMMA LrnMakeInv == ASSUME LrnInv, LrnMake PROVE LrnInv'
  <1> DEFINE r1 == [lrnRun EXCEPT !.at = "item"]
             r2 == [r1 EXCEPT !.created = r1.created + 1]
             r3 == [r2 EXCEPT !.item = LrnNone]
  <1>1. /\ lrnRun.at = "make" /\ lrnRun' = r3
        /\ UNCHANGED <<lrnSent, lrnOld, lrnSeen, lrnBatch, lrnOwn, lrnTold>>
    BY DEF LrnMake, lrnEvents
  <1>2. PICK i : i = lrnRun.item
    OBVIOUS
  <1>3. /\ i \in LrnItems /\ lrnMade[i] = 0 /\ lrnMade \in [LrnItems -> 0..1]
        /\ lrnRun.b \in DOMAIN lrnBatch
        /\ \A j \in lrnBatch[lrnRun.b].items : j \in lrnRun.left \cup {i} \/ LrnHandled(j)
    BY <1>1, <1>2, LrnParts DEF LrnRunSound, LrnTyped
  <1>4. /\ lrnMade' = [lrnMade EXCEPT ![i] = @ + 1]
        /\ lrnLive' = IF i \in LrnPrefs THEN lrnLive \cup {i} ELSE lrnLive
    BY <1>2 DEF LrnMake
  <1>5. /\ lrnMade' \in [LrnItems -> 0..1] /\ lrnMade'[i] = 1
        /\ \A j \in LrnItems : j # i => lrnMade'[j] = lrnMade[j]
    BY <1>3, <1>4
  <1>6. lrnLive' \subseteq {j \in LrnPrefs : lrnMade'[j] > 0}
    BY <1>3, <1>4, <1>5, LrnParts, LrnAssumption DEF LrnTyped
  <1>7. lrnRun \in LrnStates /\ "item" \in LrnWhere
    BY LrnParts DEF LrnTyped, LrnWhere
  <1>8. /\ r1 \in LrnStates /\ r1.at = "item" /\ r1.b = lrnRun.b
        /\ r1.left = lrnRun.left /\ r1.todo = lrnRun.todo
    BY <1>7, LrnFields
  <1> HIDE DEF r1
  <1>9. /\ r2 \in LrnStates /\ r2.at = "item" /\ r2.b = lrnRun.b
        /\ r2.left = lrnRun.left /\ r2.todo = lrnRun.todo
    <2>1. r1.created + 1 \in Nat
      BY <1>8, LrnRunFields
    <2> QED BY <1>8, <2>1, LrnFields
  <1> HIDE DEF r2
  <1>10. /\ r3 \in LrnStates /\ r3.at = "item" /\ r3.b = lrnRun.b /\ r3.item = LrnNone
         /\ r3.left = lrnRun.left /\ r3.todo = lrnRun.todo
    <2>1. LrnNone \in LrnItems \cup {LrnNone}
      OBVIOUS
    <2> QED BY <1>9, <2>1, LrnFields
  <1> HIDE DEF r3
  <1>11. \A j \in LrnItems : j = i \/ LrnHandled(j) => LrnHandled(j)'
    BY <1>1, <1>3, <1>5 DEF LrnHandled
  <1>12. LrnTyped'
    BY <1>1, <1>5, <1>6, <1>10, LrnParts DEF LrnTyped
  <1>13. LrnJournalSound'
    BY <1>1, <1>11, LrnJournalKept
  <1>14. LrnRunSound'
    <2>1. \A j \in lrnBatch[lrnRun.b].items : j \in LrnItems
      BY <1>3, LrnBatches DEF LrnJournal
    <2>2. \A j \in lrnBatch[lrnRun.b].items : j \in lrnRun.left \/ LrnHandled(j)'
      BY <1>3, <1>11, <2>1
    <2> QED BY <1>1, <1>3, <1>10, <2>2, LrnParts DEF LrnRunSound
  <1> QED BY <1>12, <1>13, <1>14 DEF LrnInv

LEMMA LrnCrashInv == ASSUME LrnInv, LrnCrash PROVE LrnInv'
  <1>1. /\ lrnRun' = LrnIdle
        /\ UNCHANGED <<lrnFacts, lrnSent, lrnOld, lrnSeen, lrnBatch, lrnTold>>
    BY DEF LrnCrash
  <1>2. LrnRunSound' /\ lrnRun' \in LrnStates
    BY <1>1, LrnIdleTyped DEF LrnRunSound
  <1>3. LrnTyped'
    BY <1>1, <1>2, LrnParts DEF LrnTyped, lrnFacts
  <1>4. LrnJournalSound'
    BY <1>1, LrnParts DEF LrnJournalSound, LrnRowSound, LrnHandled, lrnFacts
  <1> QED BY <1>2, <1>3, <1>4 DEF LrnInv

LEMMA LrnSendInv == ASSUME LrnInv, LrnSend PROVE LrnInv'
  <1>1. /\ lrnSent < LrnMax /\ lrnSent' = lrnSent + 1
        /\ UNCHANGED <<lrnMade, lrnLive, lrnOwn, lrnOld, lrnSeen, lrnBatch, lrnTold, lrnRun>>
    BY DEF LrnSend, lrnFacts
  <1>2. lrnSent \in 0..LrnMax /\ lrnOld \in 0..lrnSent /\ lrnSeen \subseteq 1..lrnSent
    BY LrnParts DEF LrnTyped
  <1>3. /\ 1..lrnSent \subseteq 1..lrnSent' /\ lrnSent' \in 0..LrnMax
        /\ lrnOld \in 0..lrnSent'
    BY <1>1, <1>2, LrnAssumption
  <1>4. LrnTyped'
    BY <1>1, <1>2, <1>3, LrnParts DEF LrnTyped
  <1>5. \A i \in LrnItems : LrnHandled(i) => LrnHandled(i)'
    BY <1>1 DEF LrnHandled
  <1> QED BY <1>1, <1>3, <1>4, <1>5, LrnJournalKept, LrnRunKept DEF LrnInv

LEMMA LrnAgeInv == ASSUME LrnInv, LrnAge PROVE LrnInv'
  <1>1. /\ lrnOld < lrnSent /\ lrnOld' = lrnOld + 1
        /\ UNCHANGED <<lrnMade, lrnLive, lrnOwn, lrnSent, lrnSeen, lrnBatch, lrnTold, lrnRun>>
    BY DEF LrnAge, lrnFacts
  <1>2. lrnSent \in 0..LrnMax /\ lrnOld \in 0..lrnSent
    BY LrnParts DEF LrnTyped
  <1>3. lrnOld' \in 0..lrnSent
    BY <1>1, <1>2, LrnAssumption
  <1>4. LrnTyped'
    BY <1>1, <1>3, LrnParts DEF LrnTyped
  <1>5. \A i \in LrnItems : LrnHandled(i) => LrnHandled(i)'
    BY <1>1 DEF LrnHandled
  <1> QED BY <1>1, <1>4, <1>5, LrnJournalKept, LrnRunKept DEF LrnInv

LEMMA LrnOwnerInv == ASSUME LrnInv, NEW i \in LrnItems, LrnOwner(i) PROVE LrnInv'
  <1>1. /\ UNCHANGED <<lrnSent, lrnOld, lrnSeen, lrnBatch, lrnMade, lrnTold, lrnRun>>
        /\ \/ lrnLive' = lrnLive \ {i} /\ UNCHANGED lrnOwn
           \/ lrnOwn' = [lrnOwn EXCEPT ![i] = "live"] /\ UNCHANGED lrnLive
           \/ lrnOwn' = [lrnOwn EXCEPT ![i] = "gone"] /\ UNCHANGED lrnLive
    BY DEF LrnOwner
  <1>2. lrnOwn \in [LrnItems -> {"never", "live", "gone"}]
    BY LrnParts DEF LrnTyped
  <1>3. lrnOwn' \in [LrnItems -> {"never", "live", "gone"}] /\ lrnLive' \subseteq lrnLive
    BY <1>1, <1>2
  <1>4. \A j \in LrnItems : lrnOwn[j] # "never" => lrnOwn'[j] # "never"
    BY <1>1, <1>2
  <1>5. LrnTyped'
    BY <1>1, <1>3, LrnParts DEF LrnTyped
  <1>6. \A j \in LrnItems : LrnHandled(j) => LrnHandled(j)'
    BY <1>1, <1>4 DEF LrnHandled
  <1> QED BY <1>1, <1>5, <1>6, LrnJournalKept, LrnRunKept DEF LrnInv

LEMMA LrnRowFields ==
    ASSUME NEW row \in LrnJournal
    PROVE  /\ \A n \in Nat : LET x == [row EXCEPT !.summary = n] IN
                /\ x \in LrnJournal /\ x.summary = n /\ x.msgs = row.msgs
                /\ x.items = row.items /\ x.status = row.status
           /\ LET x == [row EXCEPT !.status = "done"] IN
                /\ x \in LrnJournal /\ x.status = "done" /\ x.msgs = row.msgs
                /\ x.items = row.items /\ x.summary = row.summary
  BY DEF LrnJournal

\* One batch of the journal is rewritten.
LEMMA LrnPut ==
    ASSUME LrnInv, NEW b \in DOMAIN lrnBatch, NEW row \in LrnJournal,
           lrnBatch' = [lrnBatch EXCEPT ![b] = row]
    PROVE  /\ lrnBatch' \in Seq(LrnJournal) /\ DOMAIN lrnBatch' = DOMAIN lrnBatch
           /\ lrnBatch'[b] = row
           /\ \A c \in DOMAIN lrnBatch : c # b => lrnBatch'[c] = lrnBatch[c]
  BY LrnBatches, ExceptSeq

LEMMA LrnCountInv == ASSUME LrnInv, LrnCount PROVE LrnInv'
  <1>1. PICK b : b = lrnRun.b
    OBVIOUS
  <1>2. /\ lrnRun.at = "item" /\ lrnRun.left = {}
        /\ lrnBatch' = [lrnBatch EXCEPT ![b] = [lrnBatch[b] EXCEPT !.summary = LrnSummary(b)]]
        /\ lrnRun' = [lrnRun EXCEPT !.at = "tell"]
        /\ UNCHANGED <<lrnEvents, lrnFacts, lrnSeen, lrnTold>>
    BY <1>1 DEF LrnCount
  <1>3. /\ b \in DOMAIN lrnBatch /\ lrnBatch[b] \in LrnJournal
        /\ \A i \in lrnBatch[b].items : LrnHandled(i)
    <2>1. b \in DOMAIN lrnBatch /\ lrnRun.item = LrnNone
      BY <1>1, <1>2, LrnParts DEF LrnRunSound
    <2>2. lrnBatch[b] \in LrnJournal /\ lrnBatch[b].items \subseteq LrnItems
      BY <2>1, LrnBatches DEF LrnJournal
    <2> QED BY <1>1, <1>2, <2>1, <2>2, LrnNoneIsNew, LrnParts DEF LrnRunSound
  <1>4. lrnRun \in LrnStates /\ "tell" \in LrnWhere /\ lrnRun.created \in Nat
    BY LrnParts, LrnRunFields DEF LrnTyped, LrnWhere
  <1>5. LrnSummary(b) \in Nat /\ (lrnBatch[b].summary \in Nat => LrnSummary(b) = lrnBatch[b].summary)
    BY <1>3, <1>4, LrnNoneIsNew DEF LrnSummary, LrnJournal
  <1> DEFINE row == [lrnBatch[b] EXCEPT !.summary = LrnSummary(b)]
  <1>6. /\ row \in LrnJournal /\ row.summary = LrnSummary(b) /\ row.msgs = lrnBatch[b].msgs
        /\ row.items = lrnBatch[b].items /\ row.status = lrnBatch[b].status
    BY <1>3, <1>5, LrnRowFields
  <1>7. lrnBatch' = [lrnBatch EXCEPT ![b] = row]
    BY <1>2
  <1> HIDE DEF row
  <1>8. /\ lrnBatch' \in Seq(LrnJournal) /\ DOMAIN lrnBatch' = DOMAIN lrnBatch
        /\ lrnBatch'[b] = row
        /\ \A c \in DOMAIN lrnBatch : c # b => lrnBatch'[c] = lrnBatch[c]
    BY <1>3, <1>6, <1>7, LrnPut
  <1>9. /\ lrnRun' \in LrnStates /\ lrnRun'.at = "tell" /\ lrnRun'.b = b
        /\ lrnRun'.todo = lrnRun.todo
    BY <1>1, <1>2, <1>4, LrnFields
  <1>10. \A c \in DOMAIN lrnBatch : /\ lrnBatch'[c].msgs = lrnBatch[c].msgs
                                    /\ lrnBatch'[c].items = lrnBatch[c].items
                                    /\ lrnBatch'[c].status = lrnBatch[c].status
                                    /\ lrnBatch[c].summary \in Nat =>
                                          lrnBatch'[c].summary = lrnBatch[c].summary
    BY <1>5, <1>6, <1>8
  <1>11. LrnTyped'
    BY <1>2, <1>8, <1>9, LrnParts DEF LrnTyped, lrnEvents, lrnFacts
  <1>12. LrnJournalSound'
    <2>1. \A c \in DOMAIN lrnBatch : LrnRowSound(c)'
      <3>1. \A c \in DOMAIN lrnBatch : LrnRowSound(c)
        BY LrnParts DEF LrnJournalSound
      <3> QED BY <1>2, <1>10, <3>1 DEF LrnRowSound, LrnHandled, lrnEvents, lrnFacts
    <2>2. ASSUME NEW m \in lrnSeen \ LrnPrivate
          PROVE  \E c \in DOMAIN lrnBatch : m \in lrnBatch'[c].msgs /\ lrnBatch'[c].status = "done"
      <3>1. PICK c \in DOMAIN lrnBatch : m \in lrnBatch[c].msgs /\ lrnBatch[c].status = "done"
        BY LrnParts DEF LrnJournalSound
      <3> QED BY <1>10, <3>1
    <2>3. \A c, d \in DOMAIN lrnBatch : c # d => lrnBatch'[c].msgs \cap lrnBatch'[d].msgs = {}
      BY <1>10, LrnParts DEF LrnJournalSound
    <2> QED BY <1>2, <1>8, <2>1, <2>2, <2>3 DEF LrnJournalSound
  <1>13. LrnRunSound'
    <2>1. \A i \in lrnBatch'[b].items : LrnHandled(i)'
      BY <1>2, <1>3, <1>6, <1>8 DEF LrnHandled, lrnFacts
    <2>2. lrnBatch'[b].summary \in Nat
      BY <1>5, <1>6, <1>8
    <2>3. /\ \A c \in DOMAIN lrnBatch : lrnRun.todo \cap lrnBatch'[c].msgs = {}
          /\ lrnRun.todo \subseteq 1..lrnSent /\ lrnRun.todo \cap LrnPrivate = {}
      BY <1>10, LrnParts DEF LrnRunSound
    <2> QED BY <1>2, <1>3, <1>8, <1>9, <2>1, <2>2, <2>3 DEF LrnRunSound, lrnEvents
  <1> QED BY <1>11, <1>12, <1>13 DEF LrnInv

LEMMA LrnTellInv == ASSUME LrnInv, LrnTell PROVE LrnInv'
  <1>1. PICK b : b = lrnRun.b
    OBVIOUS
  <1>2. /\ lrnRun.at = "tell" /\ lrnRun' = [lrnRun EXCEPT !.at = "close"]
        /\ lrnTold' = IF lrnBatch[b].summary > 0 THEN lrnTold \cup {b} ELSE lrnTold
        /\ UNCHANGED <<lrnEvents, lrnFacts, lrnSeen, lrnBatch>>
    BY <1>1 DEF LrnTell
  <1>3. /\ b \in DOMAIN lrnBatch /\ lrnBatch[b].summary \in Nat
        /\ \A i \in lrnBatch[b].items : LrnHandled(i)
    BY <1>1, <1>2, LrnParts DEF LrnRunSound
  <1>4. lrnRun \in LrnStates /\ "close" \in LrnWhere
    BY LrnParts DEF LrnTyped, LrnWhere
  <1>5. /\ lrnRun' \in LrnStates /\ lrnRun'.at = "close" /\ lrnRun'.b = b
        /\ lrnRun'.todo = lrnRun.todo
    BY <1>1, <1>2, <1>4, LrnFields
  <1>6. /\ lrnTold \subseteq lrnTold' /\ lrnTold' \subseteq DOMAIN lrnBatch
        /\ \A c \in lrnTold' : c \in lrnTold \/ (c = b /\ lrnBatch[b].summary \in Nat \ {0})
        /\ lrnBatch[b].summary > 0 => b \in lrnTold'
    BY <1>2, <1>3, LrnParts DEF LrnTyped
  <1>7. LrnTyped'
    BY <1>2, <1>5, <1>6, LrnParts DEF LrnTyped, lrnEvents, lrnFacts
  <1>8. LrnJournalSound'
    <2>1. \A c \in DOMAIN lrnBatch : LrnRowSound(c)'
      <3>1. \A c \in DOMAIN lrnBatch : LrnRowSound(c)
        BY LrnParts DEF LrnJournalSound
      <3> QED BY <1>2, <1>6, <3>1 DEF LrnRowSound, LrnHandled, lrnEvents, lrnFacts
    <2> QED BY <1>2, <2>1, LrnParts DEF LrnJournalSound
  <1>9. LrnRunSound'
    <2>1. \A i \in lrnBatch[b].items : LrnHandled(i)'
      BY <1>2, <1>3 DEF LrnHandled, lrnFacts
    <2> QED BY <1>2, <1>3, <1>5, <1>6, <2>1, LrnParts DEF LrnRunSound, lrnEvents
  <1> QED BY <1>7, <1>8, <1>9 DEF LrnInv

LEMMA LrnCloseInv == ASSUME LrnInv, LrnClose PROVE LrnInv'
  <1>1. PICK b : b = lrnRun.b
    OBVIOUS
  <1> DEFINE row == [lrnBatch[b] EXCEPT !.status = "done"]
  <1>2. /\ lrnRun.at = "close" /\ lrnSeen' = lrnSeen \cup lrnBatch[b].msgs
        /\ lrnBatch' = [lrnBatch EXCEPT ![b] = row]
        /\ lrnRun' = IF lrnRun.todo = {} THEN LrnIdle
                     ELSE [LrnIdle EXCEPT !.at = "ask", !.todo = lrnRun.todo]
        /\ UNCHANGED <<lrnEvents, lrnFacts, lrnTold>>
    BY <1>1 DEF LrnClose
  <1>3. /\ b \in DOMAIN lrnBatch /\ lrnBatch[b] \in LrnJournal /\ lrnBatch[b].summary \in Nat
        /\ \A i \in lrnBatch[b].items : LrnHandled(i)
        /\ lrnBatch[b].summary > 0 => b \in lrnTold
    BY <1>1, <1>2, LrnParts, LrnBatches DEF LrnRunSound
  <1>4. /\ row \in LrnJournal /\ row.status = "done" /\ row.msgs = lrnBatch[b].msgs
        /\ row.items = lrnBatch[b].items /\ row.summary = lrnBatch[b].summary
    BY <1>3, LrnRowFields
  <1> HIDE DEF row
  <1>5. /\ lrnBatch' \in Seq(LrnJournal) /\ DOMAIN lrnBatch' = DOMAIN lrnBatch
        /\ lrnBatch'[b] = row
        /\ \A c \in DOMAIN lrnBatch : c # b => lrnBatch'[c] = lrnBatch[c]
    BY <1>2, <1>3, <1>4, LrnPut
  <1>6. \A c \in DOMAIN lrnBatch : /\ lrnBatch'[c].msgs = lrnBatch[c].msgs
                                   /\ lrnBatch'[c].items = lrnBatch[c].items
                                   /\ lrnBatch'[c].summary = lrnBatch[c].summary
                                   /\ c # b => lrnBatch'[c].status = lrnBatch[c].status
    BY <1>4, <1>5
  <1>7. lrnBatch'[b].status = "done"
    BY <1>4, <1>5
  <1>8. /\ lrnRun' \in LrnStates /\ lrnRun'.at \in {"idle", "ask"} /\ lrnRun'.b = 0
        /\ lrnRun'.todo = lrnRun.todo
    <2> DEFINE r1 == [LrnIdle EXCEPT !.at = "ask"]
    <2>1. lrnRun' = IF lrnRun.todo = {} THEN LrnIdle ELSE [r1 EXCEPT !.todo = lrnRun.todo]
      BY <1>2
    <2>2. LrnIdle \in LrnStates /\ LrnIdle.b = 0 /\ "ask" \in LrnWhere
      BY LrnIdleTyped DEF LrnWhere
    <2>3. r1 \in LrnStates /\ r1.at = "ask" /\ r1.b = 0
      BY <2>2, LrnFields
    <2> HIDE DEF r1
    <2>4. lrnRun.todo \in SUBSET LrnMessages
      BY LrnParts, LrnRunFields DEF LrnTyped
    <2>5. LET x == [r1 EXCEPT !.todo = lrnRun.todo] IN
            x \in LrnStates /\ x.at = "ask" /\ x.b = 0 /\ x.todo = lrnRun.todo
      BY <2>3, <2>4, LrnFields
    <2> QED BY <2>1, <2>5, LrnIdleTyped
  <1>9. lrnBatch[b].msgs \subseteq 1..lrnSent /\ LrnRowSound(b)
    BY <1>3, LrnParts DEF LrnJournalSound, LrnRowSound
  <1>10. LrnTyped'
    <2>1. lrnSeen' \subseteq 1..lrnSent
      BY <1>2, <1>9, LrnParts DEF LrnTyped
    <2> QED BY <1>2, <1>5, <1>8, <2>1, LrnParts DEF LrnTyped, lrnEvents, lrnFacts
  <1>11. LrnJournalSound'
    <2>1. ASSUME NEW c \in DOMAIN lrnBatch PROVE LrnRowSound(c)'
      <3>1. LrnRowSound(c) /\ lrnSeen \subseteq lrnSeen'
        BY <1>2, LrnParts DEF LrnJournalSound
      <3>2. CASE c = b
        <4>1. lrnBatch[b].msgs \subseteq lrnSeen'
          BY <1>2
        <4>2. \A i \in lrnBatch[b].items : LrnHandled(i)'
          BY <1>2, <1>3 DEF LrnHandled, lrnFacts
        <4> QED BY <1>2, <1>3, <1>6, <1>9, <3>2, <4>1, <4>2 DEF LrnRowSound, lrnEvents
      <3>3. CASE c # b
        <4>1. lrnBatch'[c] = lrnBatch[c]
          BY <1>5, <3>3
        <4> QED BY <1>2, <3>1, <4>1 DEF LrnRowSound, LrnHandled, lrnEvents, lrnFacts
      <3> QED BY <3>2, <3>3
    <2>2. ASSUME NEW m \in lrnSeen' \ LrnPrivate
          PROVE  \E c \in DOMAIN lrnBatch : m \in lrnBatch'[c].msgs /\ lrnBatch'[c].status = "done"
      <3>1. CASE m \in lrnBatch[b].msgs
        BY <1>3, <1>6, <1>7, <3>1
      <3>2. CASE m \in lrnSeen
        <4>1. PICK c \in DOMAIN lrnBatch : m \in lrnBatch[c].msgs /\ lrnBatch[c].status = "done"
          BY <3>2, LrnParts DEF LrnJournalSound
        <4> QED BY <1>6, <1>7, <4>1
      <3> QED BY <1>2, <3>1, <3>2
    <2>3. \A c, d \in DOMAIN lrnBatch : c # d => lrnBatch'[c].msgs \cap lrnBatch'[d].msgs = {}
      BY <1>6, LrnParts DEF LrnJournalSound
    <2> QED BY <1>5, <2>1, <2>2, <2>3 DEF LrnJournalSound
  <1>12. LrnRunSound'
    <2>1. /\ \A c \in DOMAIN lrnBatch : lrnRun.todo \cap lrnBatch'[c].msgs = {}
          /\ lrnRun.todo \subseteq 1..lrnSent /\ lrnRun.todo \cap LrnPrivate = {}
      BY <1>6, LrnParts DEF LrnRunSound
    <2> QED BY <1>2, <1>5, <1>8, <2>1 DEF LrnRunSound, lrnEvents
  <1> QED BY <1>10, <1>11, <1>12 DEF LrnInv

LEMMA LrnNextInv == LrnInv /\ [LrnNext]_lrnVars => LrnInv'
  <1> SUFFICES ASSUME LrnInv, [LrnNext]_lrnVars PROVE LrnInv'
    OBVIOUS
  <1>1. CASE UNCHANGED lrnVars
    BY <1>1, LrnStill
  <1>2. ASSUME NEW i \in LrnItems, LrnSkip(i) \/ LrnLook(i) \/ LrnOwner(i) PROVE LrnInv'
    BY <1>2, LrnSkipInv, LrnLookInv, LrnOwnerInv
  <1>3. CASE LrnResume \/ LrnSelect \/ LrnAnswer \/ LrnMake \/ LrnCount \/ LrnTell \/ LrnClose
    BY <1>3, LrnResumeInv, LrnSelectInv, LrnAnswerInv, LrnMakeInv, LrnCountInv, LrnTellInv, LrnCloseInv
  <1>4. CASE LrnCrash \/ LrnSend \/ LrnAge
    BY <1>4, LrnCrashInv, LrnSendInv, LrnAgeInv
  <1> QED BY <1>1, <1>2, <1>3, <1>4 DEF LrnNext, LrnRuns

\* reflect, apply: whatever is said and however often a night is cut off, an item
\* is learned at most once and not again after the owner erased it, no message is
\* put into two batches, and one is closed only when what was learned from it
\* exists and was told.
THEOREM LearningIsSafe == LrnSpec => []LrnSafe
  <1>1. LrnInv => LrnSafe
    <2> SUFFICES ASSUME LrnInv PROVE LrnTypeOK /\ LrnOnce /\ LrnAskedOnce /\ LrnClosedIsDone
      BY DEF LrnSafe
    <2>1. /\ \A b \in DOMAIN lrnBatch : lrnBatch[b] \in LrnJournal /\ LrnRowSound(b)
          /\ Len(lrnBatch) \in Nat /\ DOMAIN lrnBatch = 1..Len(lrnBatch)
          /\ lrnBatch \in Seq(LrnJournal)
      BY LrnParts, LrnBatches DEF LrnJournalSound
    <2>2. LrnTypeOK
      <3> DEFINE Rows == [msgs : SUBSET (1..lrnSent), items : SUBSET LrnItems,
                          status : {"pending", "done"}, summary : Nat \cup {LrnUncounted}]
      <3>1. \A b \in 1..Len(lrnBatch) : lrnBatch[b] \in Rows
        BY <2>1 DEF LrnRowSound, LrnJournal
      <3> HIDE DEF Rows
      <3>2. lrnBatch \in Seq(Rows)
        <4>1. lrnBatch = [b \in 1..Len(lrnBatch) |-> lrnBatch[b]]
          BY <2>1, SeqDef
        <4> QED BY <2>1, <3>1, <4>1, SeqDef
      <3> QED BY <3>2, LrnParts DEF LrnTypeOK, LrnTyped, LrnRunSound, Rows
    <2>3. LrnOnce
      BY LrnParts DEF LrnTyped, LrnOnce
    <2>4. LrnAskedOnce
      BY <2>1, LrnParts DEF LrnJournalSound, LrnAskedOnce, LrnRowSound
    <2>5. LrnClosedIsDone
      <3>1. ASSUME NEW b \in DOMAIN lrnBatch \ LrnPending
            PROVE  /\ \A i \in lrnBatch[b].items : LrnHandled(i)
                   /\ lrnBatch[b].summary # 0 <=> b \in lrnTold
        <4>1. lrnBatch[b].status = "done"
          BY <2>1 DEF LrnPending, LrnJournal
        <4> QED BY <2>1, <4>1 DEF LrnRowSound
      <3>2. \A m \in lrnSeen \ LrnPrivate :
              \E b \in DOMAIN lrnBatch : m \in lrnBatch[b].msgs /\ lrnBatch[b].status = "done"
        BY LrnParts DEF LrnJournalSound
      <3> QED BY <3>1, <3>2 DEF LrnClosedIsDone, LrnHandled
    <2> QED BY <2>2, <2>3, <2>4, <2>5
  <1> QED BY <1>1, LrnInitInv, LrnNextInv, PTL DEF LrnSpec

-----------------------------------------------------------------------------
(* GpuLease *)

\* Whoever is past the file lock holds it; only a ticket or the wrapper runs.
GpuInv ==
    /\ gpuPc \in [GpuUsers -> {"out", "waiting", "checking", "probing", "owner"}]
    /\ GpuOneOwner

LEMMA GpuInvInit == GpuInit => GpuInv
  BY DEF GpuInit, GpuInv, GpuOneOwner

\* A process that enters or leaves the lock disturbs nobody else: it found the
\* lock free, or holds it itself.
LEMMA GpuMoved ==
    ASSUME GpuInv, NEW p \in GpuUsers,
           NEW s \in {"out", "waiting", "checking", "probing", "owner"},
           gpuPc' = [gpuPc EXCEPT ![p] = s],
           \/ gpuLock' = gpuLock /\ s \in {"out", "waiting"}
           \/ gpuLock' = gpuLock /\ gpuLock = p
           \/ gpuLock = GpuNone /\ gpuLock' = p
           \/ gpuLock = p /\ gpuLock' = GpuNone /\ s = "out"
    PROVE  GpuInv'
  <1>1. \A q \in GpuUsers : q # GpuNone
    BY GpuAssumption DEF GpuUsers
  <1>2. /\ gpuPc'[p] = s
        /\ \A q \in GpuUsers \ {p} : gpuPc'[q] = gpuPc[q]
        /\ gpuPc' \in [GpuUsers -> {"out", "waiting", "checking", "probing", "owner"}]
    BY DEF GpuInv
  <1> QED
    BY <1>1, <1>2 DEF GpuInv, GpuOneOwner

LEMMA GpuInvStep == GpuInv /\ [GpuNext]_gpuVars => GpuInv'
  <1> SUFFICES ASSUME GpuInv, [GpuNext]_gpuVars PROVE GpuInv'
    OBVIOUS
  <1>0. /\ \A p \in GpuProcs : p \in GpuUsers
        /\ \A p \in GpuCoders : p \in GpuUsers
        /\ \A p \in GpuProbers : p \in GpuUsers
    BY DEF GpuUsers
  <1>1. CASE UNCHANGED gpuVars
    BY <1>1 DEF gpuVars, GpuInv, GpuOneOwner
  <1>2. ASSUME NEW p \in GpuProcs, GpuJoin(p) PROVE GpuInv'
    BY <1>0, <1>2, GpuMoved DEF GpuJoin
  <1>3. ASSUME NEW p \in GpuProcs, GpuAcquire(p) PROVE GpuInv'
    BY <1>0, <1>3, GpuMoved DEF GpuAcquire
  <1>4. ASSUME NEW p \in GpuProcs, GpuPoll(p) PROVE GpuInv'
    BY <1>4 DEF GpuPoll, GpuInv, GpuOneOwner
  <1>5. ASSUME NEW p \in GpuProcs, GpuBusy(p) PROVE GpuInv'
    BY <1>0, <1>5, GpuMoved DEF GpuBusy
  <1>6. ASSUME NEW p \in GpuProcs, GpuCrash(p) PROVE GpuInv'
    <2>1. gpuPc' = [gpuPc EXCEPT ![p] = "out"]
      BY <1>6 DEF GpuCrash
    <2>2. gpuLock' = IF gpuLock = p THEN GpuNone ELSE gpuLock
      BY <1>6 DEF GpuCrash
    <2> QED
      BY <1>0, <2>1, <2>2, GpuMoved
  <1>7. ASSUME NEW p \in GpuUsers, GpuRelease(p) PROVE GpuInv'
    <2>1. gpuLock = p
      BY <1>7 DEF GpuRelease, GpuInv, GpuOneOwner
    <2> QED
      BY <1>7, <2>1, GpuMoved DEF GpuRelease
  <1>8. ASSUME NEW c \in GpuCoders, GpuCoderTake(c) PROVE GpuInv'
    BY <1>0, <1>8, GpuMoved DEF GpuCoderTake
  <1>9. ASSUME NEW c \in GpuCoders, GpuCoderCheck(c) PROVE GpuInv'
    <2>1. gpuLock = c
      BY <1>0, <1>9 DEF GpuCoderCheck, GpuInv, GpuOneOwner
    <2> QED
      BY <1>0, <1>9, <2>1, GpuMoved DEF GpuCoderCheck
  <1>10. ASSUME NEW q \in GpuProbers, GpuProbe(q) PROVE GpuInv'
    BY <1>0, <1>10, GpuMoved DEF GpuProbe
  <1>11. ASSUME NEW q \in GpuProbers, GpuProbed(q) PROVE GpuInv'
    <2>1. gpuLock = q
      BY <1>0, <1>11 DEF GpuProbed, GpuInv, GpuOneOwner
    <2> QED
      BY <1>0, <1>11, <2>1, GpuMoved DEF GpuProbed
  <1>12. CASE GpuTick
    BY <1>12 DEF GpuTick, GpuInv, GpuOneOwner
  <1> QED
    BY <1>1, <1>2, <1>3, <1>4, <1>5, <1>6, <1>7, <1>8, <1>9, <1>10, <1>11, <1>12
    DEF GpuNext

\* acquire, the coding wrapper, busy: whoever runs on the GPU, checks the table or
\* tests the lock holds the file lock, so that any two of them are one, whatever
\* crashes and however many ghosts the table has.
THEOREM GpuHasOneOwner == GpuSpec => []GpuOneOwner
  <1>1. GpuInv => GpuOneOwner
    BY DEF GpuInv
  <1> QED
    BY <1>1, GpuInvInit, GpuInvStep, PTL DEF GpuSpec

-----------------------------------------------------------------------------
(* Skills: what a process holds is still true of the build and the row it  *)
(* read them from, since builds do not change once they ended, and what    *)
(* the night knows of the searches, since it alone writes them.            *)

SkStatuses == {"absent", "new", "planned", "active", "waiting", "blocked", "review",
               "done", "rejected"}
SkUnclosed == SkStatuses \ {"done"}
SkSearches == {"absent", "searching", "retry", "ready", "done"}
SkPlans == [st : {"absent", "retry", "prepared", "building", "waiting", "done", "superseded"},
            kind : {"none", "local", "other", "reuse"}, bound : BOOLEAN]
SkBuilt == {"absent", "queued", "bad", "good"}
SkCounts == [search : 0..1, build : 0..1]

\* Places with no skill of their own, and those with one.
SkFree == {"idle", "ready", "searches", "reconcile", "rows", "pending", "plans"}
SkBusy == {"walk", "child", "row", "catalog", "report", "found", "available", "close",
           "decide", "apply", "bind", "wait"}
SkNexts == {"", "available", "close", "bind", "wait", "pending", "idle"}
SkLoops == {"", "ready", "searches", "pending", "plans"}
SkLocals == [at : SkFree \cup SkBusy, s : {0} \cup SkSkills, path : Seq(SkStatuses),
             next : SkNexts, loop : SkLoops, left : SUBSET SkSkills,
             saw : [SkSkills -> {"", "ready", "open", "skip"}], n : Nat,
             lock : {"", "pending", "idle"}]

\* The rows, the builds and what the owner was told.
SkWorld ==
    /\ skTask \in [SkSkills -> SkStatuses] /\ skMade \in [SkSkills -> SkCounts]
    /\ skSearch \in [SkSkills -> SkSearches] /\ skPlan \in [SkSkills -> SkPlans]
    /\ skBuild \in [SkSkills -> SkBuilt] /\ skListed \subseteq SkSkills
    /\ skTold \subseteq {"found", "available"} \X SkSkills /\ skFault \in 0..SkFaults
    /\ \A s \in SkSkills : skMade[s].build > 0 => skBuild[s] # "absent"
    /\ \A s \in SkReused : skMade[s] = [search |-> 0, build |-> 0] /\ skBuild[s] # "absent"
    /\ SkHonest

\* A process that decides on builds and tasks: a skill is on its way to done only
\* over a build that works, and its row is closed as ready only once that is told.
SkLocal(w) ==
    /\ w.at \in SkBusy => w.s \in SkSkills
    /\ \A s \in SkSkills : w.saw[s] = "ready" => skBuild[s] = "good"
    /\ w.at = "walk" =>
         /\ w.path # <<>> /\ w.next \in {"available", "close", "bind", "wait"}
         /\ w.next # "available" => w.path \in Seq(SkUnclosed)
         /\ w.next = "available" => skBuild[w.s] = "good"
         /\ w.next = "close" => w.saw[w.s] # "ready"
    /\ w.at = "available" => skBuild[w.s] = "good"
    /\ w.at = "close" /\ w.saw[w.s] = "ready" => <<"available", w.s>> \in skTold
    /\ \/ w.at \in {"pending", "plans", "decide", "apply", "bind", "wait"}
       \/ w.at = "walk" /\ w.next \in {"bind", "wait"}
       => w.loop \in {"pending", "plans"} /\ \A s \in SkSkills : w.saw[s] # "ready"
    /\ w.at = "reconcile" => w.next \in {"pending", "idle"}

SkAnswered == {s \in SkSkills : skSearch[s] = "ready"}

\* The night reports every answer before it searches on.
SkNightSound(w) ==
    /\ w.at = "ready" => w.loop = "ready" /\ w.left = SkAnswered
    /\ w.at \in {"report", "found"} =>
         /\ skSearch[w.s] = "ready"
         /\ \/ w.loop = "ready" /\ w.left = SkAnswered
            \/ /\ w.loop = "searches" /\ SkAnswered = {w.s}
               /\ \A r \in w.left : skSearch[r] # "done"
    /\ w.at \in {"searches", "child", "row", "catalog"} =>
         /\ w.loop = "searches" /\ SkAnswered = {}
         /\ \A r \in w.left : skSearch[r] # "done"
    /\ w.at \in {"child", "row"} => skSearch[w.s] # "done"
    /\ w.at = "child" => w.s \notin SkReused
    /\ w.at = "catalog" => skSearch[w.s] = "searching"

SkWorkerSound(w) ==
    /\ w.at \in {"idle", "rows", "walk", "available", "close"}
    /\ w.at = "walk" => w.next \in {"available", "close"}
    /\ w.at # "idle" => w.lock = "idle"

SkInv ==
    /\ SkWorld /\ skAt \in [SkProcs -> SkLocals]
    /\ \A p \in SkProcs : SkLocal(skAt[p])
    /\ SkNightSound(skAt["night"]) /\ SkWorkerSound(skAt["worker"])

LEMMA SkProcesses == "night" \in SkProcs /\ "worker" \in SkProcs /\ \A p \in SkProcs : p \in {"night", "worker"}
  BY DEF SkProcs

LEMMA SkIdleSound ==
    /\ SkIdle \in SkLocals /\ SkIdle.at = "idle" /\ SkIdle.s = 0 /\ SkIdle.next = "" /\ SkIdle.loop = ""
    /\ SkIdle.left = {} /\ SkIdle.lock = "" /\ \A s \in SkSkills : SkIdle.saw[s] = ""
    /\ SkLocal(SkIdle) /\ SkNightSound(SkIdle) /\ SkWorkerSound(SkIdle)
  <1>1. /\ SkIdle.at = "idle" /\ SkIdle.s = 0 /\ SkIdle.next = "" /\ SkIdle.loop = ""
        /\ SkIdle.left = {} /\ SkIdle.lock = "" /\ \A s \in SkSkills : SkIdle.saw[s] = ""
    BY DEF SkIdle
  <1>2. SkIdle \in SkLocals
    <2>1. << >> \in Seq(SkStatuses)
      OBVIOUS
    <2> QED BY <2>1 DEF SkIdle, SkLocals, SkFree, SkNexts, SkLoops
  <1>3. SkLocal(SkIdle) /\ SkNightSound(SkIdle) /\ SkWorkerSound(SkIdle)
    BY <1>1 DEF SkLocal, SkNightSound, SkWorkerSound, SkBusy
  <1> QED BY <1>1, <1>2, <1>3

LEMMA SkRows ==
    ASSUME NEW w \in SkLocals
    PROVE  /\ w.at \in SkFree \cup SkBusy /\ w.s \in {0} \cup SkSkills /\ w.path \in Seq(SkStatuses)
           /\ w.next \in SkNexts /\ w.loop \in SkLoops /\ w.left \in SUBSET SkSkills
           /\ w.saw \in [SkSkills -> {"", "ready", "open", "skip"}] /\ w.n \in Nat
           /\ w.lock \in {"", "pending", "idle"}
  BY DEF SkLocals

\* Two records of locals that agree but for one field.
SkSameBut(x, w, f) ==
    /\ x \in SkLocals
    /\ f # "at" => x.at = w.at
    /\ f # "s" => x.s = w.s
    /\ f # "path" => x.path = w.path
    /\ f # "next" => x.next = w.next
    /\ f # "loop" => x.loop = w.loop
    /\ f # "left" => x.left = w.left
    /\ f # "saw" => x.saw = w.saw
    /\ f # "n" => x.n = w.n
    /\ f # "lock" => x.lock = w.lock

LEMMA SkFields ==
    ASSUME NEW w \in SkLocals
    PROVE  /\ \A v \in SkFree \cup SkBusy : LET x == [w EXCEPT !.at = v] IN SkSameBut(x, w, "at") /\ x.at = v
           /\ \A v \in SkSkills : LET x == [w EXCEPT !.s = v] IN SkSameBut(x, w, "s") /\ x.s = v
           /\ \A v \in Seq(SkStatuses) : LET x == [w EXCEPT !.path = v] IN SkSameBut(x, w, "path") /\ x.path = v
           /\ \A v \in SkNexts : LET x == [w EXCEPT !.next = v] IN SkSameBut(x, w, "next") /\ x.next = v
           /\ \A v \in SkLoops : LET x == [w EXCEPT !.loop = v] IN SkSameBut(x, w, "loop") /\ x.loop = v
           /\ \A v \in SUBSET SkSkills : LET x == [w EXCEPT !.left = v] IN SkSameBut(x, w, "left") /\ x.left = v
           /\ \A v \in [SkSkills -> {"", "ready", "open", "skip"}] :
                LET x == [w EXCEPT !.saw = v] IN SkSameBut(x, w, "saw") /\ x.saw = v
           /\ \A v \in Nat : LET x == [w EXCEPT !.n = v] IN SkSameBut(x, w, "n") /\ x.n = v
           /\ \A v \in {"", "pending", "idle"} : LET x == [w EXCEPT !.lock = v] IN SkSameBut(x, w, "lock") /\ x.lock = v
  BY DEF SkLocals, SkSameBut

LEMMA SkParts ==
    ASSUME SkInv
    PROVE  /\ SkWorld /\ skAt \in [SkProcs -> SkLocals]
           /\ \A p \in SkProcs : SkLocal(skAt[p]) /\ skAt[p] \in SkLocals
           /\ SkNightSound(skAt["night"]) /\ SkWorkerSound(skAt["worker"])
  BY DEF SkInv

\* One process moves and the world with it; the other process relies on builds
\* that work, on what was told, and the night on its own searches.
LEMMA SkOne ==
    ASSUME SkInv, NEW p \in SkProcs, NEW x \in SkLocals, skAt' = [skAt EXCEPT ![p] = x],
           SkWorld', SkLocal(x)',
           p = "night" => SkNightSound(x)',
           p = "worker" => SkWorkerSound(x) /\ UNCHANGED skSearch,
           \A s \in SkSkills : skBuild[s] = "good" => skBuild'[s] = "good",
           skTold \subseteq skTold'
    PROVE  SkInv'
  <1>1. skAt' \in [SkProcs -> SkLocals] /\ skAt'[p] = x /\ \A q \in SkProcs : q # p => skAt'[q] = skAt[q]
    BY SkParts
  <1>2. ASSUME NEW q \in SkProcs PROVE SkLocal(skAt[q])' 
    <2>1. CASE q = p
      <3>1. skAt'[q] = x
        BY <1>1, <2>1
      <3> QED BY <3>1 DEF SkLocal
    <2>2. CASE q # p
      <3>1. skAt'[q] = skAt[q] /\ SkLocal(skAt[q]) /\ skAt[q] \in SkLocals
        BY <1>1, <2>2, SkParts
      <3>2. PICK w \in SkLocals : w = skAt[q]
        BY <3>1
      <3>3. SkLocal(w)
        BY <3>1, <3>2
      <3>4. SkLocal(w)'
        BY <3>3 DEF SkLocal, SkBusy
      <3>5. skAt'[q] = w
        BY <3>1, <3>2
      <3> QED BY <3>4, <3>5 DEF SkLocal
    <2> QED BY <2>1, <2>2
  <1>3. SkNightSound(skAt["night"])'
    <2>1. CASE p = "night"
      <3>1. skAt'["night"] = x
        BY <1>1, <2>1
      <3> QED BY <2>1, <3>1 DEF SkNightSound
    <2>2. CASE p = "worker"
      <3>1. skAt'["night"] = skAt["night"] /\ skSearch' = skSearch
        BY <1>1, <2>2, SkProcesses
      <3> QED BY <3>1, SkParts DEF SkNightSound, SkAnswered
    <2> QED BY <2>1, <2>2, SkProcesses
  <1>4. SkWorkerSound(skAt'["worker"])
    <2>1. CASE p = "worker"
      BY <1>1, <2>1
    <2>2. CASE p = "night"
      BY <1>1, <2>2, SkParts, SkProcesses
    <2> QED BY <2>1, <2>2, SkProcesses
  <1> QED BY <1>1, <1>2, <1>3, <1>4 DEF SkInv, SkWorkerSound

\* Nothing but the processes and the attempts of the day moves.
LEMMA SkWorldSame ==
    ASSUME SkInv, UNCHANGED <<skTask, skMade, skSearch, skPlan, skTold, skBuild, skListed, skFault>>
    PROVE  SkWorld'
  BY SkParts DEF SkWorld, SkHonest

\* A process that stops leaves nothing behind it that counts on it.
LEMMA SkStops ==
    ASSUME SkInv, NEW p \in SkProcs, SkStop(p), SkWorld',
           \A s \in SkSkills : skBuild[s] = "good" => skBuild'[s] = "good",
           skTold \subseteq skTold', UNCHANGED skSearch
    PROVE  SkInv'
  <1>1. PICK x : x = SkIdle
    OBVIOUS
  <1>2. /\ x \in SkLocals /\ x.at = "idle" /\ \A s \in SkSkills : x.saw[s] = ""
        /\ SkWorkerSound(x)
    BY <1>1, SkIdleSound
  <1>3. skAt' = [skAt EXCEPT ![p] = x]
    BY <1>1 DEF SkStop
  <1>4. SkLocal(x)' /\ SkNightSound(x)'
    BY <1>2 DEF SkLocal, SkNightSound, SkBusy
  <1> QED BY <1>2, <1>3, <1>4, SkOne

LEMMA SkInitInv == SkInit => SkInv
  <1> SUFFICES ASSUME SkInit PROVE SkInv
    OBVIOUS
  <1>1. /\ skTask = [s \in SkSkills |-> "absent"] /\ skTold = {} /\ skListed = {}
        /\ skMade = [s \in SkSkills |-> [search |-> 0, build |-> 0]]
        /\ skSearch = [s \in SkSkills |-> "absent"]
        /\ skPlan = [s \in SkSkills |-> [st |-> "absent", kind |-> "none", bound |-> FALSE]]
        /\ skBuild = [s \in SkSkills |-> IF s \in SkReused THEN "queued" ELSE "absent"]
        /\ skAt = [p \in SkProcs |-> SkIdle] /\ skFault = SkFaults
    BY DEF SkInit
  <1>2. [st |-> "absent", kind |-> "none", bound |-> FALSE] \in SkPlans
    BY DEF SkPlans
  <1>3. [search |-> 0, build |-> 0] \in SkCounts
    BY DEF SkCounts
  <1>4. SkWorld
    <2>1. SkReused \subseteq SkSkills /\ SkFaults \in 0..SkFaults
      BY SkAssumption
    <2>2. SkHonest
      BY <1>1 DEF SkHonest
    <2>3. /\ skTask \in [SkSkills -> SkStatuses] /\ skSearch \in [SkSkills -> SkSearches]
          /\ skBuild \in [SkSkills -> SkBuilt]
      BY <1>1 DEF SkStatuses, SkSearches, SkBuilt
    <2>4. skPlan \in [SkSkills -> SkPlans] /\ skMade \in [SkSkills -> SkCounts]
      BY <1>1, <1>2, <1>3
    <2>5. /\ \A s \in SkSkills : skMade[s].build > 0 => skBuild[s] # "absent"
          /\ \A s \in SkReused : skMade[s] = [search |-> 0, build |-> 0] /\ skBuild[s] # "absent"
      BY <1>1, <2>1
    <2> QED BY <1>1, <2>1, <2>2, <2>3, <2>4, <2>5 DEF SkWorld
  <1>5. skAt \in [SkProcs -> SkLocals] /\ \A p \in SkProcs : skAt[p] = SkIdle
    BY <1>1, SkIdleSound
  <1> QED BY <1>4, <1>5, SkIdleSound, SkProcesses DEF SkInv

LEMMA SkGoes ==
    ASSUME SkInv, NEW p \in SkProcs, NEW at \in SkFree \cup SkBusy, SkGo(p, at)
    PROVE  \E x \in SkLocals : /\ SkSameBut(x, skAt[p], "at") /\ x.at = at
                              /\ skAt' = [skAt EXCEPT ![p] = x]
  <1> DEFINE r == [skAt[p] EXCEPT !.at = at]
  <1>1. skAt' = [skAt EXCEPT ![p] = r]
    BY DEF SkGo
  <1>2. SkSameBut(r, skAt[p], "at") /\ r.at = at
    <2>1. skAt[p] \in SkLocals
      BY SkParts
    <2> QED BY <2>1, SkFields
  <1>3. r \in SkLocals
    BY <1>2 DEF SkSameBut
  <1> HIDE DEF r
  <1> QED BY <1>1, <1>2, <1>3

\* The way a task is moved: never empty, and over done only to done.
LEMMA SkWay ==
    ASSUME NEW from \in DOMAIN SkOpening, NEW to \in {"done", "blocked", "active"}
    PROVE  LET path == SkOpening[from] \o SkClosing(from, to) IN
           /\ path \in Seq(SkStatuses) /\ path # <<>>
           /\ to # "done" => path \in Seq(SkUnclosed)
  <1> DEFINE a == SkOpening[from]
             b == SkClosing(from, to)
  <1>1. a \in {<<"planned", "active">>, <<"active">>, <<>>}
    BY DEF SkOpening
  <1>2. a \in Seq(SkUnclosed) /\ a \in Seq(SkStatuses)
    <2>1. /\ <<"planned", "active">> \in Seq(SkUnclosed) /\ <<"planned", "active">> \in Seq(SkStatuses)
          /\ <<"active">> \in Seq(SkUnclosed) /\ <<"active">> \in Seq(SkStatuses)
          /\ <<>> \in Seq(SkUnclosed) /\ <<>> \in Seq(SkStatuses)
      BY DEF SkUnclosed, SkStatuses
    <2> HIDE DEF a
    <2> QED BY <1>1, <2>1
  <1>3. /\ b \in Seq(SkStatuses) /\ Len(b) >= 1
        /\ to # "done" => b \in Seq(SkUnclosed)
    <2>1. (b = <<"review", "done">> /\ to = "done") \/ b = <<to>>
      BY DEF SkClosing
    <2> HIDE DEF b
    <2>2. CASE b = <<"review", "done">> /\ to = "done"
      BY <2>2 DEF SkStatuses
    <2>3. CASE b = <<to>>
      BY <2>3 DEF SkUnclosed, SkStatuses
    <2> QED BY <2>1, <2>2, <2>3
  <1> HIDE DEF a, b
  <1>4. a \o b \in Seq(SkStatuses) /\ Len(a \o b) = Len(a) + Len(b)
    BY <1>2, <1>3, ConcatProperties
  <1>5. to # "done" => a \o b \in Seq(SkUnclosed)
    BY <1>2, <1>3, ConcatProperties
  <1>6. a \o b # <<>>
    <2>1. Len(a) \in Nat /\ Len(b) \in Nat
      BY <1>2, <1>3, LenProperties
    <2>2. Len(a \o b) >= 1
      BY <1>3, <1>4, <2>1
    <2>3. Len(<<>>) = 0
      OBVIOUS
    <2> QED BY <2>2, <2>3
  <1> QED BY <1>4, <1>5, <1>6 DEF a, b

\* Either there is no way, and the process ends, or it starts on it.
LEMMA SkTransitions ==
    ASSUME SkInv, NEW p \in SkProcs, NEW s \in SkSkills,
           NEW to \in {"done", "blocked", "active"}, NEW next \in SkNexts,
           SkTransition(p, s, to, next)
    PROVE  \/ SkStop(p)
           \/ \E x \in SkLocals :
                /\ skAt' = [skAt EXCEPT ![p] = x] /\ x.at = "walk" /\ x.s = s /\ x.next = next
                /\ x.path # <<>> /\ (to # "done" => x.path \in Seq(SkUnclosed))
                /\ x.loop = skAt[p].loop /\ x.left = skAt[p].left /\ x.saw = skAt[p].saw
                /\ x.n = skAt[p].n /\ x.lock = skAt[p].lock
  <1>1. CASE skTask[s] \notin DOMAIN SkOpening
    BY <1>1 DEF SkTransition, SkStop
  <1>2. CASE skTask[s] \in DOMAIN SkOpening
    <2> DEFINE path == SkOpening[skTask[s]] \o SkClosing(skTask[s], to)
               r1 == [skAt[p] EXCEPT !.at = "walk"]
               r2 == [r1 EXCEPT !.s = s]
               r3 == [r2 EXCEPT !.next = next]
               r4 == [r3 EXCEPT !.path = path]
    <2>1. skAt' = [skAt EXCEPT ![p] = r4]
      BY <1>2 DEF SkTransition
    <2>2. path \in Seq(SkStatuses) /\ path # <<>> /\ (to # "done" => path \in Seq(SkUnclosed))
      BY <1>2, SkWay
    <2> HIDE DEF path
    <2>3. SkSameBut(r1, skAt[p], "at") /\ r1.at = "walk"
      <3>1. skAt[p] \in SkLocals /\ "walk" \in SkFree \cup SkBusy
        BY SkParts DEF SkBusy
      <3> QED BY <3>1, SkFields
    <2> HIDE DEF r1
    <2>4. SkSameBut(r2, r1, "s") /\ r2.s = s
      <3>1. r1 \in SkLocals
        BY <2>3 DEF SkSameBut
      <3> QED BY <3>1, SkFields
    <2> HIDE DEF r2
    <2>5. SkSameBut(r3, r2, "next") /\ r3.next = next
      <3>1. r2 \in SkLocals
        BY <2>4 DEF SkSameBut
      <3> QED BY <3>1, SkFields
    <2> HIDE DEF r3
    <2>6. SkSameBut(r4, r3, "path") /\ r4.path = path
      <3>1. r3 \in SkLocals
        BY <2>5 DEF SkSameBut
      <3> QED BY <2>2, <3>1, SkFields
    <2> HIDE DEF r4
    <2> QED BY <2>1, <2>2, <2>3, <2>4, <2>5, <2>6, ZenonT(40) DEF SkSameBut
  <1> QED BY <1>1, <1>2

LEMMA SkStepInv == ASSUME SkInv, NEW p \in SkProcs, SkStep(p) PROVE SkInv'
  <1>1. PICK w : w = skAt[p]
    OBVIOUS
  <1>2. /\ w \in SkLocals /\ SkLocal(w) /\ w.at = "walk" /\ SkWorld
        /\ p = "night" => SkNightSound(w)
        /\ p = "worker" => SkWorkerSound(w)
        /\ UNCHANGED <<skMade, skSearch, skPlan, skTold, skBuild, skListed, skFault>>
    BY <1>1, SkParts DEF SkStep, skOutside
  <1>3. /\ w.s \in SkSkills /\ w.path \in Seq(SkStatuses) /\ w.path # <<>>
        /\ w.next \in {"available", "close", "bind", "wait"}
        /\ w.next # "available" => w.path \in Seq(SkUnclosed)
        /\ w.next = "available" => skBuild[w.s] = "good"
        /\ w.next = "close" => w.saw[w.s] # "ready"
    BY <1>2, SkRows DEF SkLocal, SkBusy
  <1> DEFINE to == Head(w.path)
             rest == Tail(w.path)
             last == rest = <<>>
  <1>4. /\ to \in SkStatuses /\ rest \in Seq(SkStatuses)
        /\ w.next # "available" => to # "done" /\ rest \in Seq(SkUnclosed)
    <2>1. to \in SkStatuses /\ rest \in Seq(SkStatuses)
      BY <1>3, HeadTailProperties
    <2>2. ASSUME w.next # "available" PROVE to # "done" /\ rest \in Seq(SkUnclosed)
      <3>1. to \in SkUnclosed /\ rest \in Seq(SkUnclosed)
        BY <1>3, <2>2, HeadTailProperties
      <3> QED BY <3>1 DEF SkUnclosed
    <2> QED BY <2>1, <2>2
  <1>5. \/ SkStop(p) /\ UNCHANGED skTask
        \/ /\ skTask' = [skTask EXCEPT ![w.s] = to]
           /\ skAt' = [skAt EXCEPT ![p] = [w EXCEPT !.path = rest, !.at = IF last THEN w.next ELSE w.at,
                                                    !.next = IF last THEN "" ELSE w.next]]
    BY <1>1 DEF SkStep
  <1> HIDE DEF to, rest
  <1>6. CASE SkStop(p) /\ UNCHANGED skTask
    <2>1. SkWorld'
      BY <1>2, <1>6, SkWorldSame
    <2> QED BY <1>2, <1>6, <2>1, SkStops
  <1>7. CASE /\ skTask' = [skTask EXCEPT ![w.s] = to]
             /\ skAt' = [skAt EXCEPT ![p] = [w EXCEPT !.path = rest, !.at = IF last THEN w.next ELSE w.at,
                                                      !.next = IF last THEN "" ELSE w.next]]
    <2> DEFINE at == IF last THEN w.next ELSE w.at
               next == IF last THEN "" ELSE w.next
               r1 == [w EXCEPT !.path = rest]
               r2 == [r1 EXCEPT !.at = at]
               r3 == [r2 EXCEPT !.next = next]
    <2>0. at \in SkFree \cup SkBusy /\ next \in SkNexts
      BY <1>2, <1>3 DEF SkBusy, SkNexts
    <2>1. skAt' = [skAt EXCEPT ![p] = r3]
      BY <1>7
    <2> HIDE DEF at, next
    <2>2. SkSameBut(r1, w, "path") /\ r1.path = rest
      BY <1>2, <1>4, SkFields
    <2> HIDE DEF r1
    <2>3. SkSameBut(r2, r1, "at") /\ r2.at = at
      <3>1. r1 \in SkLocals
        BY <2>2 DEF SkSameBut
      <3> QED BY <2>0, <3>1, SkFields
    <2> HIDE DEF r2
    <2>4. SkSameBut(r3, r2, "next") /\ r3.next = next
      <3>1. r2 \in SkLocals
        BY <2>3 DEF SkSameBut
      <3> QED BY <2>0, <3>1, SkFields
    <2> HIDE DEF r3
    <2>5. PICK x \in SkLocals :
            /\ x.at = IF last THEN w.next ELSE "walk"
            /\ x.next = IF last THEN "" ELSE w.next
            /\ x.path = rest /\ x.s = w.s /\ x.loop = w.loop /\ x.left = w.left /\ x.saw = w.saw
            /\ x.lock = w.lock /\ skAt' = [skAt EXCEPT ![p] = x]
      BY <1>2, <2>1, <2>2, <2>3, <2>4 DEF SkSameBut, at, next
    <2>6. SkWorld'
      <3>1. skTask' \in [SkSkills -> SkStatuses] /\ \A s \in SkSkills : s # w.s => skTask'[s] = skTask[s]
        BY <1>2, <1>3, <1>4, <1>7 DEF SkWorld
      <3>2. skTask'[w.s] = "done" => skBuild[w.s] = "good"
        BY <1>2, <1>3, <1>4, <1>7 DEF SkWorld
      <3>3. SkHonest'
        BY <1>2, <1>3, <3>1, <3>2 DEF SkWorld, SkHonest
      <3> QED BY <1>2, <3>1, <3>3 DEF SkWorld
    <2>7. SkLocal(x)'
      <3>1. /\ \A s \in SkSkills : x.saw[s] = "ready" => skBuild[s] = "good"
            /\ w.next \in {"bind", "wait"} =>
                 x.loop \in {"pending", "plans"} /\ \A s \in SkSkills : x.saw[s] # "ready"
        BY <1>2, <2>5 DEF SkLocal
      <3>2. CASE last
        BY <1>2, <1>3, <2>5, <3>1, <3>2 DEF SkLocal
      <3>3. CASE ~last
        BY <1>2, <1>3, <1>4, <2>5, <3>1, <3>3 DEF SkLocal
      <3> QED BY <3>2, <3>3
    <2>8. p = "night" => SkNightSound(x)'
      BY <1>3, <2>5 DEF SkNightSound
    <2>9. p = "worker" => SkWorkerSound(x)
      BY <1>2, <1>3, <2>5 DEF SkWorkerSound
    <2> QED BY <1>2, <2>5, <2>6, <2>7, <2>8, <2>9, SkOne
  <1> QED BY <1>5, <1>6, <1>7

\* What a process that moves is given.
LEMMA SkHolds ==
    ASSUME SkInv, NEW p \in SkProcs, NEW w, w = skAt[p]
    PROVE  /\ w \in SkLocals /\ SkLocal(w) /\ SkWorld
           /\ p = "night" => SkNightSound(w)
           /\ p = "worker" => SkWorkerSound(w)
  BY SkParts

\* A verdict is ready only over a build that works.
LEMMA SkReconcileInv == ASSUME SkInv, NEW p \in SkProcs, SkReconcile(p) PROVE SkInv'
  <1>1. PICK w : w = skAt[p]
    OBVIOUS
  <1>2. w \in SkLocals /\ SkLocal(w)
    BY <1>1, SkHolds
  <1>3. PICK rows \in SUBSET SkSkills :
          /\ skAt' = [skAt EXCEPT ![p] = [w EXCEPT !.at = "rows", !.left = rows,
                  !.lock = IF p = "worker" THEN "idle" ELSE w.next,
                  !.saw = [s \in SkSkills |-> IF s \in rows THEN SkVerdict(s) ELSE ""]]]
    BY <1>1 DEF SkReconcile
  <1>4. /\ p = "worker" \/ w.at = "reconcile"
        /\ UNCHANGED <<skTask, skMade, skSearch, skPlan, skTold, skBuild, skListed, skFault>>
    BY <1>1 DEF SkReconcile, skOutside
  <1> DEFINE lock == IF p = "worker" THEN "idle" ELSE w.next
             saw == [s \in SkSkills |-> IF s \in rows THEN SkVerdict(s) ELSE ""]
             r1 == [w EXCEPT !.at = "rows"]
             r2 == [r1 EXCEPT !.left = rows]
             r3 == [r2 EXCEPT !.lock = lock]
             r4 == [r3 EXCEPT !.saw = saw]
  <1>5. lock \in {"", "pending", "idle"}
    BY <1>2, <1>4 DEF SkLocal
  <1>6. /\ saw \in [SkSkills -> {"", "ready", "open", "skip"}]
        /\ \A s \in SkSkills : saw[s] = "ready" => skBuild[s] = "good"
    BY DEF SkVerdict
  <1>7. skAt' = [skAt EXCEPT ![p] = r4]
    BY <1>3
  <1> HIDE DEF lock, saw
  <1>8. SkSameBut(r1, w, "at") /\ r1.at = "rows" /\ r1 \in SkLocals
    <2>1. "rows" \in SkFree \cup SkBusy
      BY DEF SkFree
    <2>2. SkSameBut(r1, w, "at") /\ r1.at = "rows"
      BY <1>2, <2>1, SkFields
    <2> QED BY <2>2 DEF SkSameBut
  <1> HIDE DEF r1
  <1>9. SkSameBut(r2, r1, "left") /\ r2 \in SkLocals
    <2>1. SkSameBut(r2, r1, "left")
      BY <1>8, SkFields
    <2> QED BY <2>1 DEF SkSameBut
  <1> HIDE DEF r2
  <1>10. SkSameBut(r3, r2, "lock") /\ r3 \in SkLocals /\ r3.lock = lock
    <2>1. SkSameBut(r3, r2, "lock") /\ r3.lock = lock
      BY <1>5, <1>9, SkFields
    <2> QED BY <2>1 DEF SkSameBut
  <1> HIDE DEF r3
  <1>11. SkSameBut(r4, r3, "saw") /\ r4.saw = saw
    <2>1. saw \in [SkSkills -> {"", "ready", "open", "skip"}] /\ r3 \in SkLocals
      BY <1>6, <1>10
    <2> QED BY ONLY <2>1 DEF SkLocals, SkSameBut, r4
  <1>12. PICK x \in SkLocals : /\ x.at = "rows" /\ x.saw = saw /\ x.lock = lock
                              /\ skAt' = [skAt EXCEPT ![p] = x]
    BY <1>7, <1>8, <1>9, <1>10, <1>11 DEF SkSameBut
  <1>13. SkLocal(x)' /\ SkNightSound(x)' /\ (p = "worker" => SkWorkerSound(x))
    BY <1>4, <1>6, <1>12 DEF SkLocal, SkNightSound, SkWorkerSound, SkBusy, lock
  <1>14. SkWorld'
    BY <1>4, SkWorldSame
  <1> QED BY <1>4, <1>12, <1>13, <1>14, SkOne

\* A row of the plans changes; it is done only once that was told.
LEMMA SkWorldPlan ==
    ASSUME SkInv, NEW s \in SkSkills, NEW row \in SkPlans, skPlan' = [skPlan EXCEPT ![s] = row],
           row.st = "done" => <<"available", s>> \in skTold,
           UNCHANGED <<skTask, skMade, skSearch, skTold, skBuild, skListed>>,
           skFault' \in 0..SkFaults
    PROVE  SkWorld'
  <1>1. SkWorld
    BY SkParts
  <1>2. /\ skPlan' \in [SkSkills -> SkPlans] /\ skPlan'[s] = row
        /\ \A r \in SkSkills : r # s => skPlan'[r] = skPlan[r]
    BY <1>1 DEF SkWorld
  <1>3. SkHonest'
    BY <1>1, <1>2 DEF SkWorld, SkHonest
  <1> QED BY <1>1, <1>2, <1>3 DEF SkWorld

LEMMA SkPlanFields ==
    ASSUME NEW row \in SkPlans
    PROVE  /\ \A st \in {"retry", "prepared", "building", "waiting", "done", "superseded"} :
                LET x == [row EXCEPT !.st = st] IN x \in SkPlans /\ x.st = st
           /\ \A kind \in {"none", "local", "other", "reuse"} :
                LET x == [row EXCEPT !.kind = kind] IN x \in SkPlans /\ x.st = row.st
           /\ \A bound \in BOOLEAN :
                LET x == [row EXCEPT !.bound = bound] IN x \in SkPlans /\ x.st = row.st
           /\ row.bound \in BOOLEAN
  BY DEF SkPlans

LEMMA SkEachInv == ASSUME SkInv, NEW p \in SkProcs, SkEach(p) PROVE SkInv'
  <1>1. PICK w : w = skAt[p]
    OBVIOUS
  <1>2. /\ w \in SkLocals /\ SkLocal(w) /\ SkWorld /\ w.at = "rows" /\ w.left \in SUBSET SkSkills
        /\ p = "worker" => SkWorkerSound(w)
    BY <1>1, SkHolds, SkRows DEF SkEach
  <1>3. PICK s \in w.left :
         IF skTask[s] = "rejected" \/ w.saw[s] = "skip"
         THEN /\ skAt' = [skAt EXCEPT ![p].left = @ \ {s}]
              /\ IF skTask[s] = "rejected" THEN skPlan' = [skPlan EXCEPT ![s].st = "superseded"]
                 ELSE UNCHANGED skPlan
         ELSE /\ IF w.saw[s] = "ready" THEN SkTransition(p, s, "done", "available")
                 ELSE SkTransition(p, s, "blocked", "close")
              /\ UNCHANGED skPlan
    BY <1>1 DEF SkEach
  <1>4. UNCHANGED <<skTask, skMade, skSearch, skTold, skBuild, skListed, skFault>>
    BY DEF SkEach, skOutside
  <1>5. s \in SkSkills /\ (w.saw[s] = "ready" => skBuild[s] = "good")
    BY <1>2 DEF SkLocal
  <1>6. CASE skAt' = [skAt EXCEPT ![p].left = @ \ {s}]
    <2> DEFINE r == [w EXCEPT !.left = w.left \ {s}]
    <2>1. skAt' = [skAt EXCEPT ![p] = r]
      BY <1>1, <1>6
    <2>2. SkSameBut(r, w, "left")
      BY <1>2, SkFields
    <2> HIDE DEF r
    <2>3. PICK x \in SkLocals : /\ x.at = "rows" /\ x.saw = w.saw /\ x.lock = w.lock
                               /\ skAt' = [skAt EXCEPT ![p] = x]
      BY <1>2, <2>1, <2>2 DEF SkSameBut
    <2>4. SkLocal(x)' /\ SkNightSound(x)' /\ (p = "worker" => SkWorkerSound(x))
      BY <1>2, <1>4, <2>3 DEF SkLocal, SkNightSound, SkWorkerSound, SkBusy
    <2>5. SkWorld'
      <3>1. CASE UNCHANGED skPlan
        BY <1>4, <3>1, SkWorldSame
      <3>2. CASE skPlan' = [skPlan EXCEPT ![s].st = "superseded"]
        <4> DEFINE row == [skPlan[s] EXCEPT !.st = "superseded"]
        <4>1. skPlan' = [skPlan EXCEPT ![s] = row]
          BY <3>2
        <4>2. skPlan[s] \in SkPlans /\ skFault \in 0..SkFaults
          BY <1>2, <1>5 DEF SkWorld
        <4>3. row \in SkPlans /\ row.st = "superseded"
          BY <4>2, SkPlanFields
        <4> HIDE DEF row
        <4> QED BY <1>4, <1>5, <4>1, <4>2, <4>3, SkWorldPlan
      <3> QED BY <1>3, <1>6, <3>1, <3>2
    <2> QED BY <1>4, <2>3, <2>4, <2>5, SkOne
  <1>7. CASE UNCHANGED skPlan /\ IF w.saw[s] = "ready" THEN SkTransition(p, s, "done", "available")
                                ELSE SkTransition(p, s, "blocked", "close")
    <2>1. SkWorld'
      BY <1>4, <1>7, SkWorldSame
    <2>2. CASE SkStop(p)
      BY <1>4, <2>1, <2>2, SkStops
    <2>3. CASE ~SkStop(p)
      <3>1. "available" \in SkNexts /\ "close" \in SkNexts
        BY DEF SkNexts
      <3>2. PICK x \in SkLocals :
                /\ skAt' = [skAt EXCEPT ![p] = x] /\ x.at = "walk" /\ x.s = s
                /\ x.path # <<>> /\ x.saw = w.saw /\ x.lock = w.lock
                /\ x.next = IF w.saw[s] = "ready" THEN "available" ELSE "close"
                /\ w.saw[s] # "ready" => x.path \in Seq(SkUnclosed)
        <4>1. CASE w.saw[s] = "ready"
          <5>1. SkTransition(p, s, "done", "available")
            BY <1>7, <4>1
          <5> QED BY <1>1, <1>5, <2>3, <3>1, <4>1, <5>1, SkTransitions
        <4>2. CASE w.saw[s] # "ready"
          <5>1. SkTransition(p, s, "blocked", "close")
            BY <1>7, <4>2
          <5> QED BY <1>1, <1>5, <2>3, <3>1, <4>2, <5>1, SkTransitions
        <4> QED BY <4>1, <4>2
      <3>3. SkLocal(x)' /\ SkNightSound(x)' /\ (p = "worker" => SkWorkerSound(x))
        BY <1>2, <1>4, <1>5, <3>2 DEF SkLocal, SkNightSound, SkWorkerSound, SkBusy
      <3> QED BY <1>4, <2>1, <3>2, <3>3, SkOne
    <2> QED BY <2>2, <2>3
  <1> QED BY <1>3, <1>6, <1>7

LEMMA SkTellInv == ASSUME SkInv, NEW p \in SkProcs, SkTell(p) PROVE SkInv'
  <1>1. PICK w : w = skAt[p]
    OBVIOUS
  <1>2. /\ w \in SkLocals /\ SkLocal(w) /\ SkWorld /\ w.at = "available"
        /\ skTold' = skTold \cup {<<"available", w.s>>} /\ SkGo(p, "close")
        /\ UNCHANGED <<skTask, skMade, skSearch, skPlan, skBuild, skListed, skFault>>
        /\ p = "worker" => SkWorkerSound(w)
    BY <1>1, SkHolds DEF SkTell, skOutside
  <1>3. w.s \in SkSkills /\ skBuild[w.s] = "good" /\ "close" \in SkFree \cup SkBusy
    BY <1>2 DEF SkLocal, SkBusy
  <1>4. PICK x \in SkLocals : SkSameBut(x, w, "at") /\ x.at = "close" /\ skAt' = [skAt EXCEPT ![p] = x]
    BY <1>1, <1>2, <1>3, SkGoes
  <1>5. SkWorld'
    <2>1. \A s \in SkSkills : <<"available", s>> \in skTold' => <<"available", s>> \in skTold \/ s = w.s
      BY <1>2
    <2>2. \A s \in SkSkills : <<"found", s>> \in skTold' => <<"found", s>> \in skTold
      BY <1>2
    <2>3. SkHonest'
      BY <1>2, <1>3, <2>1, <2>2 DEF SkWorld, SkHonest
    <2>4. skTold' \subseteq {"found", "available"} \X SkSkills
      BY <1>2, <1>3 DEF SkWorld
    <2> QED BY <1>2, <2>3, <2>4 DEF SkWorld
  <1>6. SkLocal(x)' /\ SkNightSound(x)' /\ (p = "worker" => SkWorkerSound(x))
    BY <1>2, <1>3, <1>4 DEF SkLocal, SkNightSound, SkWorkerSound, SkSameBut
  <1> QED BY <1>2, <1>4, <1>5, <1>6, SkOne

LEMMA SkSettleInv == ASSUME SkInv, NEW p \in SkProcs, SkSettle(p) PROVE SkInv'
  <1>1. PICK w : w = skAt[p]
    OBVIOUS
  <1>2. PICK st : st = IF w.at = "bind" THEN "building" ELSE IF w.saw[w.s] = "ready" THEN "done" ELSE "waiting"
    OBVIOUS
  <1>3. PICK at : at = IF w.at = "close" THEN "rows" ELSE w.loop
    OBVIOUS
  <1>4. /\ w \in SkLocals /\ SkLocal(w) /\ SkWorld /\ w.at \in {"close", "bind", "wait"}
        /\ p = "worker" => SkWorkerSound(w)
        /\ skPlan' = [skPlan EXCEPT ![w.s].st = st, ![w.s].bound = @ \/ w.at = "bind"]
        /\ UNCHANGED <<skTask, skMade, skSearch, skTold, skBuild, skListed, skFault>>
    BY <1>1, <1>2, SkHolds DEF SkSettle, skOutside
  <1>5. skAt' = [skAt EXCEPT ![p] = [w EXCEPT !.at = at, !.left = w.left \ {w.s}]]
    BY <1>1, <1>3 DEF SkSettle
  <1>6. /\ w.s \in SkSkills /\ w.left \in SUBSET SkSkills
        /\ w.at # "close" => w.loop \in {"pending", "plans"} /\ \A s \in SkSkills : w.saw[s] # "ready"
        /\ w.at = "close" /\ w.saw[w.s] = "ready" => <<"available", w.s>> \in skTold
    BY <1>4, SkRows DEF SkLocal, SkBusy
  <1>7. at \in SkFree \cup SkBusy
    BY <1>3, <1>4, <1>6 DEF SkFree
  <1> DEFINE r1 == [w EXCEPT !.at = at]
             r2 == [r1 EXCEPT !.left = w.left \ {w.s}]
  <1>8. skAt' = [skAt EXCEPT ![p] = r2]
    BY <1>5
  <1>9. SkSameBut(r1, w, "at") /\ r1.at = at
    BY <1>4, <1>7, SkFields
  <1> HIDE DEF r1
  <1>10. SkSameBut(r2, r1, "left")
    <2>1. r1 \in SkLocals /\ w.left \ {w.s} \in SUBSET SkSkills
      BY <1>6, <1>9 DEF SkSameBut
    <2> QED BY <2>1, SkFields
  <1> HIDE DEF r2
  <1>11. PICK x \in SkLocals : /\ x.at = at /\ x.saw = w.saw /\ x.loop = w.loop /\ x.lock = w.lock
                              /\ skAt' = [skAt EXCEPT ![p] = x]
    BY <1>8, <1>9, <1>10 DEF SkSameBut
  <1>12. SkWorld'
    <2> DEFINE bound == skPlan[w.s].bound \/ w.at = "bind"
               row1 == [skPlan[w.s] EXCEPT !.st = st]
               row2 == [row1 EXCEPT !.bound = bound]
    <2>1. skPlan[w.s] \in SkPlans /\ skFault \in 0..SkFaults
      BY <1>4, <1>6 DEF SkWorld
    <2>2. st \in {"retry", "prepared", "building", "waiting", "done", "superseded"} /\ bound \in BOOLEAN
      BY <1>2, <2>1 DEF SkPlans
    <2>3. skPlan' = [skPlan EXCEPT ![w.s] = row2]
      BY <1>4
    <2> HIDE DEF bound
    <2>4. row1 \in SkPlans /\ row1.st = st
      BY ONLY <2>1, <2>2 DEF SkPlans, row1
    <2> HIDE DEF row1
    <2>5. row2 \in SkPlans /\ row2.st = st
      BY <2>2, <2>4, SkPlanFields
    <2> HIDE DEF row2
    <2>6. st = "done" => <<"available", w.s>> \in skTold
      BY <1>2, <1>4, <1>6
    <2> QED BY <1>4, <1>6, <2>1, <2>3, <2>5, <2>6, SkWorldPlan
  <1>13. SkLocal(x)'
    <2>1. \A s \in SkSkills : x.saw[s] = "ready" => skBuild'[s] = "good"
      BY <1>4, <1>11 DEF SkLocal
    <2>2. CASE w.at = "close"
      BY <1>3, <1>11, <2>1, <2>2 DEF SkLocal, SkBusy
    <2>3. CASE w.at # "close"
      BY <1>3, <1>6, <1>11, <2>1, <2>3 DEF SkLocal, SkBusy
    <2> QED BY <2>2, <2>3
  <1>14. SkNightSound(x)' /\ (p = "worker" => SkWorkerSound(x))
    BY <1>3, <1>4, <1>6, <1>11 DEF SkNightSound, SkWorkerSound
  <1> QED BY <1>4, <1>11, <1>12, <1>13, <1>14, SkOne

\* A process starts over at one of the free places, with its own skills left,
\* or goes to reconcile.
\* It has seen no verdict.
SkBlind(w) == \A s \in SkSkills : w.saw[s] = ""

SkFreshAt(at, loop, left) == [SkIdle EXCEPT !.at = at, !.loop = loop, !.left = left]
SkReconciling(next) == [SkIdle EXCEPT !.at = "reconcile", !.next = next]

LEMMA SkFresh ==
    ASSUME NEW at \in SkFree, NEW loop \in SkLoops, NEW left \in SUBSET SkSkills
    PROVE  \E x \in SkLocals :
             /\ x = SkFreshAt(at, loop, left)
             /\ x.at = at /\ x.loop = loop /\ x.left = left /\ SkBlind(x)
  <1>1. SkIdle \in SkLocals /\ \A s \in SkSkills : SkIdle.saw[s] = ""
    BY SkIdleSound
  <1>2. PICK w : w = SkIdle
    OBVIOUS
  <1>3. PICK x : x = SkFreshAt(at, loop, left)
    OBVIOUS
  <1>4. x = [w EXCEPT !.at = at, !.loop = loop, !.left = left]
    BY <1>2, <1>3 DEF SkFreshAt
  <1>5. w \in SkLocals /\ \A s \in SkSkills : w.saw[s] = ""
    BY <1>1, <1>2
  <1>6. x \in SkLocals /\ x.at = at /\ x.loop = loop /\ x.left = left /\ x.saw = w.saw
    BY ONLY <1>4, <1>5, at \in SkFree, loop \in SkLoops, left \in SUBSET SkSkills DEF SkLocals
  <1> QED BY <1>3, <1>5, <1>6 DEF SkBlind

LEMMA SkToReconcile ==
    ASSUME NEW next \in {"pending", "idle"}
    PROVE  \E x \in SkLocals :
             /\ x = SkReconciling(next)
             /\ x.at = "reconcile" /\ x.next = next /\ SkBlind(x)
  <1>1. PICK w : w = SkIdle
    OBVIOUS
  <1>2. w \in SkLocals /\ \A s \in SkSkills : w.saw[s] = ""
    BY <1>1, SkIdleSound
  <1>3. PICK x : x = SkReconciling(next)
    OBVIOUS
  <1>4. x = [w EXCEPT !.at = "reconcile", !.next = next]
    BY <1>1, <1>3 DEF SkReconciling
  <1>5. "reconcile" \in SkFree \cup SkBusy /\ next \in SkNexts
    BY DEF SkFree, SkNexts
  <1>6. x \in SkLocals /\ x.at = "reconcile" /\ x.next = next /\ x.saw = w.saw
    BY ONLY <1>2, <1>4, <1>5 DEF SkLocals
  <1> QED BY <1>2, <1>3, <1>6 DEF SkBlind

LEMMA SkReleaseInv == ASSUME SkInv, NEW p \in SkProcs, SkRelease(p) PROVE SkInv'
  <1>1. /\ skAt[p].at = "rows"
        /\ UNCHANGED <<skTask, skMade, skSearch, skPlan, skTold, skBuild, skListed, skFault>>
    BY DEF SkRelease, skOutside
  <1>2. SkWorld'
    BY <1>1, SkWorldSame
  <1>3. PICK left \in SUBSET SkSkills :
            skAt' = [skAt EXCEPT ![p] = IF skAt[p].lock = "idle" THEN SkIdle
                        ELSE [SkIdle EXCEPT !.at = "pending", !.loop = "pending", !.left = left]]
    BY DEF SkRelease
  <1>4. CASE skAt[p].lock = "idle"
    BY <1>1, <1>2, <1>3, <1>4, SkStops DEF SkStop
  <1>5. CASE skAt[p].lock # "idle"
    <2>1. skAt' = [skAt EXCEPT ![p] = SkFreshAt("pending", "pending", left)]
      BY <1>3, <1>5 DEF SkFreshAt
    <2>2. "pending" \in SkFree /\ "pending" \in SkLoops
      BY DEF SkFree, SkLoops
    <2>3. PICK x \in SkLocals :
            /\ x = SkFreshAt("pending", "pending", left)
            /\ x.at = "pending" /\ x.loop = "pending" /\ SkBlind(x)
      BY <2>2, SkFresh, Zenon
    <2>4. skAt' = [skAt EXCEPT ![p] = x]
      BY <2>1, <2>3
    <2>5. SkLocal(x)' /\ SkNightSound(x)'
      BY <2>3 DEF SkLocal, SkNightSound, SkBusy, SkBlind
    <2>6. p # "worker"
      BY <1>1, <1>5, SkParts DEF SkWorkerSound
    <2> QED BY <1>1, <1>2, <2>3, <2>4, <2>5, <2>6, SkOne
  <1> QED BY <1>4, <1>5

LEMMA SkCrashInv == ASSUME SkInv, NEW p \in SkProcs, SkCrash(p) PROVE SkInv'
  <1>1. /\ skFault > 0 /\ skFault' = skFault - 1 /\ SkStop(p)
        /\ UNCHANGED <<skTask, skMade, skSearch, skPlan, skTold, skBuild, skListed>>
    BY DEF SkCrash
  <1>2. skFault' \in 0..SkFaults
    BY <1>1, SkParts, SkAssumption DEF SkWorld
  <1>3. SkWorld'
    BY <1>1, <1>2, SkParts DEF SkWorld, SkHonest
  <1> QED BY <1>1, <1>3, SkStops

\* The night moves and nothing but the attempts of the day moves with it.
LEMMA SkNightMoves ==
    ASSUME SkInv, NEW x \in SkLocals, skAt' = [skAt EXCEPT !["night"] = x],
           SkLocal(x), SkNightSound(x),
           UNCHANGED <<skTask, skMade, skSearch, skPlan, skTold, skBuild, skListed, skFault>>
    PROVE  SkInv'
  <1>1. SkWorld'
    BY SkWorldSame
  <1>2. SkLocal(x)' /\ SkNightSound(x)'
    BY DEF SkLocal, SkNightSound, SkAnswered
  <1> QED BY <1>1, <1>2, SkOne, SkProcesses

LEMMA SkNightInv == ASSUME SkInv, SkNight PROVE SkInv'
  <1>1. /\ skAt["night"] = SkIdle
        /\ UNCHANGED <<skTask, skMade, skSearch, skPlan, skTold, skBuild, skListed, skFault>>
    BY DEF SkNight, skOutside
  <1>0. PICK left : left = SkAnswered
    OBVIOUS
  <1>2. skAt' = [skAt EXCEPT !["night"] = SkFreshAt("ready", "ready", left)]
    BY <1>0, <1>1 DEF SkNight, SkFreshAt, SkAnswered
  <1>3. "ready" \in SkFree /\ "ready" \in SkLoops /\ left \in SUBSET SkSkills
    BY <1>0 DEF SkFree, SkLoops, SkAnswered
  <1>4. PICK x \in SkLocals :
          /\ x = SkFreshAt("ready", "ready", left)
          /\ x.at = "ready" /\ x.loop = "ready" /\ x.left = left /\ SkBlind(x)
    BY <1>3, SkFresh
  <1>5. SkLocal(x) /\ SkNightSound(x)
    BY <1>0, <1>4 DEF SkLocal, SkNightSound, SkBusy, SkBlind
  <1> QED BY <1>1, <1>2, <1>4, <1>5, SkNightMoves

\* What the night takes up: a skill of its own, counted, and others left.
SkTaking(w, at, s, n, left) == [w EXCEPT !.at = at, !.s = s, !.n = n, !.left = left]

LEMMA SkTakes ==
    ASSUME NEW w \in SkLocals, NEW at \in SkFree \cup SkBusy, NEW s \in SkSkills,
           NEW n \in Nat, NEW left \in SUBSET SkSkills
    PROVE  \E x \in SkLocals :
             /\ x = SkTaking(w, at, s, n, left)
             /\ x.at = at /\ x.s = s /\ x.left = left
             /\ x.loop = w.loop /\ x.next = w.next /\ x.saw = w.saw
  <1> DEFINE r1 == [w EXCEPT !.at = at]
             r2 == [r1 EXCEPT !.s = s]
             r3 == [r2 EXCEPT !.n = n]
             r4 == [r3 EXCEPT !.left = left]
  <1>1. SkSameBut(r1, w, "at") /\ r1.at = at
    BY SkFields
  <1>2. r4 = SkTaking(w, at, s, n, left)
    BY DEF SkTaking
  <1> HIDE DEF r1
  <1>3. SkSameBut(r2, r1, "s") /\ r2.s = s
    <2>1. r1 \in SkLocals
      BY <1>1 DEF SkSameBut
    <2> QED BY <2>1, SkFields
  <1> HIDE DEF r2
  <1>4. SkSameBut(r3, r2, "n")
    <2>1. r2 \in SkLocals
      BY <1>3 DEF SkSameBut
    <2> QED BY <2>1, SkFields
  <1> HIDE DEF r3
  <1>5. SkSameBut(r4, r3, "left") /\ r4.left = left
    <2>1. r3 \in SkLocals
      BY <1>4 DEF SkSameBut
    <2> QED BY <2>1, SkFields
  <1> HIDE DEF r4
  <1> QED BY <1>1, <1>2, <1>3, <1>4, <1>5 DEF SkSameBut

\* Answers that are reported leave the rest as it is; then the searches begin.
LEMMA SkReadyInv == ASSUME SkInv, SkReady PROVE SkInv'
  <1>1. PICK w : w = skAt["night"]
    OBVIOUS
  <1>2. PICK open : open = {s \in SkSkills : skTask[s] \in {"new", "planned"} /\ skSearch[s] # "done"}
    OBVIOUS
  <1>3. /\ w \in SkLocals /\ SkLocal(w) /\ SkNightSound(w) /\ w.at = "ready"
        /\ UNCHANGED <<skTask, skMade, skSearch, skPlan, skTold, skBuild, skListed, skFault>>
        /\ skAt' = [skAt EXCEPT !["night"] =
             IF w.left # {} THEN [w EXCEPT !.at = "report", !.s = Min(w.left)]
             ELSE [w EXCEPT !.at = "searches", !.loop = "searches", !.left = open]]
    BY <1>1, <1>2, SkHolds, SkProcesses DEF SkReady, skOutside
  <1>4. w.loop = "ready" /\ w.left = SkAnswered /\ w.left \in SUBSET SkSkills
    BY <1>3 DEF SkNightSound, SkAnswered
  <1>5. \A s \in SkSkills : w.saw[s] = "ready" => skBuild[s] = "good"
    BY <1>3 DEF SkLocal
  <1>6. CASE w.left # {}
    <2> DEFINE m == Min(w.left)
               r1 == [w EXCEPT !.at = "report"]
               r2 == [r1 EXCEPT !.s = m]
    <2>1. m \in w.left
      <3>1. w.left \subseteq Nat
        BY <1>4, SkAssumption DEF SkSkills
      <3> QED BY <1>6, <3>1, LeastIn
    <2>2. skAt' = [skAt EXCEPT !["night"] = r2]
      BY <1>3, <1>6
    <2> HIDE DEF m
    <2>3. SkSameBut(r1, w, "at") /\ r1.at = "report"
      <3>1. "report" \in SkFree \cup SkBusy
        BY DEF SkBusy
      <3> QED BY <1>3, <3>1, SkFields
    <2> HIDE DEF r1
    <2>4. SkSameBut(r2, r1, "s") /\ r2.s = m
      <3>1. r1 \in SkLocals /\ m \in SkSkills
        BY <1>4, <2>1, <2>3 DEF SkSameBut
      <3> QED BY <3>1, SkFields
    <2> HIDE DEF r2
    <2>5. PICK x \in SkLocals : /\ x.at = "report" /\ x.s = m /\ x.loop = w.loop
                               /\ x.left = w.left /\ x.saw = w.saw
                               /\ skAt' = [skAt EXCEPT !["night"] = x]
      BY <2>2, <2>3, <2>4 DEF SkSameBut
    <2>6. m \in SkSkills /\ skSearch[m] = "ready"
      BY <1>4, <2>1 DEF SkAnswered
    <2>7. SkLocal(x)
      BY <1>5, <2>5, <2>6 DEF SkLocal
    <2>8. SkNightSound(x)
      BY <1>4, <2>5, <2>6 DEF SkNightSound
    <2> QED BY <1>3, <2>5, <2>7, <2>8, SkNightMoves
  <1>7. CASE w.left = {}
    <2> DEFINE r1 == [w EXCEPT !.at = "searches"]
               r2 == [r1 EXCEPT !.loop = "searches"]
               r3 == [r2 EXCEPT !.left = open]
    <2>1. skAt' = [skAt EXCEPT !["night"] = r3]
      BY <1>3, <1>7
    <2>2. SkSameBut(r1, w, "at") /\ r1.at = "searches"
      <3>1. "searches" \in SkFree \cup SkBusy
        BY DEF SkFree
      <3> QED BY <1>3, <3>1, SkFields
    <2> HIDE DEF r1
    <2>3. SkSameBut(r2, r1, "loop") /\ r2.loop = "searches"
      <3>1. r1 \in SkLocals /\ "searches" \in SkLoops
        BY <2>2 DEF SkSameBut, SkLoops
      <3> QED BY <3>1, SkFields
    <2> HIDE DEF r2
    <2>4. SkSameBut(r3, r2, "left") /\ r3.left = open
      <3>1. r2 \in SkLocals /\ open \in SUBSET SkSkills
        BY <1>2, <2>3 DEF SkSameBut
      <3> QED BY <3>1, SkFields
    <2> HIDE DEF r3
    <2>5. PICK x \in SkLocals : /\ x.at = "searches" /\ x.loop = "searches"
                               /\ x.left = open /\ x.saw = w.saw
                               /\ skAt' = [skAt EXCEPT !["night"] = x]
      BY <2>1, <2>2, <2>3, <2>4 DEF SkSameBut
    <2>6. SkLocal(x)
      BY <1>5, <2>5 DEF SkLocal, SkBusy
    <2>7. SkNightSound(x)
      BY <1>2, <1>4, <1>7, <2>5 DEF SkNightSound
    <2> QED BY <1>3, <2>5, <2>6, <2>7, SkNightMoves
  <1> QED BY <1>6, <1>7

\* The night goes to reconcile.
LEMMA SkTurnsTo ==
    ASSUME SkInv, NEW next \in {"pending", "idle"},
           skAt' = [skAt EXCEPT !["night"] = SkReconciling(next)],
           UNCHANGED <<skTask, skMade, skSearch, skPlan, skTold, skBuild, skListed, skFault>>
    PROVE  SkInv'
  <1>1. PICK x \in SkLocals :
          /\ x = SkReconciling(next)
          /\ x.at = "reconcile" /\ x.next = next /\ SkBlind(x)
    BY SkToReconcile
  <1>2. SkLocal(x) /\ SkNightSound(x)
    BY <1>1 DEF SkLocal, SkNightSound, SkBusy, SkBlind
  <1> QED BY <1>1, <1>2, SkNightMoves

LEMMA SkPickSearchInv ==
    ASSUME SkInv, NEW byHand \in BOOLEAN, SkPickSearch(byHand) PROVE SkInv'
  <1>1. PICK w : w = skAt["night"]
    OBVIOUS
  <1>2. PICK may : may = {s \in w.left : SkMaySearch(s, byHand)}
    OBVIOUS
  <1>3. /\ w \in SkLocals /\ SkLocal(w) /\ SkNightSound(w) /\ w.at = "searches"
        /\ UNCHANGED <<skTask, skMade, skSearch, skPlan, skTold, skBuild, skListed, skFault>>
        /\ skAt' = [skAt EXCEPT !["night"] =
             IF may = {} \/ w.n = SkTries THEN [SkIdle EXCEPT !.at = "reconcile", !.next = "pending"]
             ELSE [w EXCEPT !.at = "child", !.s = Min(may), !.n = w.n + 1, !.left = {s \in w.left : s > Min(may)}]]
    BY <1>1, <1>2, SkHolds, SkProcesses DEF SkPickSearch, skOutside
  <1>4. w.left \in SUBSET SkSkills /\ w.n \in Nat
    BY <1>3, SkRows
  <1>5. CASE may = {} \/ w.n = SkTries
    <2>1. skAt' = [skAt EXCEPT !["night"] = SkReconciling("pending")]
      BY <1>3, <1>5 DEF SkReconciling
    <2> QED BY <1>3, <2>1, SkTurnsTo
  <1>6. CASE ~(may = {} \/ w.n = SkTries)
    <2>1. PICK m : m = Min(may)
      OBVIOUS
    <2>2. PICK left : left = {s \in w.left : s > m}
      OBVIOUS
    <2>3. m \in w.left /\ m \in SkSkills /\ m \notin SkReused
      <3>1. may \subseteq Nat
        BY <1>2, <1>4, SkAssumption DEF SkSkills
      <3>2. m \in may
        BY <1>6, <2>1, <3>1, LeastIn
      <3> QED BY <1>2, <1>4, <3>2 DEF SkMaySearch
    <2>0. PICK n : n = w.n + 1
      OBVIOUS
    <2>4. skAt' = [skAt EXCEPT !["night"] = SkTaking(w, "child", m, n, left)]
      BY <1>3, <1>6, <2>0, <2>1, <2>2 DEF SkTaking
    <2>5. "child" \in SkFree \cup SkBusy /\ n \in Nat /\ left \in SUBSET SkSkills
      BY <1>4, <2>0, <2>2 DEF SkBusy
    <2>6. PICK x \in SkLocals :
             /\ x = SkTaking(w, "child", m, n, left)
             /\ x.at = "child" /\ x.s = m /\ x.left = left
             /\ x.loop = w.loop /\ x.saw = w.saw
      BY <1>3, <2>3, <2>5, SkTakes
    <2>7. skAt' = [skAt EXCEPT !["night"] = x]
      BY <2>4, <2>6
    <2>8. \A s \in SkSkills : w.saw[s] = "ready" => skBuild[s] = "good"
      BY <1>3 DEF SkLocal
    <2>9. SkLocal(x)
      BY <2>3, <2>6, <2>8 DEF SkLocal
    <2>10. SkNightSound(x)
      BY <1>3, <2>2, <2>3, <2>6 DEF SkNightSound
    <2> QED BY <1>3, <2>6, <2>7, <2>9, <2>10, SkNightMoves
  <1> QED BY <1>5, <1>6

LEMMA SkPickPlanInv == ASSUME SkInv, SkPickPlan PROVE SkInv'
  <1>1. PICK w : w = skAt["night"]
    OBVIOUS
  <1>2. PICK may : may = {s \in w.left : SkMayPlan(s)}
    OBVIOUS
  <1>3. /\ w \in SkLocals /\ SkLocal(w) /\ w.at = "plans"
        /\ UNCHANGED <<skTask, skMade, skSearch, skPlan, skTold, skBuild, skListed, skFault>>
    BY <1>1, SkHolds, SkProcesses DEF SkPickPlan, skOutside
  <1>4. \/ skAt' = [skAt EXCEPT !["night"] = [SkIdle EXCEPT !.at = "reconcile", !.next = "idle"]]
        \/ /\ may # {}
           /\ skAt' = [skAt EXCEPT !["night"] = [w EXCEPT !.at = "decide", !.s = Min(may), !.n = w.n + 1,
                                                          !.left = {s \in w.left : s > Min(may)}]]
    BY <1>1, <1>2 DEF SkPickPlan
  <1>5. w.left \in SUBSET SkSkills /\ w.n \in Nat
    BY <1>3, SkRows
  <1>6. CASE skAt' = [skAt EXCEPT !["night"] = [SkIdle EXCEPT !.at = "reconcile", !.next = "idle"]]
    <2>1. skAt' = [skAt EXCEPT !["night"] = SkReconciling("idle")]
      BY <1>6 DEF SkReconciling
    <2> QED BY <1>3, <2>1, SkTurnsTo
  <1>7. CASE /\ may # {}
             /\ skAt' = [skAt EXCEPT !["night"] = [w EXCEPT !.at = "decide", !.s = Min(may), !.n = w.n + 1,
                                                            !.left = {s \in w.left : s > Min(may)}]]
    <2>1. PICK m : m = Min(may)
      OBVIOUS
    <2>2. PICK left : left = {s \in w.left : s > m}
      OBVIOUS
    <2>3. m \in SkSkills
      <3>1. may \subseteq Nat
        BY <1>2, <1>5, SkAssumption DEF SkSkills
      <3>2. m \in may
        BY <1>7, <2>1, <3>1, LeastIn
      <3> QED BY <1>2, <1>5, <3>2
    <2>0. PICK n : n = w.n + 1
      OBVIOUS
    <2>4. skAt' = [skAt EXCEPT !["night"] = SkTaking(w, "decide", m, n, left)]
      BY <1>7, <2>0, <2>1, <2>2 DEF SkTaking
    <2>5. "decide" \in SkFree \cup SkBusy /\ n \in Nat /\ left \in SUBSET SkSkills
      BY <1>5, <2>0, <2>2 DEF SkBusy
    <2>6. PICK x \in SkLocals :
             /\ x = SkTaking(w, "decide", m, n, left)
             /\ x.at = "decide" /\ x.s = m /\ x.loop = w.loop /\ x.saw = w.saw
      BY <1>3, <2>3, <2>5, SkTakes
    <2>7. skAt' = [skAt EXCEPT !["night"] = x]
      BY <2>4, <2>6
    <2>8. /\ w.loop \in {"pending", "plans"}
          /\ \A s \in SkSkills : w.saw[s] # "ready"
      BY <1>3 DEF SkLocal
    <2>9. SkLocal(x)
      BY <2>3, <2>6, <2>8 DEF SkLocal
    <2>10. SkNightSound(x)
      BY <2>6 DEF SkNightSound
    <2> QED BY <1>3, <2>6, <2>7, <2>9, <2>10, SkNightMoves
  <1> QED BY <1>4, <1>6, <1>7

LEMMA SkPendingInv == ASSUME SkInv, SkPending PROVE SkInv'
  <1>1. PICK w : w = skAt["night"]
    OBVIOUS
  <1>2. /\ w \in SkLocals /\ SkLocal(w) /\ w.at = "pending"
        /\ UNCHANGED <<skTask, skMade, skSearch, skPlan, skTold, skBuild, skListed, skFault>>
    BY <1>1, SkHolds, SkProcesses DEF SkPending, skOutside
  <1>3. w.left \in SUBSET SkSkills
    BY <1>2, SkRows
  <1>4. w.loop \in {"pending", "plans"} /\ \A s \in SkSkills : w.saw[s] # "ready"
    BY <1>2 DEF SkLocal
  <1>5. \/ \E s \in w.left : skAt' = [skAt EXCEPT !["night"] = [w EXCEPT !.at = "apply", !.s = s, !.left = w.left \ {s}]]
        \/ \E left \in SUBSET SkSkills :
             skAt' = [skAt EXCEPT !["night"].at = "plans", !["night"].loop = "plans", !["night"].left = left]
    <2>1. {s \in SkSkills : skTask[s] \in {"new", "planned", "active", "blocked"}} \in SUBSET SkSkills
      OBVIOUS
    <2> QED BY <1>1, <2>1 DEF SkPending
  <1>6. ASSUME NEW s \in w.left,
               skAt' = [skAt EXCEPT !["night"] = [w EXCEPT !.at = "apply", !.s = s, !.left = w.left \ {s}]]
        PROVE  SkInv'
    <2> DEFINE r1 == [w EXCEPT !.at = "apply"]
               r2 == [r1 EXCEPT !.s = s]
               r3 == [r2 EXCEPT !.left = w.left \ {s}]
    <2>1. skAt' = [skAt EXCEPT !["night"] = r3]
      BY <1>6
    <2>2. SkSameBut(r1, w, "at") /\ r1.at = "apply"
      <3>1. "apply" \in SkFree \cup SkBusy
        BY DEF SkBusy
      <3> QED BY <1>2, <3>1, SkFields
    <2> HIDE DEF r1
    <2>3. SkSameBut(r2, r1, "s") /\ r2.s = s
      <3>1. r1 \in SkLocals /\ s \in SkSkills
        BY <1>3, <2>2 DEF SkSameBut
      <3> QED BY <3>1, SkFields
    <2> HIDE DEF r2
    <2>4. SkSameBut(r3, r2, "left")
      <3>1. r2 \in SkLocals /\ w.left \ {s} \in SUBSET SkSkills
        BY <1>3, <2>3 DEF SkSameBut
      <3> QED BY <3>1, SkFields
    <2> HIDE DEF r3
    <2>5. PICK x \in SkLocals : /\ x.at = "apply" /\ x.s = s /\ x.loop = w.loop /\ x.saw = w.saw
                               /\ skAt' = [skAt EXCEPT !["night"] = x]
      BY <2>1, <2>2, <2>3, <2>4 DEF SkSameBut
    <2>6. SkLocal(x) /\ SkNightSound(x)
      BY <1>3, <1>4, <2>5 DEF SkLocal, SkNightSound
    <2> QED BY <1>2, <2>5, <2>6, SkNightMoves
  <1>7. ASSUME NEW left \in SUBSET SkSkills,
               skAt' = [skAt EXCEPT !["night"].at = "plans", !["night"].loop = "plans", !["night"].left = left]
        PROVE  SkInv'
    <2> DEFINE r1 == [w EXCEPT !.at = "plans"]
               r2 == [r1 EXCEPT !.loop = "plans"]
               r3 == [r2 EXCEPT !.left = left]
    <2>1. skAt' = [skAt EXCEPT !["night"] = r3]
      BY <1>1, <1>7, SkProcesses, SkParts
    <2>2. SkSameBut(r1, w, "at") /\ r1.at = "plans"
      <3>1. "plans" \in SkFree \cup SkBusy
        BY DEF SkFree
      <3> QED BY <1>2, <3>1, SkFields
    <2> HIDE DEF r1
    <2>3. SkSameBut(r2, r1, "loop") /\ r2.loop = "plans"
      <3>1. r1 \in SkLocals /\ "plans" \in SkLoops
        BY <2>2 DEF SkSameBut, SkLoops
      <3> QED BY <3>1, SkFields
    <2> HIDE DEF r2
    <2>4. SkSameBut(r3, r2, "left")
      <3>1. r2 \in SkLocals
        BY <2>3 DEF SkSameBut
      <3> QED BY <3>1, SkFields
    <2> HIDE DEF r3
    <2>5. PICK x \in SkLocals : /\ x.at = "plans" /\ x.loop = "plans" /\ x.saw = w.saw
                               /\ skAt' = [skAt EXCEPT !["night"] = x]
      BY <2>1, <2>2, <2>3, <2>4 DEF SkSameBut
    <2>6. SkLocal(x) /\ SkNightSound(x)
      BY <1>4, <2>5 DEF SkLocal, SkNightSound, SkBusy
    <2> QED BY <1>2, <2>5, <2>6, SkNightMoves
  <1> QED BY <1>5, <1>6, <1>7

\* A search task is created only for a skill that has none and no build from chat.
LEMMA SkChildInv == ASSUME SkInv, SkChild PROVE SkInv'
  <1>1. PICK w : w = skAt["night"]
    OBVIOUS
  <1>2. /\ w \in SkLocals /\ SkLocal(w) /\ SkNightSound(w) /\ SkWorld /\ w.at = "child"
        /\ UNCHANGED <<skTask, skSearch, skPlan, skTold, skBuild, skListed, skFault>>
        /\ skMade' = IF skMade[w.s].search > 0 THEN skMade ELSE [skMade EXCEPT ![w.s].search = @ + 1]
        /\ SkGo("night", "row")
    BY <1>1, SkHolds, SkProcesses DEF SkChild, skOutside, SkHasChild
  <1>3. w.s \in SkSkills /\ w.s \notin SkReused /\ "row" \in SkFree \cup SkBusy
    BY <1>2 DEF SkLocal, SkNightSound, SkBusy
  <1>4. PICK x \in SkLocals : SkSameBut(x, w, "at") /\ x.at = "row" /\ skAt' = [skAt EXCEPT !["night"] = x]
    BY <1>1, <1>2, <1>3, SkGoes, SkProcesses
  <1>5. SkWorld'
    <2>1. skMade[w.s] \in SkCounts /\ skMade \in [SkSkills -> SkCounts]
      BY <1>2, <1>3 DEF SkWorld
    <2>2. PICK m : m = skMade[w.s]
      OBVIOUS
    <2>3. PICK c : c = IF m.search > 0 THEN m ELSE [m EXCEPT !.search = m.search + 1]
      OBVIOUS
    <2>4. c \in SkCounts /\ c.build = m.build
      BY <2>1, <2>2, <2>3 DEF SkCounts
    <2>5. skMade' = [skMade EXCEPT ![w.s] = c]
      BY <1>2, <1>3, <2>1, <2>2, <2>3
    <2>6. /\ skMade' \in [SkSkills -> SkCounts] /\ skMade'[w.s].build = skMade[w.s].build
          /\ \A s \in SkSkills : s # w.s => skMade'[s] = skMade[s]
      BY <1>3, <2>1, <2>2, <2>4, <2>5
    <2>7. \A s \in SkSkills : skMade'[s].build = skMade[s].build
      BY <2>6
    <2>8. \A s \in SkReused : skMade'[s] = skMade[s]
      BY <1>3, <2>6, SkAssumption
    <2>9. SkHonest'
      BY <1>2 DEF SkWorld, SkHonest
    <2> QED BY <1>2, <2>6, <2>7, <2>8, <2>9 DEF SkWorld
  <1>6. SkLocal(x)'
    BY <1>2, <1>3, <1>4 DEF SkLocal, SkSameBut
  <1>7. SkNightSound(x)'
    BY <1>2, <1>4 DEF SkNightSound, SkSameBut, SkAnswered
  <1> QED BY <1>2, <1>4, <1>5, <1>6, <1>7, SkOne, SkProcesses

\* A row of the searches changes; nothing that was reported goes back.
LEMMA SkWorldSearch ==
    ASSUME SkInv, NEW s \in SkSkills, NEW st \in SkSearches, skSearch' = [skSearch EXCEPT ![s] = st],
           <<"found", s>> \in skTold => st \in {"ready", "done"},
           UNCHANGED <<skTask, skMade, skPlan, skTold, skBuild, skListed>>,
           skFault' \in 0..SkFaults
    PROVE  /\ SkWorld' /\ skSearch'[s] = st
           /\ \A r \in SkSkills : r # s => skSearch'[r] = skSearch[r]
  <1>1. SkWorld
    BY SkParts
  <1>2. /\ skSearch' \in [SkSkills -> SkSearches] /\ skSearch'[s] = st
        /\ \A r \in SkSkills : r # s => skSearch'[r] = skSearch[r]
    BY <1>1 DEF SkWorld
  <1>3. SkHonest'
    BY <1>1, <1>2 DEF SkWorld, SkHonest
  <1> QED BY <1>1, <1>2, <1>3 DEF SkWorld

\* A search that begins again was not reported.
LEMMA SkRowInv == ASSUME SkInv, SkRow PROVE SkInv'
  <1>1. PICK w : w = skAt["night"]
    OBVIOUS
  <1>2. /\ w \in SkLocals /\ SkLocal(w) /\ SkNightSound(w) /\ SkWorld /\ w.at = "row"
        /\ UNCHANGED <<skTask, skMade, skPlan, skTold, skBuild, skListed, skFault>>
        /\ skSearch' = [skSearch EXCEPT ![w.s] = "searching"]
        /\ SkGo("night", "catalog")
    BY <1>1, SkHolds, SkProcesses DEF SkRow, skOutside
  <1>3. w.s \in SkSkills /\ "catalog" \in SkFree \cup SkBusy
    BY <1>2 DEF SkLocal, SkBusy
  <1>4. PICK x \in SkLocals : SkSameBut(x, w, "at") /\ x.at = "catalog" /\ skAt' = [skAt EXCEPT !["night"] = x]
    BY <1>1, <1>2, <1>3, SkGoes, SkProcesses
  <1>5. skSearch[w.s] # "done" /\ SkAnswered = {} /\ w.loop = "searches" /\ \A r \in w.left : skSearch[r] # "done"
    BY <1>2 DEF SkNightSound
  <1>6. <<"found", w.s>> \notin skTold
    BY <1>2, <1>3, <1>5 DEF SkWorld, SkHonest, SkAnswered
  <1>7. /\ SkWorld' /\ skSearch'[w.s] = "searching"
        /\ \A r \in SkSkills : r # w.s => skSearch'[r] = skSearch[r]
    <2>1. skFault' \in 0..SkFaults /\ "searching" \in SkSearches
      BY <1>2 DEF SkWorld, SkSearches
    <2> QED BY <1>2, <1>3, <1>6, <2>1, SkWorldSearch
  <1>8. SkLocal(x)'
    BY <1>2, <1>3, <1>4 DEF SkLocal, SkSameBut
  <1>9. SkNightSound(x)'
    <2>1. SkAnswered' = {}
      BY <1>5, <1>7 DEF SkAnswered
    <2>2. \A r \in x.left : skSearch'[r] # "done"
      <3>1. x.left = w.left /\ w.left \in SUBSET SkSkills
        BY <1>2, <1>4, SkRows DEF SkSameBut
      <3> QED BY <1>5, <1>7, <3>1
    <2> QED BY <1>4, <1>5, <1>7, <2>1, <2>2 DEF SkNightSound, SkSameBut
  <1> QED BY <1>2, <1>4, <1>7, <1>8, <1>9, SkOne, SkProcesses

LEMMA SkCatalogInv == ASSUME SkInv, NEW found \in BOOLEAN, SkCatalog(found) PROVE SkInv'
  <1>1. PICK w : w = skAt["night"]
    OBVIOUS
  <1>2. PICK st : st = IF found THEN "ready" ELSE "retry"
    OBVIOUS
  <1>3. PICK at : at = IF found THEN "report" ELSE "searches"
    OBVIOUS
  <1>4. /\ w \in SkLocals /\ SkLocal(w) /\ SkNightSound(w) /\ SkWorld /\ w.at = "catalog"
        /\ UNCHANGED <<skTask, skMade, skPlan, skTold, skBuild, skListed>>
        /\ skSearch' = [skSearch EXCEPT ![w.s] = st]
        /\ SkGo("night", at)
        /\ found \/ skFault > 0
        /\ skFault' = IF found THEN skFault ELSE skFault - 1
    BY <1>1, <1>2, <1>3, SkHolds, SkProcesses DEF SkCatalog
  <1>5. w.s \in SkSkills /\ at \in SkFree \cup SkBusy /\ st \in SkSearches
    BY <1>2, <1>3, <1>4 DEF SkLocal, SkBusy, SkFree, SkSearches
  <1>6. PICK x \in SkLocals : SkSameBut(x, w, "at") /\ x.at = at /\ skAt' = [skAt EXCEPT !["night"] = x]
    BY <1>1, <1>4, <1>5, SkGoes, SkProcesses
  <1>7. /\ skSearch[w.s] = "searching" /\ SkAnswered = {} /\ w.loop = "searches"
        /\ \A r \in w.left : skSearch[r] # "done"
    BY <1>4 DEF SkNightSound
  <1>8. <<"found", w.s>> \notin skTold
    BY <1>4, <1>5, <1>7 DEF SkWorld, SkHonest
  <1>9. skFault' \in 0..SkFaults
    BY <1>4, SkAssumption DEF SkWorld
  <1>10. /\ SkWorld' /\ skSearch'[w.s] = st
         /\ \A r \in SkSkills : r # w.s => skSearch'[r] = skSearch[r]
    BY <1>4, <1>5, <1>8, <1>9, SkWorldSearch
  <1>11. SkLocal(x)'
    BY <1>3, <1>4, <1>5, <1>6 DEF SkLocal, SkSameBut, SkBusy
  <1>12. SkNightSound(x)'
    <2>1. SkAnswered' = IF found THEN {w.s} ELSE {}
      BY <1>2, <1>5, <1>7, <1>10 DEF SkAnswered
    <2>2. \A r \in x.left : skSearch'[r] # "done"
      <3>1. x.left = w.left /\ w.left \in SUBSET SkSkills
        BY <1>4, <1>6, SkRows DEF SkSameBut
      <3> QED BY <1>2, <1>7, <1>10, <3>1
    <2>3. x.s = w.s /\ x.loop = "searches" /\ x.at = at
      BY <1>6, <1>7 DEF SkSameBut
    <2>4. CASE found
      BY <1>2, <1>3, <1>10, <2>1, <2>2, <2>3, <2>4 DEF SkNightSound
    <2>5. CASE ~found
      BY <1>2, <1>3, <1>10, <2>1, <2>2, <2>3, <2>5 DEF SkNightSound
    <2> QED BY <2>4, <2>5
  <1> QED BY <1>4, <1>6, <1>10, <1>11, <1>12, SkOne, SkProcesses

LEMMA SkReportInv == ASSUME SkInv, SkReport PROVE SkInv'
  <1>1. PICK w : w = skAt["night"]
    OBVIOUS
  <1>2. /\ w \in SkLocals /\ SkLocal(w) /\ SkNightSound(w) /\ SkWorld /\ w.at = "report"
        /\ UNCHANGED <<skTask, skMade, skSearch, skPlan, skBuild, skListed, skFault>>
        /\ skTold' = skTold \cup {<<"found", w.s>>}
        /\ SkGo("night", "found")
    BY <1>1, SkHolds, SkProcesses DEF SkReport, skOutside
  <1>3. w.s \in SkSkills /\ "found" \in SkFree \cup SkBusy /\ skSearch[w.s] = "ready"
    BY <1>2 DEF SkLocal, SkBusy, SkNightSound
  <1>4. PICK x \in SkLocals : SkSameBut(x, w, "at") /\ x.at = "found" /\ skAt' = [skAt EXCEPT !["night"] = x]
    BY <1>1, <1>2, <1>3, SkGoes, SkProcesses
  <1>5. SkWorld'
    <2>1. \A s \in SkSkills : <<"available", s>> \in skTold' <=> <<"available", s>> \in skTold
      BY <1>2
    <2>2. \A s \in SkSkills : <<"found", s>> \in skTold' => <<"found", s>> \in skTold \/ s = w.s
      BY <1>2
    <2>3. SkHonest'
      BY <1>2, <1>3, <2>1, <2>2 DEF SkWorld, SkHonest
    <2>4. skTold' \subseteq {"found", "available"} \X SkSkills
      BY <1>2, <1>3 DEF SkWorld
    <2> QED BY <1>2, <2>3, <2>4 DEF SkWorld
  <1>6. SkLocal(x)'
    BY <1>2, <1>3, <1>4 DEF SkLocal, SkSameBut
  <1>7. SkNightSound(x)'
    BY <1>2, <1>3, <1>4 DEF SkNightSound, SkSameBut, SkAnswered
  <1> QED BY <1>2, <1>4, <1>5, <1>6, <1>7, SkOne, SkProcesses

\* What is reported is done, and the night is where the skill was taken up.
LEMMA SkSearchedInv == ASSUME SkInv, SkSearched PROVE SkInv'
  <1>1. PICK w : w = skAt["night"]
    OBVIOUS
  <1>2. /\ w \in SkLocals /\ SkLocal(w) /\ SkNightSound(w) /\ SkWorld /\ w.at = "found"
        /\ UNCHANGED <<skTask, skMade, skPlan, skTold, skBuild, skListed, skFault>>
        /\ skSearch' = [skSearch EXCEPT ![w.s] = "done"]
        /\ skAt' = [skAt EXCEPT !["night"] = [w EXCEPT !.at = w.loop, !.left = w.left \ {w.s}]]
    BY <1>1, SkHolds, SkProcesses DEF SkSearched, skOutside
  <1>3. /\ w.s \in SkSkills /\ w.left \in SUBSET SkSkills
        /\ \/ w.loop = "ready" /\ w.left = SkAnswered
           \/ /\ w.loop = "searches" /\ SkAnswered = {w.s}
              /\ \A r \in w.left : skSearch[r] # "done"
    BY <1>2, SkRows DEF SkLocal, SkBusy, SkNightSound
  <1> DEFINE r1 == [w EXCEPT !.at = w.loop]
             r2 == [r1 EXCEPT !.left = w.left \ {w.s}]
  <1>4. skAt' = [skAt EXCEPT !["night"] = r2]
    BY <1>2
  <1>5. SkSameBut(r1, w, "at") /\ r1.at = w.loop
    <2>1. w.loop \in SkFree \cup SkBusy
      BY <1>3 DEF SkFree
    <2> QED BY <1>2, <2>1, SkFields
  <1> HIDE DEF r1
  <1>6. SkSameBut(r2, r1, "left") /\ r2.left = w.left \ {w.s}
    <2>1. r1 \in SkLocals /\ w.left \ {w.s} \in SUBSET SkSkills
      BY <1>3, <1>5 DEF SkSameBut
    <2> QED BY <2>1, SkFields
  <1> HIDE DEF r2
  <1>7. PICK x \in SkLocals : /\ x.at = w.loop /\ x.loop = w.loop /\ x.saw = w.saw
                             /\ x.left = w.left \ {w.s}
                             /\ skAt' = [skAt EXCEPT !["night"] = x]
    BY <1>4, <1>5, <1>6 DEF SkSameBut
  <1>8. /\ SkWorld' /\ skSearch'[w.s] = "done"
        /\ \A r \in SkSkills : r # w.s => skSearch'[r] = skSearch[r]
    <2>1. skFault' \in 0..SkFaults /\ "done" \in SkSearches
      BY <1>2 DEF SkWorld, SkSearches
    <2> QED BY <1>2, <1>3, <2>1, SkWorldSearch
  <1>9. SkAnswered' = SkAnswered \ {w.s}
    BY <1>3, <1>8 DEF SkAnswered
  <1>10. \A s \in SkSkills : x.saw[s] = "ready" => skBuild'[s] = "good"
    BY <1>2, <1>7 DEF SkLocal
  <1>11. CASE w.loop = "ready"
    <2>1. SkNightSound(x)'
      BY <1>3, <1>7, <1>9, <1>11 DEF SkNightSound
    <2>2. SkLocal(x)'
      BY <1>7, <1>10, <1>11 DEF SkLocal, SkBusy
    <2> QED BY <1>2, <1>7, <1>8, <2>1, <2>2, SkOne, SkProcesses
  <1>12. CASE w.loop = "searches"
    <2>1. SkAnswered' = {} /\ \A r \in x.left : skSearch'[r] # "done"
      BY <1>3, <1>7, <1>8, <1>9, <1>12
    <2>2. SkNightSound(x)'
      BY <1>7, <1>12, <2>1 DEF SkNightSound
    <2>3. SkLocal(x)'
      BY <1>7, <1>10, <1>12 DEF SkLocal, SkBusy
    <2> QED BY <1>2, <1>7, <1>8, <2>2, <2>3, SkOne, SkProcesses
  <1> QED BY <1>3, <1>11, <1>12

LEMMA SkDecideInv == ASSUME SkInv, NEW made \in BOOLEAN, SkDecide(made) PROVE SkInv'
  <1>1. PICK w : w = skAt["night"]
    OBVIOUS
  <1>2. PICK at : at = IF made THEN "apply" ELSE "plans"
    OBVIOUS
  <1>3. /\ w \in SkLocals /\ SkLocal(w) /\ SkWorld /\ w.at = "decide"
        /\ UNCHANGED <<skTask, skMade, skSearch, skTold, skBuild, skListed>>
        /\ SkGo("night", at)
        /\ made \/ skFault > 0
        /\ skFault' = IF made THEN skFault ELSE skFault - 1
    BY <1>1, <1>2, SkHolds, SkProcesses DEF SkDecide
  <1>4. w.s \in SkSkills /\ at \in SkFree \cup SkBusy
    BY <1>2, <1>3 DEF SkLocal, SkBusy, SkFree
  <1>5. PICK x \in SkLocals : SkSameBut(x, w, "at") /\ x.at = at /\ skAt' = [skAt EXCEPT !["night"] = x]
    BY <1>1, <1>3, <1>4, SkGoes, SkProcesses
  <1>6. PICK kind \in SkChoices(w.s) :
          skPlan' = [skPlan EXCEPT ![w.s].st = IF made THEN "prepared" ELSE "retry",
                                   ![w.s].kind = IF made THEN kind ELSE "none"]
    BY <1>1 DEF SkDecide
  <1>7. SkWorld'
    <2> DEFINE st == IF made THEN "prepared" ELSE "retry"
               k == IF made THEN kind ELSE "none"
               row1 == [skPlan[w.s] EXCEPT !.st = st]
               row2 == [row1 EXCEPT !.kind = k]
    <2>1. skPlan[w.s] \in SkPlans /\ skFault' \in 0..SkFaults
      BY <1>3, <1>4, SkAssumption DEF SkWorld
    <2>2. st \in {"retry", "prepared"} /\ k \in {"none", "local", "other", "reuse"}
      BY <1>6 DEF SkChoices
    <2>3. skPlan' = [skPlan EXCEPT ![w.s] = row2]
      BY <1>6
    <2> HIDE DEF st, k
    <2>4. row1 \in SkPlans /\ row1.st = st
      BY ONLY <2>1, <2>2 DEF SkPlans, row1
    <2> HIDE DEF row1
    <2>5. row2 \in SkPlans /\ row2.st = st
      BY <2>2, <2>4, SkPlanFields
    <2> HIDE DEF row2
    <2> QED BY <1>3, <1>4, <2>1, <2>2, <2>3, <2>5, SkWorldPlan
  <1>8. /\ w.loop \in {"pending", "plans"}
        /\ \A s \in SkSkills : w.saw[s] # "ready"
    BY <1>3 DEF SkLocal
  <1>9. SkLocal(x)' /\ SkNightSound(x)'
    BY <1>2, <1>4, <1>5, <1>8 DEF SkLocal, SkNightSound, SkSameBut, SkBusy
  <1> QED BY <1>3, <1>5, <1>7, <1>9, SkOne, SkProcesses

\* A build is queued only where there is none, and the task is on its way to a
\* status that is not done.
LEMMA SkApplyInv == ASSUME SkInv, SkApply PROVE SkInv'
  <1>1. PICK w : w = skAt["night"]
    OBVIOUS
  <1>2. PICK dropped : dropped = (skTask[w.s] \in {"done", "rejected"})
    OBVIOUS
  <1>3. PICK queues : queues = (~dropped /\ skPlan[w.s].kind = "local" /\ skBuild[w.s] = "absent")
    OBVIOUS
  <1>4. /\ w \in SkLocals /\ SkLocal(w) /\ SkWorld /\ w.at = "apply"
        /\ UNCHANGED <<skTask, skSearch, skTold, skListed, skFault>>
        /\ skPlan' = IF dropped THEN [skPlan EXCEPT ![w.s].st = "superseded"] ELSE skPlan
    BY <1>1, <1>2, SkHolds, SkProcesses DEF SkApply
  <1>5. IF queues
        THEN skBuild' = [skBuild EXCEPT ![w.s] = "queued"] /\ skMade' = [skMade EXCEPT ![w.s].build = @ + 1]
        ELSE UNCHANGED <<skBuild, skMade>>
    BY <1>1, <1>2, <1>3 DEF SkApply, SkHasBuild
  <1>6. IF dropped THEN SkGo("night", w.loop)
        ELSE \/ SkTransition("night", w.s, "blocked", "wait")
             \/ SkTransition("night", w.s, "active", "bind")
    BY <1>1, <1>2 DEF SkApply
  <1>7. /\ w.s \in SkSkills /\ w.loop \in {"pending", "plans"}
        /\ \A s \in SkSkills : w.saw[s] # "ready"
    BY <1>4 DEF SkLocal, SkBusy
  <1>8. /\ SkWorld'
        /\ \A s \in SkSkills : skBuild[s] = "good" => skBuild'[s] = "good"
    <2>1. CASE dropped
      <3>1. UNCHANGED <<skBuild, skMade>>
        BY <1>3, <1>5, <2>1
      <3> DEFINE row == [skPlan[w.s] EXCEPT !.st = "superseded"]
      <3>2. skPlan' = [skPlan EXCEPT ![w.s] = row]
        BY <1>4, <2>1
      <3>3. skPlan[w.s] \in SkPlans /\ skFault' \in 0..SkFaults
        BY <1>4, <1>7 DEF SkWorld
      <3>4. row \in SkPlans /\ row.st = "superseded"
        BY <3>3, SkPlanFields
      <3> HIDE DEF row
      <3>5. SkWorld'
        BY <1>4, <1>7, <3>1, <3>2, <3>3, <3>4, SkWorldPlan
      <3> QED BY <3>1, <3>5
    <2>2. CASE queues
      <3>1. skPlan' = skPlan /\ skBuild[w.s] = "absent"
        BY <1>3, <1>4, <2>2
      <3>2. /\ skBuild' \in [SkSkills -> SkBuilt] /\ skBuild'[w.s] = "queued"
            /\ \A s \in SkSkills : s # w.s => skBuild'[s] = skBuild[s]
        BY <1>4, <1>5, <1>7, <2>2 DEF SkWorld, SkBuilt
      <3>3. PICK m : m = skMade[w.s]
        OBVIOUS
      <3>4. PICK c : c = [m EXCEPT !.build = m.build + 1]
        OBVIOUS
      <3>5. m \in SkCounts /\ ~(m.build > 0)
        BY <1>4, <1>7, <3>1, <3>3 DEF SkWorld
      <3>6. c \in SkCounts
        BY <3>4, <3>5 DEF SkCounts
      <3>7. skMade' = [skMade EXCEPT ![w.s] = c]
        BY <1>4, <1>5, <1>7, <2>2, <3>3, <3>4 DEF SkWorld
      <3>8. /\ skMade' \in [SkSkills -> SkCounts]
            /\ \A s \in SkSkills : s # w.s => skMade'[s] = skMade[s]
        BY <1>4, <1>7, <3>6, <3>7 DEF SkWorld
      <3>9. w.s \notin SkReused
        BY <1>4, <3>1 DEF SkWorld
      <3>10. SkHonest'
        BY <1>4, <1>7, <3>1, <3>2 DEF SkWorld, SkHonest
      <3>11. /\ \A s \in SkSkills : skMade'[s].build > 0 => skBuild'[s] # "absent"
             /\ \A s \in SkReused : skMade'[s] = [search |-> 0, build |-> 0] /\ skBuild'[s] # "absent"
        BY <1>4, <3>2, <3>8, <3>9, SkAssumption DEF SkWorld
      <3>12. SkWorld'
        BY <1>4, <3>1, <3>2, <3>8, <3>10, <3>11 DEF SkWorld
      <3> QED BY <3>1, <3>2, <3>12
    <2>3. CASE ~dropped /\ ~queues
      <3>1. UNCHANGED <<skTask, skMade, skSearch, skPlan, skTold, skBuild, skListed, skFault>>
        BY <1>4, <1>5, <2>3
      <3> QED BY <3>1, SkWorldSame
    <2> QED BY <2>1, <2>2, <2>3
  <1>9. CASE dropped
    <2>1. w.loop \in SkFree \cup SkBusy /\ SkGo("night", w.loop)
      BY <1>6, <1>7, <1>9 DEF SkFree
    <2>2. PICK x \in SkLocals : SkSameBut(x, w, "at") /\ x.at = w.loop /\ skAt' = [skAt EXCEPT !["night"] = x]
      BY <1>1, <2>1, SkGoes, SkProcesses
    <2>3. SkLocal(x)' /\ SkNightSound(x)'
      BY <1>7, <2>2 DEF SkLocal, SkNightSound, SkSameBut, SkBusy
    <2> QED BY <1>4, <1>8, <2>2, <2>3, SkOne, SkProcesses
  <1>10. CASE ~dropped
    <2>1. CASE SkStop("night")
      BY <1>4, <1>8, <2>1, SkStops, SkProcesses
    <2>2. CASE ~SkStop("night")
      <3>1. "wait" \in SkNexts /\ "bind" \in SkNexts
        BY DEF SkNexts
      <3>2. PICK x \in SkLocals :
              /\ skAt' = [skAt EXCEPT !["night"] = x] /\ x.at = "walk" /\ x.s = w.s
              /\ x.next \in {"wait", "bind"}
              /\ x.path # <<>> /\ x.path \in Seq(SkUnclosed)
              /\ x.loop = w.loop /\ x.saw = w.saw
        <4>1. CASE SkTransition("night", w.s, "blocked", "wait")
          BY <1>1, <1>7, <2>2, <3>1, <4>1, SkTransitions, SkProcesses
        <4>2. CASE SkTransition("night", w.s, "active", "bind")
          BY <1>1, <1>7, <2>2, <3>1, <4>2, SkTransitions, SkProcesses
        <4> QED BY <1>6, <1>10, <4>1, <4>2
      <3>3. SkLocal(x)' /\ SkNightSound(x)'
        BY <1>7, <3>2 DEF SkLocal, SkNightSound
      <3> QED BY <1>4, <1>8, <3>2, <3>3, SkOne, SkProcesses
    <2> QED BY <2>1, <2>2
  <1> QED BY <1>9, <1>10

\* The world moves around the two processes.
LEMMA SkAround ==
    ASSUME SkInv, SkWorld', UNCHANGED <<skAt, skSearch, skTold>>,
           \A s \in SkSkills : skBuild[s] = "good" => skBuild'[s] = "good"
    PROVE  SkInv'
  <1>1. ASSUME NEW p \in SkProcs PROVE SkLocal(skAt[p])'
    <2>1. PICK w : w = skAt[p]
      OBVIOUS
    <2>2. SkLocal(w)
      BY <2>1, SkParts
    <2>3. SkLocal(w)'
      BY <2>2 DEF SkLocal, SkBusy
    <2>4. skAt'[p] = w
      BY <2>1
    <2> QED BY <2>3, <2>4 DEF SkLocal
  <1>2. SkNightSound(skAt["night"])'
    BY SkParts DEF SkNightSound, SkAnswered
  <1>3. skAt' \in [SkProcs -> SkLocals] /\ SkWorkerSound(skAt["worker"])'
    BY SkParts DEF SkWorkerSound
  <1> QED BY <1>1, <1>2, <1>3 DEF SkInv

LEMMA SkAroundInv ==
    ASSUME SkInv, SkLearn \/ SkBuilds \/ SkCrowd \/ SkDay \/ SkOwner PROVE SkInv'
  <1>1. UNCHANGED <<skAt, skSearch, skTold>> /\ SkWorld
    BY SkParts DEF SkLearn, SkBuilds, SkCrowd, SkDay, SkOwner, skOutside
  <1>2. CASE SkLearn
    <2>1. PICK s \in SkSkills : skTask' = [skTask EXCEPT ![s] = "new"]
      BY <1>2 DEF SkLearn
    <2>2. UNCHANGED <<skMade, skPlan, skBuild, skListed, skFault>>
      BY <1>2 DEF SkLearn, skOutside
    <2>3. skTask' \in [SkSkills -> SkStatuses]
      BY <1>1, <2>1 DEF SkWorld, SkStatuses
    <2>4. SkHonest'
      BY <1>1, <2>1, <2>2 DEF SkWorld, SkHonest
    <2>5. SkWorld'
      BY <1>1, <2>2, <2>3, <2>4 DEF SkWorld
    <2> QED BY <1>1, <2>2, <2>5, SkAround
  <1>3. CASE SkBuilds
    <2>1. PICK s \in SkSkills, end \in {"bad", "good"} :
            skBuild[s] = "queued" /\ skBuild' = [skBuild EXCEPT ![s] = end]
            /\ skListed' = IF end = "good" THEN skListed \cup {s} ELSE skListed
      BY <1>3 DEF SkBuilds
    <2>2. UNCHANGED <<skTask, skMade, skPlan, skFault>>
      BY <1>3 DEF SkBuilds
    <2>3. /\ skBuild' \in [SkSkills -> SkBuilt] /\ skListed' \subseteq SkSkills
          /\ \A r \in SkSkills : skBuild'[r] = skBuild[r] \/ (skBuild[r] = "queued" /\ skBuild'[r] # "absent")
      BY <1>1, <2>1 DEF SkWorld, SkBuilt
    <2>4. SkHonest'
      BY <1>1, <2>2, <2>3 DEF SkWorld, SkHonest
    <2>5. SkWorld'
      BY <1>1, <2>2, <2>3, <2>4, SkAssumption DEF SkWorld
    <2> QED BY <1>1, <2>3, <2>5, SkAround
  <1>4. CASE SkCrowd
    <2>1. /\ skFault > 0 /\ skFault' = skFault - 1 /\ skListed' \subseteq skListed
          /\ UNCHANGED <<skTask, skMade, skPlan, skBuild>>
      BY <1>4 DEF SkCrowd
    <2>2. skFault' \in 0..SkFaults /\ SkHonest'
      BY <1>1, <2>1, SkAssumption DEF SkWorld, SkHonest
    <2>3. SkWorld'
      BY <1>1, <2>1, <2>2 DEF SkWorld
    <2> QED BY <1>1, <2>1, <2>3, SkAround
  <1>5. CASE SkDay
    <2>1. UNCHANGED <<skTask, skMade, skPlan, skBuild, skListed, skFault>>
      BY <1>5 DEF SkDay, skOutside
    <2>2. SkWorld'
      BY <1>1, <2>1, SkWorldSame
    <2> QED BY <1>1, <2>1, <2>2, SkAround
  <1>6. CASE SkOwner
    <2>1. PICK s \in SkSkills, to \in {"planned", "active", "review", "blocked", "waiting", "rejected"} :
            skTask' = [skTask EXCEPT ![s] = to]
      BY <1>6 DEF SkOwner
    <2>2. /\ skFault > 0 /\ skFault' = skFault - 1
          /\ UNCHANGED <<skMade, skPlan, skBuild, skListed>>
      BY <1>6 DEF SkOwner
    <2>3. skTask' \in [SkSkills -> SkStatuses] /\ skFault' \in 0..SkFaults
      BY <1>1, <2>1, <2>2, SkAssumption DEF SkWorld, SkStatuses
    <2>4. SkHonest'
      BY <1>1, <2>1, <2>2 DEF SkWorld, SkHonest
    <2>5. SkWorld'
      BY <1>1, <2>2, <2>3, <2>4 DEF SkWorld
    <2> QED BY <1>1, <2>2, <2>5, SkAround
  <1> QED BY <1>2, <1>3, <1>4, <1>5, <1>6

LEMMA SkNextInv == SkInv /\ [SkNext]_skVars => SkInv'
  <1> SUFFICES ASSUME SkInv, [SkNext]_skVars PROVE SkInv'
    OBVIOUS
  <1>1. CASE UNCHANGED skVars
    <2>1. UNCHANGED <<skTask, skMade, skSearch, skPlan, skTold, skBuild, skListed, skFault, skAt>>
      BY <1>1 DEF skVars
    <2> QED BY <2>1, SkWorldSame, SkAround
  <1>2. ASSUME NEW p \in SkProcs, SkTurn(p) \/ SkCrash(p) PROVE SkInv'
    BY <1>2, SkStepInv, SkReconcileInv, SkEachInv, SkTellInv, SkSettleInv, SkReleaseInv, SkCrashInv
    DEF SkTurn
  <1>3. CASE SkNightly \/ SkCatalog(FALSE) \/ SkDecide(FALSE)
    BY <1>3, SkNightInv, SkReadyInv, SkPickSearchInv, SkChildInv, SkRowInv, SkCatalogInv,
       SkReportInv, SkSearchedInv, SkPendingInv, SkPickPlanInv, SkDecideInv, SkApplyInv
    DEF SkNightly
  <1>4. CASE SkLearn \/ SkBuilds \/ SkCrowd \/ SkDay \/ SkOwner
    BY <1>4, SkAroundInv
  <1> QED BY <1>1, <1>2, <1>3, <1>4 DEF SkNext

LEMMA SkInvSafe == SkInv => SkSafe
  <1> SUFFICES ASSUME SkInv PROVE SkSafe
    OBVIOUS
  <1>1. SkWorld /\ skAt \in [SkProcs -> SkLocals]
    BY SkParts
  <1>2. ASSUME NEW s \in SkSkills
        PROVE  /\ skPlan[s].st \in {"absent", "retry", "prepared", "building", "waiting", "done", "superseded"}
               /\ skPlan[s].kind \in {"none", "local", "other", "reuse"} /\ skPlan[s].bound \in BOOLEAN
               /\ skSearch[s] \in {"absent", "searching", "retry", "ready", "done"}
               /\ skBuild[s] \in {"absent", "queued", "bad", "good"}
    <2>1. skPlan[s] \in SkPlans
      BY <1>1 DEF SkWorld
    <2>2. skSearch[s] \in SkSearches /\ skBuild[s] \in SkBuilt
      BY <1>1 DEF SkWorld
    <2> QED BY <2>1, <2>2 DEF SkPlans, SkSearches, SkBuilt
  <1>3. ASSUME NEW p \in SkProcs
        PROVE  skAt[p].left \subseteq SkSkills /\ skAt[p].lock \in {"", "pending", "idle"}
    <2>1. skAt[p] \in SkLocals
      BY <1>1
    <2> QED BY <2>1, SkRows
  <1>4. SkTypeOK
    BY <1>1, <1>2, <1>3 DEF SkTypeOK, SkWorld
  <1>5. SkOnce
    <2>1. ASSUME NEW s \in SkSkills PROVE skMade[s].search <= 1 /\ skMade[s].build <= 1
      <3>1. skMade[s] \in SkCounts
        BY <1>1 DEF SkWorld
      <3> QED BY <3>1 DEF SkCounts
    <2> QED BY <1>1, <2>1 DEF SkOnce, SkWorld
  <1> QED BY <1>1, <1>4, <1>5 DEF SkSafe, SkWorld

\* discover, develop, reconcile: a skill gets one search and one build, is closed
\* and called available only over a build that works, and its row is finished only
\* after the owner was told, with any number of skills, crashes and moves of the
\* owner.
THEOREM SkillsAreSafe == SkSpec => []SkSafe
  <1>1. SkSpec => []SkInv
    BY SkInitInv, SkNextInv, PTL DEF SkSpec
  <1> QED BY <1>1, SkInvSafe, PTL
=============================================================================
