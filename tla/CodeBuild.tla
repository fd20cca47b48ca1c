------------------------------ MODULE CodeBuild ------------------------------
(***************************************************************************)
(* The coding worker (code_worker.py): a request becomes a parent task, a  *)
(* child task and a build row; the worker lets the local model write the   *)
(* code once, tests it, registers the functions and closes the tasks.  The *)
(* worker is a service that is started again and again under a file lock,  *)
(* may die after any write, and meets tasks the owner has moved meanwhile. *)
(* The code itself is one of four outcomes: no usable tests ("bad"), tests *)
(* passed but no function to offer ("plain"), tests passed with functions  *)
(* ("tool"), or nothing yet.                                               *)
(***************************************************************************)
EXTENDS Naturals, Sequences

CONSTANTS
    CbBuilds,    \* request ids
    CbExternal,  \* those whose brief asks for an account, a connector or a purchase
    CbFaults,    \* bound: crashes, GPU yields and moves of the owner
    CbNone       \* nobody, nothing

ASSUME CbAssumption ==
    /\ CbExternal \subseteq CbBuilds
    /\ CbFaults \in Nat
    /\ CbNone \notin CbBuilds

VARIABLES
    cbRow,    \* code_builds: status and payload
    cbTask,   \* the status of the parent and of the child task
    cbMade,   \* how many parent and child tasks were created
    cbEnq,    \* the enqueue that holds the code-enqueue lock
    cbWork,   \* the worker: where it is, with which build
    cbLeft,   \* generations that ran and were not discarded
    cbTools,  \* builds whose functions are in generated_tools
    cbTold,   \* owner_updates: the keys that were published
    cbFault
cbVars == <<cbRow, cbTask, cbMade, cbEnq, cbWork, cbLeft, cbTools, cbTold, cbFault>>
-----------------------------------------------------------------------------
CbIdle == [at |-> "idle", b |-> CbNone, k |-> 1]

CbInit ==
    /\ cbRow = [b \in CbBuilds |-> [status |-> "absent", payload |-> CbNone]]
    /\ cbTask = [b \in CbBuilds |-> [parent |-> "absent", child |-> "absent"]]
    /\ cbMade = [b \in CbBuilds |-> [parent |-> 0, child |-> 0]]
    /\ cbEnq = CbIdle
    /\ cbWork = CbIdle
    /\ cbLeft = [b \in CbBuilds |-> 0]
    /\ cbTools = {}
    /\ cbTold = {}
    /\ cbFault = CbFaults
-----------------------------------------------------------------------------
(* enqueue, under its lock *)
CbEnqueue(b) ==
    /\ cbEnq = CbIdle
    /\ cbRow[b].status = "absent"   \* otherwise the stored build is returned
    /\ cbEnq' = [at |-> "parent", b |-> b, k |-> 1]
    /\ UNCHANGED <<cbRow, cbTask, cbMade, cbWork, cbLeft, cbTools, cbTold, cbFault>>

\* A plausible slip: a repeated request makes its tasks afresh.
CbNeedsTaskAlways(b, which) == TRUE

\* A task that carries the request's marker is taken over.
CbNeedsTask(b, which) == cbTask[b][which] = "absent"

CbEnqueueTask(which) ==
    LET b == cbEnq.b IN
    /\ cbEnq.at = which
    /\ IF CbNeedsTask(b, which)
       THEN /\ cbTask' = [cbTask EXCEPT ![b][which] = "new"]
            /\ cbMade' = [cbMade EXCEPT ![b][which] = @ + 1]
       ELSE UNCHANGED <<cbTask, cbMade>>
    /\ cbEnq' = [cbEnq EXCEPT !.at = IF which = "parent" THEN "child" ELSE "row"]
    /\ UNCHANGED <<cbRow, cbWork, cbLeft, cbTools, cbTold, cbFault>>

CbEnqueueRow ==
    /\ cbEnq.at = "row"
    /\ cbRow' = [cbRow EXCEPT ![cbEnq.b].status = "queued"]
    /\ cbEnq' = CbIdle
    /\ UNCHANGED <<cbTask, cbMade, cbWork, cbLeft, cbTools, cbTold, cbFault>>
-----------------------------------------------------------------------------
(* The worker *)
CbGo(at, b) == cbWork' = [at |-> at, b |-> b, k |-> 1]

\* transition: a task that waits for the owner has no way on, and raises.
CbMovable(b, which) == cbTask[b][which] # "waiting"
CbTransition(b, which, target) ==
    /\ CbMovable(b, which)
    /\ cbTask' = [cbTask EXCEPT ![b][which] = target]

CbWake ==
    /\ cbWork = CbIdle
    /\ CbGo("scan", CbNone)
    /\ UNCHANGED <<cbRow, cbTask, cbMade, cbEnq, cbLeft, cbTools, cbTold, cbFault>>

CbIn(status) == {b \in CbBuilds : cbRow[b].status = status}

\* A build found "building" was interrupted: its tasks are blocked ...
CbInterrupted(b) ==
    /\ cbWork.at = "scan" /\ b \in CbIn("building")
    /\ CbMovable(b, "child") /\ CbMovable(b, "parent")
    /\ cbTask' = [cbTask EXCEPT ![b] = [parent |-> "blocked", child |-> "blocked"]]
    /\ CbGo("fail", b)
    /\ UNCHANGED <<cbRow, cbMade, cbEnq, cbLeft, cbTools, cbTold, cbFault>>

CbGivenUp == "failed"

\* ... the row is closed, and then the owner is told.
CbFail ==
    /\ cbWork.at = "fail"
    /\ cbRow' = [cbRow EXCEPT ![cbWork.b].status = CbGivenUp]
    /\ CbGo("tellfail", cbWork.b)
    /\ UNCHANGED <<cbTask, cbMade, cbEnq, cbLeft, cbTools, cbTold, cbFault>>

CbTellFail ==
    /\ cbWork.at = "tellfail"
    /\ cbTold' = cbTold \cup {<<"failed", cbWork.b>>}
    /\ CbGo("scan", CbNone)
    /\ UNCHANGED <<cbRow, cbTask, cbMade, cbEnq, cbLeft, cbTools, cbFault>>

CbResumable == CbIn("ready")

CbResume(b) ==
    /\ cbWork.at = "scan" /\ CbIn("building") = {}
    /\ b \in CbResumable
    /\ CbGo("finish", b)
    /\ UNCHANGED <<cbRow, cbTask, cbMade, cbEnq, cbLeft, cbTools, cbTold, cbFault>>

\* A queued build is marked before its tasks are moved and the model is asked.
CbTake(b) ==
    /\ cbWork.at = "scan" /\ CbIn("building") = {} /\ CbResumable = {}
    /\ b \in CbIn("queued")
    /\ cbRow' = [cbRow EXCEPT ![b].status = "building"]
    /\ CbGo("activate", b)
    /\ UNCHANGED <<cbTask, cbMade, cbEnq, cbLeft, cbTools, cbTold, cbFault>>

CbNothing ==
    /\ cbWork.at = "scan"
    /\ CbIn("building") \cup CbResumable \cup CbIn("queued") = {}
    /\ cbWork' = CbIdle
    /\ UNCHANGED <<cbRow, cbTask, cbMade, cbEnq, cbLeft, cbTools, cbTold, cbFault>>

CbActivate ==
    LET b == cbWork.b IN
    /\ cbWork.at = "activate"
    /\ CbMovable(b, "child") /\ CbMovable(b, "parent")
    /\ cbTask' = [cbTask EXCEPT ![b] = [parent |-> "active", child |-> "active"]]
    /\ CbGo("generate", b)
    /\ UNCHANGED <<cbRow, cbMade, cbEnq, cbLeft, cbTools, cbTold, cbFault>>

\* The model writes its files; from here on the attempt leaves something behind.
CbGenerate ==
    /\ cbWork.at = "generate"
    /\ cbLeft' = [cbLeft EXCEPT ![cbWork.b] = @ + 1]
    /\ CbGo("result", cbWork.b)
    /\ UNCHANGED <<cbRow, cbTask, cbMade, cbEnq, cbTools, cbTold, cbFault>>

\* The GPU was wanted elsewhere: the files are removed, the build waits again.
CbYield ==
    LET b == cbWork.b IN
    /\ cbWork.at = "result" /\ cbFault > 0
    /\ cbFault' = cbFault - 1
    /\ cbLeft' = [cbLeft EXCEPT ![b] = @ - 1]
    /\ cbRow' = [cbRow EXCEPT ![b].status = "queued"]
    /\ cbWork' = CbIdle
    /\ UNCHANGED <<cbTask, cbMade, cbEnq, cbTools, cbTold>>

\* No usable output: the tasks are blocked and the build is given up.
CbBuilderRaises ==
    LET b == cbWork.b IN
    /\ cbWork.at = "result"
    /\ CbMovable(b, "child") /\ CbMovable(b, "parent")
    /\ cbTask' = [cbTask EXCEPT ![b] = [parent |-> "blocked", child |-> "blocked"]]
    /\ CbGo("fail", b)
    /\ UNCHANGED <<cbRow, cbMade, cbEnq, cbLeft, cbTools, cbTold, cbFault>>

CbReady ==
    LET b == cbWork.b IN
    /\ cbWork.at = "result"
    /\ \E p \in {"bad", "plain", "tool"} : cbRow' = [cbRow EXCEPT ![b] = [status |-> "ready", payload |-> p]]
    /\ CbGo("finish", b)
    /\ UNCHANGED <<cbTask, cbMade, cbEnq, cbLeft, cbTools, cbTold, cbFault>>
-----------------------------------------------------------------------------
(* finish, one write after the other; repeated from the start after a crash *)

\* register: only functions whose tests passed are offered.
CbRegisters(b) == cbRow[b].payload = "tool" /\ b \notin CbExternal

\* A plausible slip: passed tests alone complete the request.
CbCompleteTested(b) == cbRow[b].payload \in {"plain", "tool"}

CbComplete(b) == CbRegisters(b) /\ b \notin CbExternal

CbOrder == <<"register", "child", "parent", "tell", "built">>

CbFinish ==
    LET b == cbWork.b
        step == CbOrder[cbWork.k] IN
    /\ cbWork.at = "finish"
    /\ cbTools' = IF step = "register" /\ CbRegisters(b) THEN cbTools \cup {b} ELSE cbTools
    /\ CASE step = "child" -> CbTransition(b, "child", "done")
         [] step = "parent" -> CbTransition(b, "parent", IF CbComplete(b) THEN "done" ELSE "blocked")
         [] OTHER -> UNCHANGED cbTask
    /\ cbTold' = IF step = "tell" THEN cbTold \cup {<<"built", b>>} ELSE cbTold
    /\ cbRow' = IF step = "built" THEN [cbRow EXCEPT ![b].status = "built"] ELSE cbRow
    /\ cbWork' = IF cbWork.k = Len(CbOrder) THEN CbIdle ELSE [cbWork EXCEPT !.k = @ + 1]
    /\ UNCHANGED <<cbMade, cbEnq, cbLeft, cbFault>>

\* An exception of transition ends the worker: the timer starts the next one.
CbStops ==
    LET b == cbWork.b
        stuck(c) == \E w \in {"parent", "child"} : ~CbMovable(c, w) IN
    /\ \/ cbWork.at = "scan" /\ \E c \in CbIn("building") : stuck(c)
       \/ cbWork.at \in {"activate", "result"} /\ stuck(b)
       \/ /\ cbWork.at = "finish" /\ CbOrder[cbWork.k] \in {"parent", "child"}
          /\ ~CbMovable(b, CbOrder[cbWork.k])
    /\ cbWork' = CbIdle
    /\ UNCHANGED <<cbRow, cbTask, cbMade, cbEnq, cbLeft, cbTools, cbTold, cbFault>>

CbCrash ==
    /\ cbFault > 0 /\ cbFault' = cbFault - 1
    /\ \/ cbWork # CbIdle /\ cbWork' = CbIdle /\ UNCHANGED cbEnq
       \/ cbEnq # CbIdle /\ cbEnq' = CbIdle /\ UNCHANGED cbWork
    /\ UNCHANGED <<cbRow, cbTask, cbMade, cbLeft, cbTools, cbTold>>

\* The owner sets an active task to waiting_for_user, or back.
CbOwner(b, which) ==
    /\ cbFault > 0 /\ cbFault' = cbFault - 1
    /\ \/ cbTask[b][which] = "active" /\ cbTask' = [cbTask EXCEPT ![b][which] = "waiting"]
       \/ cbTask[b][which] = "waiting" /\ cbTask' = [cbTask EXCEPT ![b][which] = "active"]
    /\ UNCHANGED <<cbRow, cbMade, cbEnq, cbWork, cbLeft, cbTools, cbTold>>
-----------------------------------------------------------------------------
CbWorker ==
    \/ CbWake \/ CbNothing \/ CbActivate \/ CbGenerate \/ CbFail \/ CbTellFail
    \/ CbBuilderRaises \/ CbReady \/ CbFinish \/ CbStops
    \/ \E b \in CbBuilds : CbInterrupted(b) \/ CbResume(b) \/ CbTake(b)

CbNext ==
    \/ CbWorker \/ CbYield \/ CbCrash
    \/ CbEnqueueRow \/ \E w \in {"parent", "child"} : CbEnqueueTask(w)
    \/ \E b \in CbBuilds : CbEnqueue(b) \/ \E w \in {"parent", "child"} : CbOwner(b, w)

CbSpec == CbInit /\ [][CbNext]_cbVars /\ WF_cbVars(CbWorker)
-----------------------------------------------------------------------------
\* However often an enqueue is cut short and repeated, a request has one parent
\* and one child task.
CbOneTask == \A b \in CbBuilds : cbMade[b].parent <= 1 /\ cbMade[b].child <= 1

\* Code generation is never repeated once an attempt may have left files: only
\* an attempt that gave way to another GPU user, and was cleaned up, runs again.
CbOneAttempt == \A b \in CbBuilds : cbLeft[b] <= 1

\* The worker calls a request done only when its functions can be called, their
\* tests have passed and it asked for nothing beyond them.
CbDoneIsUsable ==
    \A b \in CbBuilds : cbTask[b].parent = "done" =>
        b \in cbTools /\ cbRow[b].payload = "tool" /\ b \notin CbExternal

\* A build is closed as built only after the owner was told.
CbBuiltIsTold == \A b \in CbIn("built") : <<"built", b>> \in cbTold

\* Again and again every build that was queued is settled, through crashes and
\* GPU yields, unless a task of some build is left waiting for the owner.
CbSettles ==
    []<>(\/ \A b \in CbBuilds : cbRow[b].status \in {"absent", "built", "failed"}
         \/ \E c \in CbBuilds : cbTask[c].parent = "waiting" \/ cbTask[c].child = "waiting")

\* Nothing is built twice and nothing unfinished is called done: one pair of
\* tasks and one attempt per request, a usable result behind "done", and word
\* to the owner before a build is closed.
CbSafe == CbOneTask /\ CbOneAttempt /\ CbDoneIsUsable /\ CbBuiltIsTold
=============================================================================
