------------------------------ MODULE ToolCalls ------------------------------
(***************************************************************************)
(* Calls of generated functions (code_tools.py): a request row and its     *)
(* task, written once under a lock; one worker at a time that marks the    *)
(* request, records the call, runs the container and saves what came back. *)
(* The worker may die after any write.  A call is a OneShot: the container *)
(* is started at most once for a request, whatever is repeated.            *)
(***************************************************************************)
EXTENDS Naturals

CONSTANTS
    TcReqs,     \* request ids
    TcFaults,   \* bound: crashes of the worker and moves of the owner
    TcNone      \* no request

ASSUME TcAssumption == TcFaults \in Nat /\ TcNone \notin TcReqs

VARIABLES
    tcReq,    \* generated_tool_requests: status
    tcCall,   \* generated_tool_calls: status
    tcTask,   \* the request's task
    tcRuns,   \* containers started for the request
    tcAnswer, \* containers that returned a result
    tcTold,   \* owner_updates
    tcWork,   \* the worker: where it is and with which request
    tcFault
tcVars == <<tcReq, tcCall, tcTask, tcRuns, tcAnswer, tcTold, tcWork, tcFault>>
-----------------------------------------------------------------------------
TcIdle == [at |-> "idle", r |-> TcNone]

TcInit ==
    /\ tcReq = [r \in TcReqs |-> "absent"]
    /\ tcCall = [r \in TcReqs |-> "absent"]
    /\ tcTask = [r \in TcReqs |-> "absent"]
    /\ tcRuns = [r \in TcReqs |-> 0]
    /\ tcAnswer = {}
    /\ tcTold = {}
    /\ tcWork = TcIdle
    /\ tcFault = TcFaults

\* enqueue_call under its lock: the task, which a repeated request finds by its
\* marker, and then the row.
TcEnqueue(r) ==
    /\ tcReq[r] = "absent"
    /\ \/ tcTask[r] = "absent" /\ tcTask' = [tcTask EXCEPT ![r] = "new"] /\ UNCHANGED tcReq
       \/ tcTask[r] # "absent" /\ tcReq' = [tcReq EXCEPT ![r] = "queued"] /\ UNCHANGED tcTask
    /\ UNCHANGED <<tcCall, tcRuns, tcAnswer, tcTold, tcWork, tcFault>>
-----------------------------------------------------------------------------
(* process_pending *)
TcAt(at) == tcWork.at = at
TcGo(at, r) == tcWork' = [at |-> at, r |-> r]

\* A plausible slip: a request whose worker died is nobody's.
TcPendingQueued == {"ready", "queued"}

TcPending == {"running", "ready", "queued"}

\* Interrupted requests come first, then those with a saved result.
TcOrder(r) == CASE tcReq[r] = "running" -> 0 [] tcReq[r] = "ready" -> 1 [] OTHER -> 2
TcNextRequests ==
    LET open == {r \in TcReqs : tcReq[r] \in TcPending} IN
    {r \in open : \A s \in open : TcOrder(r) <= TcOrder(s)}

TcSaved(r) == tcCall[r] = "done"

\* An interrupted request: its saved result is used, or it is given up.
TcInterrupted(r) ==
    /\ tcWork = TcIdle /\ r \in TcNextRequests /\ tcReq[r] = "running"
    /\ TcGo(IF TcSaved(r) THEN "save" ELSE "block", r)
    /\ UNCHANGED <<tcReq, tcCall, tcTask, tcRuns, tcAnswer, tcTold, tcFault>>

TcResume(r) ==
    /\ tcWork = TcIdle /\ r \in TcNextRequests /\ tcReq[r] = "ready"
    /\ TcGo("save", r)
    /\ UNCHANGED <<tcReq, tcCall, tcTask, tcRuns, tcAnswer, tcTold, tcFault>>

TcTake(r) ==
    /\ tcWork = TcIdle /\ r \in TcNextRequests /\ tcReq[r] = "queued"
    /\ tcReq' = [tcReq EXCEPT ![r] = "running"]
    /\ TcGo("activate", r)
    /\ UNCHANGED <<tcCall, tcTask, tcRuns, tcAnswer, tcTold, tcFault>>

\* transition: a task that waits for the owner has no way on, and raises.
TcMovable(r) == tcTask[r] # "waiting"

TcActivate ==
    /\ TcAt("activate") /\ TcMovable(tcWork.r)
    /\ tcTask' = [tcTask EXCEPT ![tcWork.r] = "active"]
    /\ TcGo("claim", tcWork.r)
    /\ UNCHANGED <<tcReq, tcCall, tcRuns, tcAnswer, tcTold, tcFault>>

\* invoke: the call is recorded before the container is started.
TcClaim ==
    /\ TcAt("claim")
    /\ tcCall[tcWork.r] = "absent"
    /\ tcCall' = [tcCall EXCEPT ![tcWork.r] = "running"]
    /\ TcGo("run", tcWork.r)
    /\ UNCHANGED <<tcReq, tcTask, tcRuns, tcAnswer, tcTold, tcFault>>

\* execute_container returns a result, or raises, whatever the function did.
TcContainer ==
    /\ TcAt("run")
    /\ tcRuns' = [tcRuns EXCEPT ![tcWork.r] = @ + 1]
    /\ \/ tcAnswer' = tcAnswer \cup {tcWork.r} /\ TcGo("keep", tcWork.r)
       \/ UNCHANGED tcAnswer /\ TcGo("lost", tcWork.r)
    /\ UNCHANGED <<tcReq, tcCall, tcTask, tcTold, tcFault>>

TcKeep ==
    /\ TcAt("keep")
    /\ tcCall' = [tcCall EXCEPT ![tcWork.r] = "done"]
    /\ TcGo("save", tcWork.r)
    /\ UNCHANGED <<tcReq, tcTask, tcRuns, tcAnswer, tcTold, tcFault>>

\* A plausible slip: a failed container is started once more.
TcAfterLossRetry == "run"

TcAfterLoss == "block"

TcLost ==
    /\ TcAt("lost")
    /\ tcCall' = [tcCall EXCEPT ![tcWork.r] = "failed"]
    /\ TcGo(TcAfterLoss, tcWork.r)
    /\ UNCHANGED <<tcReq, tcTask, tcRuns, tcAnswer, tcTold, tcFault>>

\* The task is blocked, the request closed, the owner told, in this order.
TcBlock ==
    /\ TcAt("block") /\ TcMovable(tcWork.r)
    /\ tcTask' = [tcTask EXCEPT ![tcWork.r] = "blocked"]
    /\ TcGo("fail", tcWork.r)
    /\ UNCHANGED <<tcReq, tcCall, tcRuns, tcAnswer, tcTold, tcFault>>

TcFail ==
    /\ TcAt("fail")
    /\ tcReq' = [tcReq EXCEPT ![tcWork.r] = "failed"]
    /\ TcGo("tellfail", tcWork.r)
    /\ UNCHANGED <<tcCall, tcTask, tcRuns, tcAnswer, tcTold, tcFault>>

TcTellFail ==
    /\ TcAt("tellfail")
    /\ tcTold' = tcTold \cup {<<"failed", tcWork.r>>}
    /\ tcWork' = TcIdle
    /\ UNCHANGED <<tcReq, tcCall, tcTask, tcRuns, tcAnswer, tcFault>>

\* The saved result goes to the row, the task and the owner, and the row is closed.
TcSave ==
    /\ TcAt("save")
    /\ tcReq' = [tcReq EXCEPT ![tcWork.r] = "ready"]
    /\ TcGo("done", tcWork.r)
    /\ UNCHANGED <<tcCall, tcTask, tcRuns, tcAnswer, tcTold, tcFault>>

TcDone ==
    /\ TcAt("done") /\ TcMovable(tcWork.r)
    /\ tcTask' = [tcTask EXCEPT ![tcWork.r] = "done"]
    /\ TcGo("tell", tcWork.r)
    /\ UNCHANGED <<tcReq, tcCall, tcRuns, tcAnswer, tcTold, tcFault>>

TcTell ==
    /\ TcAt("tell")
    /\ tcTold' = tcTold \cup {<<"done", tcWork.r>>}
    /\ TcGo("close", tcWork.r)
    /\ UNCHANGED <<tcReq, tcCall, tcTask, tcRuns, tcAnswer, tcFault>>

TcClose ==
    /\ TcAt("close")
    /\ tcReq' = [tcReq EXCEPT ![tcWork.r] = "done"]
    /\ tcWork' = TcIdle
    /\ UNCHANGED <<tcCall, tcTask, tcRuns, tcAnswer, tcTold, tcFault>>

\* The worker dies; a container that was running may have done its work.
TcCrash ==
    /\ tcWork # TcIdle /\ tcFault > 0
    /\ tcFault' = tcFault - 1
    /\ tcWork' = TcIdle
    /\ UNCHANGED <<tcReq, tcCall, tcTask, tcRuns, tcAnswer, tcTold>>

\* An exception of transition ends the worker; its timer starts the next one.
TcStops ==
    /\ tcWork.at \in {"activate", "block", "done"} /\ ~TcMovable(tcWork.r)
    /\ tcWork' = TcIdle
    /\ UNCHANGED <<tcReq, tcCall, tcTask, tcRuns, tcAnswer, tcTold, tcFault>>

\* The owner sets an active task to waiting_for_user, or back.
TcOwner(r) ==
    /\ tcFault > 0 /\ tcFault' = tcFault - 1
    /\ \/ tcTask[r] = "active" /\ tcTask' = [tcTask EXCEPT ![r] = "waiting"]
       \/ tcTask[r] = "waiting" /\ tcTask' = [tcTask EXCEPT ![r] = "active"]
    /\ UNCHANGED <<tcReq, tcCall, tcRuns, tcAnswer, tcTold, tcWork>>
-----------------------------------------------------------------------------
TcWorker ==
    \/ TcActivate \/ TcClaim \/ TcContainer \/ TcKeep \/ TcLost \/ TcBlock \/ TcFail
    \/ TcTellFail \/ TcSave \/ TcDone \/ TcTell \/ TcClose \/ TcStops
    \/ \E r \in TcReqs : TcInterrupted(r) \/ TcResume(r) \/ TcTake(r)

TcNext == TcWorker \/ TcCrash \/ \E r \in TcReqs : TcEnqueue(r) \/ TcOwner(r)

TcSpec == TcInit /\ [][TcNext]_tcVars /\ WF_tcVars(TcWorker)
-----------------------------------------------------------------------------
TcEffect == INSTANCE OneShot WITH
    Items <- TcReqs,
    stage <- [r \in TcReqs |-> CASE tcCall[r] = "absent" -> "open"
                                 [] tcCall[r] = "done" -> "confirmed"
                                 [] OTHER -> "claimed"],
    sent <- tcRuns,
    world <- [r \in TcReqs |-> r \in tcAnswer]

\* A generated function is run at most once for a request, after the call was
\* recorded, and its result counts only when the container returned it.
TcOneShot == TcEffect!Spec

\* A request, and its task, is done only with a result that came back from the
\* container; a request with an unknown outcome is never reported as done.
TcResultReal ==
    \A r \in TcReqs : tcTask[r] = "done" \/ <<"done", r>> \in tcTold => r \in tcAnswer

\* Again and again every request that was queued is closed, as done or as failed,
\* however often the worker dies, unless the owner leaves some task waiting.
TcSettles ==
    []<>(\/ \A r \in TcReqs : tcReq[r] \in {"absent", "done", "failed"}
         \/ \E s \in TcReqs : tcTask[s] = "waiting")

\* A call of a generated function is one effect with one true answer, whatever
\* is repeated and wherever the worker dies.
TcSafe == TcOneShot /\ []TcResultReal
=============================================================================
