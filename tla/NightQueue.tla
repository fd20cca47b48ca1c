----------------------------- MODULE NightQueue -----------------------------
(***************************************************************************)
(* The night queue (night_queue.py) and its morning brief                  *)
(* (morning_brief.py).  A run is opened as a row of its own, walks through *)
(* its actions, each of which writes in transactions of its own, and is    *)
(* closed with what it did, what failed and a brief.  An action may raise  *)
(* between two of its writes, the brief or the closing write may raise,    *)
(* the process may die anywhere, and runs started by two requests overlap. *)
(* What an action writes is a pair <<action, kind of row>>; texts, costs,  *)
(* model routes and the layout of the brief are left out.                  *)
(***************************************************************************)
EXTENDS Naturals, Sequences, FiniteSets

CONSTANTS
    NgRuns,     \* run_once calls, each with its own run id
    NgRequested,\* the requested_actions a caller may send ({}: all of them)
    NgClasses,  \* the allowed_risk_classes a caller may send ({}: the default)
    NgFaults,   \* bound: exceptions and crashes that may happen
    NgNone      \* no task, no brief

ASSUME NgAssumption ==
    /\ NgFaults \in Nat
    /\ NgNone \notin NgRuns \cup {"queue", "manual", "fallback", "open", "closed"}
    /\ NgClasses \subseteq SUBSET {"R1", "R2", "R3", "R4", "R5"}

VARIABLES
    ngRow,   \* night_queue_runs
    ngWork,  \* the locals of run_once
    ngKept,  \* the rows the actions of a run have written
    ngTask,  \* the "Implement UI capability" task a run created
    ngAsk,   \* the brief a manual request has built and not yet stored
    ngFault
ngVars == <<ngRow, ngWork, ngKept, ngTask, ngAsk, ngFault>>
-----------------------------------------------------------------------------
NgActions == <<"index", "graph", "context", "missing", "cache", "improve", "propose">>

\* The class the policy gives an action: a source review and a cache build are
\* R1, a local record is R2, a file change is R3.
NgClass(a) == CASE a \in {"index", "cache"} -> "R1"
                [] a \in {"graph", "context", "missing", "propose"} -> "R2"
                [] a = "improve" -> "R3"

\* R1 and R2 run on their own; R3 only with limited diff and passed tests,
\* which the self improvement action never has.
NgExecutionAllowed(a) == NgClass(a) \in {"R1", "R2"}

NgBlocked(a, allowed) == NgClass(a) \notin allowed \/ ~NgExecutionAllowed(a)

NgWanted(a, requested) == IF a \in requested THEN <<a>> ELSE <<>>

\* A selection keeps the order of the list.
NgSelected(requested) ==
    IF requested = {} THEN NgActions
    ELSE NgWanted("index", requested) \o NgWanted("graph", requested)
         \o NgWanted("context", requested) \o NgWanted("missing", requested)
         \o NgWanted("cache", requested) \o NgWanted("improve", requested)
         \o NgWanted("propose", requested)

NgAllowed(classes) == IF classes = {} THEN {"R1", "R2"} ELSE classes

NgBriefs(by, status, failed, proposals) ==
    [by |-> by, status |-> status, failed |-> failed, proposals |-> proposals]
NgNoBrief == NgBriefs(NgNone, NgNone, {}, {})

NgIdle == [at |-> "idle", list |-> <<>>, i |-> 1, allowed |-> {}, found |-> NgNone,
           failed |-> {}, listed |-> {}, proposed |-> {}]
NgAbsent == [status |-> "absent", failed |-> {}, listed |-> {}, proposed |-> {},
             brief |-> NgNoBrief]

NgInit ==
    /\ ngRow = [r \in NgRuns |-> NgAbsent]
    /\ ngWork = [r \in NgRuns |-> NgIdle]
    /\ ngKept = [r \in NgRuns |-> {}]
    /\ ngTask = [r \in NgRuns |-> NgNone]
    /\ ngAsk = [r \in NgRuns |-> NgNoBrief]
    /\ ngFault = NgFaults
-----------------------------------------------------------------------------
(* run_once *)
NgWalks(r) == ngWork[r].at = "walk" /\ ngWork[r].i <= Len(ngWork[r].list)
NgNow(r) == ngWork[r].list[ngWork[r].i]

NgStart(r) ==
    /\ ngWork[r].at = "idle"
    /\ \E req \in NgRequested, cls \in NgClasses :
         ngWork' = [ngWork EXCEPT ![r] = [NgIdle EXCEPT !.at = "walk",
                                          !.list = NgSelected(req), !.allowed = NgAllowed(cls)]]
    /\ ngRow' = [ngRow EXCEPT ![r].status = "running"]
    /\ UNCHANGED <<ngKept, ngTask, ngAsk, ngFault>>

\* _policy_block: the action is a failure and a proposal for review.
NgBlock(r) ==
    /\ NgWalks(r)
    /\ NgBlocked(NgNow(r), ngWork[r].allowed)
    /\ ngWork' = [ngWork EXCEPT ![r].i = @ + 1, ![r].failed = @ \cup {NgNow(r)},
                                ![r].proposed = @ \cup {NgNow(r)}]
    /\ UNCHANGED <<ngRow, ngKept, ngTask, ngAsk, ngFault>>

\* A cache entry is stored with a rollback record that can delete it; a record
\* of that kind without deletion is refused.
NgRollback(kind, deletable) == IF kind = "cache" /\ ~deletable THEN {} ELSE {kind}

NgCache == {"cache"} \X NgRollback("cache", TRUE)

\* What the actions that write once write, in one transaction, and list.
NgWrites(a) ==
    CASE a = "index" -> {}
      [] a \in {"graph", "context"} -> {<<a, "memory_item">>}
      [] a = "cache" -> NgCache
      [] a = "propose" -> {<<a, "task">>}

\* The risky proposals come with their review task; nothing of them is executed.
NgExecute(r) ==
    LET a == NgNow(r) IN
    /\ NgWalks(r)
    /\ ~NgBlocked(a, ngWork[r].allowed)
    /\ a \notin {"missing", "improve"}
    /\ ngKept' = [ngKept EXCEPT ![r] = @ \cup NgWrites(a)]
    /\ ngWork' = [ngWork EXCEPT ![r].i = @ + 1, ![r].listed = @ \cup NgWrites(a),
                                ![r].proposed = @ \cup ({a} \cap {"propose"})]
    /\ UNCHANGED <<ngRow, ngTask, ngAsk, ngFault>>

\* register_missing_component_need: look for an open task of that title ...
NgSeek(r) ==
    /\ NgWalks(r)
    /\ NgNow(r) = "missing"
    /\ ~NgBlocked("missing", ngWork[r].allowed)
    /\ \E t \in NgRuns \cup {NgNone} :
         /\ IF \E u \in NgRuns : ngTask[u] = "open" THEN t \in NgRuns /\ ngTask[t] = "open"
            ELSE t = NgNone
         /\ ngWork' = [ngWork EXCEPT ![r].at = "sought", ![r].found = t]
    /\ UNCHANGED <<ngRow, ngKept, ngTask, ngAsk, ngFault>>

\* ... create one when there is none ...
NgMakeTask(r) ==
    /\ ngWork[r].at = "sought"
    /\ ngWork[r].found = NgNone
    /\ ngTask' = [ngTask EXCEPT ![r] = "open"]
    /\ ngKept' = [ngKept EXCEPT ![r] = @ \cup {<<"missing", "task">>}]
    /\ ngWork' = [ngWork EXCEPT ![r].found = r]
    /\ UNCHANGED <<ngRow, ngAsk, ngFault>>

\* ... and store the need with the task's id; the change names both.
NgNeed(r) ==
    LET new == {<<"missing", "need">>}
        own == IF ngWork[r].found = r THEN {<<"missing", "task">>} ELSE {} IN
    /\ ngWork[r].at = "sought"
    /\ ngWork[r].found # NgNone
    /\ ngKept' = [ngKept EXCEPT ![r] = @ \cup new]
    /\ ngWork' = [ngWork EXCEPT ![r].at = "walk", ![r].i = @ + 1, ![r].found = NgNone,
                                ![r].listed = @ \cup new \cup own]
    /\ UNCHANGED <<ngRow, ngTask, ngAsk, ngFault>>

\* The owner or a developer closes the task.
NgCloseTask(r) ==
    /\ ngTask[r] = "open"
    /\ ngTask' = [ngTask EXCEPT ![r] = "closed"]
    /\ UNCHANGED <<ngRow, ngWork, ngKept, ngAsk, ngFault>>

\* A plausible slip: the exception is logged and the action passed over.
NgFailedQuietly(w, a) == [w EXCEPT !.at = "walk", !.i = @ + 1, !.found = NgNone]

\* An exception of _execute_action: the action is a failure, whatever it has
\* written stays.
NgFailed(w, a) == [w EXCEPT !.at = "walk", !.i = @ + 1, !.found = NgNone, !.failed = @ \cup {a}]

NgRaise(r) ==
    /\ NgWalks(r) \/ ngWork[r].at = "sought"
    /\ ~NgBlocked(NgNow(r), ngWork[r].allowed)
    /\ NgNow(r) # "index" /\ ngFault > 0
    /\ ngFault' = ngFault - 1
    /\ ngWork' = [ngWork EXCEPT ![r] = NgFailed(@, NgNow(r))]
    /\ UNCHANGED <<ngRow, ngKept, ngTask, ngAsk>>
-----------------------------------------------------------------------------
(* The end of run_once and the brief *)
NgStatus(w) ==
    IF w.failed # {} THEN IF Cardinality(w.failed) < Len(w.list) THEN "completed_with_attention"
                          ELSE "failed"
    ELSE IF w.proposed # {} THEN "completed_with_attention" ELSE "succeeded"

\* A missing component that was registered is a proposal of the brief as well.
NgMissing(listed) == IF <<"missing", "need">> \in listed THEN {"ui"} ELSE {}
NgBuild(by, status, failed, listed, proposed) ==
    NgBriefs(by, status, failed, proposed \cup NgMissing(listed))

NgComplete(r, status, failed, brief) ==
    ngRow' = [ngRow EXCEPT ![r] = [status |-> status, failed |-> failed,
                                   listed |-> ngWork[r].listed, proposed |-> ngWork[r].proposed,
                                   brief |-> brief]]

\* A plausible slip: the row is closed before the brief is built.
NgAfterCloseBriefs == "walk"

\* Once the row is closed nothing is left to do that may raise.
NgAfterClose == "done"

NgFinish(r) ==
    LET w == ngWork[r] IN
    /\ w.at = "walk" /\ w.i > Len(w.list)
    /\ NgComplete(r, NgStatus(w), w.failed,
                  NgBuild("queue", NgStatus(w), w.failed, w.listed, w.proposed))
    /\ ngWork' = [ngWork EXCEPT ![r].at = NgAfterClose]
    /\ UNCHANGED <<ngKept, ngTask, ngAsk, ngFault>>

\* The brief or its write raises ...
NgFinishRaises(r) ==
    /\ ngWork[r].at = "walk" /\ ngWork[r].i > Len(ngWork[r].list)
    /\ ngFault > 0 /\ ngFault' = ngFault - 1
    /\ ngWork' = [ngWork EXCEPT ![r].at = "fallback"]
    /\ UNCHANGED <<ngRow, ngKept, ngTask, ngAsk>>

\* ... and the run is closed as failed, with a brief of no sections.
NgFallback(r) ==
    LET failed == ngWork[r].failed \cup {"finalization"} IN
    /\ ngWork[r].at = "fallback"
    /\ NgComplete(r, "failed", failed, NgBriefs("fallback", "failed", failed, {}))
    /\ ngWork' = [ngWork EXCEPT ![r].at = "done"]
    /\ UNCHANGED <<ngKept, ngTask, ngAsk, ngFault>>

\* The process dies, or the second write raises too: the row stays as it is.
NgCrash(r) ==
    /\ ngWork[r].at \notin {"idle", "done"}
    /\ ngFault > 0 /\ ngFault' = ngFault - 1
    /\ ngWork' = [ngWork EXCEPT ![r].at = "done"]
    /\ UNCHANGED <<ngRow, ngKept, ngTask, ngAsk>>

\* The proposals of a brief made later: the ones the results carry, or else the
\* ones of the brief it replaces.
NgCollected(proposed, brief) == IF proposed # {} THEN proposed ELSE brief.proposals

NgRead(r) == ngRow[r]

\* generate_morning_brief_for_night_run: refused while the run is running, built
\* from the row that was read ...
NgAskBrief(r) ==
    LET row == NgRead(r) IN
    /\ row.status \notin {"absent", "running"}
    /\ ngAsk[r] = NgNoBrief
    /\ ngAsk' = [ngAsk EXCEPT ![r] = NgBuild("manual", row.status, row.failed, row.listed,
                                             NgCollected(row.proposed, row.brief))]
    /\ UNCHANGED <<ngRow, ngWork, ngKept, ngTask, ngFault>>

\* ... and stored by a later transaction.
NgStoreBrief(r) ==
    /\ ngAsk[r] # NgNoBrief
    /\ ngRow' = [ngRow EXCEPT ![r].brief = ngAsk[r]]
    /\ ngAsk' = [ngAsk EXCEPT ![r] = NgNoBrief]
    /\ UNCHANGED <<ngWork, ngKept, ngTask, ngFault>>
-----------------------------------------------------------------------------
NgNext == \E r \in NgRuns :
    \/ NgStart(r) \/ NgBlock(r) \/ NgExecute(r)
    \/ NgSeek(r) \/ NgMakeTask(r) \/ NgNeed(r) \/ NgCloseTask(r)
    \/ NgRaise(r) \/ NgFinish(r) \/ NgFinishRaises(r) \/ NgFallback(r) \/ NgCrash(r)
    \/ NgAskBrief(r) \/ NgStoreBrief(r)

NgSpec == NgInit /\ [][NgNext]_ngVars
-----------------------------------------------------------------------------
NgClosed(r) == ngRow[r].status \in {"succeeded", "completed_with_attention", "failed"}

\* Whatever classes the caller allows and whatever raises, rows are written only
\* by actions of a class that this run allows, and never by one of R3 or above.
NgWithinLimits ==
    \A r \in NgRuns : \A e \in ngKept[r] :
        NgClass(e[1]) \in ngWork[r].allowed \cap {"R1", "R2"}

\* A closed run accounts for everything it left in the database: each row is
\* listed as a change or its action is reported as failed; only a run without
\* failures and proposals is called succeeded.
NgDisclosed ==
    \A r \in NgRuns : NgClosed(r) =>
        /\ \A e \in ngKept[r] : e \in ngRow[r].listed \/ e[1] \in ngRow[r].failed
        /\ ngRow[r].listed \subseteq ngKept[r]
        /\ ngRow[r].status = "succeeded" => ngRow[r].failed = {} /\ ngRow[r].proposed = {}

\* A brief that is not the fallback says what its run came to and lists every
\* proposal the run prepared, the ones a failed first brief dropped included.
NgBriefTells ==
    \A r \in NgRuns : ngRow[r].brief.by \in {"queue", "manual"} =>
        /\ ngRow[r].brief.status = ngRow[r].status
        /\ ngRow[r].brief.failed = ngRow[r].failed
        /\ ngRow[r].proposed \subseteq ngRow[r].brief.proposals
        /\ <<"missing", "need">> \in ngRow[r].listed => "ui" \in ngRow[r].brief.proposals

\* The outcome of a closed run is final: neither the fallback, a crash nor a
\* brief made later changes its status, its failures or its changes.
NgClosedForGood ==
    [][\A r \in NgRuns : NgClosed(r) =>
          /\ ngRow'[r].status = ngRow[r].status
          /\ ngRow'[r].failed = ngRow[r].failed
          /\ ngRow'[r].listed = ngRow[r].listed]_ngVars

\* A run keeps to its limits and accounts for itself: what it wrote, how it
\* ended and what it proposes are on record, and its outcome is final.
NgSafe == [](NgWithinLimits /\ NgDisclosed /\ NgBriefTells) /\ NgClosedForGood
=============================================================================
