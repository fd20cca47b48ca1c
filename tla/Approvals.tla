------------------------------ MODULE Approvals ------------------------------
(***************************************************************************)
(* Tasks and their approvals (store.py): create_approval, update_approval, *)
(* approve_pending_approval, consume_approval, continue_task_after_approval*)
(* and update_task_status, called by concurrent HTTP requests.             *)
(*                                                                         *)
(* The store opens a transaction with the first INSERT or UPDATE; what a   *)
(* function SELECTs before it, it may act on when it is no longer true.    *)
(* Such a function is two actions, Read and Write.  A function whose       *)
(* UPDATE repeats the conditions (consume, approve_pending) is one.        *)
(***************************************************************************)
EXTENDS FiniteSets, Naturals

CONSTANTS
    Approvals,  \* approval requests
    Tasks,
    TaskOf,     \* the task an approval is attached to, if any
    PlanOf,     \* plan_fingerprint of an approval
    Threads,    \* HTTP requests in progress
    None        \* no approval, no task, no status

ASSUME ApprovalsAssumption ==
    /\ TaskOf \in [Approvals -> Tasks \cup {None}]
    /\ None \notin Approvals \cup Tasks

VARIABLES
    appr,      \* the approvals table
    task,      \* tasks.status
    consumed,  \* how often consume_approval succeeded for an approval
    opened,    \* how often an approval took its waiting task to active (0..2)
    th         \* the request each thread executes

vars == <<appr, task, consumed, opened, th>>

ApprovalStatuses == {"absent", "pending", "approved", "rejected", "expired", "consumed"}
Decisions == {"approved", "rejected", "expired"}

TaskStatuses ==
    {"new", "planned", "active", "waiting_for_approval", "waiting_for_secret",
     "waiting_for_user", "blocked", "review", "done", "rejected"}

\* spent: consumed_at is set; live: expires_at has not passed.
Approval == [status : ApprovalStatuses, spent : BOOLEAN, live : BOOLEAN]

NoRow == [status |-> "absent", spent |-> FALSE, live |-> TRUE]

\* a: the approval it works on, for a move the one that opened the gate;
\* to: the status to be written.
Thread == [pc   : {"idle", "creating", "deciding", "consuming", "opening", "moving"},
           a    : Approvals \cup {None},
           t    : Tasks \cup {None},
           to   : TaskStatuses \cup Decisions \cup {None}]

Idle == [pc |-> "idle", a |-> None, t |-> None, to |-> None]

TypeOK ==
    /\ appr \in [Approvals -> Approval]
    /\ task \in [Tasks -> TaskStatuses]
    /\ consumed \in [Approvals -> Nat]
    /\ opened \in [Approvals -> 0..2]
    /\ th \in [Threads -> Thread]

Init ==
    /\ appr = [a \in Approvals |-> NoRow]
    /\ task \in [Tasks -> {"new", "planned"}]
    /\ consumed = [a \in Approvals |-> 0]
    /\ opened = [a \in Approvals |-> 0]
    /\ th = [i \in Threads |-> Idle]

\* A request that works on an approval.
Doing(pc, a, to) == [pc |-> pc, a |-> a, t |-> None, to |-> to]

\* What the UPDATE statements make of a row, and what time does to it.
Marked(row, status) == [row EXCEPT !.status = status]
Spent(row) == [row EXCEPT !.status = "consumed", !.spent = TRUE]
Lapsed(row) == [row EXCEPT !.live = FALSE]

-----------------------------------------------------------------------------
(* Approvals. *)

\* create_approval: a plan that was rejected is not accepted again ...
CreateRead(i, a) ==
    /\ th[i].pc = "idle"
    /\ appr[a].status = "absent"
    /\ \A b \in Approvals : appr[b].status = "rejected" => PlanOf[b] # PlanOf[a]
    /\ \A j \in Threads : th[j].a = a => th[j].pc # "creating"
    /\ th' = [th EXCEPT ![i] = Doing("creating", a, None)]
    /\ UNCHANGED <<appr, task, consumed, opened>>

\* ... and a new row is inserted.
CreateWrite(i) ==
    /\ th[i].pc = "creating"
    /\ appr' = [appr EXCEPT ![th[i].a] = Marked(appr[th[i].a], "pending")]
    /\ th' = [th EXCEPT ![i] = Idle]
    /\ UNCHANGED <<task, consumed, opened>>

\* update_approval reads a status that may still be decided ...
DecideRead(i, a, choice) ==
    /\ th[i].pc = "idle"
    /\ appr[a].status \notin {"absent", "consumed", "expired"}
    /\ th' = [th EXCEPT ![i] = Doing("deciding", a, choice)]
    /\ UNCHANGED <<appr, task, consumed, opened>>

\* ... and writes the decision; a rejection blocks the task in the same
\* transaction, if there is one and it was not rejected.
DecideWrite(i) ==
    LET a == th[i].a
        t == TaskOf[a]
    IN
    /\ th[i].pc = "deciding"
    /\ appr' = [appr EXCEPT ![a] = Marked(appr[a], th[i].to)]
    /\ task' = IF th[i].to = "rejected" /\ t # None /\ task[t] # "rejected"
               THEN [task EXCEPT ![t] = "blocked"] ELSE task
    /\ th' = [th EXCEPT ![i] = Idle]
    /\ UNCHANGED <<consumed, opened>>

\* approve_pending_approval: one guarded UPDATE.
ApprovePending(a) ==
    /\ appr[a].status = "pending"
    /\ ~appr[a].spent
    /\ appr[a].live
    /\ appr' = [appr EXCEPT ![a] = Marked(appr[a], "approved")]
    /\ UNCHANGED <<task, consumed, opened, th>>

\* Mutant: consumed_at is not part of the condition.
ConsumableAgain(a) ==
    /\ appr[a].status = "approved"
    /\ appr[a].live

\* The condition of the UPDATE in consume_approval.
Consumable(a) ==
    /\ appr[a].status = "approved"
    /\ ~appr[a].spent
    /\ appr[a].live

\* What that UPDATE does.
Spend(a) ==
    /\ appr' = [appr EXCEPT ![a] = Spent(appr[a])]
    /\ consumed' = [consumed EXCEPT ![a] = consumed[a] + 1]

\* consume_approval, called for an action that is not the task's own.
Consume(a) ==
    /\ Consumable(a)
    /\ Spend(a)
    /\ UNCHANGED <<task, opened, th>>

\* expires_at passes.
Expire(a) ==
    /\ appr[a].status # "absent"
    /\ appr[a].live
    /\ appr' = [appr EXCEPT ![a] = Lapsed(appr[a])]
    /\ UNCHANGED <<task, consumed, opened, th>>

-----------------------------------------------------------------------------
(* Tasks. *)

\* BASELINE_TRANSITIONS.
Baseline(from) ==
    CASE from = "new"                  -> {"planned"}
      [] from = "planned"              -> {"active", "waiting_for_approval"}
      [] from = "active"               -> {"waiting_for_approval", "waiting_for_secret",
                                           "waiting_for_user", "blocked", "review"}
      [] from = "review"               -> {"done", "rejected"}
      [] from = "blocked"              -> {"active"}
      [] from = "waiting_for_approval" -> {"active", "blocked"}
      [] from = "waiting_for_secret"   -> {"active"}
      [] from = "waiting_for_user"     -> {"active"}
      [] OTHER                         -> {"planned"}

\* The transition that an approval gates.
Gated(from, to) == from = "waiting_for_approval" /\ to = "active"

\* Mutant: an approved approval that nobody consumed opens the gate.
ValidTransitionEarly(t, from, to, a) ==
    \/ from = to
    \/ /\ to \in Baseline(from)
       /\ Gated(from, to) =>
             a # None /\ appr[a].status \in {"approved", "consumed"} /\ TaskOf[a] \in {t, None}
       /\ to = "waiting_for_approval" =>
             a # None /\ appr[a].status = "pending" /\ TaskOf[a] \in {t, None}

\* _validate_task_transition.  Notes, results, a registered secret and an
\* explicit reopen are the caller's; a caller who does not give them changes
\* nothing.  An approval without a task will do for any.
ValidTransition(t, from, to, a) ==
    \/ from = to
    \/ /\ to \in Baseline(from)
       /\ Gated(from, to) =>
             a # None /\ appr[a].status = "consumed" /\ TaskOf[a] \in {t, None}
       /\ to = "waiting_for_approval" =>
             a # None /\ appr[a].status = "pending" /\ TaskOf[a] \in {t, None}

\* A thread that has read and checked what it needs to write a task status.
Moving(t, to, a) ==
    [pc |-> "moving", a |-> IF Gated(task[t], to) THEN a ELSE None, t |-> t, to |-> to]

\* update_task_status reads the task and validates the transition ...
MoveRead(i, t, to, a) ==
    /\ th[i].pc = "idle"
    /\ ValidTransition(t, task[t], to, a)
    /\ th' = [th EXCEPT ![i] = Moving(t, to, a)]
    /\ UNCHANGED <<appr, task, consumed, opened>>

\* ... and writes the status; opened counts up to two.
MoveWrite(i) ==
    LET m == th[i] IN
    /\ m.pc = "moving"
    /\ task' = [task EXCEPT ![m.t] = m.to]
    /\ opened' = [a \in Approvals |->
                    IF a = m.a /\ opened[a] < 2 THEN opened[a] + 1 ELSE opened[a]]
    /\ th' = [th EXCEPT ![i] = Idle]
    /\ UNCHANGED <<appr, consumed>>

\* continue_task_after_approval looks at approval and task ...
ContinueRead(i, a) ==
    /\ th[i].pc = "idle"
    /\ appr[a].status = "approved"
    /\ TaskOf[a] # None
    /\ task[TaskOf[a]] = "waiting_for_approval"
    /\ th' = [th EXCEPT ![i] = Doing("consuming", a, None)]
    /\ UNCHANGED <<appr, task, consumed, opened>>

\* ... consumes the approval in a transaction of its own ...
ContinueConsume(i) ==
    LET a == th[i].a IN
    /\ th[i].pc = "consuming"
    /\ Consumable(a)
    /\ Spend(a)
    /\ th' = [th EXCEPT ![i] = Doing("opening", a, None)]
    /\ UNCHANGED <<task, opened>>

\* ... and calls update_task_status, which reads everything again.
ContinueOpen(i) ==
    LET a == th[i].a
        t == TaskOf[a]
    IN
    /\ th[i].pc = "opening"
    /\ ValidTransition(t, task[t], "active", a)
    /\ th' = [th EXCEPT ![i] = Moving(t, "active", a)]
    /\ UNCHANGED <<appr, task, consumed, opened>>

\* Somebody else consumed the approval or moved the task, or the process died.
\* What was committed stays.
Abort(i) ==
    /\ th[i].pc # "idle"
    /\ th' = [th EXCEPT ![i] = Idle]
    /\ UNCHANGED <<appr, task, consumed, opened>>

ApprovalRequest(i, a) ==
    \/ CreateRead(i, a)
    \/ \E choice \in Decisions : DecideRead(i, a, choice)
    \/ ContinueRead(i, a)

Transaction(i) ==
    \/ CreateWrite(i)
    \/ DecideWrite(i)
    \/ MoveWrite(i)
    \/ ContinueConsume(i)
    \/ ContinueOpen(i)
    \/ Abort(i)

Next ==
    \/ \E a \in Approvals : ApprovePending(a) \/ Consume(a) \/ Expire(a)
    \/ \E i \in Threads :
          \/ \E a \in Approvals : ApprovalRequest(i, a)
          \/ \E t \in Tasks, to \in TaskStatuses, a \in Approvals \cup {None} :
                MoveRead(i, t, to, a)
          \/ Transaction(i)

Spec == Init /\ [][Next]_vars
-----------------------------------------------------------------------------
(* Properties. *)

\* An approval is consumed once, although a late decision may set a consumed
\* approval back to approved.
ConsumedOnce == \A a \in Approvals : consumed[a] <= 1

\* A task that waits for approval is taken to active only by an approval that
\* was consumed before, whatever happened between the check and the write.
GateOpenedByConsumption ==
    \A a \in Approvals : opened[a] > 0 => consumed[a] > 0

\* "consumed for one bounded action" (consume_approval): a consumed approval
\* takes its task out of waiting once.
OneActionPerApproval == \A a \in Approvals : opened[a] <= 1
=============================================================================
