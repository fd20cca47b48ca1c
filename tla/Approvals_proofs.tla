-------------------------- MODULE Approvals_proofs --------------------------
(***************************************************************************)
(* Proofs about Approvals for every set of approvals, tasks and requests:  *)
(* an approval is consumed once, and the gate of a waiting task is opened  *)
(* only by an approval that was consumed.                                  *)
(***************************************************************************)
EXTENDS Approvals, TLAPS

\* What a request remembers is what its next transaction needs.
Sound(m) ==
    /\ m.pc \in {"creating", "deciding", "consuming", "opening"} => m.a \in Approvals
    /\ m.pc = "deciding" => m.to \in Decisions
    /\ m.pc \in {"consuming", "opening"} => TaskOf[m.a] \in Tasks
    /\ m.pc = "moving" => m.t \in Tasks /\ m.to \in TaskStatuses

\* A move through the gate names an approval that was consumed.
Licensed(m) == m.pc = "moving" /\ m.a \in Approvals => consumed[m.a] = 1

ThreadsSound == \A i \in Threads : Sound(th[i]) /\ Licensed(th[i])

\* consumed_at is set by the one consumption, and an approval has the status
\* consumed, or has opened the gate, only after it.
SpentOnce ==
    \A a \in Approvals :
        /\ consumed[a] \in {0, 1}
        /\ appr[a].spent <=> consumed[a] = 1
        /\ appr[a].status = "consumed" => consumed[a] = 1
        /\ opened[a] > 0 => consumed[a] = 1

ApprovalInv == TypeOK /\ ThreadsSound /\ SpentOnce

-----------------------------------------------------------------------------
\* A status written to a row leaves consumed_at and expires_at alone.
LEMMA MarkedRow ==
    ASSUME NEW row \in Approval, NEW s \in ApprovalStatuses
    PROVE  /\ Marked(row, s) \in Approval
           /\ Marked(row, s).status = s
           /\ Marked(row, s).spent = row.spent
  BY Zenon DEF Marked, Approval

\* The UPDATE of consume_approval.
LEMMA SpentRow ==
    ASSUME NEW row \in Approval
    PROVE  /\ Spent(row) \in Approval
           /\ Spent(row).spent
  <1>1. "consumed" \in ApprovalStatuses
    BY DEF ApprovalStatuses
  <1> QED
    BY <1>1, Zenon DEF Spent, Approval

\* Time does not touch status or consumed_at.
LEMMA LapsedRow ==
    ASSUME NEW row \in Approval
    PROVE  /\ Lapsed(row) \in Approval
           /\ Lapsed(row).status = row.status
           /\ Lapsed(row).spent = row.spent
  BY Zenon DEF Lapsed, Approval

\* An idle request needs nothing.
LEMMA IdleThread == Idle \in Thread /\ Sound(Idle) /\ Licensed(Idle)
  <1>1. Idle \in Thread
    BY DEF Idle, Thread
  <1>2. Idle.pc = "idle"
    BY DEF Idle
  <1> QED
    BY <1>1, <1>2 DEF Sound, Licensed

\* A request that works on an approval.
LEMMA DoingThread ==
    ASSUME NEW a \in Approvals,
           NEW pc \in {"creating", "deciding", "consuming", "opening"},
           NEW to \in Decisions \cup {None},
           pc = "deciding" => to \in Decisions,
           pc \in {"consuming", "opening"} => TaskOf[a] \in Tasks
    PROVE  Doing(pc, a, to) \in Thread /\ Sound(Doing(pc, a, to)) /\ Licensed(Doing(pc, a, to))
  <1>1. Doing(pc, a, to) \in Thread
    BY DEF Doing, Thread
  <1>2. /\ Doing(pc, a, to).pc = pc
        /\ Doing(pc, a, to).a = a
        /\ Doing(pc, a, to).to = to
    BY DEF Doing
  <1> QED
    BY <1>1, <1>2 DEF Sound, Licensed

\* A request that passed _validate_task_transition.
LEMMA MovingThread ==
    ASSUME ApprovalInv, NEW t \in Tasks, NEW to \in TaskStatuses,
           NEW a \in Approvals \cup {None},
           ValidTransition(t, task[t], to, a)
    PROVE  Moving(t, to, a) \in Thread /\ Sound(Moving(t, to, a)) /\ Licensed(Moving(t, to, a))
  <1> DEFINE b == IF Gated(task[t], to) THEN a ELSE None
  <1>1. b \in Approvals \cup {None}
    OBVIOUS
  <1>2. Moving(t, to, a) \in Thread
    BY <1>1 DEF Moving, Thread
  <1>3. /\ Moving(t, to, a).pc = "moving"
        /\ Moving(t, to, a).a = b
        /\ Moving(t, to, a).t = t
        /\ Moving(t, to, a).to = to
    BY DEF Moving
  <1>4. ASSUME b \in Approvals PROVE consumed[b] = 1
    <2>1. Gated(task[t], to) /\ b = a
      BY <1>4, ApprovalsAssumption
    <2>2. appr[a].status = "consumed"
      BY <2>1 DEF ValidTransition, Gated
    <2> QED
      BY <1>4, <2>1, <2>2 DEF ApprovalInv, SpentOnce
  <1> QED
    BY <1>2, <1>3, <1>4 DEF Sound, Licensed

-----------------------------------------------------------------------------
(* What a step can do to the consumption of an approval. *)

\* Nothing: the status may change, but not to consumed.
Kept(a) ==
    /\ consumed'[a] = consumed[a]
    /\ appr'[a].spent = appr[a].spent
    /\ appr'[a].status = "consumed" => appr[a].status = "consumed"

\* The one consumption.
Spends(a) ==
    /\ ~appr[a].spent
    /\ appr'[a].spent
    /\ consumed'[a] = consumed[a] + 1

\* A step after which every request is where it was, or is sound, and that
\* treats every approval in one of these ways keeps the invariant.
LEMMA InvFromParts ==
    ASSUME ApprovalInv,
           appr' \in [Approvals -> Approval],
           task' \in [Tasks -> TaskStatuses],
           consumed' \in [Approvals -> Nat],
           opened' \in [Approvals -> 0..2],
           \A a \in Approvals : Kept(a) \/ Spends(a),
           \A a \in Approvals : opened'[a] > 0 => opened[a] > 0 \/ consumed[a] = 1,
           th' \in [Threads -> Thread],
           \A i \in Threads : Sound(th'[i]) /\ (Licensed(th'[i]) \/ th'[i] = th[i])
    PROVE  ApprovalInv'
  <1>1. TypeOK'
    BY DEF TypeOK
  <1>2. ASSUME NEW a \in Approvals
        PROVE  /\ consumed'[a] \in {0, 1}
               /\ appr'[a].spent <=> consumed'[a] = 1
               /\ appr'[a].status = "consumed" => consumed'[a] = 1
               /\ consumed[a] = 1 => consumed'[a] = 1
    <2>1. /\ consumed[a] \in {0, 1}
          /\ appr[a].spent <=> consumed[a] = 1
          /\ appr[a].status = "consumed" => consumed[a] = 1
      BY DEF ApprovalInv, SpentOnce
    <2>2. CASE Kept(a)
      BY <2>1, <2>2 DEF Kept
    <2>3. CASE Spends(a)
      <3>1. consumed[a] = 0
        BY <2>1, <2>3 DEF Spends
      <3>2. consumed'[a] = 1
        BY <2>3, <3>1 DEF Spends
      <3> QED
        BY <2>3, <3>1, <3>2 DEF Spends
    <2> QED
      BY <2>2, <2>3
  <1>3. ASSUME NEW a \in Approvals, opened'[a] > 0 PROVE consumed'[a] = 1
    <2>1. consumed[a] = 1
      BY <1>3 DEF ApprovalInv, SpentOnce
    <2> QED
      BY <1>2, <2>1
  <1>4. SpentOnce'
    BY <1>2, <1>3 DEF SpentOnce
  <1>5. ThreadsSound'
    <2> SUFFICES ASSUME NEW i \in Threads
                 PROVE  Sound(th'[i]) /\ Licensed(th[i])'
      BY DEF ThreadsSound, Sound
    <2>1. Licensed(th'[i])
      BY DEF ApprovalInv, ThreadsSound
    <2> QED
      BY <1>2, <2>1 DEF Licensed
  <1> QED
    BY <1>1, <1>4, <1>5 DEF ApprovalInv

\* Approvals, tasks and counters stay; one request goes on.
LEMMA ReadStep ==
    ASSUME ApprovalInv, NEW i \in Threads, NEW m \in Thread,
           Sound(m), Licensed(m),
           th' = [th EXCEPT ![i] = m],
           UNCHANGED <<appr, task, consumed, opened>>
    PROVE  ApprovalInv'
  <1>1. th' \in [Threads -> Thread]
    BY DEF ApprovalInv, TypeOK
  <1>2. \A j \in Threads : Sound(th'[j]) /\ (Licensed(th'[j]) \/ th'[j] = th[j])
    BY DEF ApprovalInv, TypeOK, ThreadsSound
  <1>3. \A a \in Approvals : Kept(a)
    BY DEF Kept
  <1> QED
    BY <1>1, <1>2, <1>3, InvFromParts DEF ApprovalInv, TypeOK

\* A transaction that ends the request or leaves the requests alone.
LEMMA WriteStep ==
    ASSUME ApprovalInv,
           appr' \in [Approvals -> Approval],
           task' \in [Tasks -> TaskStatuses],
           consumed' \in [Approvals -> Nat],
           opened' \in [Approvals -> 0..2],
           \A a \in Approvals : Kept(a) \/ Spends(a),
           \A a \in Approvals : opened'[a] > 0 => opened[a] > 0 \/ consumed[a] = 1,
           th' = th \/ \E i \in Threads : th' = [th EXCEPT ![i] = Idle]
    PROVE  ApprovalInv'
  <1>1. th' \in [Threads -> Thread]
    BY IdleThread DEF ApprovalInv, TypeOK
  <1>2. \A j \in Threads : Sound(th'[j]) /\ (Licensed(th'[j]) \/ th'[j] = th[j])
    BY IdleThread DEF ApprovalInv, TypeOK, ThreadsSound
  <1> QED
    BY <1>1, <1>2, InvFromParts

-----------------------------------------------------------------------------
(* One lemma for each group of actions. *)

\* An UPDATE that writes a status other than consumed to one row.
LEMMA MarkKeeps ==
    ASSUME ApprovalInv, NEW b \in Approvals, NEW s \in ApprovalStatuses \ {"consumed"},
           appr' = [appr EXCEPT ![b] = Marked(appr[b], s)],
           UNCHANGED consumed
    PROVE  /\ appr' \in [Approvals -> Approval]
           /\ \A a \in Approvals : Kept(a)
  <1>1. appr \in [Approvals -> Approval]
    BY DEF ApprovalInv, TypeOK
  <1>2. appr[b] \in Approval
    BY <1>1
  <1>3. /\ Marked(appr[b], s) \in Approval
        /\ Marked(appr[b], s).status = s
        /\ Marked(appr[b], s).spent = appr[b].spent
    BY <1>2, MarkedRow
  <1>4. appr' \in [Approvals -> Approval]
    BY <1>1, <1>3
  <1>5. ASSUME NEW a \in Approvals PROVE Kept(a)
    <2>1. CASE a = b
      <3>1. appr'[a] = Marked(appr[b], s)
        BY <1>1, <2>1
      <3> QED
        BY <1>3, <2>1, <3>1 DEF Kept
    <2>2. CASE a # b
      <3>1. appr'[a] = appr[a]
        BY <1>1, <2>2
      <3> QED
        BY <3>1 DEF Kept
    <2> QED
      BY <2>1, <2>2
  <1> QED
    BY <1>4, <1>5

\* The UPDATE of consume_approval spends one approval that was not spent.
LEMMA SpendOnce ==
    ASSUME ApprovalInv, NEW b \in Approvals, Consumable(b), Spend(b)
    PROVE  /\ appr' \in [Approvals -> Approval]
           /\ consumed' \in [Approvals -> Nat]
           /\ \A a \in Approvals : Kept(a) \/ Spends(a)
  <1>1. /\ appr \in [Approvals -> Approval]
        /\ consumed \in [Approvals -> Nat]
    BY DEF ApprovalInv, TypeOK
  <1>2. /\ appr' = [appr EXCEPT ![b] = Spent(appr[b])]
        /\ consumed' = [consumed EXCEPT ![b] = consumed[b] + 1]
    BY DEF Spend
  <1>3. Spent(appr[b]) \in Approval /\ Spent(appr[b]).spent
    BY <1>1, SpentRow
  <1>4. consumed' \in [Approvals -> Nat]
    BY <1>1, <1>2
  <1>5. appr' \in [Approvals -> Approval]
    BY <1>1, <1>2, <1>3
  <1>6. ASSUME NEW a \in Approvals PROVE Kept(a) \/ Spends(a)
    <2>1. CASE a = b
      <3>1. appr'[a] = Spent(appr[b]) /\ consumed'[a] = consumed[a] + 1
        BY <1>1, <1>2, <2>1
      <3> QED
        BY <1>3, <2>1, <3>1 DEF Spends, Consumable
    <2>2. CASE a # b
      <3>1. appr'[a] = appr[a] /\ consumed'[a] = consumed[a]
        BY <1>1, <1>2, <2>2
      <3> QED
        BY <3>1 DEF Kept
    <2> QED
      BY <2>1, <2>2
  <1> QED
    BY <1>4, <1>5, <1>6

\* The UPDATE statements that repeat their conditions, and time.
LEMMA RowActions ==
    ASSUME ApprovalInv, NEW b \in Approvals,
           ApprovePending(b) \/ Consume(b) \/ Expire(b)
    PROVE  ApprovalInv'
  <1>0. TypeOK
    BY DEF ApprovalInv
  <1>1. CASE ApprovePending(b)
    <2>1. /\ appr' = [appr EXCEPT ![b] = Marked(appr[b], "approved")]
          /\ UNCHANGED <<task, consumed, opened, th>>
      BY <1>1 DEF ApprovePending
    <2>2. "approved" \in ApprovalStatuses \ {"consumed"}
      BY DEF ApprovalStatuses
    <2>3. appr' \in [Approvals -> Approval] /\ \A a \in Approvals : Kept(a)
      BY <2>1, <2>2, MarkKeeps
    <2> QED
      BY <1>0, <2>1, <2>3, WriteStep DEF TypeOK
  <1>2. CASE Consume(b)
    <2>1. /\ appr' \in [Approvals -> Approval]
          /\ consumed' \in [Approvals -> Nat]
          /\ \A a \in Approvals : Kept(a) \/ Spends(a)
      BY <1>2, SpendOnce DEF Consume
    <2>2. UNCHANGED <<task, opened, th>>
      BY <1>2 DEF Consume
    <2> QED
      BY <1>0, <2>1, <2>2, WriteStep DEF TypeOK
  <1>3. CASE Expire(b)
    <2>1. /\ appr' = [appr EXCEPT ![b] = Lapsed(appr[b])]
          /\ UNCHANGED <<task, consumed, opened, th>>
      BY <1>3 DEF Expire
    <2>2. /\ appr \in [Approvals -> Approval]
          /\ Lapsed(appr[b]) \in Approval
          /\ Lapsed(appr[b]).status = appr[b].status
          /\ Lapsed(appr[b]).spent = appr[b].spent
      BY <1>0, LapsedRow DEF TypeOK
    <2>3. appr' \in [Approvals -> Approval]
      BY <2>1, <2>2
    <2>4. ASSUME NEW a \in Approvals PROVE Kept(a)
      <3>1. appr'[a] = IF a = b THEN Lapsed(appr[b]) ELSE appr[a]
        BY <2>1, <2>2
      <3> QED
        BY <2>1, <2>2, <3>1 DEF Kept
    <2> QED
      BY <1>0, <2>1, <2>3, <2>4, WriteStep DEF TypeOK
  <1> QED
    BY <1>1, <1>2, <1>3

\* The SELECTs before a transaction.
LEMMA ReadActions ==
    ASSUME ApprovalInv, NEW i \in Threads, NEW b \in Approvals,
           ApprovalRequest(i, b)
    PROVE  ApprovalInv'
  <1>1. CASE CreateRead(i, b)
    BY <1>1, DoingThread, ReadStep DEF CreateRead
  <1>2. ASSUME NEW choice \in Decisions, DecideRead(i, b, choice)
        PROVE  ApprovalInv'
    BY <1>2, DoingThread, ReadStep DEF DecideRead
  <1>3. CASE ContinueRead(i, b)
    <2>1. TaskOf[b] \in Tasks
      BY <1>3, ApprovalsAssumption DEF ContinueRead
    <2> QED
      BY <1>3, <2>1, DoingThread, ReadStep DEF ContinueRead
  <1> QED
    BY <1>1, <1>2, <1>3 DEF ApprovalRequest

\* update_task_status has read and validated.
LEMMA MoveActions ==
    ASSUME ApprovalInv, NEW i \in Threads, NEW t \in Tasks, NEW to \in TaskStatuses,
           NEW a \in Approvals \cup {None}, MoveRead(i, t, to, a)
    PROVE  ApprovalInv'
  <1>1. /\ ValidTransition(t, task[t], to, a)
        /\ th' = [th EXCEPT ![i] = Moving(t, to, a)]
        /\ UNCHANGED <<appr, task, consumed, opened>>
    BY DEF MoveRead
  <1>2. Moving(t, to, a) \in Thread /\ Sound(Moving(t, to, a)) /\ Licensed(Moving(t, to, a))
    BY <1>1, MovingThread
  <1> QED
    BY <1>1, <1>2, ReadStep

\* The transactions of the requests.
LEMMA TransactionStep ==
    ASSUME ApprovalInv, NEW i \in Threads, Transaction(i)
    PROVE  ApprovalInv'
  <1>0. TypeOK /\ Sound(th[i]) /\ Licensed(th[i])
    BY DEF ApprovalInv, ThreadsSound
  <1>1. CASE CreateWrite(i)
    <2>1. /\ appr' = [appr EXCEPT ![th[i].a] = Marked(appr[th[i].a], "pending")]
          /\ th[i].a \in Approvals
          /\ th' = [th EXCEPT ![i] = Idle]
          /\ UNCHANGED <<task, consumed, opened>>
      BY <1>0, <1>1 DEF CreateWrite, Sound
    <2>2. "pending" \in ApprovalStatuses \ {"consumed"}
      BY DEF ApprovalStatuses
    <2>3. appr' \in [Approvals -> Approval] /\ \A a \in Approvals : Kept(a)
      BY <2>1, <2>2, MarkKeeps
    <2> QED
      BY <1>0, <2>1, <2>3, WriteStep DEF TypeOK
  <1>2. CASE DecideWrite(i)
    <2>1. /\ th[i].a \in Approvals
          /\ th[i].to \in Decisions
      BY <1>0, <1>2 DEF DecideWrite, Sound
    <2>2. /\ appr' = [appr EXCEPT ![th[i].a] = Marked(appr[th[i].a], th[i].to)]
          /\ th' = [th EXCEPT ![i] = Idle]
          /\ UNCHANGED <<consumed, opened>>
      BY <1>2 DEF DecideWrite
    <2>3. th[i].to \in ApprovalStatuses \ {"consumed"}
      BY <2>1 DEF ApprovalStatuses, Decisions
    <2>4. appr' \in [Approvals -> Approval] /\ \A a \in Approvals : Kept(a)
      BY <2>1, <2>2, <2>3, MarkKeeps
    <2>5. "blocked" \in TaskStatuses
      BY DEF TaskStatuses
    <2>6. task' \in [Tasks -> TaskStatuses]
      BY <1>0, <1>2, <2>5 DEF DecideWrite, TypeOK
    <2> QED
      BY <1>0, <2>2, <2>4, <2>6, WriteStep DEF TypeOK
  <1>3. CASE MoveWrite(i)
    <2>1. /\ th[i].pc = "moving"
          /\ task' = [task EXCEPT ![th[i].t] = th[i].to]
          /\ opened' = [a \in Approvals |-> IF a = th[i].a /\ opened[a] < 2
                                            THEN opened[a] + 1 ELSE opened[a]]
          /\ th' = [th EXCEPT ![i] = Idle]
          /\ UNCHANGED <<appr, consumed>>
      BY <1>3 DEF MoveWrite
    <2>2. task' \in [Tasks -> TaskStatuses]
      BY <1>0, <2>1 DEF TypeOK, Sound
    <2>3. opened' \in [Approvals -> 0..2]
      BY <1>0, <2>1 DEF TypeOK
    <2>4. \A a \in Approvals : opened'[a] > 0 => opened[a] > 0 \/ consumed[a] = 1
      BY <1>0, <2>1 DEF Licensed
    <2>5. \A a \in Approvals : Kept(a)
      BY <2>1 DEF Kept
    <2> QED
      BY <1>0, <2>1, <2>2, <2>3, <2>4, <2>5, WriteStep DEF TypeOK
  <1>4. CASE ContinueConsume(i)
    <2>1. /\ th[i].a \in Approvals
          /\ TaskOf[th[i].a] \in Tasks
          /\ Consumable(th[i].a)
          /\ Spend(th[i].a)
          /\ th' = [th EXCEPT ![i] = Doing("opening", th[i].a, None)]
          /\ UNCHANGED <<task, opened>>
      BY <1>0, <1>4 DEF ContinueConsume, Sound
    <2>2. /\ appr' \in [Approvals -> Approval]
          /\ consumed' \in [Approvals -> Nat]
          /\ \A a \in Approvals : Kept(a) \/ Spends(a)
      BY <2>1, SpendOnce
    <2>3. /\ Doing("opening", th[i].a, None) \in Thread
          /\ Sound(Doing("opening", th[i].a, None))
          /\ Licensed(Doing("opening", th[i].a, None))
      BY <2>1, DoingThread
    <2>4. th' \in [Threads -> Thread]
      BY <1>0, <2>1, <2>3 DEF TypeOK
    <2>5. \A j \in Threads : Sound(th'[j]) /\ (Licensed(th'[j]) \/ th'[j] = th[j])
      BY <1>0, <2>1, <2>3 DEF TypeOK, ApprovalInv, ThreadsSound
    <2> QED
      BY <1>0, <2>1, <2>2, <2>4, <2>5, InvFromParts DEF TypeOK
  <1>5. CASE ContinueOpen(i)
    <2>1. /\ th[i].a \in Approvals
          /\ ValidTransition(TaskOf[th[i].a], task[TaskOf[th[i].a]], "active", th[i].a)
          /\ th' = [th EXCEPT ![i] = Moving(TaskOf[th[i].a], "active", th[i].a)]
          /\ UNCHANGED <<appr, task, consumed, opened>>
      BY <1>0, <1>5 DEF ContinueOpen, Sound
    <2>2. TaskOf[th[i].a] \in Tasks
      BY <1>0, <1>5 DEF ContinueOpen, Sound
    <2>3. "active" \in TaskStatuses
      BY DEF TaskStatuses
    <2> DEFINE m == Moving(TaskOf[th[i].a], "active", th[i].a)
    <2>4. m \in Thread /\ Sound(m) /\ Licensed(m)
      BY <2>1, <2>2, <2>3, MovingThread
    <2> QED
      BY <2>1, <2>4, ReadStep
  <1>6. CASE Abort(i)
    BY <1>6, IdleThread, ReadStep DEF Abort
  <1> QED
    BY <1>1, <1>2, <1>3, <1>4, <1>5, <1>6 DEF Transaction

\* No approval has been asked for yet.
LEMMA ApprovalInvInit == Init => ApprovalInv
  <1> SUFFICES ASSUME Init PROVE ApprovalInv
    OBVIOUS
  <1>1. /\ NoRow \in Approval
        /\ ~NoRow.spent
        /\ NoRow.status = "absent"
    <2>1. "absent" \in ApprovalStatuses
      BY DEF ApprovalStatuses
    <2> QED
      BY <2>1, Zenon DEF NoRow, Approval
  <1>2. {"new", "planned"} \subseteq TaskStatuses
    BY DEF TaskStatuses
  <1>3. TypeOK
    BY <1>1, <1>2, IdleThread DEF Init, TypeOK
  <1>4. ThreadsSound
    BY IdleThread DEF Init, ThreadsSound
  <1>5. SpentOnce
    BY <1>1 DEF Init, SpentOnce
  <1> QED
    BY <1>3, <1>4, <1>5 DEF ApprovalInv

\* Every step keeps it.
LEMMA ApprovalInvStep == ApprovalInv /\ [Next]_vars => ApprovalInv'
  <1> SUFFICES ASSUME ApprovalInv, [Next]_vars PROVE ApprovalInv'
    OBVIOUS
  <1>1. CASE UNCHANGED vars
    BY <1>1 DEF vars, ApprovalInv, TypeOK, ThreadsSound, SpentOnce, Sound, Licensed
  <1>2. CASE Next
    BY <1>2, RowActions, ReadActions, MoveActions, TransactionStep DEF Next
  <1> QED
    BY <1>1, <1>2

-----------------------------------------------------------------------------
\* The tables and the requests keep their types.
THEOREM ApprovalTypeCorrect == Spec => []TypeOK
  <1>1. ApprovalInv => TypeOK
    BY DEF ApprovalInv
  <1> QED
    BY <1>1, ApprovalInvInit, ApprovalInvStep, PTL DEF Spec

\* consume_approval succeeds at most once for an approval, although a decision
\* that read it before may set its status back to approved.
THEOREM SingleUse == Spec => []ConsumedOnce
  <1>1. ApprovalInv => ConsumedOnce
    BY DEF ApprovalInv, SpentOnce, ConsumedOnce
  <1> QED
    BY <1>1, ApprovalInvInit, ApprovalInvStep, PTL DEF Spec

\* Whatever is decided, consumed or moved between the check of update_task_status
\* and its write, a waiting task was taken to active by a consumed approval.
THEOREM GateNeedsConsumption == Spec => []GateOpenedByConsumption
  <1>1. ApprovalInv => GateOpenedByConsumption
    BY DEF ApprovalInv, SpentOnce, GateOpenedByConsumption
  <1> QED
    BY <1>1, ApprovalInvInit, ApprovalInvStep, PTL DEF Spec
=============================================================================
