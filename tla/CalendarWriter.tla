--------------------------- MODULE CalendarWriter ---------------------------
(***************************************************************************)
(* The calendar writer (calendar_writer.py): owner commands that change    *)
(* the owner's Google calendar.  Chat threads call execute, perhaps again  *)
(* for the same request; the worker's reconcile runs commands that waited  *)
(* for write access, looks after commands whose answer was lost, and tells *)
(* the owner.  One file lock keeps mutations apart; a crash drops it.      *)
(*                                                                         *)
(* Between two commits anything may happen: a crash, a lost answer, an     *)
(* answer that is lost while Google applies the change now or later, an    *)
(* edit by the owner.                                                      *)
(***************************************************************************)
EXTENDS Integers

CONSTANTS
    CalRequests,   \* owner commands, one request UUID each
    CalThreads,    \* chat threads
    CalWorker,     \* the worker process
    CalChecks,     \* the look-ups of an uncertain command (5)
    CalFaults,     \* bound: crashes, lost answers and manual edits
    CalNone

ASSUME CalAssumption ==
    /\ CalWorker \notin CalThreads
    /\ CalChecks \in Nat /\ CalFaults \in Nat
    /\ CalNone \notin CalRequests \cup CalThreads \cup {CalWorker}

VARIABLES
    calOp,        \* calendar_operations
    calTask,      \* the task of the command
    calLock,      \* the holder of the .calendar.lock
    calPc,        \* where each process is, and on which request
    calWritable,  \* has Google granted write access
    calSent,      \* mutations sent for a request
    calGoogle,    \* is the event as the request wants it: no, late, yes
    calHeld,      \* was it ever
    calTold,      \* messages published to the owner about the request
    calFaults

calVars == <<calOp, calTask, calLock, calPc, calWritable, calSent, calGoogle,
             calHeld, calTold, calFaults>>

CalProcs == CalThreads \cup {CalWorker}
CalSteps == {"look", "gate", "mark", "send", "confirm", "finish", "done",
             "failed", "recover", "recovered", "publish", "delivered"}
CalIdle == [pc |-> "idle", r |-> CalNone]
CalAt(pc, r) == [pc |-> pc, r |-> r]

\* "failed" is a status execute knows of but never writes.
CalRow == [st : {"none", "ready", "waiting", "sending", "completed"},
           deliver : BOOLEAN, checks : 0..CalChecks, due : BOOLEAN]

CalTypeOK ==
    /\ calOp \in [CalRequests -> CalRow]
    /\ calTask \in [CalRequests -> {"none", "active", "blocked", "review", "done"}]
    /\ calLock \in CalProcs \cup {CalNone}
    /\ calPc \in [CalProcs -> {CalIdle} \cup [pc : CalSteps, r : CalRequests]]
    /\ calWritable \in BOOLEAN
    /\ calSent \in [CalRequests -> 0..2]
    /\ calGoogle \in [CalRequests -> {"no", "late", "yes"}]
    /\ calHeld \in [CalRequests -> BOOLEAN]
    /\ calTold \in [CalRequests -> 0..2]
    /\ calFaults \in 0..CalFaults

CalInit ==
    /\ calOp = [r \in CalRequests |->
          [st |-> "none", deliver |-> FALSE, checks |-> 0, due |-> TRUE]]
    /\ calTask = [r \in CalRequests |-> "none"]
    /\ calLock = CalNone
    /\ calPc = [p \in CalProcs |-> CalIdle]
    /\ calWritable \in BOOLEAN
    /\ calSent = [r \in CalRequests |-> 0]
    /\ calGoogle = [r \in CalRequests |-> "no"]
    /\ calHeld = [r \in CalRequests |-> FALSE]
    /\ calTold = [r \in CalRequests |-> 0]
    /\ calFaults = 0

CalFault == calFaults < CalFaults /\ calFaults' = calFaults + 1
CalGo(p, pc) == calPc' = [calPc EXCEPT ![p] = CalAt(pc, calPc[p].r)]
CalSet(r, st) == calOp' = [calOp EXCEPT ![r].st = st]
CalMove(r, status) == calTask' = [calTask EXCEPT ![r] = status]

\* A process leaves execute: the lock is released, and reconcile goes on to
\* publish when its execute completed the command.
CalLeave(p, pc) ==
    /\ calLock' = CalNone
    /\ calPc' = [calPc EXCEPT ![p] = IF p = CalWorker /\ pc = "publish"
                                     THEN CalAt("publish", calPc[p].r) ELSE CalIdle]

-----------------------------------------------------------------------------
(* execute, under the lock. *)

\* A chat thread runs a command, perhaps one that was run before.
CalExecute(p, r) ==
    /\ calPc[p] = CalIdle /\ calLock = CalNone
    /\ calLock' = p
    /\ calPc' = [calPc EXCEPT ![p] = CalAt("look", r)]
    /\ UNCHANGED <<calOp, calTask, calWritable, calSent, calGoogle, calHeld,
                   calTold, calFaults>>

\* Mutant: a command whose answer was lost is sent again.
CalLookResends(p) ==
    LET r == calPc[p].r IN
    /\ calPc[p].pc = "look"
    /\ IF calOp[r].st = "completed" THEN CalLeave(p, "publish")
       ELSE CalGo(p, "gate") /\ UNCHANGED calLock
    /\ IF calOp[r].st = "none" THEN CalSet(r, "ready") /\ CalMove(r, "active")
       ELSE UNCHANGED <<calOp, calTask>>
    /\ UNCHANGED <<calWritable, calSent, calGoogle, calHeld, calTold, calFaults>>

\* The row decides: a completed command returns its result, a sending one is
\* unknown and not sent again, a new one gets a task and a row.
CalLook(p) ==
    LET r == calPc[p].r IN
    /\ calPc[p].pc = "look"
    /\ CASE calOp[r].st = "completed" -> CalLeave(p, "publish")
         [] calOp[r].st = "sending"   -> CalLeave(p, "unknown")
         [] OTHER                     -> CalGo(p, "gate") /\ UNCHANGED calLock
    /\ IF calOp[r].st = "none" THEN CalSet(r, "ready") /\ CalMove(r, "active")
       ELSE UNCHANGED <<calOp, calTask>>
    /\ UNCHANGED <<calWritable, calSent, calGoogle, calHeld, calTold, calFaults>>

\* Without write access the command waits, its task is blocked; with it the
\* task is active.
CalGate(p) ==
    LET r == calPc[p].r IN
    /\ calPc[p].pc = "gate"
    /\ \/ /\ calWritable
          /\ CalMove(r, IF calTask[r] = "blocked" THEN "active" ELSE calTask[r])
          /\ CalGo(p, "mark")
          /\ UNCHANGED <<calOp, calLock>>
       \/ /\ ~calWritable
          /\ CalMove(r, IF calTask[r] = "active" THEN "blocked" ELSE calTask[r])
          /\ calOp' = [calOp EXCEPT ![r].st = "waiting", ![r].deliver = TRUE]
          /\ CalLeave(p, "waiting")
    /\ UNCHANGED <<calWritable, calSent, calGoogle, calHeld, calTold, calFaults>>

\* The decision to send is committed before anything is sent.
CalMark(p) ==
    /\ calPc[p].pc = "mark"
    /\ CalSet(calPc[p].r, "sending")
    /\ CalGo(p, "send")
    /\ UNCHANGED <<calTask, calLock, calWritable, calSent, calGoogle, calHeld,
                   calTold, calFaults>>

CalApplied(r) ==
    /\ calGoogle' = [calGoogle EXCEPT ![r] = "yes"]
    /\ calHeld' = [calHeld EXCEPT ![r] = TRUE]

\* The mutation: answered; or without an answer, applied now, later or never;
\* or the event may not be changed and nothing is sent.
CalSend(p) ==
    LET r == calPc[p].r IN
    /\ calPc[p].pc = "send"
    /\ \/ /\ calSent' = [calSent EXCEPT ![r] = @ + 1]
          /\ \/ CalApplied(r) /\ CalGo(p, "confirm") /\ UNCHANGED calFaults
             \/ CalApplied(r) /\ CalGo(p, "failed") /\ CalFault
             \/ /\ calGoogle' \in {calGoogle, [calGoogle EXCEPT ![r] = "late"]}
                /\ CalGo(p, "failed") /\ CalFault /\ UNCHANGED calHeld
       \/ CalFault /\ CalGo(p, "failed") /\ UNCHANGED <<calSent, calGoogle, calHeld>>
    /\ UNCHANGED <<calOp, calTask, calLock, calWritable, calTold>>

\* The read-back finds what the command asked for.
CalRead(r) == calGoogle[r] = "yes"

\* The event is read back; the task follows, first to review, then to done.
CalConfirm(p) ==
    LET r == calPc[p].r IN
    /\ calPc[p].pc = "confirm"
    /\ IF CalRead(r) THEN CalMove(r, "review") /\ CalGo(p, "finish")
       ELSE CalGo(p, "failed") /\ UNCHANGED calTask
    /\ UNCHANGED <<calOp, calLock, calWritable, calSent, calGoogle, calHeld,
                   calTold, calFaults>>

CalFinish(p) ==
    /\ calPc[p].pc = "finish"
    /\ CalMove(calPc[p].r, "done") /\ CalGo(p, "done")
    /\ UNCHANGED <<calOp, calLock, calWritable, calSent, calGoogle, calHeld,
                   calTold, calFaults>>

CalComplete(p) ==
    /\ calPc[p].pc = "done"
    /\ CalSet(calPc[p].r, "completed") /\ CalLeave(p, "publish")
    /\ UNCHANGED <<calTask, calWritable, calSent, calGoogle, calHeld, calTold,
                   calFaults>>

\* Any exception: the task is blocked, the row stays "sending".
CalFail(p) ==
    LET r == calPc[p].r IN
    /\ calPc[p].pc = "failed"
    /\ CalMove(r, IF calTask[r] = "active" THEN "blocked" ELSE calTask[r])
    /\ CalSet(r, "sending") /\ CalLeave(p, "unknown")
    /\ UNCHANGED <<calWritable, calSent, calGoogle, calHeld, calTold, calFaults>>

-----------------------------------------------------------------------------
(* reconcile, in the worker. *)

\* The order in which reconcile takes the rows (3: not at all).
CalRank(row) ==
    CASE row.st = "completed" /\ row.deliver                      -> 0
      [] row.st = "waiting"                                       -> 1
      [] row.st = "sending" /\ row.due /\ row.checks < CalChecks  -> 2
      [] OTHER                                                    -> 3

\* The first row by status.
CalFirst(r, rank) ==
    /\ calPc[CalWorker] = CalIdle /\ CalRank(calOp[r]) = rank
    /\ \A s \in CalRequests : rank <= CalRank(calOp[s])

\* A result to deliver.
CalPickDone(r) ==
    /\ CalFirst(r, 0)
    /\ calPc' = [calPc EXCEPT ![CalWorker] = CalAt("publish", r)]
    /\ UNCHANGED <<calOp, calTask, calLock, calWritable, calSent, calGoogle,
                   calHeld, calTold, calFaults>>

\* A command that waited: execute, which waits for the lock.
CalPickWaiting(r) ==
    /\ CalFirst(r, 1) /\ calWritable
    /\ calLock = CalNone /\ calLock' = CalWorker
    /\ calPc' = [calPc EXCEPT ![CalWorker] = CalAt("look", r)]
    /\ UNCHANGED <<calOp, calTask, calWritable, calSent, calGoogle, calHeld,
                   calTold, calFaults>>

\* A command without an answer: the look-up, unless the lock is taken.
CalPickLost(r) ==
    /\ CalFirst(r, 2) /\ calWritable
    /\ calLock = CalNone /\ calLock' = CalWorker
    /\ calPc' = [calPc EXCEPT ![CalWorker] = CalAt("recover", r)]
    /\ calOp' = [calOp EXCEPT ![r].checks = @ + 1, ![r].due = FALSE]
    /\ UNCHANGED <<calTask, calWritable, calSent, calGoogle, calHeld, calTold,
                   calFaults>>

\* Mutant: the look-up leaves the task alone.
CalRecoveredTaskLeft(task) == task

\* The task after a late confirmation, from wherever the crash left it.
CalRecoveredTask(task) ==
    IF task \in {"blocked", "active", "review"} THEN "done" ELSE task

\* _recover only looks; a confirmed command is completed.
CalRecover ==
    LET r == calPc[CalWorker].r IN
    /\ calPc[CalWorker].pc = "recover"
    /\ IF CalRead(r)
       THEN CalMove(r, CalRecoveredTask(calTask[r])) /\ CalGo(CalWorker, "recovered")
            /\ UNCHANGED calLock
       ELSE CalLeave(CalWorker, "unknown") /\ UNCHANGED calTask
    /\ UNCHANGED <<calOp, calWritable, calSent, calGoogle, calHeld, calTold,
                   calFaults>>

CalRecoverWrite ==
    LET r == calPc[CalWorker].r IN
    /\ calPc[CalWorker].pc = "recovered"
    /\ calOp' = [calOp EXCEPT ![r].st = "completed", ![r].deliver = TRUE]
    /\ CalLeave(CalWorker, "publish")
    /\ UNCHANGED <<calTask, calWritable, calSent, calGoogle, calHeld, calTold,
                   calFaults>>

\* publish inserts a message unless the event key has one.
CalSay(told) == IF told = 0 THEN 1 ELSE told

CalPublish ==
    /\ calPc[CalWorker].pc = "publish"
    /\ calTold' = [calTold EXCEPT ![calPc[CalWorker].r] = CalSay(@)]
    /\ CalGo(CalWorker, "delivered")
    /\ UNCHANGED <<calOp, calTask, calLock, calWritable, calSent, calGoogle,
                   calHeld, calFaults>>

CalDelivered ==
    /\ calPc[CalWorker].pc = "delivered"
    /\ calOp' = [calOp EXCEPT ![calPc[CalWorker].r].deliver = FALSE]
    /\ calPc' = [calPc EXCEPT ![CalWorker] = CalIdle]
    /\ UNCHANGED <<calTask, calLock, calWritable, calSent, calGoogle, calHeld,
                   calTold, calFaults>>

-----------------------------------------------------------------------------
(* The world. *)

CalCrash(p) ==
    /\ calPc[p] # CalIdle /\ CalFault
    /\ calPc' = [calPc EXCEPT ![p] = CalIdle]
    /\ calLock' = IF calLock = p THEN CalNone ELSE calLock
    /\ UNCHANGED <<calOp, calTask, calWritable, calSent, calGoogle, calHeld, calTold>>

CalGrant ==
    /\ ~calWritable /\ calWritable' = TRUE
    /\ UNCHANGED <<calOp, calTask, calLock, calPc, calSent, calGoogle, calHeld,
                   calTold, calFaults>>

\* A mutation without an answer is applied late.
CalArrive(r) ==
    /\ calGoogle[r] = "late" /\ CalApplied(r)
    /\ UNCHANGED <<calOp, calTask, calLock, calPc, calWritable, calSent, calTold,
                   calFaults>>

\* The owner changes the event by hand.
CalEdit(r) ==
    /\ calGoogle[r] = "yes" /\ CalFault
    /\ calGoogle' = [calGoogle EXCEPT ![r] = "no"]
    /\ UNCHANGED <<calOp, calTask, calLock, calPc, calWritable, calSent, calHeld,
                   calTold>>

\* A minute has passed since the last look-up.
CalMinute(r) ==
    /\ ~calOp[r].due
    /\ calOp' = [calOp EXCEPT ![r].due = TRUE]
    /\ UNCHANGED <<calTask, calLock, calPc, calWritable, calSent, calGoogle,
                   calHeld, calTold, calFaults>>

CalWithin(p) ==
    \/ CalLook(p) \/ CalGate(p) \/ CalMark(p) \/ CalSend(p) \/ CalConfirm(p)
    \/ CalFinish(p) \/ CalComplete(p) \/ CalFail(p)

CalReconcile ==
    \/ \E r \in CalRequests : CalPickDone(r) \/ CalPickWaiting(r) \/ CalPickLost(r)
    \/ CalRecover \/ CalRecoverWrite \/ CalPublish \/ CalDelivered
    \/ CalWithin(CalWorker)

CalNext ==
    \/ \E p \in CalThreads, r \in CalRequests : CalExecute(p, r)
    \/ \E p \in CalThreads : CalWithin(p)
    \/ CalReconcile
    \/ \E p \in CalProcs : CalCrash(p)
    \/ CalGrant
    \/ \E r \in CalRequests : CalArrive(r) \/ CalEdit(r) \/ CalMinute(r)

CalSpec == CalInit /\ [][CalNext]_calVars

\* The worker's loop runs on, a call of execute goes on to its end, and a
\* process that waits for the file lock gets it.
CalFairness ==
    /\ WF_calVars(CalReconcile)
    /\ SF_calVars(\E r \in CalRequests : CalPickWaiting(r))
    /\ \A p \in CalThreads : WF_calVars(CalWithin(p))

-----------------------------------------------------------------------------
\* The stages of OneShot.
CalStage == [r \in CalRequests |->
    CASE calOp[r].st = "sending"   -> "claimed"
      [] calOp[r].st = "completed" -> "confirmed"
      [] OTHER                     -> "open"]

CalEffect == INSTANCE OneShot WITH
    Items <- CalRequests, stage <- CalStage, sent <- calSent, world <- calHeld

\* A command changes the calendar at most once and is called completed only
\* when the wanted state was read back, over crashes, lost answers, replays
\* by chat and the worker's own attempts.
CalOneShot == CalEffect!Spec

\* A completed command has a finished task, wherever a crash interrupted the
\* updates of task and row.
CalTaskDone == \A r \in CalRequests : calOp[r].st = "completed" => calTask[r] = "done"

\* The owner is told once, and only of a completed command.
CalToldOnce == \A r \in CalRequests :
    calTold[r] <= 1 /\ (calTold[r] = 1 => calOp[r].st = "completed")

\* A command that waits for write access is run once Google grants it, and a
\* result that is to be delivered reaches the owner.
CalDelivers ==
    /\ \A r \in CalRequests : (calOp[r].st = "waiting" /\ calWritable)
          ~> (calOp[r].st \in {"sending", "completed"})
    /\ []<>(\A r \in CalRequests :
                calOp[r].st = "completed" /\ calOp[r].deliver => calTold[r] = 1)

\* A command is one effect, and what the rows say is true: a completed command has
\* a finished task, and the owner is told once, of completed commands only.
CalSafe == CalOneShot /\ [](CalTypeOK /\ CalTaskDone /\ CalToldOnce)
=============================================================================
