---------------------------- MODULE PersonalTasks ----------------------------
(***************************************************************************)
(* Writing, planning and analysis the owner asks for in chat               *)
(* (personal_tasks.py).  A chat thread makes the task, queues a model job  *)
(* and activates the task; the local worker, whenever it wakes, moves the  *)
(* task of a finished job on and delivers the text.  Both read a status    *)
(* before they change it, the owner moves tasks too, and either process    *)
(* may die between two writes.  The job itself is the work queue's.        *)
(***************************************************************************)
EXTENDS Naturals, Sequences

CONSTANTS
    PtRequests,  \* request ids
    PtFaults,    \* bound: crashes and moves of the owner
    PtNone       \* no request

ASSUME PtAssumption ==
    PtFaults \in Nat /\ PtNone \notin PtRequests \cup {"text", "empty", "failed", "cancelled"}

VARIABLES
    ptTask,   \* the task's status
    ptJob,    \* the job: its status, and "text" when it succeeded with text
    ptChat,   \* where the request's chat thread is
    ptRec,    \* the reconciler: the row it read and what is left to do
    ptSent,   \* personal_task_results: what was delivered
    ptMoved,  \* tasks the owner has moved
    ptFault
ptVars == <<ptTask, ptJob, ptChat, ptRec, ptSent, ptMoved, ptFault>>
-----------------------------------------------------------------------------
PtIdle == [p |-> PtNone, todo |-> <<>>]

PtInit ==
    /\ ptTask = [p \in PtRequests |-> "absent"]
    /\ ptJob = [p \in PtRequests |-> "absent"]
    /\ ptChat = [p \in PtRequests |-> "idle"]
    /\ ptRec = PtIdle
    /\ ptSent = [p \in PtRequests |-> PtNone]
    /\ ptMoved = {}
    /\ ptFault = PtFaults

\* update_task_status takes these steps and refuses the others.
PtValid == {<<"new", "planned">>, <<"planned", "active">>, <<"active", "review">>,
            <<"active", "blocked">>, <<"active", "waiting">>, <<"waiting", "active">>,
            <<"review", "done">>}
PtAccepts(p, s) == ptTask[p] = s \/ <<ptTask[p], s>> \in PtValid
-----------------------------------------------------------------------------
(* execute: repeated for the same request it goes on where it stopped *)
PtFirst(p) ==
    /\ ptChat[p] = "idle" /\ ptJob[p] = "absent"
    /\ ptTask' = [ptTask EXCEPT ![p] = IF @ = "absent" THEN "new" ELSE @]
    /\ ptChat' = [ptChat EXCEPT ![p] = "plan"]
    /\ UNCHANGED <<ptJob, ptRec, ptSent, ptMoved, ptFault>>

PtPlan(p) ==
    /\ ptChat[p] = "plan"
    /\ ptTask' = [ptTask EXCEPT ![p] = IF @ = "new" THEN "planned" ELSE @]
    /\ ptChat' = [ptChat EXCEPT ![p] = "enqueue"]
    /\ UNCHANGED <<ptJob, ptRec, ptSent, ptMoved, ptFault>>

PtEnqueue(p) ==
    /\ ptChat[p] = "enqueue"
    /\ ptJob' = [ptJob EXCEPT ![p] = "queued"]
    /\ ptChat' = [ptChat EXCEPT ![p] = "look"]
    /\ UNCHANGED <<ptTask, ptRec, ptSent, ptMoved, ptFault>>

\* The status is read ...
PtLook(p) ==
    /\ ptChat[p] = "look"
    /\ ptChat' = [ptChat EXCEPT ![p] = IF ptTask[p] = "planned" THEN "activate" ELSE "end"]
    /\ UNCHANGED <<ptTask, ptJob, ptRec, ptSent, ptMoved, ptFault>>

\* ... and changed, unless the worker was faster: then execute raises.
PtActivate(p) ==
    /\ ptChat[p] = "activate"
    /\ ptTask' = [ptTask EXCEPT ![p] = IF PtAccepts(p, "active") THEN "active" ELSE @]
    /\ ptChat' = [ptChat EXCEPT ![p] = "end"]
    /\ UNCHANGED <<ptJob, ptRec, ptSent, ptMoved, ptFault>>

\* The work queue runs the job to an end, or the owner cancels it (control).
PtJobEnds(p) ==
    /\ ptJob[p] = "queued"
    /\ \E s \in {"text", "empty", "failed", "cancelled"} : ptJob' = [ptJob EXCEPT ![p] = s]
    /\ UNCHANGED <<ptTask, ptChat, ptRec, ptSent, ptMoved, ptFault>>
-----------------------------------------------------------------------------
(* reconcile *)

PtRows == {p \in PtRequests : /\ ptJob[p] \in {"text", "empty", "failed", "cancelled"}
                              /\ ptSent[p] = PtNone}

\* The steps that finish a task with text, from the status that was read; a
\* status outside the table is left alone.
PtSequence(status) ==
    LET chain == <<"new", "planned", "active", "review", "done">> IN
    IF \E i \in 1..5 : chain[i] = status
    THEN SubSeq(chain, 1 + (CHOOSE i \in 1..5 : chain[i] = status), 5)
    ELSE <<>>

PtMoves(p) ==
    IF ptJob[p] = "text" THEN PtSequence(ptTask[p])
    ELSE IF ptJob[p] = "failed" /\ ptTask[p] = "active" THEN <<"blocked">> ELSE <<>>

\* A plausible slip: the text is delivered before the task is moved.
PtTodoSendsFirst(p) == <<"publish">> \o PtMoves(p)

PtTodo(p) == PtMoves(p) \o <<"publish">>

PtRead(p) ==
    /\ ptRec = PtIdle
    /\ p \in PtRows
    /\ ptRec' = [p |-> p, todo |-> PtTodo(p)]
    /\ UNCHANGED <<ptTask, ptJob, ptChat, ptSent, ptMoved, ptFault>>

PtRest == IF Len(ptRec.todo) = 1 THEN PtIdle ELSE [ptRec EXCEPT !.todo = Tail(@)]

\* A refused step ends the worker's pass; the row is read again later.
PtMove ==
    LET p == ptRec.p
        s == Head(ptRec.todo) IN
    /\ ptRec # PtIdle /\ s # "publish"
    /\ IF PtAccepts(p, s) THEN ptTask' = [ptTask EXCEPT ![p] = s] /\ ptRec' = PtRest
       ELSE ptRec' = PtIdle /\ UNCHANGED ptTask
    /\ UNCHANGED <<ptJob, ptChat, ptSent, ptMoved, ptFault>>

\* _publish: message and mark in one transaction.
PtPublish ==
    LET p == ptRec.p IN
    /\ ptRec # PtIdle /\ Head(ptRec.todo) = "publish"
    /\ ptSent' = [ptSent EXCEPT ![p] = ptJob[p]]
    /\ ptRec' = PtRest
    /\ UNCHANGED <<ptTask, ptJob, ptChat, ptMoved, ptFault>>

PtCrash ==
    /\ ptFault > 0 /\ ptFault' = ptFault - 1
    /\ \/ ptRec # PtIdle /\ ptRec' = PtIdle /\ UNCHANGED ptChat
       \/ \E p \in PtRequests : /\ ptChat[p] \notin {"idle", "end"}
                                /\ ptChat' = [ptChat EXCEPT ![p] = "idle"] /\ UNCHANGED ptRec
    /\ UNCHANGED <<ptTask, ptJob, ptSent, ptMoved>>

PtOwner(p) ==
    /\ ptFault > 0 /\ ptFault' = ptFault - 1
    /\ \/ ptTask[p] = "active" /\ ptTask' = [ptTask EXCEPT ![p] = "waiting"]
       \/ ptTask[p] = "waiting" /\ ptTask' = [ptTask EXCEPT ![p] = "active"]
    /\ ptMoved' = ptMoved \cup {p}
    /\ UNCHANGED <<ptJob, ptChat, ptRec, ptSent>>
-----------------------------------------------------------------------------
PtReconcile == PtMove \/ PtPublish \/ \E p \in PtRequests : PtRead(p)

PtNext ==
    \/ PtReconcile \/ PtCrash
    \/ \E p \in PtRequests : \/ PtFirst(p) \/ PtPlan(p) \/ PtEnqueue(p) \/ PtLook(p)
                             \/ PtActivate(p) \/ PtJobEnds(p) \/ PtOwner(p)

PtSpec == PtInit /\ [][PtNext]_ptVars /\ WF_ptVars(PtReconcile)
-----------------------------------------------------------------------------
\* A task is done only with a text that the model really delivered.
PtDoneHasText == \A p \in PtRequests : ptTask[p] = "done" => ptJob[p] = "text"

\* Once the text was delivered the task is done, unless the owner moved it: no
\* crash and no race with the chat thread leaves an answered task open.
PtDeliveredIsDone ==
    \A p \in PtRequests \ ptMoved : ptSent[p] = "text" => ptTask[p] = "done"

\* The owner hears of every job that ended, with what it really came to.
PtDelivers ==
    []<>(\A p \in PtRequests :
            ptJob[p] \in {"text", "empty", "failed", "cancelled"} => ptSent[p] = ptJob[p])

\* Task and text agree, over crashes and the race of chat thread and worker:
\* done means a text, and a delivered text means done.
PtSafe == PtDoneHasText /\ PtDeliveredIsDone
=============================================================================
