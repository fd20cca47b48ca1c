--------------------------- MODULE AgentAssignment ---------------------------
(***************************************************************************)
(* Agent assignments (store.py, work_queue.py): a proposal is applied or   *)
(* rejected by a reviewer; applying it creates one agent run and, for the  *)
(* local Ollama runner, one job in the work queue; reconcile_agent_runs    *)
(* projects the ended job into the run; a reviewer then judges the run.    *)
(*                                                                         *)
(* Every thread (an HTTP request or the worker loop) makes these calls     *)
(* step by step: one action is one transaction, or the SELECT that comes   *)
(* before the transaction opens with its first UPDATE.  Only the mark of   *)
(* apply and enqueue_agent_run read inside the transaction that writes.    *)
(* A thread may die between any two steps.                                 *)
(*                                                                         *)
(* The job is what WorkQueue promises of it: it is queued once, ends once  *)
(* and then stays as it is (theorem FinalIsFinal).  new, planned and       *)
(* active tasks are all "open" here: accepting a run takes each of them to *)
(* review.                                                                 *)
(***************************************************************************)
EXTENDS FiniteSets, Naturals

CONSTANTS
    Proposals,  \* assignment proposals; a proposal stands for its run and job
    Tasks,
    TaskOf,     \* the task of a proposal
    Threads,    \* HTTP requests and worker loops that run concurrently
    Loops,      \* the worker loops among them
    NoProposal  \* the proposal of an idle thread

Runners == {"local_mock", "local_ollama"}

ASSUME AssignmentAssumption ==
    /\ TaskOf \in [Proposals -> Tasks]
    /\ NoProposal \notin Proposals
    /\ Loops \subseteq Threads

VARIABLES
    prop,    \* agent_assignment_proposals.status
    kind,    \* agent_assignment_proposals.runner_kind
    run,     \* agent_runs.status of the run created for the proposal
    made,    \* how many runs were created for the proposal
    job,     \* status of the job bound to the proposal by agent_run_work
    synced,  \* agent_run_work.synced_at is set
    task,    \* tasks.status
    th       \* what each thread is doing

vars == <<prop, kind, run, made, job, synced, task, th>>

Reviews  == {"accepted", "changes_requested", "rejected"}
Ended    == {"succeeded", "failed", "cancelled"}
PropSet  == {"absent", "prepared", "applying", "applied", "rejected"}
RunSet   == {"none", "running", "waiting_for_review", "failed"} \cup Reviews
JobSet   == {"none", "live", "sent"} \cup Ended
TaskSet  == {"open", "waiting", "review", "done", "rejected"}

\* pc: where the thread is; want: the status it is about to write; sync: does
\* it set synced_at afterwards.
Thread == [pc   : {"idle", "marked", "created", "linked", "rejecting", "complete",
                   "completing", "syncing", "recovering", "reviewing"},
           p    : Proposals \cup {NoProposal},
           want : RunSet,
           sync : BOOLEAN]

Idle == [pc |-> "idle", p |-> NoProposal, want |-> "none", sync |-> FALSE]

TypeOK ==
    /\ prop \in [Proposals -> PropSet]
    /\ kind \in [Proposals -> Runners]
    /\ run \in [Proposals -> RunSet]
    /\ made \in [Proposals -> Nat]
    /\ job \in [Proposals -> JobSet]
    /\ synced \in [Proposals -> BOOLEAN]
    /\ task \in [Tasks -> TaskSet]
    /\ th \in [Threads -> Thread]

Init ==
    /\ prop = [p \in Proposals |-> "absent"]
    /\ kind = [p \in Proposals |-> "local_mock"]
    /\ run = [p \in Proposals |-> "none"]
    /\ made = [p \in Proposals |-> 0]
    /\ job = [p \in Proposals |-> "none"]
    /\ synced = [p \in Proposals |-> FALSE]
    /\ task = [t \in Tasks |-> "open"]
    /\ th = [i \in Threads |-> Idle]

\* A thread at work on a proposal; in complete_agent_run; in review_agent_run.
At(pc, p) == [pc |-> pc, p |-> p, want |-> "none", sync |-> FALSE]
Completing(pc, p, want, sync) == [pc |-> pc, p |-> p, want |-> want, sync |-> sync]
Reviewing(p, verdict) == [pc |-> "reviewing", p |-> p, want |-> verdict, sync |-> FALSE]

-----------------------------------------------------------------------------
(* create, reject and apply a proposal. *)

\* create_agent_assignment_proposal, for a task in any status.
Propose(p, runner) ==
    /\ prop[p] = "absent"
    /\ prop' = [prop EXCEPT ![p] = "prepared"]
    /\ kind' = [kind EXCEPT ![p] = runner]
    /\ UNCHANGED <<run, made, job, synced, task, th>>

\* reject_agent_assignment_proposal reads the status ...
RejectRead(i, p) ==
    /\ th[i].pc = "idle"
    /\ prop[p] = "prepared"
    /\ th' = [th EXCEPT ![i] = At("rejecting", p)]
    /\ UNCHANGED <<prop, kind, run, made, job, synced, task>>

\* ... and writes it without looking again.
RejectWrite(i) ==
    /\ th[i].pc = "rejecting"
    /\ prop' = [prop EXCEPT ![th[i].p] = "rejected"]
    /\ th' = [th EXCEPT ![i] = Idle]
    /\ UNCHANGED <<kind, run, made, job, synced, task>>

\* Mutant: the status is not read again under the lock.
ApplyMarkUnfenced(i, p) ==
    /\ th[i].pc = "idle"
    /\ prop[p] # "absent"
    /\ task[TaskOf[p]] \notin {"done", "rejected"}
    /\ prop' = [prop EXCEPT ![p] = "applying"]
    /\ th' = [th EXCEPT ![i] = At("marked", p)]
    /\ UNCHANGED <<kind, run, made, job, synced, task>>

\* apply_agent_assignment_proposal marks the proposal in one transaction; the
\* reads before it are repeated there.
ApplyMark(i, p) ==
    /\ th[i].pc = "idle"
    /\ prop[p] = "prepared"
    /\ task[TaskOf[p]] \notin {"done", "rejected"}
    /\ prop' = [prop EXCEPT ![p] = "applying"]
    /\ th' = [th EXCEPT ![i] = At("marked", p)]
    /\ UNCHANGED <<kind, run, made, job, synced, task>>

\* create_agent_run inserts a running run.
ApplyCreate(i) ==
    LET p == th[i].p IN
    /\ th[i].pc = "marked"
    /\ run' = [run EXCEPT ![p] = "running"]
    /\ made' = [made EXCEPT ![p] = made[p] + 1]
    /\ th' = [th EXCEPT ![i] = At("created", p)]
    /\ UNCHANGED <<prop, kind, job, synced, task>>

\* create_agent_run is refused by the policy gate: the mark is taken back.
ApplyRefused(i) ==
    LET p == th[i].p IN
    /\ th[i].pc = "marked"
    /\ prop' = [prop EXCEPT ![p] = IF prop[p] = "applying" THEN "prepared" ELSE prop[p]]
    /\ th' = [th EXCEPT ![i] = Idle]
    /\ UNCHANGED <<kind, run, made, job, synced, task>>

\* The proposal is linked to its run, if it is still applying.  What follows
\* does not depend on that.
ApplyLink(i) ==
    LET p == th[i].p IN
    /\ th[i].pc = "created"
    /\ prop' = [prop EXCEPT ![p] = IF prop[p] = "applying" THEN "applied" ELSE prop[p]]
    /\ th' = [th EXCEPT ![i] =
                IF kind[p] = "local_mock"
                THEN Completing("complete", p, "waiting_for_review", FALSE) ELSE At("linked", p)]
    /\ UNCHANGED <<kind, run, made, job, synced, task>>

-----------------------------------------------------------------------------
(* The job of a local Ollama run. *)

\* Mutant: the binding is not looked up first.
EnqueueableTwice(p) ==
    /\ run[p] = "running"
    /\ prop[p] = "applied"
    /\ task[TaskOf[p]] = "open"

\* What enqueue_agent_run checks in its transaction before it inserts the job
\* and its binding.
Enqueueable(p) ==
    /\ job[p] = "none"
    /\ run[p] = "running"
    /\ prop[p] = "applied"
    /\ task[TaskOf[p]] = "open"

\* The two ways to enqueue: by the thread that applied the proposal, and by
\* recover_agent_run_jobs.
Enqueues(i) == th[i].pc \in {"linked", "recovering"}

\* A proposal that has a job returns it; otherwise the job is inserted.
EnqueueJob(i) ==
    LET p == th[i].p IN
    /\ Enqueues(i)
    /\ job[p] # "none" \/ Enqueueable(p)
    /\ job' = [job EXCEPT ![p] = IF Enqueueable(p) THEN "live" ELSE job[p]]
    /\ th' = [th EXCEPT ![i] = Idle]
    /\ UNCHANGED <<prop, kind, run, made, synced, task>>

\* The checks fail, the queue is full or the model is not configured: apply
\* completes the run as failed, recovery tries again later.
EnqueueRefused(i) ==
    LET p == th[i].p IN
    /\ Enqueues(i)
    /\ job[p] = "none"
    /\ th' = [th EXCEPT ![i] =
                IF th[i].pc = "linked" THEN Completing("complete", p, "failed", FALSE) ELSE Idle]
    /\ UNCHANGED <<prop, kind, run, made, job, synced, task>>

\* recover_agent_run_jobs finds an applied proposal without a job.
RecoverRead(i, p) ==
    /\ th[i].pc = "idle"
    /\ kind[p] = "local_ollama"
    /\ prop[p] = "applied"
    /\ run[p] = "running"
    /\ job[p] = "none"
    /\ th' = [th EXCEPT ![i] = At("recovering", p)]
    /\ UNCHANGED <<prop, kind, run, made, job, synced, task>>

\* The model executor sends the call only while run, proposal and task permit.
JobSend(p) ==
    /\ job[p] = "live"
    /\ run[p] = "running"
    /\ prop[p] = "applied"
    /\ task[TaskOf[p]] = "open"
    /\ job' = [job EXCEPT ![p] = "sent"]
    /\ UNCHANGED <<prop, kind, run, made, synced, task, th>>

\* The queue ends the job: cancelled or failed at any time, succeeded when a
\* call was sent and the task permits the checkpoint.
JobEnds(p, to) ==
    /\ job[p] \in {"live", "sent"}
    /\ to = "succeeded" => job[p] = "sent" /\ task[TaskOf[p]] = "open"
    /\ job' = [job EXCEPT ![p] = to]
    /\ UNCHANGED <<prop, kind, run, made, synced, task, th>>

-----------------------------------------------------------------------------
(* Completing and reviewing a run. *)

\* What the end of the job makes of the run.
Outcome(p) == IF job[p] = "succeeded" THEN "waiting_for_review" ELSE "failed"

\* Mutant: the row is marked as synced before its run is completed.
ReconcileReadClaims(i, p) ==
    /\ th[i].pc = "idle"
    /\ ~synced[p]
    /\ run[p] = "running"
    /\ job[p] \in Ended
    /\ synced' = [synced EXCEPT ![p] = TRUE]
    /\ th' = [th EXCEPT ![i] = Completing("complete", p, Outcome(p), TRUE)]
    /\ UNCHANGED <<prop, kind, run, made, job, task>>

\* reconcile_agent_runs finds an ended job whose run is still running.
ReconcileRead(i, p) ==
    /\ th[i].pc = "idle"
    /\ ~synced[p]
    /\ run[p] = "running"
    /\ job[p] \in Ended
    /\ th' = [th EXCEPT ![i] = Completing("complete", p, Outcome(p), TRUE)]
    /\ UNCHANGED <<prop, kind, run, made, job, synced, task>>

\* Where a thread goes when complete_agent_run has returned.
Completed(i) == IF th[i].sync THEN At("syncing", th[i].p) ELSE Idle

\* complete_agent_run reads the run: a running run is completed in a second
\* step, a run that has the status already is left alone, any other run raises
\* an error that ends the caller.
CompleteRead(i) ==
    LET p == th[i].p IN
    /\ th[i].pc = "complete"
    /\ th' = [th EXCEPT ![i] =
                IF run[p] = "running"
                THEN Completing("completing", p, th[i].want, th[i].sync)
                ELSE IF run[p] = th[i].want THEN Completed(i) ELSE Idle]
    /\ UNCHANGED <<prop, kind, run, made, job, synced, task>>

\* Mutant: a cancelled or failed job is reported as an answer.
CompleteWriteOptimist(i) ==
    /\ th[i].pc = "completing"
    /\ run' = [run EXCEPT ![th[i].p] = "waiting_for_review"]
    /\ th' = [th EXCEPT ![i] = Completed(i)]
    /\ UNCHANGED <<prop, kind, made, job, synced, task>>

CompleteWrite(i) ==
    /\ th[i].pc = "completing"
    /\ run' = [run EXCEPT ![th[i].p] = th[i].want]
    /\ th' = [th EXCEPT ![i] = Completed(i)]
    /\ UNCHANGED <<prop, kind, made, job, synced, task>>

Sync(i) ==
    /\ th[i].pc = "syncing"
    /\ synced' = [synced EXCEPT ![th[i].p] = TRUE]
    /\ th' = [th EXCEPT ![i] = Idle]
    /\ UNCHANGED <<prop, kind, run, made, job, task>>

\* review_agent_run reads a completed run ...
ReviewRead(i, p, verdict) ==
    /\ th[i].pc = "idle"
    /\ run[p] \in {"waiting_for_review", "failed"}
    /\ th' = [th EXCEPT ![i] = Reviewing(p, verdict)]
    /\ UNCHANGED <<prop, kind, run, made, job, synced, task>>

\* ... writes the verdict and, in the same transaction, takes an open task to
\* review when the run is accepted.
ReviewWrite(i) ==
    LET p == th[i].p
        t == TaskOf[p]
    IN
    /\ th[i].pc = "reviewing"
    /\ run' = [run EXCEPT ![p] = th[i].want]
    /\ task' = [task EXCEPT ![t] =
                  IF th[i].want = "accepted" /\ task[t] = "open" THEN "review" ELSE task[t]]
    /\ th' = [th EXCEPT ![i] = Idle]
    /\ UNCHANGED <<prop, kind, made, job, synced>>

-----------------------------------------------------------------------------
\* The dashboard moves the task along its lifecycle; the rejection of one of
\* its approvals blocks it ("waiting") from any status but rejected.
TaskMoves ==
    {<<"open", "waiting">>, <<"waiting", "open">>, <<"open", "review">>,
     <<"review", "done">>, <<"review", "rejected">>, <<"done", "open">>,
     <<"rejected", "open">>, <<"review", "waiting">>, <<"done", "waiting">>}

TaskChange(t, to) ==
    /\ <<task[t], to>> \in TaskMoves
    /\ task' = [task EXCEPT ![t] = to]
    /\ UNCHANGED <<prop, kind, run, made, job, synced, th>>

\* The thread dies.
Crash(i) ==
    /\ th[i].pc # "idle"
    /\ th' = [th EXCEPT ![i] = Idle]
    /\ UNCHANGED <<prop, kind, run, made, job, synced, task>>

ApplyStep(i) == ApplyCreate(i) \/ ApplyRefused(i) \/ ApplyLink(i)

JobStep(i) == EnqueueJob(i) \/ EnqueueRefused(i)

CompleteStep(i) == CompleteRead(i) \/ CompleteWrite(i) \/ Sync(i)

\* What only a request of the dashboard starts.
Dashboard(i, p) ==
    /\ i \notin Loops
    /\ \/ RejectRead(i, p)
       \/ ApplyMark(i, p)
       \/ \E verdict \in Reviews : ReviewRead(i, p, verdict)

Next ==
    \/ \E p \in Proposals :
          \/ \E runner \in Runners : Propose(p, runner)
          \/ JobSend(p)
          \/ \E to \in Ended : JobEnds(p, to)
    \/ \E i \in Threads :
          \/ \E p \in Proposals :
                Dashboard(i, p) \/ RecoverRead(i, p) \/ ReconcileRead(i, p)
          \/ RejectWrite(i)
          \/ ApplyStep(i)
          \/ JobStep(i)
          \/ CompleteStep(i)
          \/ ReviewWrite(i)
          \/ Crash(i)
    \/ \E t \in Tasks, to \in TaskSet : TaskChange(t, to)

Spec == Init /\ [][Next]_vars

\* A worker loop polls for ever.  It may crash, but not at the same place every
\* time it is restarted.
LoopFairness ==
    \A i \in Loops :
        /\ \A p \in Proposals : SF_vars(ReconcileRead(i, p))
        /\ WF_vars(JobStep(i))
        /\ SF_vars(CompleteRead(i))
        /\ SF_vars(CompleteWrite(i))
        /\ WF_vars(Sync(i))

FairSpec == Spec /\ LoopFairness
-----------------------------------------------------------------------------
(* Properties. *)

\* "Apply creates exactly one local model run": concurrent applies, refusals
\* and crashes included, no proposal ever gets a second run.
OneRunPerProposal == \A p \in Proposals : made[p] <= 1

\* A local model run waits for review only with an answer of the model: never
\* after a cancelled or failed job, whoever completes it.
AnswerIsReal ==
    \A p \in Proposals :
        kind[p] = "local_ollama" /\ run[p] = "waiting_for_review" =>
            job[p] = "succeeded"

\* enqueue_agent_run is idempotent: apply and recovery racing each other never
\* queue an ended job again.
JobNotRequeued ==
    [][\A p \in Proposals : job[p] \in Ended => job'[p] = job[p]]_vars

\* "A worker/service restart reconciles a completed work job back into its
\* agent run": a run does not stay running once its job has ended.
EndedJobsReported ==
    \A p \in Proposals :
        (job[p] \in Ended /\ run[p] = "running") ~> run[p] # "running"

\* docs/agent-assignment-gate-implementation.md: "Reject creates no run."
RejectCreatesNoRun ==
    \A p \in Proposals : prop[p] = "rejected" => run[p] = "none"
=============================================================================
