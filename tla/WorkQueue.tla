----------------------------- MODULE WorkQueue -----------------------------
(***************************************************************************)
(* The durable work queue of Leon (work_queue.py): the table work_jobs,    *)
(* the table work_checkpoints and the worker processes that claim a job,   *)
(* execute one step of it and commit a checkpoint under a fenced lease.    *)
(*                                                                         *)
(* Every queue operation runs in one BEGIN IMMEDIATE transaction, so it is *)
(* one action here.  What a worker does between claim and checkpoint is    *)
(* outside any transaction: the worker may be slow, may crash, or may lose *)
(* its lease, and the operator may pause, resume or cancel meanwhile.      *)
(*                                                                         *)
(* Time is relative: a lease holds the ticks it has left (0: lease_until   *)
(* has passed), an age holds the ticks since created_at, saturated where   *)
(* the claim order no longer distinguishes older jobs.  No run needs a     *)
(* bound on the clock.                                                     *)
(***************************************************************************)
EXTENDS Integers, FiniteSets

CONSTANTS
    Requests,     \* client requests; the request UUID identifies its one job
    Tasks,        \* parent tasks of the control plane
    Workers,      \* worker processes
    TaskOf,       \* the task a request names
    LowRisk,      \* the tasks of risk low, R0 or R1
    KindOf,       \* the kind of work (and, for model work, the provider)
    MaxAttempts,  \* MAX_ATTEMPTS: claims of one step before the job is failed
    LeaseTicks,   \* LEASE_SECONDS, in ticks
    LocalTicks,   \* the longer lease of a local model call, in ticks
    AgeTicks,     \* seconds of waiting that raise a job one rank, in ticks
    QueueLimit,   \* most jobs that may be queued, running or paused (100)
    NoJob         \* the job of a worker that holds no claim

Kinds == {"python", "openai", "ollama"}

ASSUME ConstantsAssumption ==
    /\ IsFiniteSet(Requests)
    /\ NoJob \notin Requests
    /\ TaskOf \in [Requests -> Tasks]
    /\ LowRisk \subseteq Tasks
    /\ KindOf \in [Requests -> Kinds]
    /\ MaxAttempts \in Nat \ {0}
    /\ LeaseTicks \in Nat \ {0}
    /\ LocalTicks \in Nat \ {0}
    /\ AgeTicks \in Nat \ {0}
    /\ QueueLimit \in Nat \ {0}

VARIABLES
    jobs,      \* work_jobs, one row per request ("absent": no row)
    ckpt,      \* work_checkpoints: the steps of a job that have a row
    issued,    \* lease tokens ever drawn for a job (uuid4 never repeats)
    eligible,  \* does the parent task permit execution (_task_eligible)
    wk         \* the claim each worker process holds in memory

vars == <<jobs, ckpt, issued, eligible, wk>>

Steps(r) == IF KindOf[r] = "python" THEN 3 ELSE 1

Live     == {"queued", "running", "paused"}
Terminal == {"succeeded", "failed", "cancelled"}
Statuses == {"absent"} \cup Live \cup Terminal

\* The base rank of a job without a chat message; a chat message makes it 0.
BackgroundRank == 2
MaxAge == BackgroundRank * AgeTicks

\* What a worker can hand to checkpoint: a passed step, a failed step, or a
\* local model failure that made no provider call and may be retried.
Results == {"ok", "bad", "retry"}

Job == [status   : Statuses,
        step     : 0..3,
        attempts : 0..MaxAttempts,
        token    : Nat,              \* 0: lease_token IS NULL
        lease    : Nat,
        age      : 0..MaxAge,
        born     : Nat,
        rank     : {0, BackgroundRank}]

Claims == [pc    : {"idle", "claimed", "result"},
           job   : Requests \cup {NoJob},
           step  : 0..3,
           token : Nat,
           res   : Results \cup {"none"}]

NoRow == [status |-> "absent", step |-> 0, attempts |-> 0, token |-> 0,
          lease |-> 0, age |-> 0, born |-> 0, rank |-> BackgroundRank]

Idle == [pc |-> "idle", job |-> NoJob, step |-> 0, token |-> 0, res |-> "none"]

Rows == {r \in Requests : jobs[r].status # "absent"}
Active == {r \in Requests : jobs[r].status \in Live}

TypeOK ==
    /\ jobs \in [Requests -> Job]
    /\ ckpt \in [Requests -> SUBSET (0..3)]
    /\ issued \in [Requests -> Nat]
    /\ eligible \in [Tasks -> BOOLEAN]
    /\ wk \in [Workers -> Claims]

Init ==
    /\ jobs = [r \in Requests |-> NoRow]
    /\ ckpt = [r \in Requests |-> {}]
    /\ issued = [r \in Requests |-> 0]
    /\ eligible \in [Tasks -> BOOLEAN]
    /\ wk = [w \in Workers |-> Idle]

-----------------------------------------------------------------------------
(* What the INSERT and UPDATE statements make of a row. *)

\* enqueue inserts a queued row, the n-th of the table.
Queued(n) == [NoRow EXCEPT !.status = "queued", !.born = n]

\* A chat message refers to the row.
Bound(row) == [row EXCEPT !.rank = 0]

\* A row leaves the worker's hands: status changes and the lease is cleared.
Unleased(row, status) ==
    [row EXCEPT !.status = status, !.token = 0, !.lease = 0]

\* claim hands the row out for the n-th time under a fresh token.
Leased(row, n, token) ==
    [row EXCEPT !.status = "running", !.attempts = n, !.token = token,
                !.lease = LeaseTicks]

\* The lease has so many ticks left.
Extended(row, ticks) == [row EXCEPT !.lease = ticks]

\* checkpoint records the result of a step.
Advanced(row, status, next) ==
    [row EXCEPT !.status = status, !.step = next, !.attempts = 0,
                !.token = 0, !.lease = 0]

\* A tick of the clock has passed for the row.
Ticked(row) ==
    [row EXCEPT !.lease = IF row.lease > 0 THEN row.lease - 1 ELSE 0,
                !.age = IF row.age < MaxAge THEN row.age + 1 ELSE MaxAge]

-----------------------------------------------------------------------------
(* Operations of the HTTP threads and of the operator. *)

\* Mutant: the admission limit is off by one.
EnqueueOverLimit(r) ==
    /\ jobs[r].status = "absent"
    /\ eligible[TaskOf[r]]
    /\ KindOf[r] # "python" => TaskOf[r] \in LowRisk
    /\ Cardinality(Active) <= QueueLimit
    /\ jobs' = [jobs EXCEPT ![r] = Queued(Cardinality(Rows))]
    /\ UNCHANGED <<ckpt, issued, eligible, wk>>

\* enqueue: a request UUID that already has a row only returns that row.
Enqueue(r) ==
    /\ jobs[r].status = "absent"
    /\ eligible[TaskOf[r]]
    /\ KindOf[r] # "python" => TaskOf[r] \in LowRisk
    /\ Cardinality(Active) < QueueLimit
    /\ jobs' = [jobs EXCEPT ![r] = Queued(Cardinality(Rows))]
    /\ UNCHANGED <<ckpt, issued, eligible, wk>>

\* The chat service attaches the job to its message after it was enqueued;
\* from then on claim ranks the job as chat.
BindChat(r) ==
    /\ jobs[r].status # "absent"
    /\ KindOf[r] # "python"
    /\ jobs[r].rank # 0
    /\ jobs' = [jobs EXCEPT ![r] = Bound(jobs[r])]
    /\ UNCHANGED <<ckpt, issued, eligible, wk>>

\* Mutant: pause does not look at the status.
PauseAny(r) ==
    /\ jobs[r].status # "absent"
    /\ jobs' = [jobs EXCEPT ![r] = Unleased(jobs[r], "paused")]
    /\ UNCHANGED <<ckpt, issued, eligible, wk>>

Pause(r) ==
    /\ jobs[r].status \in {"queued", "running"}
    /\ jobs' = [jobs EXCEPT ![r] = Unleased(jobs[r], "paused")]
    /\ UNCHANGED <<ckpt, issued, eligible, wk>>

Resume(r) ==
    /\ jobs[r].status = "paused"
    /\ eligible[TaskOf[r]]
    /\ jobs' = [jobs EXCEPT ![r] = Unleased(jobs[r], "queued")]
    /\ UNCHANGED <<ckpt, issued, eligible, wk>>

Cancel(r) ==
    /\ jobs[r].status \in Live
    /\ jobs' = [jobs EXCEPT ![r] = Unleased(jobs[r], "cancelled")]
    /\ UNCHANGED <<ckpt, issued, eligible, wk>>

\* The dashboard moves the parent task between statuses that do and do not
\* permit execution.
TaskChange(t) ==
    /\ eligible' = [eligible EXCEPT ![t] = ~@]
    /\ UNCHANGED <<jobs, ckpt, issued, wk>>

-----------------------------------------------------------------------------
(* claim: the worker takes the first claimable row. *)

\* Mutant: expired leases are not recovered.
ClaimableQueued(r, ready) ==
    /\ jobs[r].status = "queued"
    /\ ready \/ KindOf[r] # "ollama"

\* A queued row, or a running row whose lease has expired.  While the GPU is
\* too hot (ready is FALSE) rows of the local provider are passed over.
Claimable(r, ready) ==
    /\ \/ jobs[r].status = "queued"
       \/ jobs[r].status = "running" /\ jobs[r].lease = 0
    /\ ready \/ KindOf[r] # "ollama"

\* Mutant: waiting does not raise a job.
RankUnaged(r) == jobs[r].rank

\* Chat first; every AgeTicks of waiting raises a job one rank, down to 0.
Rank(r) ==
    LET up == jobs[r].age \div AgeTicks
    IN  IF jobs[r].rank > up THEN jobs[r].rank - up ELSE 0

Before(a, b) ==
    \/ Rank(a) < Rank(b)
    \/ Rank(a) = Rank(b) /\ jobs[a].born < jobs[b].born

IsHead(r, ready) ==
    /\ Claimable(r, ready)
    /\ \A q \in Requests \ {r} : Claimable(q, ready) => Before(r, q)

\* The head's parent task no longer permits execution: the row is paused and
\* the worker gets nothing.
ClaimPause(w, r, ready) ==
    /\ wk[w].pc = "idle"
    /\ IsHead(r, ready)
    /\ ~eligible[TaskOf[r]]
    /\ jobs' = [jobs EXCEPT ![r] = Unleased(jobs[r], "paused")]
    /\ UNCHANGED <<ckpt, issued, eligible, wk>>

\* The head was claimed MaxAttempts times without a checkpoint.
ClaimExhausted(w, r, ready) ==
    /\ wk[w].pc = "idle"
    /\ IsHead(r, ready)
    /\ eligible[TaskOf[r]]
    /\ jobs[r].attempts >= MaxAttempts
    /\ jobs' = [jobs EXCEPT ![r] = Unleased(jobs[r], "failed")]
    /\ UNCHANGED <<ckpt, issued, eligible, wk>>

ClaimRun(w, r, ready) ==
    /\ wk[w].pc = "idle"
    /\ IsHead(r, ready)
    /\ eligible[TaskOf[r]]
    /\ jobs[r].attempts < MaxAttempts
    /\ issued' = [issued EXCEPT ![r] = @ + 1]
    /\ jobs' = [jobs EXCEPT ![r] =
                  Leased(jobs[r], jobs[r].attempts + 1, issued[r] + 1)]
    /\ wk' = [wk EXCEPT ![w] =
                [pc |-> "claimed", job |-> r, step |-> jobs[r].step,
                 token |-> issued[r] + 1, res |-> "none"]]
    /\ UNCHANGED <<ckpt, eligible>>

Claim(w, ready) ==
    \E r \in Requests :
        \/ ClaimPause(w, r, ready)
        \/ ClaimExhausted(w, r, ready)
        \/ ClaimRun(w, r, ready)

-----------------------------------------------------------------------------
(* Execution and checkpoint. *)

\* Mutant: the lease token is not compared.
OwnsLeaseUnfenced(w) ==
    LET row == jobs[wk[w].job]
    IN  /\ wk[w].pc # "idle"
        /\ row.status = "running"
        /\ row.step = wk[w].step
        /\ row.lease > 0

\* The fence of checkpoint and of the model executor: the row is still
\* running under this worker's token, at the claimed step, lease not expired.
OwnsLease(w) ==
    LET row == jobs[wk[w].job]
    IN  /\ wk[w].pc # "idle"
        /\ row.status = "running"
        /\ row.token = wk[w].token
        /\ row.step = wk[w].step
        /\ row.lease > 0

\* Whatever the step does, it ends in a result; the modules of the two
\* executors say how.
Execute(w, res) ==
    /\ wk[w].pc = "claimed"
    /\ res = "retry" => KindOf[wk[w].job] = "ollama"
    /\ wk' = [wk EXCEPT ![w].pc = "result", ![w].res = res]
    /\ UNCHANGED <<jobs, ckpt, issued, eligible>>

\* The model executor prolongs the lease it holds before a local call.
ExtendLease(w) ==
    /\ wk[w].pc = "claimed"
    /\ OwnsLease(w)
    /\ KindOf[wk[w].job] = "ollama"
    /\ jobs' = [jobs EXCEPT ![wk[w].job] = Extended(jobs[wk[w].job], LocalTicks)]
    /\ UNCHANGED <<ckpt, issued, eligible, wk>>

\* A worker that lost its lease commits nothing.
CheckpointStale(w) ==
    /\ wk[w].pc = "result"
    /\ ~OwnsLease(w)
    /\ wk' = [wk EXCEPT ![w] = Idle]
    /\ UNCHANGED <<jobs, ckpt, issued, eligible>>

CheckpointPause(w) ==
    LET r == wk[w].job IN
    /\ wk[w].pc = "result"
    /\ OwnsLease(w)
    /\ ~eligible[TaskOf[r]]
    /\ jobs' = [jobs EXCEPT ![r] = Unleased(jobs[r], "paused")]
    /\ wk' = [wk EXCEPT ![w] = Idle]
    /\ UNCHANGED <<ckpt, issued, eligible>>

\* Mutants: a retry forgets the attempts; a retry writes a checkpoint row.
CheckpointRetryFresh(w) ==
    LET r == wk[w].job IN
    /\ wk[w].pc = "result"
    /\ OwnsLease(w)
    /\ eligible[TaskOf[r]]
    /\ wk[w].res = "retry"
    /\ jobs' = [jobs EXCEPT ![r] = Advanced(jobs[r], "queued", jobs[r].step)]
    /\ wk' = [wk EXCEPT ![w] = Idle]
    /\ UNCHANGED <<ckpt, issued, eligible>>

CheckpointRetryWrites(w) ==
    LET r == wk[w].job IN
    /\ wk[w].pc = "result"
    /\ OwnsLease(w)
    /\ eligible[TaskOf[r]]
    /\ wk[w].res = "retry"
    /\ ckpt' = [ckpt EXCEPT ![r] = @ \cup {jobs[r].step}]
    /\ jobs' = [jobs EXCEPT ![r] = Unleased(jobs[r], "queued")]
    /\ wk' = [wk EXCEPT ![w] = Idle]
    /\ UNCHANGED <<issued, eligible>>

\* A failed local model call without effect: back in the queue, the attempt
\* stays counted and no checkpoint is written.
CheckpointRetry(w) ==
    LET r == wk[w].job IN
    /\ wk[w].pc = "result"
    /\ OwnsLease(w)
    /\ eligible[TaskOf[r]]
    /\ wk[w].res = "retry"
    /\ jobs' = [jobs EXCEPT ![r] = Unleased(jobs[r], "queued")]
    /\ wk' = [wk EXCEPT ![w] = Idle]
    /\ UNCHANGED <<ckpt, issued, eligible>>

\* The measured result is written and the job advances or fails.
CheckpointCommit(w) ==
    LET r    == wk[w].job
        ok   == wk[w].res = "ok"
        next == IF ok THEN jobs[r].step + 1 ELSE jobs[r].step
        to   == IF ~ok THEN "failed"
                ELSE IF next = Steps(r) THEN "succeeded" ELSE "queued"
    IN
    /\ wk[w].pc = "result"
    /\ OwnsLease(w)
    /\ eligible[TaskOf[r]]
    /\ wk[w].res # "retry"
    /\ ckpt' = [ckpt EXCEPT ![r] = @ \cup {jobs[r].step}]
    /\ jobs' = [jobs EXCEPT ![r] = Advanced(jobs[r], to, next)]
    /\ wk' = [wk EXCEPT ![w] = Idle]
    /\ UNCHANGED <<issued, eligible>>

Checkpoint(w) ==
    \/ CheckpointStale(w)
    \/ CheckpointPause(w)
    \/ CheckpointRetry(w)
    \/ CheckpointCommit(w)

\* The process dies; what it held in memory is gone, the row stays running.
Crash(w) ==
    /\ wk[w].pc # "idle"
    /\ wk' = [wk EXCEPT ![w] = Idle]
    /\ UNCHANGED <<jobs, ckpt, issued, eligible>>

\* One tick of the clock: leases run down, waiting jobs age.  The age of a
\* terminal row is never read.
Tick ==
    /\ jobs' = [r \in Requests |->
                  IF jobs[r].status \in Live THEN Ticked(jobs[r]) ELSE jobs[r]]
    /\ UNCHANGED <<ckpt, issued, eligible, wk>>

Operator(r) == Enqueue(r) \/ BindChat(r) \/ Pause(r) \/ Resume(r) \/ Cancel(r)

Next ==
    \/ \E r \in Requests : Operator(r)
    \/ \E t \in Tasks : TaskChange(t)
    \/ \E w \in Workers :
          \/ \E ready \in BOOLEAN : Claim(w, ready)
          \/ \E res \in Results : Execute(w, res)
          \/ ExtendLease(w)
          \/ Checkpoint(w)
          \/ Crash(w)
    \/ Tick

Spec == Init /\ [][Next]_vars

\* A running worker keeps polling (now and then with a GPU that is cool
\* enough), finishes its step and checkpoints; time passes.  The operator,
\* task changes, lease extensions and crashes are not forced.
WorkerFairness ==
    /\ \A w \in Workers :
          /\ WF_vars(Claim(w, TRUE))
          /\ WF_vars(\E res \in Results : Execute(w, res))
          /\ WF_vars(Checkpoint(w))
    /\ WF_vars(Tick)

FairSpec == Spec /\ WorkerFairness
-----------------------------------------------------------------------------
(* Properties. *)

\* Fencing: however leases expired, were revoked by pause or cancel and were
\* handed out again, at most one worker may still commit a result for a job.
SingleOwner ==
    \A v, w \in Workers :
        OwnsLease(v) /\ OwnsLease(w) /\ wk[v].job = wk[w].job => v = w

\* The checkpoint rows of a job are exactly its completed steps, plus the
\* failing step of a job whose check failed: the INSERT of checkpoint never
\* meets its own primary key and completed_steps never counts a missing row.
CheckpointsContiguous ==
    \A r \in Requests :
        LET done == 0..(jobs[r].step - 1) IN
        \/ ckpt[r] = done
        \/ jobs[r].status = "failed" /\ ckpt[r] = done \cup {jobs[r].step}

\* Crashes, lost leases, retries and pauses included, no step of a job is
\* handed to a worker more than MAX_ATTEMPTS times.
ClaimsBounded ==
    \A r \in Requests :
        issued[r] <= MaxAttempts *
            (IF jobs[r].status = "succeeded" THEN jobs[r].step ELSE jobs[r].step + 1)

\* The admission limit holds over all ways into and back into the queue
\* (enqueue, resume, a retry, a recovered lease), not only at enqueue.
QueueBounded == Cardinality(Active) <= QueueLimit

\* A finished job is never revived or rewritten by a late worker, a late
\* operator command or an expired lease.
TerminalStable ==
    [][\A r \in Requests :
         jobs[r].status \in Terminal =>
            /\ jobs'[r].status = jobs[r].status
            /\ jobs'[r].step = jobs[r].step
            /\ ckpt'[r] = ckpt[r]]_vars

\* Aging: a claim never passes over a claimable job that has waited two rank
\* periods and was created earlier, whatever chat jobs arrive meanwhile.
AgedNotOvertaken ==
    [][\A r, q \in Requests :
         issued'[r] > issued[r] =>
            ~ /\ Claimable(q, FALSE)
              /\ jobs[q].age = MaxAge
              /\ jobs[q].born < jobs[r].born]_vars

\* Every job that is queued or running reaches a final status or is paused,
\* even when every worker that ever takes it crashes.  The one exception is an
\* operator who resumes jobs for ever: a resumed job keeps its created_at, is
\* the head again, and a head whose task is not eligible costs the worker its
\* turn.
JobsSettle ==
    \/ []<><<\E r \in Requests : Resume(r)>>_vars
    \/ \A r \in Requests :
          jobs[r].status \in {"queued", "running"}
              ~> jobs[r].status \in Terminal \cup {"paused"}

\* The queue is well formed and within its limit, whatever way a job came in.
QueueSound == TypeOK /\ QueueBounded
=============================================================================
