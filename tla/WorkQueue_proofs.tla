-------------------------- MODULE WorkQueue_proofs --------------------------
(***************************************************************************)
(* Proofs about WorkQueue for every set of requests, tasks and workers and *)
(* every value of the limits.                                              *)
(***************************************************************************)
EXTENDS WorkQueue, FiniteSetTheorems, TLAPS

\* Every claim in memory names a real job, and a live job has steps left.
ClaimsNameJobs ==
    /\ \A w \in Workers : wk[w].pc # "idle" => wk[w].job \in Requests
    /\ \A r \in Requests : jobs[r].status \in Live => jobs[r].step < Steps(r)

\* Lease tokens: none is used before it is issued and no two workers hold
\* the same token of the same job.
TokensUnique ==
    /\ \A r \in Requests : jobs[r].token <= issued[r]
    /\ \A w \in Workers :
          wk[w].pc # "idle" => wk[w].token <= issued[wk[w].job]
    /\ \A v, w \in Workers :
          /\ wk[v].pc # "idle"
          /\ wk[w].pc # "idle"
          /\ wk[v].job = wk[w].job
          /\ wk[v].token = wk[w].token
          => v = w

\* The inductive core that typing and fencing rest on.
QueueInv == TypeOK /\ ClaimsNameJobs /\ TokensUnique

-----------------------------------------------------------------------------
\* What the lease-clearing UPDATE leaves of a row is a row.
LEMMA UnleasedType ==
    ASSUME NEW row \in Job, NEW s \in Statuses
    PROVE  /\ Unleased(row, s) \in Job
           /\ Unleased(row, s).status = s
           /\ Unleased(row, s).token = 0
           /\ Unleased(row, s).step = row.step
           /\ Unleased(row, s).attempts = row.attempts
  BY DEF Unleased, Job

\* A new row is a queued row at step 0 without a lease.
LEMMA QueuedType ==
    ASSUME NEW n \in Nat
    PROVE  /\ Queued(n) \in Job
           /\ Queued(n).status = "queued"
           /\ Queued(n).token = 0
           /\ Queued(n).step = 0
           /\ Queued(n).attempts = 0
  <1>1. /\ 0 \in 0..MaxAttempts
        /\ 0 \in 0..MaxAge
        /\ 0 \in 0..3
        /\ 0 \in Nat
    BY ConstantsAssumption DEF MaxAge, BackgroundRank
  <1>2. "queued" \in Statuses
    BY DEF Statuses, Live
  <1> QED
    BY <1>1, <1>2, Zenon DEF Queued, NoRow, Job

\* Attaching a chat message changes the rank of a row and nothing else.
LEMMA BoundType ==
    ASSUME NEW row \in Job
    PROVE  /\ Bound(row) \in Job
           /\ Bound(row).status = row.status
           /\ Bound(row).token = row.token
           /\ Bound(row).step = row.step
           /\ Bound(row).attempts = row.attempts
  BY Zenon DEF Bound, Job

\* Claiming counts an attempt and sets the token.
LEMMA LeasedType ==
    ASSUME NEW row \in Job, NEW n \in 0..MaxAttempts, NEW t \in Nat
    PROVE  /\ Leased(row, n, t) \in Job
           /\ Leased(row, n, t).status = "running"
           /\ Leased(row, n, t).token = t
           /\ Leased(row, n, t).step = row.step
           /\ Leased(row, n, t).attempts = n
  <1>1. LeaseTicks \in Nat
    BY ConstantsAssumption
  <1>2. "running" \in Statuses
    BY DEF Statuses, Live
  <1> QED
    BY <1>1, <1>2, Zenon DEF Leased, Job

\* Extending a lease changes only the lease.
LEMMA ExtendedType ==
    ASSUME NEW row \in Job, NEW n \in Nat
    PROVE  /\ Extended(row, n) \in Job
           /\ Extended(row, n).status = row.status
           /\ Extended(row, n).token = row.token
           /\ Extended(row, n).step = row.step
           /\ Extended(row, n).attempts = row.attempts
  BY Zenon DEF Extended, Job

\* A checkpoint sets status and step and clears lease and attempts.
LEMMA AdvancedType ==
    ASSUME NEW row \in Job, NEW s \in Statuses, NEW n \in 0..3
    PROVE  /\ Advanced(row, s, n) \in Job
           /\ Advanced(row, s, n).status = s
           /\ Advanced(row, s, n).token = 0
           /\ Advanced(row, s, n).step = n
           /\ Advanced(row, s, n).attempts = 0
  <1>1. 0 \in 0..MaxAttempts /\ 0 \in Nat
    BY ConstantsAssumption
  <1> QED
    BY <1>1, Zenon DEF Advanced, Job

\* What a checkpoint sets does not depend on the row.
LEMMA AdvancedFields ==
    ASSUME NEW row \in Job
    PROVE  \A s, n : /\ Advanced(row, s, n).status = s
                     /\ Advanced(row, s, n).step = n
                     /\ Advanced(row, s, n).attempts = 0
  BY Zenon DEF Advanced, Job

\* The clock touches lease and age only.
LEMMA TickedType ==
    ASSUME NEW row \in Job
    PROVE  /\ Ticked(row) \in Job
           /\ Ticked(row).status = row.status
           /\ Ticked(row).token = row.token
           /\ Ticked(row).step = row.step
           /\ Ticked(row).attempts = row.attempts
  <1> DEFINE l == IF row.lease > 0 THEN row.lease - 1 ELSE 0
             a == IF row.age < MaxAge THEN row.age + 1 ELSE MaxAge
  <1>1. l \in Nat /\ a \in 0..MaxAge
    BY ConstantsAssumption DEF Job, MaxAge, BackgroundRank
  <1>2. Ticked(row) = [row EXCEPT !.lease = l, !.age = a]
    BY Zenon DEF Ticked
  <1> HIDE DEF l, a
  <1> QED
    BY <1>1, <1>2, Zenon DEF Job

\* The number of rows is a number.
LEMMA RowsCount == Cardinality(Rows) \in Nat
  <1>1. Rows \subseteq Requests
    BY DEF Rows
  <1>2. IsFiniteSet(Rows)
    BY <1>1, ConstantsAssumption, FS_Subset
  <1> QED
    BY <1>2, FS_CardinalityType

\* A step that only replaces the row of one job, keeping its step and using no
\* token or an issued one, preserves the core.
LEMMA RowUpdate ==
    ASSUME QueueInv,
           NEW r \in Requests, NEW row \in Job,
           jobs' = [jobs EXCEPT ![r] = row],
           UNCHANGED <<ckpt, issued, eligible, wk>>,
           row.status \in Live => row.step < Steps(r),
           row.token <= issued[r]
    PROVE  QueueInv'
  <1> USE DEF QueueInv
  <1>1. TypeOK'
    BY DEF TypeOK
  <1>2. ClaimsNameJobs'
    BY DEF ClaimsNameJobs, TypeOK, Steps
  <1>3. TokensUnique'
    BY DEF TokensUnique, TypeOK
  <1> QED
    BY <1>1, <1>2, <1>3

\* A step that only clears the lease of a live job preserves the core.
LEMMA UnleaseUpdate ==
    ASSUME QueueInv,
           NEW r \in Requests, NEW s \in Statuses,
           jobs[r].status \in Live,
           jobs' = [jobs EXCEPT ![r] = Unleased(jobs[r], s)],
           UNCHANGED <<ckpt, issued, eligible, wk>>
    PROVE  QueueInv'
  <1> DEFINE row == Unleased(jobs[r], s)
  <1>1. jobs[r] \in Job /\ issued[r] \in Nat
    BY DEF QueueInv, TypeOK
  <1>2. row \in Job /\ row.step = jobs[r].step /\ row.token = 0
    BY <1>1, UnleasedType
  <1>3. row.token <= issued[r]
    BY <1>1, <1>2
  <1>4. row.step < Steps(r)
    BY <1>2 DEF QueueInv, ClaimsNameJobs
  <1> QED
    BY <1>2, <1>3, <1>4, RowUpdate

\* A worker that drops its claim preserves the core.
LEMMA DropClaim ==
    ASSUME QueueInv, NEW w \in Workers,
           wk' = [wk EXCEPT ![w] = Idle],
           UNCHANGED <<jobs, ckpt, issued, eligible>>
    PROVE  QueueInv'
  <1> USE DEF QueueInv
  <1>1. Idle \in Claims
    BY DEF Idle, Claims
  <1>2. TypeOK'
    BY <1>1 DEF TypeOK
  <1>3. ClaimsNameJobs'
    BY DEF ClaimsNameJobs, TypeOK, Idle, Steps
  <1>4. TokensUnique'
    BY DEF TokensUnique, TypeOK, Idle
  <1> QED
    BY <1>2, <1>3, <1>4

-----------------------------------------------------------------------------
\* The core holds of an empty queue with idle workers.
LEMMA QueueInvInit == Init => QueueInv
  <1> SUFFICES ASSUME Init PROVE QueueInv
    OBVIOUS
  <1> USE DEF Init, NoRow, Idle
  <1>1. TypeOK
    <2>1. NoRow \in Job
      BY ConstantsAssumption DEF Job, Statuses, MaxAge, BackgroundRank
    <2>2. Idle \in Claims
      BY DEF Claims
    <2> QED
      BY <2>1, <2>2 DEF TypeOK
  <1>2. ClaimsNameJobs
    BY DEF ClaimsNameJobs, Live
  <1>3. TokensUnique
    BY DEF TokensUnique
  <1> QED
    BY <1>1, <1>2, <1>3 DEF QueueInv

\* The operator's commands preserve the core.
LEMMA OperatorStep ==
    ASSUME QueueInv, NEW r \in Requests, Operator(r)
    PROVE  QueueInv'
  <1> jobs[r] \in Job /\ issued[r] \in Nat
    BY DEF QueueInv, TypeOK
  <1>1. CASE Enqueue(r)
    <2> DEFINE row == Queued(Cardinality(Rows))
    <2>1. row \in Job /\ row.step = 0 /\ row.token = 0
      BY RowsCount, QueuedType
    <2>2. jobs' = [jobs EXCEPT ![r] = row] /\ UNCHANGED <<ckpt, issued, eligible, wk>>
      BY <1>1 DEF Enqueue
    <2>3. row.step < Steps(r) /\ row.token <= issued[r]
      BY <2>1 DEF Steps
    <2> HIDE DEF row
    <2> QED
      BY <2>1, <2>2, <2>3, RowUpdate
  <1>2. CASE BindChat(r)
    <2> DEFINE row == Bound(jobs[r])
    <2>1. /\ row \in Job
          /\ row.step = jobs[r].step
          /\ row.token = jobs[r].token
          /\ row.status = jobs[r].status
      BY BoundType
    <2>2. jobs' = [jobs EXCEPT ![r] = row] /\ UNCHANGED <<ckpt, issued, eligible, wk>>
      BY <1>2 DEF BindChat
    <2> HIDE DEF row
    <2> QED
      BY <2>1, <2>2, RowUpdate DEF QueueInv, ClaimsNameJobs, TokensUnique
  <1>3. ASSUME NEW s \in {"paused", "queued", "cancelled"},
               jobs[r].status \in Live,
               jobs' = [jobs EXCEPT ![r] = Unleased(jobs[r], s)],
               UNCHANGED <<ckpt, issued, eligible, wk>>
        PROVE  QueueInv'
    <2>1. s \in Statuses
      BY DEF Statuses, Live, Terminal
    <2> QED
      BY <1>3, <2>1, UnleaseUpdate
  <1>4. CASE Pause(r)
    BY <1>3, <1>4 DEF Pause, Live
  <1>5. CASE Resume(r)
    BY <1>3, <1>5 DEF Resume, Live
  <1>6. CASE Cancel(r)
    BY <1>3, <1>6 DEF Cancel, Live
  <1> QED
    BY <1>1, <1>2, <1>4, <1>5, <1>6 DEF Operator

\* claim preserves the core: the token it draws is fresh.
LEMMA ClaimStep ==
    ASSUME QueueInv, NEW w \in Workers, NEW ready \in BOOLEAN, Claim(w, ready)
    PROVE  QueueInv'
  <1> PICK r \in Requests : \/ ClaimPause(w, r, ready)
                            \/ ClaimExhausted(w, r, ready)
                            \/ ClaimRun(w, r, ready)
    BY DEF Claim
  <1> jobs[r] \in Job /\ issued[r] \in Nat
    BY DEF QueueInv, TypeOK
  <1>l. ASSUME IsHead(r, ready) PROVE jobs[r].status \in Live
    BY <1>l DEF IsHead, Claimable, Live
  <1>1. CASE ClaimPause(w, r, ready)
    <2>1. "paused" \in Statuses
      BY DEF Statuses, Live
    <2> QED
      BY <1>1, <1>l, <2>1, UnleaseUpdate DEF ClaimPause
  <1>2. CASE ClaimExhausted(w, r, ready)
    <2>1. "failed" \in Statuses
      BY DEF Statuses, Terminal
    <2> QED
      BY <1>2, <1>l, <2>1, UnleaseUpdate DEF ClaimExhausted
  <1>3. CASE ClaimRun(w, r, ready)
    <2> DEFINE row == Leased(jobs[r], jobs[r].attempts + 1, issued[r] + 1)
               c   == [pc |-> "claimed", job |-> r, step |-> jobs[r].step,
                       token |-> issued[r] + 1, res |-> "none"]
    <2>1. /\ row \in Job
          /\ row.step = jobs[r].step
          /\ row.token = issued[r] + 1
      <3>1. jobs[r].attempts + 1 \in 0..MaxAttempts
        BY <1>3, ConstantsAssumption DEF ClaimRun, Job
      <3>2. issued[r] + 1 \in Nat
        OBVIOUS
      <3>3. ASSUME NEW n \in 0..MaxAttempts, NEW t \in Nat
            PROVE  /\ Leased(jobs[r], n, t) \in Job
                   /\ Leased(jobs[r], n, t).step = jobs[r].step
                   /\ Leased(jobs[r], n, t).token = t
        BY LeasedType
      <3> QED
        BY <3>1, <3>2, <3>3, Zenon
    <2>2. c \in Claims /\ c.job = r /\ c.token = issued[r] + 1
      BY DEF Claims, Job
    <2>3. /\ jobs' = [jobs EXCEPT ![r] = row]
          /\ wk' = [wk EXCEPT ![w] = c]
          /\ issued' = [issued EXCEPT ![r] = @ + 1]
          /\ UNCHANGED <<ckpt, eligible>>
      BY <1>3 DEF ClaimRun
    <2>4. jobs[r].step < Steps(r)
      BY <1>3, <1>l DEF ClaimRun, QueueInv, ClaimsNameJobs
    <2> HIDE DEF row, c
    <2>5. TypeOK'
      BY <2>1, <2>2, <2>3 DEF QueueInv, TypeOK
    <2>6. ClaimsNameJobs'
      BY <2>1, <2>2, <2>3, <2>4 DEF QueueInv, ClaimsNameJobs, TypeOK, Steps
    <2>7. TokensUnique'
      <3>1. \A q \in Requests : jobs'[q].token <= issued'[q]
        BY <2>1, <2>3 DEF QueueInv, TokensUnique, TypeOK
      <3>2. \A v \in Workers \ {w} :
               /\ wk'[v] = wk[v]
               /\ wk[v].pc # "idle" /\ wk[v].job = r => wk[v].token < issued[r] + 1
        BY <2>3 DEF QueueInv, TokensUnique, TypeOK, Claims
      <3>3. wk'[w] = c
        BY <2>3 DEF QueueInv, TypeOK
      <3>4. \A v \in Workers :
               wk'[v].pc # "idle" => wk'[v].token <= issued'[wk'[v].job]
        BY <2>2, <2>3, <3>2, <3>3
        DEF QueueInv, TokensUnique, TypeOK, Claims, ClaimsNameJobs
      <3>5. \A u, v \in Workers :
               /\ wk'[u].pc # "idle"
               /\ wk'[v].pc # "idle"
               /\ wk'[u].job = wk'[v].job
               /\ wk'[u].token = wk'[v].token
               => u = v
        BY <2>2, <3>2, <3>3 DEF QueueInv, TokensUnique
      <3> QED
        BY <3>1, <3>4, <3>5 DEF TokensUnique
    <2> QED
      BY <2>5, <2>6, <2>7 DEF QueueInv
  <1> QED
    BY <1>1, <1>2, <1>3

\* What a worker does with its claim preserves the core.
LEMMA WorkerStep ==
    ASSUME QueueInv, NEW w \in Workers,
           \/ \E res \in Results : Execute(w, res)
           \/ ExtendLease(w)
           \/ Checkpoint(w)
           \/ Crash(w)
    PROVE  QueueInv'
  <1> DEFINE r == wk[w].job
  <1>0. ASSUME wk[w].pc # "idle"
        PROVE  /\ r \in Requests
               /\ jobs[r] \in Job
               /\ issued[r] \in Nat
               /\ jobs[r].token <= issued[r]
               /\ jobs[r].status \in Live => jobs[r].step < Steps(r)
    BY <1>0 DEF QueueInv, ClaimsNameJobs, TokensUnique, TypeOK
  <1>1. ASSUME NEW res \in Results, Execute(w, res)
        PROVE  QueueInv'
    <2> DEFINE c == [wk[w] EXCEPT !.pc = "result", !.res = res]
    <2>1. wk[w] \in Claims
      BY DEF QueueInv, TypeOK
    <2>2. /\ c \in Claims
          /\ c.job = wk[w].job
          /\ c.token = wk[w].token
      BY <2>1, Zenon DEF Claims
    <2>3. wk' = [wk EXCEPT ![w] = c] /\ UNCHANGED <<jobs, ckpt, issued, eligible>>
      BY <1>1, Zenon DEF Execute
    <2>4. wk[w].pc # "idle"
      BY <1>1 DEF Execute
    <2> HIDE DEF c
    <2>5. TypeOK'
      BY <2>2, <2>3 DEF QueueInv, TypeOK
    <2>6. ClaimsNameJobs'
      BY <2>2, <2>3, <2>4, <1>0 DEF QueueInv, ClaimsNameJobs, TypeOK, Steps
    <2>7. TokensUnique'
      BY <2>2, <2>3, <2>4 DEF QueueInv, TokensUnique, TypeOK
    <2> QED
      BY <2>5, <2>6, <2>7 DEF QueueInv
  <1>2. CASE ExtendLease(w)
    <2>1. wk[w].pc # "idle"
      BY <1>2 DEF ExtendLease
    <2> DEFINE row == Extended(jobs[r], LocalTicks)
    <2>2. /\ row \in Job
          /\ row.status = jobs[r].status
          /\ row.token = jobs[r].token
          /\ row.step = jobs[r].step
      BY <1>0, <2>1, ExtendedType, ConstantsAssumption
    <2>3. jobs' = [jobs EXCEPT ![r] = row] /\ UNCHANGED <<ckpt, issued, eligible, wk>>
      BY <1>2 DEF ExtendLease
    <2> HIDE DEF row
    <2> QED
      BY <1>0, <2>1, <2>2, <2>3, RowUpdate
  <1>3. ASSUME NEW row \in Job,
               wk[w].pc # "idle",
               row.status \in Live => row.step < Steps(r),
               row.token <= issued[r],
               jobs' = [jobs EXCEPT ![r] = row],
               wk' = [wk EXCEPT ![w] = Idle],
               ckpt' \in [Requests -> SUBSET (0..3)],
               UNCHANGED <<issued, eligible>>
        PROVE  QueueInv'
    <2>1. r \in Requests
      BY <1>0, <1>3
    <2>2. Idle \in Claims /\ Idle.pc = "idle"
      BY DEF Idle, Claims
    <2>3. TypeOK'
      BY <1>3, <2>1, <2>2 DEF QueueInv, TypeOK
    <2>4. ClaimsNameJobs'
      BY <1>3, <2>1, <2>2 DEF QueueInv, ClaimsNameJobs, TypeOK, Steps
    <2>5. TokensUnique'
      BY <1>3, <2>1, <2>2 DEF QueueInv, TokensUnique, TypeOK
    <2> QED
      BY <2>3, <2>4, <2>5 DEF QueueInv
  <1>4. ASSUME NEW s \in {"paused", "queued"},
               wk[w].pc # "idle",
               OwnsLease(w),
               jobs' = [jobs EXCEPT ![r] = Unleased(jobs[r], s)],
               wk' = [wk EXCEPT ![w] = Idle],
               UNCHANGED <<ckpt, issued, eligible>>
        PROVE  QueueInv'
    <2> DEFINE row == Unleased(jobs[r], s)
    <2>1. s \in Statuses
      BY DEF Statuses, Live
    <2>2. jobs[r].status \in Live
      BY <1>4 DEF OwnsLease, Live
    <2>3. /\ row \in Job
          /\ row.step = jobs[r].step
          /\ row.token = 0
      BY <1>0, <1>4, <2>1, UnleasedType
    <2>4. row.step < Steps(r) /\ row.token <= issued[r]
      BY <1>0, <1>4, <2>2, <2>3
    <2>5. ckpt' \in [Requests -> SUBSET (0..3)]
      BY <1>4 DEF QueueInv, TypeOK
    <2> QED
      BY <1>3, <1>4, <2>3, <2>4, <2>5
  <1>5. CASE CheckpointStale(w) \/ Crash(w)
    BY <1>5, DropClaim DEF CheckpointStale, Crash
  <1>6. CASE CheckpointPause(w)
    BY <1>6, <1>4 DEF CheckpointPause
  <1>7. CASE CheckpointRetry(w)
    BY <1>7, <1>4 DEF CheckpointRetry
  <1>8. CASE CheckpointCommit(w)
    <2> DEFINE ok   == wk[w].res = "ok"
               next == IF ok THEN jobs[r].step + 1 ELSE jobs[r].step
               to   == IF ~ok THEN "failed"
                       ELSE IF next = Steps(r) THEN "succeeded" ELSE "queued"
               row  == Advanced(jobs[r], to, next)
    <2>1. /\ wk[w].pc # "idle"
          /\ jobs[r].status \in Live
      BY <1>8 DEF CheckpointCommit, OwnsLease, Live
    <2>2. /\ jobs' = [jobs EXCEPT ![r] = row]
          /\ wk' = [wk EXCEPT ![w] = Idle]
          /\ ckpt' = [ckpt EXCEPT ![r] = @ \cup {jobs[r].step}]
          /\ UNCHANGED <<issued, eligible>>
      BY <1>8 DEF CheckpointCommit
    <2>3. next \in 0..3 /\ next <= Steps(r)
      BY <1>0, <2>1 DEF Job, Steps
    <2>4. to \in Statuses
      BY DEF Statuses, Live, Terminal
    <2>5. to \in Live => next < Steps(r)
      BY <2>3 DEF Live, Steps
    <2>6. /\ row \in Job
          /\ row.status = to
          /\ row.step = next
          /\ row.token = 0
      <3> HIDE DEF to, next
      <3> QED
        BY <1>0, <2>1, <2>3, <2>4, AdvancedType, ZenonT(40)
    <2>7. ckpt' \in [Requests -> SUBSET (0..3)]
      BY <1>0, <2>1, <2>2 DEF QueueInv, TypeOK, Job
    <2> HIDE DEF row, to, next
    <2>8. row.token <= issued[r]
      BY <1>0, <2>1, <2>6
    <2> QED
      BY <1>3, <2>1, <2>2, <2>5, <2>6, <2>7, <2>8
  <1> QED
    BY <1>1, <1>2, <1>5, <1>6, <1>7, <1>8 DEF Checkpoint

\* Time passing preserves the core.
LEMMA TickStep ==
    ASSUME QueueInv, Tick
    PROVE  QueueInv'
  <1>1. \A r \in Requests :
           /\ jobs'[r] \in Job
           /\ jobs'[r].status = jobs[r].status
           /\ jobs'[r].token = jobs[r].token
           /\ jobs'[r].step = jobs[r].step
    <2> TAKE r \in Requests
    <2>1. jobs[r] \in Job
      BY DEF QueueInv, TypeOK
    <2>2. jobs'[r] = IF jobs[r].status \in Live THEN Ticked(jobs[r]) ELSE jobs[r]
      BY DEF Tick
    <2> QED
      BY <2>1, <2>2, TickedType
  <1>2. DOMAIN jobs' = Requests /\ jobs' = [r \in Requests |-> jobs'[r]]
    BY DEF Tick
  <1>3. UNCHANGED <<ckpt, issued, eligible, wk>>
    BY DEF Tick
  <1>4. TypeOK'
    BY <1>1, <1>2, <1>3 DEF QueueInv, TypeOK
  <1>5. ClaimsNameJobs'
    BY <1>1, <1>3 DEF QueueInv, ClaimsNameJobs, Steps
  <1>6. TokensUnique'
    BY <1>1, <1>3 DEF QueueInv, TokensUnique
  <1> QED
    BY <1>4, <1>5, <1>6 DEF QueueInv

\* Every step preserves the core.
LEMMA QueueInvStep == QueueInv /\ [Next]_vars => QueueInv'
  <1> SUFFICES ASSUME QueueInv, [Next]_vars PROVE QueueInv'
    OBVIOUS
  <1>1. CASE UNCHANGED vars
    BY <1>1 DEF vars, QueueInv, TypeOK, ClaimsNameJobs, TokensUnique, Steps
  <1>2. ASSUME NEW t \in Tasks, TaskChange(t) PROVE QueueInv'
    BY <1>2 DEF TaskChange, QueueInv, TypeOK, ClaimsNameJobs, TokensUnique, Steps
  <1> QED
    BY <1>1, <1>2, OperatorStep, ClaimStep, WorkerStep, TickStep DEF Next

\* The tables and the workers' claims keep their types: steps stay within the
\* three of a check job, attempts within MAX_ATTEMPTS.
THEOREM TypeCorrect == Spec => []TypeOK
  <1>1. QueueInv => TypeOK
    BY DEF QueueInv
  <1> QED
    BY <1>1, QueueInvInit, QueueInvStep, PTL DEF Spec

\* The fencing of work_queue.checkpoint: for any number of workers, jobs,
\* expiries, pauses and re-claims, two workers never both pass the lease check
\* of one job.
THEOREM Fencing == Spec => []SingleOwner
  <1>1. QueueInv => SingleOwner
    BY DEF QueueInv, TokensUnique, SingleOwner, OwnsLease
  <1> QED
    BY <1>1, QueueInvInit, QueueInvStep, PTL DEF Spec

-----------------------------------------------------------------------------
(* The life of one job: the ways a step may change its durable state. *)

\* Nothing that matters, or only rank, lease or age.
Untouched(r) ==
    /\ jobs'[r].status = jobs[r].status
    /\ jobs'[r].step = jobs[r].step
    /\ jobs'[r].attempts = jobs[r].attempts
    /\ issued'[r] = issued[r]
    /\ ckpt'[r] = ckpt[r]

Inserted(r) ==
    /\ Enqueue(r)
    /\ jobs[r].status = "absent"
    /\ jobs'[r].status = "queued"
    /\ jobs'[r].step = 0
    /\ jobs'[r].attempts = 0
    /\ issued'[r] = issued[r]
    /\ ckpt'[r] = ckpt[r]

Stopped(r) ==
    /\ jobs[r].status \in Live
    /\ jobs'[r].status \in {"paused", "queued", "cancelled", "failed"}
    /\ jobs'[r].step = jobs[r].step
    /\ jobs'[r].attempts = jobs[r].attempts
    /\ issued'[r] = issued[r]
    /\ ckpt'[r] = ckpt[r]

HandedOut(r) ==
    /\ jobs[r].status \in Live
    /\ jobs'[r].status = "running"
    /\ jobs'[r].step = jobs[r].step
    /\ jobs'[r].attempts = jobs[r].attempts + 1
    /\ issued'[r] = issued[r] + 1
    /\ ckpt'[r] = ckpt[r]

StepRecorded(r) ==
    /\ jobs[r].status = "running"
    /\ \/ /\ jobs'[r].step = jobs[r].step + 1
          /\ jobs'[r].status \in {"queued", "succeeded"}
       \/ /\ jobs'[r].step = jobs[r].step
          /\ jobs'[r].status = "failed"
    /\ jobs'[r].attempts = 0
    /\ issued'[r] = issued[r]
    /\ ckpt'[r] = ckpt[r] \cup {jobs[r].step}

RowStep(r) ==
    Untouched(r) \/ Inserted(r) \/ Stopped(r) \/ HandedOut(r) \/ StepRecorded(r)

\* Every step of the queue changes every job in one of these ways.
LEMMA RowSteps ==
    ASSUME QueueInv, [Next]_vars, NEW r \in Requests
    PROVE  RowStep(r)
  <1> USE DEF RowStep
  <1>0. /\ jobs \in [Requests -> Job]
        /\ ckpt \in [Requests -> SUBSET (0..3)]
        /\ issued \in [Requests -> Nat]
        /\ jobs[r] \in Job
    BY DEF QueueInv, TypeOK
  <1>1. ASSUME jobs' = jobs \/ jobs'[r] = jobs[r],
               issued'[r] = issued[r],
               ckpt'[r] = ckpt[r]
        PROVE  RowStep(r)
    BY <1>1 DEF Untouched
  <1>2. ASSUME NEW q \in Requests, NEW row,
               jobs' = [jobs EXCEPT ![q] = row]
        PROVE  jobs'[r] = IF r = q THEN row ELSE jobs[r]
    BY <1>0, <1>2
  <1>3. ASSUME NEW q \in Requests, NEW s \in {"paused", "queued", "cancelled", "failed"},
               jobs[q].status \in Live,
               jobs' = [jobs EXCEPT ![q] = Unleased(jobs[q], s)],
               UNCHANGED <<ckpt, issued>>
        PROVE  RowStep(r)
    <2>1. s \in Statuses
      BY DEF Statuses, Live, Terminal
    <2>2. CASE q # r
      BY <2>2, <1>1, <1>2, <1>3
    <2>3. CASE q = r
      <3>1. jobs'[r] = Unleased(jobs[r], s)
        BY <2>3, <1>2, <1>3
      <3> QED
        BY <1>0, <1>3, <2>1, <2>3, <3>1, UnleasedType DEF Stopped
    <2> QED
      BY <2>2, <2>3
  <1>4. CASE UNCHANGED vars
    BY <1>1, <1>4 DEF vars
  <1>5. ASSUME NEW q \in Requests, Operator(q) PROVE RowStep(r)
    <2>1. CASE Enqueue(q)
      <3>1. CASE q = r
        <4>1. jobs'[r] = Queued(Cardinality(Rows))
          BY <2>1, <3>1, <1>2 DEF Enqueue
        <4>2. /\ jobs[r].status = "absent"
              /\ UNCHANGED <<ckpt, issued>>
          BY <2>1, <3>1 DEF Enqueue
        <4> QED
          BY <2>1, <3>1, <4>1, <4>2, RowsCount, QueuedType DEF Inserted
      <3>2. CASE q # r
        BY <2>1, <3>2, <1>1, <1>2 DEF Enqueue
      <3> QED
        BY <3>1, <3>2
    <2>2. CASE BindChat(q)
      <3>1. CASE q = r
        <4>1. jobs'[r] = Bound(jobs[r])
          BY <2>2, <3>1, <1>2 DEF BindChat
        <4>2. UNCHANGED <<ckpt, issued>>
          BY <2>2 DEF BindChat
        <4> QED
          BY <1>0, <4>1, <4>2, BoundType DEF Untouched
      <3>2. CASE q # r
        BY <2>2, <3>2, <1>1, <1>2 DEF BindChat
      <3> QED
        BY <3>1, <3>2
    <2>3. CASE Pause(q)
      BY <2>3, <1>3 DEF Pause, Live
    <2>4. CASE Resume(q)
      BY <2>4, <1>3 DEF Resume, Live
    <2>5. CASE Cancel(q)
      BY <2>5, <1>3 DEF Cancel
    <2> QED
      BY <1>5, <2>1, <2>2, <2>3, <2>4, <2>5 DEF Operator
  <1>6. ASSUME NEW w \in Workers, NEW ready \in BOOLEAN, Claim(w, ready)
        PROVE  RowStep(r)
    <2> PICK q \in Requests : \/ ClaimPause(w, q, ready)
                              \/ ClaimExhausted(w, q, ready)
                              \/ ClaimRun(w, q, ready)
      BY <1>6 DEF Claim
    <2>1. IsHead(q, ready)
      BY DEF ClaimPause, ClaimExhausted, ClaimRun
    <2>2. jobs[q].status \in Live
      BY <2>1 DEF IsHead, Claimable, Live
    <2>3. CASE ClaimPause(w, q, ready)
      BY <2>2, <2>3, <1>3 DEF ClaimPause
    <2>4. CASE ClaimExhausted(w, q, ready)
      BY <2>2, <2>4, <1>3 DEF ClaimExhausted
    <2>5. CASE ClaimRun(w, q, ready)
      <3> DEFINE n == jobs[q].attempts + 1
                 t == issued[q] + 1
      <3>1. /\ jobs' = [jobs EXCEPT ![q] = Leased(jobs[q], n, t)]
            /\ issued' = [issued EXCEPT ![q] = t]
            /\ ckpt' = ckpt
        BY <2>5 DEF ClaimRun
      <3>2. n \in 0..MaxAttempts /\ t \in Nat
        BY <1>0, <2>5, ConstantsAssumption DEF ClaimRun, Job
      <3>3. CASE q = r
        <4>1. /\ jobs'[r] = Leased(jobs[r], n, t)
              /\ issued'[r] = t
              /\ ckpt'[r] = ckpt[r]
          BY <1>0, <1>2, <3>1, <3>3
        <4>2. /\ Leased(jobs[r], n, t).status = "running"
              /\ Leased(jobs[r], n, t).step = jobs[r].step
              /\ Leased(jobs[r], n, t).attempts = n
          <5> HIDE DEF n, t
          <5> QED
            BY <1>0, <3>2, LeasedType
        <4> QED
          BY <2>2, <3>3, <4>1, <4>2 DEF HandedOut
      <3>4. CASE q # r
        BY <1>0, <1>1, <1>2, <3>1, <3>4
      <3> QED
        BY <3>3, <3>4
    <2> QED
      BY <2>3, <2>4, <2>5
  <1>7. ASSUME NEW w \in Workers,
               \/ \E res \in Results : Execute(w, res)
               \/ CheckpointStale(w)
               \/ Crash(w)
        PROVE  RowStep(r)
    BY <1>1, <1>7 DEF Execute, CheckpointStale, Crash
  <1>8. ASSUME NEW w \in Workers, ExtendLease(w) PROVE RowStep(r)
    <2> DEFINE q == wk[w].job
    <2>1. q \in Requests
      BY <1>8 DEF ExtendLease, QueueInv, ClaimsNameJobs
    <2>2. /\ jobs' = [jobs EXCEPT ![q] = Extended(jobs[q], LocalTicks)]
          /\ UNCHANGED <<ckpt, issued>>
      BY <1>8 DEF ExtendLease
    <2>3. CASE q = r
      <3>1. jobs'[r] = Extended(jobs[r], LocalTicks)
        BY <1>2, <2>1, <2>2, <2>3
      <3>2. LocalTicks \in Nat
        BY ConstantsAssumption
      <3>3. /\ jobs'[r].status = jobs[r].status
            /\ jobs'[r].step = jobs[r].step
            /\ jobs'[r].attempts = jobs[r].attempts
        BY <1>0, <3>1, <3>2, ExtendedType
      <3> QED
        BY <2>2, <3>3 DEF Untouched
    <2>4. CASE q # r
      BY <1>1, <1>2, <2>1, <2>2, <2>4
    <2> QED
      BY <2>3, <2>4
  <1>9. ASSUME NEW w \in Workers, CheckpointPause(w) \/ CheckpointRetry(w)
        PROVE  RowStep(r)
    <2>1. /\ wk[w].job \in Requests
          /\ jobs[wk[w].job].status \in Live
      BY <1>9 DEF CheckpointPause, CheckpointRetry, OwnsLease, Live, QueueInv, ClaimsNameJobs
    <2> QED
      BY <1>3, <1>9, <2>1 DEF CheckpointPause, CheckpointRetry
  <1>10. ASSUME NEW w \in Workers, CheckpointCommit(w) PROVE RowStep(r)
    <2> DEFINE q    == wk[w].job
               ok   == wk[w].res = "ok"
               next == IF ok THEN jobs[q].step + 1 ELSE jobs[q].step
               to   == IF ~ok THEN "failed"
                       ELSE IF next = Steps(q) THEN "succeeded" ELSE "queued"
    <2>1. /\ q \in Requests
          /\ jobs[q].status = "running"
      BY <1>10 DEF CheckpointCommit, OwnsLease, QueueInv, ClaimsNameJobs
    <2>2. /\ jobs' = [jobs EXCEPT ![q] = Advanced(jobs[q], to, next)]
          /\ ckpt' = [ckpt EXCEPT ![q] = @ \cup {jobs[q].step}]
          /\ issued' = issued
      BY <1>10 DEF CheckpointCommit
    <2>3. jobs[q].step < Steps(q) /\ jobs[q] \in Job
      BY <1>0, <2>1 DEF QueueInv, ClaimsNameJobs, Live
    <2>4. next \in 0..3 /\ to \in Statuses
      BY <2>3 DEF Job, Steps, Statuses, Live, Terminal
    <2>5. CASE q = r
      <3>1. /\ jobs'[r] = Advanced(jobs[r], to, next)
            /\ ckpt'[r] = ckpt[r] \cup {jobs[r].step}
            /\ issued'[r] = issued[r]
        BY <1>0, <1>2, <2>1, <2>2, <2>5
      <3>2. /\ jobs'[r].status = to
            /\ jobs'[r].step = next
            /\ jobs'[r].attempts = 0
        <4>1. jobs[r] \in Job
          BY <2>3, <2>5
        <4>2. \A s, n : /\ Advanced(jobs[r], s, n).status = s
                        /\ Advanced(jobs[r], s, n).step = n
                        /\ Advanced(jobs[r], s, n).attempts = 0
          BY <4>1, AdvancedFields
        <4> HIDE DEF to, next
        <4> DEFINE new == Advanced(jobs[r], to, next)
        <4>3. jobs'[r] = new /\ new.status = to /\ new.step = next /\ new.attempts = 0
          BY <3>1, <4>2
        <4> HIDE DEF new
        <4> QED
          BY <4>3
      <3>3. \/ next = jobs[r].step + 1 /\ to \in {"queued", "succeeded"}
            \/ next = jobs[r].step /\ to = "failed"
        BY <2>5
      <3> HIDE DEF to, next
      <3>4. StepRecorded(r)
        BY <2>1, <2>5, <3>1, <3>2, <3>3 DEF StepRecorded
      <3> QED
        BY <3>4
    <2>6. CASE q # r
      BY <1>0, <1>1, <1>2, <2>1, <2>2, <2>6
    <2> QED
      BY <2>5, <2>6
  <1>11. CASE Tick
    <2>1. jobs'[r] = IF jobs[r].status \in Live THEN Ticked(jobs[r]) ELSE jobs[r]
      BY <1>11 DEF Tick
    <2>2. UNCHANGED <<ckpt, issued>>
      BY <1>11 DEF Tick
    <2> QED
      BY <1>0, <2>1, <2>2, TickedType DEF Untouched
  <1>12. ASSUME NEW t \in Tasks, TaskChange(t) PROVE RowStep(r)
    BY <1>1, <1>12 DEF TaskChange
  <1> HIDE DEF RowStep
  <1> QED
    BY <1>4, <1>5, <1>6, <1>7, <1>8, <1>9, <1>10, <1>11, <1>12 DEF Next, Checkpoint

-----------------------------------------------------------------------------
(* Attempts, checkpoints and final statuses. *)

\* Tokens drawn for a job are paid for by completed steps and counted
\* attempts; a job that is not there has neither.
AttemptsAccount ==
    \A r \in Requests :
        /\ jobs[r].status = "absent" => issued[r] = 0 /\ ckpt[r] = {}
        /\ jobs[r].status = "succeeded" => jobs[r].attempts = 0
        /\ issued[r] <= MaxAttempts * jobs[r].step +
              (IF jobs[r].status = "failed" THEN MaxAttempts ELSE jobs[r].attempts)

ProgressInv == QueueInv /\ AttemptsAccount /\ CheckpointsContiguous

\* An empty queue has drawn no tokens and written no checkpoints.
LEMMA ProgressInit == Init => ProgressInv
  <1> SUFFICES ASSUME Init PROVE ProgressInv
    OBVIOUS
  <1>1. AttemptsAccount
    BY ConstantsAssumption DEF AttemptsAccount, Init, NoRow
  <1>2. CheckpointsContiguous
    BY DEF CheckpointsContiguous, Init, NoRow
  <1> QED
    BY <1>1, <1>2, QueueInvInit DEF ProgressInv

\* Every step keeps the count of claims and the checkpoint rows in order.
LEMMA ProgressStep == ProgressInv /\ [Next]_vars => ProgressInv'
  <1> SUFFICES ASSUME ProgressInv, [Next]_vars PROVE ProgressInv'
    OBVIOUS
  <1>1. QueueInv /\ QueueInv'
    BY QueueInvStep DEF ProgressInv
  <1>2. ASSUME NEW r \in Requests
        PROVE  /\ jobs'[r].status = "absent" => issued'[r] = 0 /\ ckpt'[r] = {}
               /\ jobs'[r].status = "succeeded" => jobs'[r].attempts = 0
               /\ issued'[r] <= MaxAttempts * jobs'[r].step +
                     (IF jobs'[r].status = "failed" THEN MaxAttempts
                      ELSE jobs'[r].attempts)
               /\ \/ ckpt'[r] = 0..(jobs'[r].step - 1)
                  \/ /\ jobs'[r].status = "failed"
                     /\ ckpt'[r] = 0..(jobs'[r].step - 1) \cup {jobs'[r].step}
    <2> DEFINE n == jobs[r].step
               a == jobs[r].attempts
    <2>0. /\ n \in 0..3
          /\ a \in 0..MaxAttempts
          /\ issued[r] \in Nat
          /\ MaxAttempts \in Nat \ {0}
          /\ jobs'[r].attempts \in 0..MaxAttempts
      BY <1>1, ConstantsAssumption DEF QueueInv, TypeOK, Job
    <2>1. /\ jobs[r].status = "absent" => issued[r] = 0 /\ ckpt[r] = {}
          /\ jobs[r].status = "succeeded" => a = 0
          /\ issued[r] <= MaxAttempts * n +
                (IF jobs[r].status = "failed" THEN MaxAttempts ELSE a)
      BY DEF ProgressInv, AttemptsAccount
    <2>2. \/ ckpt[r] = 0..(n - 1)
          \/ jobs[r].status = "failed" /\ ckpt[r] = 0..(n - 1) \cup {n}
      BY DEF ProgressInv, CheckpointsContiguous
    <2>3. CASE Untouched(r)
      BY <2>0, <2>1, <2>2, <2>3 DEF Untouched
    <2>4. CASE Inserted(r)
      <3>1. MaxAttempts * 0 = 0 /\ 0..(0 - 1) = {}
        BY <2>0
      <3> QED
        BY <2>0, <2>1, <2>4, <3>1 DEF Inserted
    <2>5. CASE Stopped(r)
      <3>1. issued[r] <= MaxAttempts * n + a /\ ckpt[r] = 0..(n - 1)
        BY <2>1, <2>2, <2>5 DEF Stopped, Live
      <3>2. MaxAttempts * n \in Int
        BY <2>0
      <3>3. issued'[r] <= MaxAttempts * jobs'[r].step + jobs'[r].attempts
        BY <2>5, <3>1 DEF Stopped
      <3>4. jobs'[r].status = "failed" =>
               issued'[r] <= MaxAttempts * jobs'[r].step + MaxAttempts
        BY <2>0, <2>5, <3>1, <3>2 DEF Stopped
      <3> QED
        BY <2>5, <3>1, <3>3, <3>4 DEF Stopped
    <2>6. CASE HandedOut(r)
      <3>1. issued[r] <= MaxAttempts * n + a /\ ckpt[r] = 0..(n - 1)
        BY <2>1, <2>2, <2>6 DEF HandedOut, Live
      <3>2. MaxAttempts * n \in Int
        BY <2>0
      <3>3. issued[r] + 1 <= MaxAttempts * n + (a + 1)
        BY <2>0, <3>1, <3>2
      <3>4. issued'[r] <= MaxAttempts * jobs'[r].step + jobs'[r].attempts
        BY <2>6, <3>3 DEF HandedOut
      <3> QED
        BY <2>6, <3>1, <3>4 DEF HandedOut
    <2>7. CASE StepRecorded(r)
      <3>1. MaxAttempts * (n + 1) = MaxAttempts * n + MaxAttempts
        BY <2>0
      <3>2. 0..((n + 1) - 1) = 0..(n - 1) \cup {n}
        BY <2>0
      <3>3. MaxAttempts * n \in Int
        BY <2>0
      <3>4. issued[r] <= MaxAttempts * n + a /\ ckpt[r] = 0..(n - 1)
        BY <2>1, <2>2, <2>7 DEF StepRecorded
      <3>5. CASE jobs'[r].step = n + 1
        <4>1. jobs'[r].status \in {"queued", "succeeded"}
          BY <2>0, <2>7, <3>5 DEF StepRecorded
        <4>2. issued'[r] <= MaxAttempts * jobs'[r].step + jobs'[r].attempts
          BY <2>0, <2>7, <3>1, <3>3, <3>4, <3>5 DEF StepRecorded
        <4>3. ckpt'[r] = 0..(jobs'[r].step - 1)
          BY <2>7, <3>2, <3>4, <3>5 DEF StepRecorded
        <4> QED
          BY <2>7, <4>1, <4>2, <4>3 DEF StepRecorded
      <3>6. CASE jobs'[r].step = n
        <4>1. jobs'[r].status = "failed"
          BY <2>0, <2>7, <3>6 DEF StepRecorded
        <4>2. issued'[r] <= MaxAttempts * jobs'[r].step + MaxAttempts
          BY <2>0, <2>7, <3>3, <3>4, <3>6 DEF StepRecorded
        <4>3. ckpt'[r] = 0..(jobs'[r].step - 1) \cup {jobs'[r].step}
          BY <2>7, <3>4, <3>6 DEF StepRecorded
        <4> QED
          BY <4>1, <4>2, <4>3
      <3> QED
        BY <2>7, <3>5, <3>6 DEF StepRecorded
    <2> QED
      BY <1>1, <2>3, <2>4, <2>5, <2>6, <2>7, RowSteps DEF RowStep
  <1>3. AttemptsAccount' /\ CheckpointsContiguous'
    BY <1>2 DEF AttemptsAccount, CheckpointsContiguous
  <1> QED
    BY <1>1, <1>3 DEF ProgressInv

\* The accounts of attempts bound the claims.
LEMMA ClaimsFollow == ProgressInv => ClaimsBounded
  <1> SUFFICES ASSUME ProgressInv, NEW r \in Requests
               PROVE  issued[r] <= MaxAttempts *
                        (IF jobs[r].status = "succeeded" THEN jobs[r].step
                         ELSE jobs[r].step + 1)
    BY DEF ClaimsBounded
  <1>1. /\ jobs[r].step \in 0..3
        /\ jobs[r].attempts \in 0..MaxAttempts
        /\ issued[r] \in Nat
        /\ MaxAttempts \in Nat \ {0}
    BY ConstantsAssumption DEF ProgressInv, QueueInv, TypeOK, Job
  <1>2. MaxAttempts * (jobs[r].step + 1) = MaxAttempts * jobs[r].step + MaxAttempts
    BY <1>1
  <1>3. /\ jobs[r].status = "succeeded" => jobs[r].attempts = 0
        /\ issued[r] <= MaxAttempts * jobs[r].step +
            (IF jobs[r].status = "failed" THEN MaxAttempts ELSE jobs[r].attempts)
    BY DEF ProgressInv, AttemptsAccount
  <1> QED
    BY <1>1, <1>2, <1>3

\* MAX_ATTEMPTS: no step of any job is handed to workers more often, whatever
\* they crash on, however leases expire and however often it is paused.
THEOREM BoundedClaims == Spec => []ClaimsBounded
  BY ClaimsFollow, ProgressInit, ProgressStep, PTL DEF Spec

\* The checkpoint rows are always the completed prefix of the job, so the
\* INSERT of checkpoint never collides and no step is skipped.
THEOREM ContiguousCheckpoints == Spec => []CheckpointsContiguous
  <1>1. ProgressInv => CheckpointsContiguous
    BY DEF ProgressInv
  <1> QED
    BY <1>1, ProgressInit, ProgressStep, PTL DEF Spec

\* A succeeded, failed or cancelled job keeps its status, its step and its
\* checkpoints for ever.
THEOREM FinalIsFinal == Spec => TerminalStable
  <1>1. QueueInv /\ [Next]_vars =>
          [\A r \in Requests :
             jobs[r].status \in Terminal =>
                /\ jobs'[r].status = jobs[r].status
                /\ jobs'[r].step = jobs[r].step
                /\ ckpt'[r] = ckpt[r]]_vars
    <2> SUFFICES ASSUME QueueInv, [Next]_vars, NEW r \in Requests,
                        jobs[r].status \in Terminal
                 PROVE  /\ jobs'[r].status = jobs[r].status
                        /\ jobs'[r].step = jobs[r].step
                        /\ ckpt'[r] = ckpt[r]
      OBVIOUS
    <2> QED
      BY RowSteps DEF RowStep, Untouched, Inserted, Stopped, HandedOut,
                      StepRecorded, Live, Terminal
  <1> QED
    BY <1>1, QueueInvInit, QueueInvStep, PTL DEF Spec, TerminalStable

\* Only enqueue adds to the jobs that count towards the limit: resume, a retry
\* and a recovered lease take a job that counted already.
LEMMA BoundedStep == QueueInv /\ QueueBounded /\ [Next]_vars => QueueBounded'
  <1> SUFFICES ASSUME QueueInv, QueueBounded, [Next]_vars
               PROVE  QueueBounded'
    OBVIOUS
  <1>1. /\ IsFiniteSet(Active)
        /\ Cardinality(Active) \in Nat
        /\ Cardinality(Active) <= QueueLimit
        /\ QueueLimit \in Nat
    <2>1. Active \in SUBSET Requests
      BY DEF Active
    <2>2. IsFiniteSet(Active)
      BY <2>1, ConstantsAssumption, FS_Subset
    <2> QED
      BY <2>2, ConstantsAssumption, FS_CardinalityType DEF QueueBounded
  <1>2. \A r \in Requests : RowStep(r)
    BY RowSteps
  <1>3. ASSUME NEW q \in Requests, Inserted(q)
        PROVE  QueueBounded'
    <2>1. /\ Cardinality(Active) < QueueLimit
          /\ jobs' = [jobs EXCEPT ![q] = Queued(Cardinality(Rows))]
      BY <1>3 DEF Inserted, Enqueue
    <2>2. Active' \in SUBSET (Active \cup {q})
      BY <2>1 DEF Active, QueueInv, TypeOK
    <2>3. /\ IsFiniteSet(Active \cup {q})
          /\ Cardinality(Active \cup {q}) <= Cardinality(Active) + 1
      <3>1. IsFiniteSet(Active)
        BY <1>1
      <3>2. /\ IsFiniteSet(Active \cup {q})
            /\ Cardinality(Active \cup {q}) =
                 IF q \in Active THEN Cardinality(Active) ELSE Cardinality(Active) + 1
        BY <3>1, FS_AddElement, Zenon
      <3> QED
        BY <1>1, <3>2
    <2>4. /\ Cardinality(Active') <= Cardinality(Active \cup {q})
          /\ IsFiniteSet(Active')
      BY <2>2, <2>3, FS_Subset
    <2>5. /\ Cardinality(Active') \in Nat
          /\ Cardinality(Active \cup {q}) \in Nat
      BY <2>3, <2>4, FS_CardinalityType
    <2> QED
      BY <1>1, <2>1, <2>3, <2>4, <2>5 DEF QueueBounded
  <1>4. ASSUME \A r \in Requests : ~Inserted(r)
        PROVE  QueueBounded'
    <2>1. Active' \in SUBSET Active
      <3> SUFFICES ASSUME NEW r \in Requests, jobs'[r].status \in Live
                   PROVE  jobs[r].status \in Live
        BY DEF Active
      <3> QED
        BY <1>2, <1>4 DEF RowStep, Untouched, Stopped, HandedOut, StepRecorded, Live
    <2>2. /\ Cardinality(Active') <= Cardinality(Active)
          /\ IsFiniteSet(Active')
      BY <1>1, <2>1, FS_Subset
    <2>3. Cardinality(Active') \in Nat
      BY <2>2, FS_CardinalityType
    <2> QED
      BY <1>1, <2>2, <2>3 DEF QueueBounded
  <1> QED
    BY <1>3, <1>4

\* The table is well formed, and the admission limit that enqueue checks holds
\* over every way into and back into the queue.
THEOREM QueueIsSound == Spec => []QueueSound
  <1>1. Init => QueueBounded
    <2> SUFFICES ASSUME Init PROVE QueueBounded
      OBVIOUS
    <2>1. Active = {}
      BY DEF Init, Active, NoRow, Live
    <2> QED
      BY <2>1, FS_EmptySet, ConstantsAssumption DEF QueueBounded
  <1>2. QueueInv /\ QueueBounded => QueueSound
    BY DEF QueueInv, QueueSound
  <1> QED
    BY <1>1, <1>2, BoundedStep, QueueInvInit, QueueInvStep, PTL DEF Spec

-----------------------------------------------------------------------------
(* The order of claims. *)

\* A job that has waited two rank periods has rank 0, and no rank is below it.
LEMMA AgedRank ==
    ASSUME QueueInv, NEW q \in Requests
    PROVE  /\ jobs[q].age = MaxAge => Rank(q) = 0
           /\ Rank(q) \in Nat
  <1>1. /\ jobs[q].age \in 0..MaxAge
        /\ jobs[q].rank \in {0, 2}
        /\ AgeTicks \in Nat \ {0}
        /\ MaxAge = 2 * AgeTicks
    BY ConstantsAssumption DEF QueueInv, TypeOK, Job, MaxAge, BackgroundRank
  <1>2. (2 * AgeTicks) \div AgeTicks = 2
    BY <1>1
  <1>3. jobs[q].age \div AgeTicks \in Int
    BY <1>1
  <1>4. jobs[q].age \div AgeTicks >= 0
    BY <1>1
  <1> QED
    BY <1>1, <1>2, <1>3, <1>4 DEF Rank

\* Only the claim that hands a job out draws a token, and only for that job.
LEMMA TokenDrawn ==
    ASSUME QueueInv, [Next]_vars, NEW r \in Requests, issued'[r] > issued[r]
    PROVE  \E w \in Workers, ready \in BOOLEAN : ClaimRun(w, r, ready)
  <1>1. issued \in [Requests -> Nat]
    BY DEF QueueInv, TypeOK
  <1>2. issued' # issued
    BY <1>1
  <1>3. PICK w \in Workers, ready \in BOOLEAN, q \in Requests : ClaimRun(w, q, ready)
    BY <1>2 DEF Next, vars, Operator, Enqueue, BindChat, Pause, Resume, Cancel,
                TaskChange, Claim, ClaimPause, ClaimExhausted, Execute, ExtendLease,
                Checkpoint, CheckpointStale, CheckpointPause, CheckpointRetry,
                CheckpointCommit, Crash, Tick
  <1>4. issued' = [issued EXCEPT ![q] = @ + 1]
    BY <1>3 DEF ClaimRun
  <1>5. q = r
    BY <1>1, <1>4
  <1> QED
    BY <1>3, <1>5

\* Aging: whatever chat jobs arrive, a claim never passes over a claimable job
\* that was created earlier and has waited two rank periods.
THEOREM AgedFirst == Spec => AgedNotOvertaken
  <1>1. QueueInv /\ [Next]_vars =>
          [\A r, q \in Requests :
             issued'[r] > issued[r] =>
                ~ /\ Claimable(q, FALSE)
                  /\ jobs[q].age = MaxAge
                  /\ jobs[q].born < jobs[r].born]_vars
    <2> SUFFICES ASSUME QueueInv, [Next]_vars,
                        NEW r \in Requests, NEW q \in Requests,
                        issued'[r] > issued[r],
                        Claimable(q, FALSE),
                        jobs[q].age = MaxAge,
                        jobs[q].born < jobs[r].born
                 PROVE  FALSE
      OBVIOUS
    <2>1. PICK w \in Workers, ready \in BOOLEAN : ClaimRun(w, r, ready)
      BY TokenDrawn
    <2>2. jobs[r].born \in Nat /\ jobs[q].born \in Nat
      BY DEF QueueInv, TypeOK, Job
    <2>3. Claimable(q, ready)
      BY DEF Claimable
    <2>4. Before(r, q)
      BY <2>1, <2>2, <2>3 DEF ClaimRun, IsHead
    <2>5. Rank(q) = 0 /\ Rank(r) \in Nat
      BY AgedRank
    <2> QED
      BY <2>2, <2>4, <2>5 DEF Before
  <1> QED
    BY <1>1, QueueInvInit, QueueInvStep, PTL DEF Spec, AgedNotOvertaken
=============================================================================
