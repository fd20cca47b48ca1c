-------------------------- MODULE LocalCheck_proofs --------------------------
(***************************************************************************)
(* Proofs about LocalCheck: it implements WorkQueue, so the theorems of    *)
(* WorkQueue_proofs hold of a project check, and a check that succeeded    *)
(* describes one version of the files, however they were edited meanwhile  *)
(* and whichever workers executed its steps.                               *)
(***************************************************************************)
EXTENDS LocalCheck, WorkQueue_proofs

-----------------------------------------------------------------------------
(* The inductive invariant. *)

\* Contents typed as CTypeOK does, without the queue.
FilesTyped ==
    /\ source \in [Files -> Contents]
    /\ run \in [Workers -> Run]
    /\ \A w \in Workers : Len(run[w].hashed) <= NFiles /\ Len(run[w].reread) <= NFiles
    /\ snap \in [Requests -> Seq(Contents)]
    /\ parsed \in [Requests -> Seq(Contents)]

\* A job that has its snapshot has the hash of every file, and one whose syntax
\* step passed has parsed them all.
RowSound(r) ==
    /\ jobs[r].status = "absent" => jobs[r].step = 0
    /\ jobs[r].status = "succeeded" => jobs[r].step = 3
    /\ jobs[r].step >= 1 => Len(snap[r]) = NFiles
    /\ jobs[r].step >= 2 =>
          parsed[r] = snap[r] /\ \A f \in Files : snap[r][f] \notin Invalid

\* What was parsed is what was hashed, byte for byte.
RereadSound(x) ==
    /\ Len(x.reread) <= Len(x.hashed)
    /\ \A n \in Files : n <= Len(x.reread) => x.reread[n] = x.hashed[n]
    /\ ~x.failures => \A n \in Files : n <= Len(x.reread) => x.reread[n] \notin Invalid

\* A worker is never ahead of its job, what it parsed are bytes of the stored
\* snapshot, and a passed step measured every file.
RunSound(w) ==
    LET r == wk[w].job IN
    /\ wk[w].pc = "idle" => run[w] = NoRun
    /\ wk[w].pc # "idle" => wk[w].step <= jobs[r].step
    /\ RereadSound(run[w])
    /\ wk[w].pc = "result" /\ wk[w].res = "ok" =>
          /\ Hashed(w)
          /\ wk[w].step # 0 => Unchanged(w)
          /\ wk[w].step = 1 => Len(run[w].reread) = NFiles
          /\ ~run[w].failures

CheckInv ==
    /\ ProgressInv
    /\ FilesTyped
    /\ \A r \in Requests : RowSound(r)
    /\ \A w \in Workers : RunSound(w)

-----------------------------------------------------------------------------
(* Steps of the check are steps of the queue. *)

\* Reading and editing files leave the queue alone; every other step is one of
\* the queue's own.
LEMMA QueueSteps == [CNext]_cvars => [Next]_vars
  <1> SUFFICES ASSUME [CNext]_cvars PROVE [Next]_vars
    OBVIOUS
  <1>1. CASE UNCHANGED cvars
    BY <1>1 DEF cvars, vars
  <1>2. CASE QueueOnly
    BY <1>2 DEF QueueOnly, Next, Operator
  <1>3. ASSUME NEW f \in Files, NEW c \in Contents, Edit(f, c) PROVE [Next]_vars
    BY <1>3 DEF Edit, vars
  <1>4. ASSUME NEW w \in Workers, HashFile(w) \/ ParseFile(w) PROVE [Next]_vars
    BY <1>4 DEF HashFile, ParseFile, vars
  <1>5. ASSUME NEW w \in Workers, NEW res \in Results, Execute(w, res) PROVE [Next]_vars
    BY <1>5 DEF Next
  <1>6. ASSUME NEW w \in Workers,
               ParseChanged(w) \/ SourceChanged(w) \/ CheckFails(w) \/ StepDone(w)
        PROVE  [Next]_vars
    <2>1. PICK res \in {"ok", "bad"} : Execute(w, res)
      BY <1>6 DEF ParseChanged, SourceChanged, CheckFails, StepDone
    <2> QED
      BY <1>5, <2>1 DEF Results
  <1>7. ASSUME NEW w \in Workers, Checkpointed(w) \/ Discarded(w) PROVE [Next]_vars
    BY <1>7 DEF Checkpointed, Discarded, Next, Checkpoint
  <1> QED
    BY <1>1, <1>2, <1>3, <1>4, <1>6, <1>7 DEF CNext

\* The worker's check is an implementation of the queue's Execute.
THEOREM CheckImplementsQueue == CSpec => Spec
  <1>1. CInit => Init
    BY DEF CInit
  <1> QED
    BY <1>1, QueueSteps, PTL DEF CSpec, Spec

-----------------------------------------------------------------------------
\* An unread run has measured nothing.
LEMMA NoRunSound ==
    /\ NoRun \in Run
    /\ RereadSound(NoRun)
    /\ Len(NoRun.hashed) = 0
    /\ Len(NoRun.reread) = 0
  <1>1. <<>> \in Seq(Contents) /\ Len(<<>>) = 0
    OBVIOUS
  <1>2. NoRun \in Run /\ NoRun.hashed = <<>> /\ NoRun.reread = <<>>
    BY <1>1, Zenon DEF NoRun, Run
  <1> QED
    BY <1>1, <1>2, FilesAssumption DEF RereadSound, Files

\* Reading one more content.
LEMMA AppendOne ==
    ASSUME NEW s \in Seq(Contents), NEW c \in Contents
    PROVE  /\ Append(s, c) \in Seq(Contents)
           /\ Len(Append(s, c)) = Len(s) + 1
           /\ \A n \in 1..Len(s) : Append(s, c)[n] = s[n]
           /\ Append(s, c)[Len(s) + 1] = c
  OBVIOUS

\* Without a checkpoint no job moves on: it stays at its step, and succeeded and
\* absent jobs were so before.
LEMMA StepKept ==
    ASSUME ProgressInv, \A r \in Requests : RowSound(r),
           [Next]_vars, ckpt' = ckpt, NEW r \in Requests
    PROVE  /\ jobs'[r].step = jobs[r].step
           /\ jobs'[r].status \in {"succeeded", "absent"} =>
                 jobs[r].status = jobs'[r].status
  <1>1. RowStep(r)
    BY RowSteps DEF ProgressInv
  <1>2. ~StepRecorded(r)
    <2> SUFFICES ASSUME StepRecorded(r) PROVE FALSE
      OBVIOUS
    <2>1. jobs[r].step \in 0..3
      BY DEF ProgressInv, QueueInv, TypeOK, Job
    <2>2. jobs[r].step \in ckpt[r] /\ jobs[r].status = "running"
      BY DEF StepRecorded
    <2>3. ckpt[r] = 0..(jobs[r].step - 1)
      BY <2>2 DEF ProgressInv, CheckpointsContiguous
    <2> QED
      BY <2>1, <2>2, <2>3
  <1> QED
    BY <1>1, <1>2 DEF RowStep, RowSound, Untouched, Inserted, Stopped, HandedOut

\* Rows whose step and results are kept stay sound.
LEMMA RowsKept ==
    ASSUME ProgressInv, \A r \in Requests : RowSound(r),
           [Next]_vars, ckpt' = ckpt, UNCHANGED <<snap, parsed>>
    PROVE  \A r \in Requests : RowSound(r)'
  <1> SUFFICES ASSUME NEW r \in Requests PROVE RowSound(r)'
    OBVIOUS
  <1>1. /\ jobs'[r].step = jobs[r].step
        /\ jobs'[r].status \in {"succeeded", "absent"} =>
              jobs[r].status = jobs'[r].status
    BY StepKept
  <1> QED
    BY <1>1 DEF RowSound

\* What a worker holds stays sound as long as nothing it refers to changes.
LEMMA RunKept ==
    ASSUME ProgressInv, ProgressInv', NEW w \in Workers, RunSound(w),
           wk'[w] = wk[w], run'[w] = run[w],
           wk[w].pc # "idle" => jobs'[wk[w].job].step >= jobs[wk[w].job].step,
           wk[w].pc # "idle" /\ wk[w].step # 0 => snap'[wk[w].job] = snap[wk[w].job]
    PROVE  RunSound(w)'
  <1>1. ASSUME wk[w].pc # "idle"
        PROVE  /\ jobs[wk[w].job].step \in 0..3
               /\ jobs'[wk[w].job].step \in 0..3
               /\ wk[w].step \in 0..3
    BY <1>1 DEF ProgressInv, QueueInv, ClaimsNameJobs, TypeOK, Job, Claims
  <1>2. wk'[w].pc # "idle" => wk'[w].step <= jobs'[wk'[w].job].step
    BY <1>1 DEF RunSound
  <1>3. RereadSound(run'[w])
    BY DEF RunSound
  <1> QED
    BY <1>2, <1>3 DEF RunSound, Hashed, Unchanged

\* A worker without a claim holds nothing.
LEMMA IdleSound ==
    ASSUME NEW w \in Workers, wk'[w] = Idle, run'[w] = NoRun
    PROVE  RunSound(w)'
  BY NoRunSound DEF RunSound, Idle

-----------------------------------------------------------------------------
(* The steps, one by one. *)

\* The invariant holds before anything was read.
LEMMA CheckInit == CInit => CheckInv
  <1> SUFFICES ASSUME CInit PROVE CheckInv
    OBVIOUS
  <1>1. ProgressInv
    BY ProgressInit DEF CInit
  <1>2. <<>> \in Seq(Contents) /\ NFiles \in Nat
    BY FilesAssumption
  <1>3. FilesTyped
    <2>1. run \in [Workers -> Run]
      BY NoRunSound, Zenon DEF CInit
    <2>2. \A w \in Workers : run[w] = NoRun
      BY DEF CInit
    <2>3. \A w \in Workers : Len(run[w].hashed) <= NFiles /\ Len(run[w].reread) <= NFiles
      BY <1>2, <2>2, NoRunSound
    <2>4. /\ source \in [Files -> Contents]
          /\ snap \in [Requests -> Seq(Contents)]
          /\ parsed \in [Requests -> Seq(Contents)]
      BY <1>2 DEF CInit
    <2> QED
      BY <2>1, <2>3, <2>4 DEF FilesTyped
  <1>4. \A r \in Requests : RowSound(r)
    BY DEF CInit, Init, NoRow, RowSound
  <1>5. \A w \in Workers : RunSound(w)
    BY NoRunSound DEF CInit, Init, Idle, RunSound
  <1> QED
    BY <1>1, <1>3, <1>4, <1>5 DEF CheckInv

\* A step that leaves queue and results alone and changes one worker's run to a
\* sound one keeps the invariant.
LEMMA ReadStep ==
    ASSUME CheckInv, NEW w \in Workers, NEW x \in Run,
           wk[w].pc = "claimed",
           run' = [run EXCEPT ![w] = x],
           Len(x.hashed) <= NFiles, Len(x.reread) <= NFiles, RereadSound(x),
           UNCHANGED <<jobs, ckpt, issued, eligible, wk, source, snap, parsed>>
    PROVE  CheckInv'
  <1>0. UNCHANGED vars
    BY DEF vars
  <1>1. ProgressInv'
    BY <1>0, ProgressStep DEF CheckInv
  <1>2. run' \in [Workers -> Run] /\ run'[w] = x
    BY Zenon DEF CheckInv, FilesTyped
  <1>3. \A v \in Workers \ {w} : run'[v] = run[v]
    BY DEF CheckInv, FilesTyped
  <1>4. FilesTyped'
    BY <1>2, <1>3 DEF CheckInv, FilesTyped
  <1>5. \A r \in Requests : RowSound(r)'
    BY DEF CheckInv, RowSound
  <1>6. RunSound(w)'
    BY <1>2 DEF CheckInv, RunSound
  <1>7. ASSUME NEW v \in Workers \ {w} PROVE RunSound(v)'
    BY <1>3 DEF CheckInv, RunSound, Hashed, Unchanged
  <1> QED
    BY <1>1, <1>4, <1>5, <1>6, <1>7 DEF CheckInv

\* source_snapshot: hashing appends to what was hashed.
LEMMA HashStep ==
    ASSUME CheckInv, NEW w \in Workers, HashFile(w)
    PROVE  CheckInv'
  <1> DEFINE h == run[w].hashed
             c == source[Len(h) + 1]
             x == [run[w] EXCEPT !.hashed = Append(h, c)]
  <1>1. /\ run[w] \in Run
        /\ Len(h) <= NFiles
        /\ Len(run[w].reread) <= NFiles
        /\ NFiles \in Nat
        /\ source \in [Files -> Contents]
    BY FilesAssumption DEF CheckInv, FilesTyped
  <1>2. h \in Seq(Contents) /\ run[w].reread \in Seq(Contents)
    BY <1>1 DEF Run
  <1>3. Len(h) \in Nat /\ Len(h) + 1 <= NFiles
    BY <1>1, <1>2 DEF HashFile, Hashed
  <1>4. c \in Contents
    BY <1>1, <1>3 DEF Files
  <1>5. /\ Append(h, c) \in Seq(Contents)
        /\ Len(Append(h, c)) = Len(h) + 1
        /\ \A n \in 1..Len(h) : Append(h, c)[n] = h[n]
    <2> HIDE DEF h, c
    <2> QED
      BY <1>2, <1>4, AppendOne
  <1>6. /\ x \in Run
        /\ x.hashed = Append(h, c)
        /\ x.reread = run[w].reread
        /\ x.failures = run[w].failures
    BY <1>1, <1>5, Zenon DEF Run
  <1>7. run' = [run EXCEPT ![w] = x]
    BY Zenon DEF HashFile
  <1>8. RereadSound(run[w])
    BY DEF CheckInv, RunSound
  <1> HIDE DEF x, c
  <1>9. RereadSound(x)
    BY <1>2, <1>3, <1>5, <1>6, <1>8 DEF RereadSound, Files
  <1> QED
    BY <1>1, <1>3, <1>5, <1>6, <1>7, <1>9, ReadStep DEF HashFile

\* The syntax step: what is parsed was compared with its hash.
LEMMA ParseStep ==
    ASSUME CheckInv, NEW w \in Workers, ParseFile(w)
    PROVE  CheckInv'
  <1> DEFINE p == run[w].reread
             n == Len(p) + 1
             c == source[n]
             b == run[w].failures \/ c \in Invalid
             x == [run[w] EXCEPT !.reread = Append(p, c), !.failures = b]
  <1>1. /\ run[w] \in Run
        /\ Len(p) <= NFiles
        /\ Len(run[w].hashed) = NFiles
        /\ NFiles \in Nat
        /\ source \in [Files -> Contents]
    BY FilesAssumption DEF CheckInv, FilesTyped, ParseFile, Hashed
  <1>2. p \in Seq(Contents) /\ run[w].hashed \in Seq(Contents)
    BY <1>1 DEF Run
  <1>3. Len(p) \in Nat /\ n <= NFiles
    BY <1>2 DEF ParseFile
  <1>4. c \in Contents /\ c = run[w].hashed[n]
    BY <1>1, <1>3 DEF Files, ParseFile
  <1>5. /\ Append(p, c) \in Seq(Contents)
        /\ Len(Append(p, c)) = Len(p) + 1
        /\ \A i \in 1..Len(p) : Append(p, c)[i] = p[i]
        /\ Append(p, c)[Len(p) + 1] = c
    <2> HIDE DEF p, c
    <2> QED
      BY <1>2, <1>4, AppendOne
  <1>6. /\ x \in Run
        /\ x.hashed = run[w].hashed
        /\ x.reread = Append(p, c)
        /\ x.failures = b
    <2>1. b \in BOOLEAN
      BY <1>1 DEF Run
    <2> HIDE DEF b
    <2> QED
      BY <1>1, <1>5, <2>1, Zenon DEF Run
  <1>7. run' = [run EXCEPT ![w] = x]
    BY Zenon DEF ParseFile
  <1>8. RereadSound(run[w])
    BY DEF CheckInv, RunSound
  <1> HIDE DEF x
  <1>9. RereadSound(x)
    <2>1. Len(x.reread) <= Len(x.hashed)
      BY <1>1, <1>3, <1>5, <1>6
    <2>2. ASSUME NEW i \in Files, i <= Len(x.reread)
          PROVE  x.reread[i] = x.hashed[i]
      BY <1>3, <1>4, <1>5, <1>6, <1>8, <2>2 DEF RereadSound, Files
    <2>3. ASSUME ~x.failures, NEW i \in Files, i <= Len(x.reread)
          PROVE  x.reread[i] \notin Invalid
      <3>1. ~run[w].failures /\ c \notin Invalid
        BY <1>6, <2>3
      <3>2. CASE i = Len(p) + 1
        BY <1>5, <1>6, <3>1, <3>2
      <3>3. CASE i # Len(p) + 1
        BY <1>3, <1>5, <1>6, <1>8, <2>3, <3>1, <3>3 DEF RereadSound, Files
      <3> QED
        BY <3>2, <3>3
    <2> QED
      BY <2>1, <2>2, <2>3 DEF RereadSound
  <1>10. Len(x.hashed) <= NFiles /\ Len(x.reread) <= NFiles
    BY <1>1, <1>3, <1>5, <1>6
  <1>11. x \in Run
    BY <1>6
  <1>12. /\ wk[w].pc = "claimed"
         /\ UNCHANGED <<jobs, ckpt, issued, eligible, wk, source, snap, parsed>>
    BY DEF ParseFile
  <1> QED
    BY <1>7, <1>9, <1>10, <1>11, <1>12, ReadStep

\* Somebody edits a file: nothing that was read changes.
LEMMA EditStep ==
    ASSUME CheckInv, NEW f \in Files, NEW c \in Contents, Edit(f, c)
    PROVE  CheckInv'
  <1>1. UNCHANGED vars /\ UNCHANGED <<run, snap, parsed>>
    BY DEF Edit, vars
  <1>2. ProgressInv'
    BY <1>1, ProgressStep DEF CheckInv
  <1>3. FilesTyped'
    BY DEF CheckInv, FilesTyped, Edit
  <1>4. \A r \in Requests : RowSound(r)'
    BY <1>1 DEF CheckInv, RowSound, vars
  <1>5. \A w \in Workers : RunSound(w)'
    BY <1>1 DEF CheckInv, RunSound, Hashed, Unchanged, vars
  <1> QED
    BY <1>2, <1>3, <1>4, <1>5 DEF CheckInv

\* A step of the check ends in a result: "ok" only when it measured everything.
LEMMA ResultStep ==
    ASSUME CheckInv, NEW w \in Workers,
           ParseChanged(w) \/ SourceChanged(w) \/ CheckFails(w) \/ StepDone(w)
    PROVE  CheckInv'
  <1>0. [Next]_vars
    BY QueueSteps DEF CNext
  <1>1. PICK res \in {"ok", "bad"} :
          /\ Execute(w, res)
          /\ UNCHANGED <<source, run, snap, parsed>>
          /\ res = "ok" =>
                /\ Hashed(w)
                /\ wk[w].step # 0 => Unchanged(w)
                /\ wk[w].step = 1 => Len(run[w].reread) = NFiles
                /\ ~run[w].failures
    BY DEF ParseChanged, SourceChanged, CheckFails, StepDone, Step
  <1>2. /\ UNCHANGED <<jobs, ckpt, source, run, snap, parsed>>
        /\ wk' = [wk EXCEPT ![w] = [wk[w] EXCEPT !.pc = "result", !.res = res]]
        /\ wk[w].pc = "claimed"
    BY <1>1, Zenon DEF Execute
  <1>3. wk[w] \in Claims /\ wk \in [Workers -> Claims]
    BY DEF CheckInv, ProgressInv, QueueInv, TypeOK
  <1>4. /\ wk'[w].pc = "result"
        /\ wk'[w].res = res
        /\ wk'[w].job = wk[w].job
        /\ wk'[w].step = wk[w].step
    BY <1>2, <1>3, Zenon DEF Claims
  <1>5. \A v \in Workers \ {w} : wk'[v] = wk[v]
    BY <1>2, <1>3
  <1>6. ProgressInv'
    BY <1>0, ProgressStep DEF CheckInv
  <1>7. FilesTyped'
    BY <1>2 DEF CheckInv, FilesTyped
  <1>8. \A r \in Requests : RowSound(r)'
    BY <1>2 DEF CheckInv, RowSound
  <1>9. RunSound(w)'
    BY <1>1, <1>2, <1>4 DEF CheckInv, RunSound, Hashed, Unchanged
  <1>10. ASSUME NEW v \in Workers \ {w} PROVE RunSound(v)'
    BY <1>2, <1>5 DEF CheckInv, RunSound, Hashed, Unchanged
  <1> QED
    BY <1>6, <1>7, <1>8, <1>9, <1>10 DEF CheckInv

\* The operator, tasks, claims and the clock: a worker that is handed a job
\* begins with an empty run at the job's step.
LEMMA QueueOnlyStep ==
    ASSUME CheckInv, QueueOnly
    PROVE  CheckInv'
  <1>1. [Next]_vars
    BY QueueSteps DEF CNext
  <1>2. ckpt' = ckpt /\ UNCHANGED <<source, run, snap, parsed>>
    BY DEF QueueOnly, Enqueue, Pause, Resume, Cancel, TaskChange, Claim, ClaimPause,
           ClaimExhausted, ClaimRun, Tick
  <1>3. ProgressInv /\ ProgressInv'
    BY <1>1, ProgressStep DEF CheckInv
  <1>4. FilesTyped'
    BY <1>2 DEF CheckInv, FilesTyped
  <1>5. \A r \in Requests : RowSound(r)'
    BY <1>1, <1>2, RowsKept DEF CheckInv
  <1>6. ASSUME NEW w \in Workers PROVE RunSound(w)'
    <2>1. CASE wk'[w] = wk[w]
      <3>1. wk[w].pc # "idle" => wk[w].job \in Requests
        BY <1>3 DEF ProgressInv, QueueInv, ClaimsNameJobs
      <3>2. wk[w].pc # "idle" => jobs'[wk[w].job].step = jobs[wk[w].job].step
        BY <1>1, <1>2, <3>1, StepKept DEF CheckInv
      <3>3. wk[w].pc # "idle" => jobs[wk[w].job].step \in 0..3
        BY <1>3, <3>1 DEF ProgressInv, QueueInv, TypeOK, Job
      <3> QED
        BY <1>2, <1>3, <2>1, <3>2, <3>3, RunKept DEF CheckInv
    <2>2. CASE wk'[w] # wk[w]
      <3>1. PICK v \in Workers, ready \in BOOLEAN, r \in Requests : ClaimRun(v, r, ready)
        BY <2>2 DEF QueueOnly, Enqueue, Pause, Resume, Cancel, TaskChange, Claim,
                    ClaimPause, ClaimExhausted, Tick
      <3> DEFINE c == [pc |-> "claimed", job |-> r, step |-> jobs[r].step,
                       token |-> issued[r] + 1, res |-> "none"]
      <3>2. wk' = [wk EXCEPT ![v] = c] /\ wk[v].pc = "idle"
        BY <3>1 DEF ClaimRun
      <3>3. wk \in [Workers -> Claims] /\ jobs[r].step \in 0..3
        BY <1>3 DEF ProgressInv, QueueInv, TypeOK, Job
      <3>4. v = w /\ wk'[w] = c
        BY <2>2, <3>2, <3>3
      <3>5. jobs'[r].step = jobs[r].step
        BY <1>1, <1>2, StepKept DEF CheckInv
      <3>6. run'[w] = NoRun
        BY <1>2, <3>2, <3>4 DEF CheckInv, RunSound
      <3> QED
        BY <3>3, <3>4, <3>5, <3>6, NoRunSound DEF RunSound
    <2> QED
      BY <2>1, <2>2
  <1> QED
    BY <1>3, <1>4, <1>5, <1>6 DEF CheckInv

\* A worker that loses its step forgets what it read; the row keeps its step.
LEMMA DiscardStep ==
    ASSUME CheckInv, NEW w \in Workers, Discarded(w)
    PROVE  CheckInv'
  <1>1. [Next]_vars
    BY QueueSteps DEF CNext
  <1>2. /\ ckpt' = ckpt
        /\ UNCHANGED <<source, snap, parsed>>
        /\ wk' = [wk EXCEPT ![w] = Idle]
        /\ run' = [run EXCEPT ![w] = NoRun]
    BY DEF Discarded, CheckpointStale, CheckpointPause, Crash
  <1>3. ProgressInv /\ ProgressInv'
    BY <1>1, ProgressStep DEF CheckInv
  <1>4. /\ wk'[w] = Idle
        /\ run'[w] = NoRun
        /\ run' \in [Workers -> Run]
        /\ \A v \in Workers \ {w} : wk'[v] = wk[v] /\ run'[v] = run[v]
    BY <1>2, <1>3, NoRunSound DEF CheckInv, FilesTyped, ProgressInv, QueueInv, TypeOK
  <1>5. FilesTyped'
    BY <1>2, <1>4, NoRunSound, FilesAssumption DEF CheckInv, FilesTyped
  <1>6. \A r \in Requests : RowSound(r)'
    BY <1>1, <1>2, RowsKept DEF CheckInv
  <1>7. RunSound(w)'
    BY <1>4, IdleSound
  <1>8. ASSUME NEW v \in Workers \ {w} PROVE RunSound(v)'
    <2>1. wk[v].pc # "idle" => wk[v].job \in Requests
      BY <1>3 DEF ProgressInv, QueueInv, ClaimsNameJobs
    <2>2. wk[v].pc # "idle" => jobs'[wk[v].job].step = jobs[wk[v].job].step
      BY <1>1, <1>2, <2>1, StepKept DEF CheckInv
    <2>3. wk[v].pc # "idle" => jobs[wk[v].job].step \in 0..3
      BY <1>3, <2>1 DEF ProgressInv, QueueInv, TypeOK, Job
    <2> QED
      BY <1>2, <1>3, <1>4, <2>2, <2>3, RunKept DEF CheckInv
  <1> QED
    BY <1>3, <1>5, <1>6, <1>7, <1>8 DEF CheckInv

\* checkpoint: the owner of the lease stores what it measured with the step it
\* measured it for.
LEMMA StoreStep ==
    ASSUME CheckInv, NEW w \in Workers, Checkpointed(w)
    PROVE  CheckInv'
  <1>r. PICK r \in Requests : r = wk[w].job
    BY DEF Checkpointed, CheckpointCommit, CheckInv, ProgressInv, QueueInv, ClaimsNameJobs
  <1> DEFINE n  == jobs[r].step
             ok == wk[w].res = "ok"
             to == IF ~ok THEN "failed" ELSE IF n + 1 = 3 THEN "succeeded" ELSE "queued"
             m  == IF ok THEN n + 1 ELSE n
  <1>1. [Next]_vars
    BY QueueSteps DEF CNext
  <1>2. ProgressInv /\ ProgressInv'
    BY <1>1, ProgressStep DEF CheckInv
  <1>3. /\ jobs[r] \in Job
        /\ n \in 0..2
        /\ wk[w].step = n
        /\ wk[w].pc = "result"
        /\ jobs[r].status = "running"
        /\ Steps(r) = 3
    <2>1. CheckpointCommit(w)
      BY DEF Checkpointed
    <2>2. /\ wk[w].pc = "result"
          /\ jobs[r].status = "running"
          /\ jobs[r].step = wk[w].step
      BY <1>r, <2>1 DEF CheckpointCommit, OwnsLease
    <2>3. Steps(r) = 3
      BY FilesAssumption DEF Steps
    <2>4. jobs[r] \in Job
      BY <1>2 DEF ProgressInv, QueueInv, TypeOK
    <2>5. n \in 0..2
      BY <1>2, <2>2, <2>3, <2>4 DEF ProgressInv, QueueInv, ClaimsNameJobs, Live, Job
    <2> QED
      BY <2>2, <2>3, <2>4, <2>5
  <1>4. /\ jobs' = [jobs EXCEPT ![r] = Advanced(jobs[r], to, m)]
        /\ wk' = [wk EXCEPT ![w] = Idle]
        /\ run' = [run EXCEPT ![w] = NoRun]
        /\ snap' = IF n = 0 THEN [snap EXCEPT ![r] = run[w].hashed] ELSE snap
        /\ parsed' = IF n = 1 THEN [parsed EXCEPT ![r] = run[w].reread] ELSE parsed
        /\ source' = source
    BY <1>3, <1>r DEF Checkpointed, CheckpointCommit
  <1>5. /\ jobs'[r].status = to
        /\ jobs'[r].step = m
        /\ \A q \in Requests \ {r} : jobs'[q] = jobs[q]
    <2>1. jobs'[r] = Advanced(jobs[r], to, m)
      BY <1>2, <1>3, <1>4 DEF ProgressInv, QueueInv, TypeOK
    <2>2. Advanced(jobs[r], to, m).status = to /\ Advanced(jobs[r], to, m).step = m
      <3> HIDE DEF to, m
      <3> QED
        BY <1>3, AdvancedFields
    <2>3. \A q \in Requests \ {r} : jobs'[q] = jobs[q]
      BY <1>2, <1>3, <1>4 DEF ProgressInv, QueueInv, TypeOK
    <2> QED
      BY <2>1, <2>2, <2>3
  <1>6. /\ wk'[w] = Idle
        /\ run'[w] = NoRun
        /\ run' \in [Workers -> Run]
        /\ \A v \in Workers \ {w} : wk'[v] = wk[v] /\ run'[v] = run[v]
    BY <1>2, <1>4, NoRunSound DEF CheckInv, FilesTyped, ProgressInv, QueueInv, TypeOK
  <1>7. /\ run[w].hashed \in Seq(Contents)
        /\ run[w].reread \in Seq(Contents)
    BY DEF CheckInv, FilesTyped, Run
  <1>8. /\ snap \in [Requests -> Seq(Contents)]
        /\ parsed \in [Requests -> Seq(Contents)]
        /\ snap' \in [Requests -> Seq(Contents)]
        /\ parsed' \in [Requests -> Seq(Contents)]
    BY <1>3, <1>4, <1>7 DEF CheckInv, FilesTyped
  <1>9. FilesTyped'
    BY <1>4, <1>6, <1>8, NoRunSound, FilesAssumption DEF CheckInv, FilesTyped
  <1>10. ASSUME NEW q \in Requests \ {r} PROVE RowSound(q)'
    <2>1. snap'[q] = snap[q] /\ parsed'[q] = parsed[q] /\ jobs'[q] = jobs[q]
      BY <1>4, <1>5, <1>8
    <2> QED
      BY <2>1 DEF CheckInv, RowSound
  <1>11. RowSound(r)'
    <2>1. /\ RowSound(r)
          /\ RunSound(w)
          /\ NFiles \in Nat
          /\ Files = 1..NFiles
      BY <1>3, FilesAssumption DEF CheckInv, Files
    <2>2. jobs'[r].status # "absent" /\ (jobs'[r].status = "succeeded" => m = 3)
      BY <1>3, <1>5
    <2>3. CASE n = 0
      <3>1. snap'[r] = run[w].hashed
        BY <1>3, <1>4, <1>8, <2>3
      <3>2. m >= 1 => Len(snap'[r]) = NFiles
        BY <1>3, <1>r, <2>1, <2>3, <3>1 DEF RunSound, Hashed
      <3> QED
        BY <1>5, <2>2, <2>3, <3>2 DEF RowSound
    <2>4. CASE n = 1
      <3>1. snap'[r] = snap[r] /\ parsed'[r] = run[w].reread
        BY <1>3, <1>4, <1>8, <2>4
      <3>2. Len(snap[r]) = NFiles
        BY <2>1, <2>4 DEF RowSound
      <3>3. ASSUME ok
            PROVE  run[w].reread = snap[r] /\ \A f \in Files : snap[r][f] \notin Invalid
        <4>1. /\ run[w].hashed = snap[r]
              /\ Len(run[w].reread) = NFiles
              /\ ~run[w].failures
          BY <1>3, <1>r, <2>1, <2>4, <3>3 DEF RunSound, Unchanged
        <4>2. /\ \A i \in 1..NFiles : run[w].reread[i] = snap[r][i]
              /\ \A i \in Files : run[w].reread[i] \notin Invalid
          BY <2>1, <4>1 DEF RunSound, RereadSound
        <4>3. snap[r] \in Seq(Contents)
          BY <1>3, <1>8
        <4>4. run[w].reread = snap[r]
          BY <1>7, <3>2, <4>1, <4>2, <4>3
        <4> QED
          BY <4>2, <4>4
      <3> QED
        BY <1>5, <2>2, <2>4, <3>1, <3>2, <3>3 DEF RowSound
    <2>5. CASE n = 2
      <3>1. snap'[r] = snap[r] /\ parsed'[r] = parsed[r]
        BY <1>4, <2>5
      <3> QED
        BY <1>5, <2>1, <2>2, <2>5, <3>1 DEF RowSound
    <2> QED
      BY <1>3, <2>3, <2>4, <2>5
  <1>12. ASSUME NEW v \in Workers \ {w} PROVE RunSound(v)'
    <2>1. RunSound(v)
      BY DEF CheckInv
    <2>2. CASE wk[v].pc = "idle"
      BY <1>2, <1>6, <2>1, <2>2, RunKept
    <2>3. CASE wk[v].pc # "idle"
      <3>1. /\ wk[v].job \in Requests
            /\ jobs[wk[v].job].step \in 0..3
            /\ wk[v].step \in 0..3
            /\ wk[v].step <= jobs[wk[v].job].step
        BY <1>2, <2>1, <2>3
        DEF ProgressInv, QueueInv, ClaimsNameJobs, TypeOK, Job, Claims, RunSound
      <3>2. jobs'[wk[v].job].step >= jobs[wk[v].job].step
        BY <1>3, <1>5, <3>1
      <3>3. wk[v].step # 0 => snap'[wk[v].job] = snap[wk[v].job]
        BY <1>3, <1>4, <1>8, <3>1
      <3> QED
        BY <1>2, <1>6, <2>1, <3>2, <3>3, RunKept
    <2> QED
      BY <2>2, <2>3
  <1>13. RunSound(w)'
    BY <1>6, IdleSound
  <1> QED
    BY <1>2, <1>9, <1>10, <1>11, <1>12, <1>13 DEF CheckInv

-----------------------------------------------------------------------------
\* Every step keeps the invariant.
LEMMA CheckStep == CheckInv /\ [CNext]_cvars => CheckInv'
  <1> SUFFICES ASSUME CheckInv, [CNext]_cvars PROVE CheckInv'
    OBVIOUS
  <1>1. CASE UNCHANGED cvars
    <2>1. UNCHANGED vars /\ UNCHANGED <<source, run, snap, parsed>>
      BY <1>1 DEF cvars, vars
    <2>2. ProgressInv'
      BY <2>1, ProgressStep DEF CheckInv
    <2>3. FilesTyped'
      BY <2>1 DEF CheckInv, FilesTyped
    <2>4. \A r \in Requests : RowSound(r)'
      BY <2>1 DEF CheckInv, RowSound, vars
    <2>5. \A w \in Workers : RunSound(w)'
      BY <2>1 DEF CheckInv, RunSound, Hashed, Unchanged, vars
    <2> QED
      BY <2>2, <2>3, <2>4, <2>5 DEF CheckInv
  <1> QED
    BY <1>1, QueueOnlyStep, HashStep, ParseStep, ResultStep, StoreStep, DiscardStep, EditStep
    DEF CNext

\* What the invariant says of a succeeded job.
LEMMA CheckFollows == CheckInv => CTypeOK /\ StableSnapshot
  <1> SUFFICES ASSUME CheckInv PROVE CTypeOK /\ StableSnapshot
    OBVIOUS
  <1>1. CTypeOK
    BY DEF CheckInv, FilesTyped, ProgressInv, QueueInv, CTypeOK
  <1>2. StableSnapshot
    BY DEF CheckInv, RowSound, StableSnapshot
  <1> QED
    BY <1>1, <1>2

\* source_snapshot, run_once, checkpoint: however the files were edited between
\* any two reads, however leases were lost and whoever executed which step, a
\* succeeded check parsed without a failure exactly the bytes its snapshot lists,
\* and the snapshot a later step compares with is never replaced.
THEOREM CheckIsSound == CSpec => CheckSound
  <1>1. CNext => \A r \in Requests : jobs[r].step > 0 => snap'[r] = snap[r]
    <2> SUFFICES ASSUME CNext, NEW r \in Requests, jobs[r].step > 0
                 PROVE  snap'[r] = snap[r]
      OBVIOUS
    <2>1. ASSUME NEW w \in Workers, Checkpointed(w) PROVE snap'[r] = snap[r]
      BY <2>1 DEF Checkpointed
    <2>2. ASSUME ~\E w \in Workers : Checkpointed(w) PROVE snap' = snap
      BY <2>2 DEF CNext, QueueOnly, HashFile, ParseFile, ParseChanged, SourceChanged,
                  CheckFails, StepDone, Discarded, Edit
    <2> QED
      BY <2>1, <2>2
  <1>2. [CNext]_cvars =>
          [\A r \in Requests : jobs[r].step > 0 => snap'[r] = snap[r]]_cvars
    BY <1>1
  <1> QED
    BY <1>2, CheckInit, CheckStep, CheckFollows, PTL
    DEF CSpec, CheckSound, SnapshotStable
=============================================================================
