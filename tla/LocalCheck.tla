----------------------------- MODULE LocalCheck -----------------------------
(***************************************************************************)
(* The read-only project check of local_worker.py on top of WorkQueue: a   *)
(* job of three steps (snapshot, syntax, report), each executed by a       *)
(* worker that reads the source files one at a time while they may be      *)
(* edited.                                                                 *)
(*                                                                         *)
(*   every step hashes all files (source_snapshot);                        *)
(*   snapshot stores the hashes as its result;                             *)
(*   syntax compares the hashes with that result, then reads every file a  *)
(*   second time, compares its bytes with the hash and parses them;        *)
(*   report compares the hashes once more.                                 *)
(***************************************************************************)
EXTENDS WorkQueue, Sequences

CONSTANTS
    NFiles,    \* the source files, in the order they are read
    Contents,  \* contents a file may have; a hash stands for its content
    Invalid    \* the contents that are not valid Python

ASSUME FilesAssumption ==
    /\ NFiles \in Nat \ {0}
    /\ Invalid \subseteq Contents
    /\ \A r \in Requests : KindOf[r] = "python"

Files == 1..NFiles

VARIABLES
    source,   \* the files on disk
    run,      \* what the worker has read in the step it executes
    snap,     \* result_json of step 0: the hashes of the snapshot
    parsed    \* the bytes whose parse the checkpoint of step 1 reports

cvars == <<jobs, ckpt, issued, eligible, wk, source, run, snap, parsed>>

\* hashed: contents read by source_snapshot; reread: contents parsed by the
\* syntax step; failures: did a parse fail.
Run == [hashed : Seq(Contents), reread : Seq(Contents), failures : BOOLEAN]

NoRun == [hashed |-> <<>>, reread |-> <<>>, failures |-> FALSE]

CTypeOK ==
    /\ TypeOK
    /\ source \in [Files -> Contents]
    /\ run \in [Workers -> Run]
    /\ \A w \in Workers : Len(run[w].hashed) <= NFiles /\ Len(run[w].reread) <= NFiles
    /\ snap \in [Requests -> Seq(Contents)]
    /\ parsed \in [Requests -> Seq(Contents)]

CInit ==
    /\ Init
    /\ source \in [Files -> Contents]
    /\ run = [w \in Workers |-> NoRun]
    /\ snap = [r \in Requests |-> <<>>]
    /\ parsed = [r \in Requests |-> <<>>]

-----------------------------------------------------------------------------
(* One step of the job. *)

Step(w) == wk[w].step

Hashed(w) == Len(run[w].hashed) = NFiles

\* The snapshot the claim carries is the one this run has hashed.
Unchanged(w) == run[w].hashed = snap[wk[w].job]

\* source_snapshot reads the next file.
HashFile(w) ==
    /\ wk[w].pc = "claimed"
    /\ ~Hashed(w)
    /\ run' = [run EXCEPT ![w].hashed = Append(@, source[Len(@) + 1])]
    /\ UNCHANGED <<jobs, ckpt, issued, eligible, wk, source, snap, parsed>>

\* Mutant: the bytes that are parsed are not compared with the hash.
ParseFileUnchecked(w) ==
    LET n == Len(run[w].reread) + 1 IN
    /\ wk[w].pc = "claimed"
    /\ Step(w) = 1
    /\ Hashed(w) /\ Unchanged(w)
    /\ n <= NFiles
    /\ run' = [run EXCEPT ![w].reread = Append(@, source[n]),
                          ![w].failures = @ \/ source[n] \in Invalid]
    /\ UNCHANGED <<jobs, ckpt, issued, eligible, wk, source, snap, parsed>>

\* The syntax step reads the next file again and parses what it read.
ParseFile(w) ==
    LET n == Len(run[w].reread) + 1 IN
    /\ wk[w].pc = "claimed"
    /\ Step(w) = 1
    /\ Hashed(w) /\ Unchanged(w)
    /\ n <= NFiles
    /\ source[n] = run[w].hashed[n]
    /\ run' = [run EXCEPT ![w].reread = Append(@, source[n]),
                          ![w].failures = @ \/ source[n] \in Invalid]
    /\ UNCHANGED <<jobs, ckpt, issued, eligible, wk, source, snap, parsed>>

\* The bytes to parse are not the bytes that were hashed.
ParseChanged(w) ==
    LET n == Len(run[w].reread) + 1 IN
    /\ Step(w) = 1
    /\ Hashed(w) /\ Unchanged(w)
    /\ n <= NFiles
    /\ source[n] # run[w].hashed[n]
    /\ Execute(w, "bad")
    /\ UNCHANGED <<source, run, snap, parsed>>

\* The sources changed since the snapshot was stored.
SourceChanged(w) ==
    /\ Step(w) # 0
    /\ Hashed(w) /\ ~Unchanged(w)
    /\ Execute(w, "bad")
    /\ UNCHANGED <<source, run, snap, parsed>>

\* A limit is exceeded or a file cannot be read.
CheckFails(w) ==
    /\ ~Hashed(w)
    /\ Execute(w, "bad")
    /\ UNCHANGED <<source, run, snap, parsed>>

\* The step has measured everything.
StepDone(w) ==
    /\ Hashed(w)
    /\ Step(w) # 0 => Unchanged(w)
    /\ Step(w) = 1 => Len(run[w].reread) = NFiles
    /\ Execute(w, IF run[w].failures THEN "bad" ELSE "ok")
    /\ UNCHANGED <<source, run, snap, parsed>>

\* checkpoint stores the measured result with the step.
Checkpointed(w) ==
    LET r == wk[w].job IN
    /\ CheckpointCommit(w)
    /\ snap' = IF jobs[r].step = 0 THEN [snap EXCEPT ![r] = run[w].hashed] ELSE snap
    /\ parsed' = IF jobs[r].step = 1 THEN [parsed EXCEPT ![r] = run[w].reread] ELSE parsed
    /\ run' = [run EXCEPT ![w] = NoRun]
    /\ UNCHANGED source

\* The worker's step ends without a checkpoint.
Discarded(w) ==
    /\ CheckpointStale(w) \/ CheckpointPause(w) \/ Crash(w)
    /\ run' = [run EXCEPT ![w] = NoRun]
    /\ UNCHANGED <<source, snap, parsed>>

\* Somebody edits a file, whatever the worker is reading.
Edit(f, c) ==
    /\ source[f] # c
    /\ source' = [source EXCEPT ![f] = c]
    /\ UNCHANGED <<jobs, ckpt, issued, eligible, wk, run, snap, parsed>>

\* The steps of the queue that do not touch the worker's run.
QueueOnly ==
    /\ \/ \E r \in Requests : Enqueue(r) \/ Pause(r) \/ Resume(r) \/ Cancel(r)
       \/ \E t \in Tasks : TaskChange(t)
       \/ \E w \in Workers, ready \in BOOLEAN : Claim(w, ready)
       \/ Tick
    /\ UNCHANGED <<source, run, snap, parsed>>

CNext ==
    \/ QueueOnly
    \/ \E w \in Workers :
          \/ HashFile(w)
          \/ ParseFile(w)
          \/ ParseChanged(w)
          \/ SourceChanged(w)
          \/ CheckFails(w)
          \/ StepDone(w)
          \/ Checkpointed(w)
          \/ Discarded(w)
    \/ \E f \in Files, c \in Contents : Edit(f, c)

CSpec == CInit /\ [][CNext]_cvars
-----------------------------------------------------------------------------
\* "Python syntax checked against a stable source snapshot": however the files
\* were edited while they were read and whoever executed which step, a
\* succeeded check parsed, without a failure, exactly the bytes its snapshot
\* lists.
StableSnapshot ==
    \A r \in Requests :
        jobs[r].status = "succeeded" =>
            /\ Len(snap[r]) = NFiles
            /\ parsed[r] = snap[r]
            /\ \A f \in Files : snap[r][f] \notin Invalid

\* The snapshot a later step compares with is never replaced.
SnapshotStable ==
    [][\A r \in Requests : jobs[r].step > 0 => snap'[r] = snap[r]]_cvars

\* A check describes one version of the files, and what a step compares with is
\* never replaced.
CheckSound == [](CTypeOK /\ StableSnapshot) /\ SnapshotStable
=============================================================================
