----------------------- MODULE AgentAssignment_proofs -----------------------
(***************************************************************************)
(* Proofs about AgentAssignment for every set of proposals, tasks, threads *)
(* and worker loops: a proposal gets at most one run, a local model run    *)
(* waits for review only with an answer, and an ended job stays as it is.  *)
(***************************************************************************)
EXTENDS AgentAssignment, TLAPS

Answered == {"waiting_for_review", "failed"}

\* A model run may be reported as answered.
MayAnswer(p) == kind[p] = "local_ollama" => job[p] = "succeeded"

\* What a thread remembers is what its next step needs, and a completion that
\* reports an answer has one.
Sound(m) ==
    /\ m.pc # "idle" => m.p \in Proposals
    /\ m.pc \in {"complete", "completing"} =>
          m.want \in Answered /\ (m.want = "waiting_for_review" => MayAnswer(m.p))
    /\ m.pc = "reviewing" => m.want \in Reviews
    /\ m.pc # "idle" => prop[m.p] # "absent"

\* A thread that marked a proposal has not created its run yet, and nobody
\* else can mark it meanwhile.
Marks(m) == m.pc = "marked" => made[m.p] = 0 /\ prop[m.p] \notin {"absent", "prepared"}

ThreadsSound == \A i \in Threads : Sound(th[i]) /\ Marks(th[i])

OneMark ==
    \A i, j \in Threads :
        th[i].pc = "marked" /\ th[j].pc = "marked" /\ th[i].p = th[j].p => i = j

\* A proposal that may still be applied has no run.
RunSound(p) ==
    /\ made[p] \in {0, 1}
    /\ prop[p] \in {"absent", "prepared"} => made[p] = 0
    /\ prop[p] = "absent" => run[p] = "none"
    /\ run[p] = "waiting_for_review" => MayAnswer(p)

RunsSound == \A p \in Proposals : RunSound(p)

AssignmentInv == TypeOK /\ ThreadsSound /\ OneMark /\ RunsSound

-----------------------------------------------------------------------------
(* The records of the threads. *)

\* The values that a step writes belong to their types.
LEMMA Literals ==
    /\ {"prepared", "applying", "applied", "rejected"} \subseteq PropSet
    /\ {"running", "none", "waiting_for_review", "failed"} \subseteq RunSet
    /\ Reviews \subseteq RunSet
    /\ Answered \subseteq RunSet
    /\ {"live", "sent"} \subseteq JobSet
    /\ Ended \subseteq JobSet
    /\ "review" \in TaskSet
  BY DEF PropSet, RunSet, Reviews, Answered, JobSet, Ended, TaskSet

\* An idle thread needs nothing.
LEMMA IdleThread ==
    /\ Idle \in Thread
    /\ Idle.pc = "idle"
    /\ Sound(Idle)
    /\ Marks(Idle)
  <1>1. Idle \in Thread
    BY Literals DEF Idle, Thread
  <1>2. Idle.pc = "idle"
    BY DEF Idle
  <1> QED
    BY <1>1, <1>2 DEF Sound, Marks

Stations == {"marked", "created", "linked", "rejecting", "syncing", "recovering"}

\* A thread between two transactions on a proposal.
LEMMA AtThread ==
    ASSUME NEW pc \in Stations, NEW p \in Proposals, prop[p] # "absent"
    PROVE  /\ At(pc, p) \in Thread
           /\ At(pc, p).pc = pc
           /\ At(pc, p).p = p
           /\ Sound(At(pc, p))
  <1>1. At(pc, p) \in Thread
    BY Literals DEF At, Thread, Stations
  <1>2. At(pc, p).pc = pc /\ At(pc, p).p = p
    BY DEF At
  <1> QED
    BY <1>1, <1>2 DEF Sound, Stations

\* A thread in complete_agent_run.
LEMMA CompletingThread ==
    ASSUME NEW pc \in {"complete", "completing"}, NEW p \in Proposals,
           NEW want \in Answered, NEW sync \in BOOLEAN,
           prop[p] # "absent",
           want = "waiting_for_review" => MayAnswer(p)
    PROVE  /\ Completing(pc, p, want, sync) \in Thread
           /\ Completing(pc, p, want, sync).pc # "marked"
           /\ Sound(Completing(pc, p, want, sync))
  <1>1. want \in RunSet
    BY Literals
  <1>2. Completing(pc, p, want, sync) \in Thread
    BY <1>1, Zenon DEF Completing, Thread
  <1>3. /\ Completing(pc, p, want, sync).pc = pc
        /\ Completing(pc, p, want, sync).p = p
        /\ Completing(pc, p, want, sync).want = want
    BY DEF Completing
  <1> QED
    BY <1>2, <1>3 DEF Sound

\* A thread in review_agent_run.
LEMMA ReviewingThread ==
    ASSUME NEW p \in Proposals, NEW verdict \in Reviews, prop[p] # "absent"
    PROVE  /\ Reviewing(p, verdict) \in Thread
           /\ Reviewing(p, verdict).pc # "marked"
           /\ Sound(Reviewing(p, verdict))
  <1>1. Reviewing(p, verdict) \in Thread
    BY Literals DEF Reviewing, Thread
  <1>2. /\ Reviewing(p, verdict).pc = "reviewing"
        /\ Reviewing(p, verdict).p = p
        /\ Reviewing(p, verdict).want = verdict
    BY DEF Reviewing
  <1> QED
    BY <1>1, <1>2 DEF Sound

-----------------------------------------------------------------------------
(* How a step may change what the threads rely on. *)

\* Runner kind and existence of a proposal are settled; an answer stays.
Settled(p) ==
    /\ prop[p] # "absent" => prop'[p] # "absent" /\ kind'[p] = kind[p]
    /\ job[p] = "succeeded" => job'[p] = "succeeded"

Typed ==
    /\ prop \in [Proposals -> PropSet]
    /\ kind \in [Proposals -> Runners]
    /\ run \in [Proposals -> RunSet]
    /\ made \in [Proposals -> Nat]
    /\ job \in [Proposals -> JobSet]
    /\ synced \in [Proposals -> BOOLEAN]
    /\ task \in [Tasks -> TaskSet]

\* One thread goes on, to a place that is not the mark, or none does.
LEMMA StepKeeps ==
    ASSUME AssignmentInv, NEW i \in Threads, NEW m \in Thread,
           Sound(m), m.pc # "marked",
           th' = [th EXCEPT ![i] = m] \/ th' = th,
           Typed',
           \A p \in Proposals : Settled(p) /\ RunSound(p)',
           \A j \in Threads : th'[j].pc = "marked" => Marks(th[j])'
    PROVE  AssignmentInv'
  <1>1. th \in [Threads -> Thread]
    BY DEF AssignmentInv, TypeOK
  <1>2. TypeOK'
    BY <1>1 DEF TypeOK, Typed
  <1>3. \A j \in Threads : th'[j] = th[j] \/ th'[j] = m
    BY <1>1
  <1>4. ASSUME NEW j \in Threads PROVE Sound(th[j])'
    <2>1. Sound(th[j]) /\ Sound(m)
      BY DEF AssignmentInv, ThreadsSound
    <2>2. th'[j] = th[j] \/ th'[j] = m
      BY <1>3
    <2> QED
      BY <2>1, <2>2 DEF Sound, Settled, MayAnswer
  <1>5. ThreadsSound'
    BY <1>4 DEF ThreadsSound, Marks
  <1>6. OneMark'
    BY <1>3 DEF AssignmentInv, OneMark
  <1>7. RunsSound'
    BY DEF RunsSound
  <1> QED
    BY <1>2, <1>5, <1>6, <1>7 DEF AssignmentInv

\* The tables stay; one thread goes on.
LEMMA ReadStep ==
    ASSUME AssignmentInv, NEW i \in Threads, NEW m \in Thread,
           Sound(m), m.pc # "marked",
           th' = [th EXCEPT ![i] = m],
           UNCHANGED <<prop, kind, run, made, job, synced, task>>
    PROVE  AssignmentInv'
  <1>1. Typed'
    BY DEF AssignmentInv, TypeOK, Typed
  <1>2. \A p \in Proposals : Settled(p) /\ RunSound(p)'
    BY DEF AssignmentInv, RunsSound, RunSound, Settled, MayAnswer
  <1>3. \A j \in Threads : th'[j] = th[j] \/ th'[j] = m
    BY DEF AssignmentInv, TypeOK
  <1>4. \A j \in Threads : th'[j].pc = "marked" => Marks(th[j])'
    BY <1>3 DEF AssignmentInv, ThreadsSound, Marks
  <1> QED
    BY <1>1, <1>2, <1>4, StepKeeps

\* The tables change; the threads stay.
LEMMA TableStep ==
    ASSUME AssignmentInv, th' = th, Typed',
           \A p \in Proposals : Settled(p) /\ RunSound(p)',
           \A j \in Threads : th[j].pc = "marked" => Marks(th[j])'
    PROVE  AssignmentInv'
  <1>1. TypeOK'
    BY DEF AssignmentInv, TypeOK, Typed
  <1>2. ASSUME NEW j \in Threads PROVE Sound(th[j])'
    <2>1. Sound(th[j])
      BY DEF AssignmentInv, ThreadsSound
    <2> QED
      BY <2>1 DEF Sound, Settled, MayAnswer
  <1>3. ThreadsSound'
    BY <1>2 DEF ThreadsSound, Marks
  <1>4. OneMark'
    BY DEF AssignmentInv, OneMark
  <1>5. RunsSound'
    BY DEF RunsSound
  <1> QED
    BY <1>1, <1>3, <1>4, <1>5 DEF AssignmentInv

-----------------------------------------------------------------------------
(* The steps that change the threads only. *)

\* What is remembered of the thread that takes a step.
LEMMA Here ==
    ASSUME AssignmentInv, NEW i \in Threads
    PROVE  /\ th[i] \in Thread
           /\ th[i].want \in RunSet
           /\ th[i].sync \in BOOLEAN
           /\ Sound(th[i])
           /\ Marks(th[i])
  <1>1. th[i] \in Thread
    BY DEF AssignmentInv, TypeOK
  <1>2. th[i].want \in RunSet /\ th[i].sync \in BOOLEAN
    BY <1>1 DEF Thread
  <1> QED
    BY <1>1, <1>2 DEF AssignmentInv, ThreadsSound

\* The SELECTs that open a call.
LEMMA OpeningReads ==
    ASSUME AssignmentInv, NEW i \in Threads, NEW p \in Proposals,
           \/ RejectRead(i, p)
           \/ RecoverRead(i, p)
           \/ ReconcileRead(i, p)
           \/ \E verdict \in Reviews : ReviewRead(i, p, verdict)
    PROVE  AssignmentInv'
  <1>0. RunSound(p)
    BY DEF AssignmentInv, RunsSound
  <1>1. CASE RejectRead(i, p)
    <2>1. prop[p] # "absent" /\ "rejecting" \in Stations
      BY <1>1 DEF RejectRead, Stations
    <2>2. /\ At("rejecting", p) \in Thread
          /\ At("rejecting", p).pc # "marked"
          /\ Sound(At("rejecting", p))
      BY <2>1, AtThread
    <2> QED
      BY <1>1, <2>2, ReadStep DEF RejectRead
  <1>2. CASE RecoverRead(i, p)
    <2>1. prop[p] # "absent" /\ "recovering" \in Stations
      BY <1>2 DEF RecoverRead, Stations
    <2>2. /\ At("recovering", p) \in Thread
          /\ At("recovering", p).pc # "marked"
          /\ Sound(At("recovering", p))
      BY <2>1, AtThread
    <2> QED
      BY <1>2, <2>2, ReadStep DEF RecoverRead
  <1>3. CASE ReconcileRead(i, p)
    <2>1. prop[p] # "absent"
      BY <1>0, <1>3 DEF ReconcileRead, RunSound
    <2>2. Outcome(p) \in Answered /\ (Outcome(p) = "waiting_for_review" => MayAnswer(p))
      BY DEF Outcome, Answered, MayAnswer
    <2>3. /\ Completing("complete", p, Outcome(p), TRUE) \in Thread
          /\ Completing("complete", p, Outcome(p), TRUE).pc # "marked"
          /\ Sound(Completing("complete", p, Outcome(p), TRUE))
      BY <2>1, <2>2, CompletingThread
    <2> QED
      BY <1>3, <2>3, ReadStep DEF ReconcileRead
  <1>4. CASE \E verdict \in Reviews : ReviewRead(i, p, verdict)
    <2>1. PICK verdict \in Reviews : ReviewRead(i, p, verdict)
      BY <1>4
    <2>2. prop[p] # "absent"
      BY <1>0, <2>1 DEF ReviewRead, RunSound
    <2>3. /\ Reviewing(p, verdict) \in Thread
          /\ Reviewing(p, verdict).pc # "marked"
          /\ Sound(Reviewing(p, verdict))
      BY <2>2, ReviewingThread
    <2> QED
      BY <2>1, <2>3, ReadStep DEF ReviewRead
  <1> QED
    BY <1>1, <1>2, <1>3, <1>4

\* Where a thread goes when complete_agent_run has returned.
LEMMA CompletedThread ==
    ASSUME AssignmentInv, NEW i \in Threads, th[i].pc # "idle"
    PROVE  /\ Completed(i) \in Thread
           /\ Completed(i).pc # "marked"
           /\ Sound(Completed(i))
  <1>1. th[i].p \in Proposals /\ prop[th[i].p] # "absent" /\ "syncing" \in Stations
    BY Here DEF Sound, Stations
  <1>2. /\ At("syncing", th[i].p) \in Thread
        /\ At("syncing", th[i].p).pc # "marked"
        /\ Sound(At("syncing", th[i].p))
    BY <1>1, AtThread
  <1> QED
    BY <1>2, IdleThread DEF Completed

\* A refused job, the read of complete_agent_run, a dead thread.
LEMMA FollowingReads ==
    ASSUME AssignmentInv, NEW i \in Threads,
           EnqueueRefused(i) \/ CompleteRead(i) \/ Crash(i)
    PROVE  AssignmentInv'
  <1>1. CASE EnqueueRefused(i)
    <2>1. th[i].p \in Proposals /\ prop[th[i].p] # "absent"
      BY <1>1, Here DEF EnqueueRefused, Enqueues, Sound
    <2>2. "failed" \in Answered
      BY DEF Answered
    <2>3. /\ Completing("complete", th[i].p, "failed", FALSE) \in Thread
          /\ Completing("complete", th[i].p, "failed", FALSE).pc # "marked"
          /\ Sound(Completing("complete", th[i].p, "failed", FALSE))
      BY <2>1, <2>2, CompletingThread
    <2>4. PICK m : /\ th' = [th EXCEPT ![i] = m]
                   /\ m = Completing("complete", th[i].p, "failed", FALSE) \/ m = Idle
      BY <1>1, Zenon DEF EnqueueRefused
    <2>5. m \in Thread /\ m.pc # "marked" /\ Sound(m)
      BY <2>3, <2>4, IdleThread
    <2> QED
      BY <1>1, <2>4, <2>5, ReadStep DEF EnqueueRefused
  <1>2. CASE CompleteRead(i)
    <2>1. /\ th[i].p \in Proposals
          /\ prop[th[i].p] # "absent"
          /\ th[i].want \in Answered
          /\ th[i].want = "waiting_for_review" => MayAnswer(th[i].p)
          /\ th[i].sync \in BOOLEAN
      BY <1>2, Here DEF CompleteRead, Sound
    <2>2. /\ Completing("completing", th[i].p, th[i].want, th[i].sync) \in Thread
          /\ Completing("completing", th[i].p, th[i].want, th[i].sync).pc # "marked"
          /\ Sound(Completing("completing", th[i].p, th[i].want, th[i].sync))
      BY <2>1, CompletingThread
    <2>3. Completed(i) \in Thread /\ Completed(i).pc # "marked" /\ Sound(Completed(i))
      BY <1>2, CompletedThread DEF CompleteRead
    <2>4. PICK m : /\ th' = [th EXCEPT ![i] = m]
                   /\ \/ m = Completing("completing", th[i].p, th[i].want, th[i].sync)
                      \/ m = Completed(i)
                      \/ m = Idle
      BY <1>2, Zenon DEF CompleteRead
    <2>5. m \in Thread /\ m.pc # "marked" /\ Sound(m)
      BY <2>2, <2>3, <2>4, IdleThread
    <2> QED
      BY <1>2, <2>4, <2>5, ReadStep DEF CompleteRead
  <1>3. CASE Crash(i)
    BY <1>3, IdleThread, ReadStep DEF Crash
  <1> QED
    BY <1>1, <1>2, <1>3

-----------------------------------------------------------------------------
(* The steps that change the tables only. *)

\* A new proposal has neither run nor thread.
LEMMA ProposeStep ==
    ASSUME AssignmentInv, NEW p \in Proposals, NEW runner \in Runners, Propose(p, runner)
    PROVE  AssignmentInv'
  <1>1. Typed'
    BY Literals DEF AssignmentInv, TypeOK, Typed, Propose
  <1>2. \A q \in Proposals :
            q # p => prop'[q] = prop[q] /\ kind'[q] = kind[q]
    BY DEF AssignmentInv, TypeOK, Propose
  <1>3. prop'[p] = "prepared" /\ prop[p] = "absent" /\ run[p] = "none" /\ made[p] = 0
    BY DEF AssignmentInv, TypeOK, RunsSound, RunSound, Propose
  <1>4. ASSUME NEW q \in Proposals PROVE Settled(q) /\ RunSound(q)'
    <2>1. RunSound(q)
      BY DEF AssignmentInv, RunsSound
    <2>2. UNCHANGED <<run, made, job>>
      BY DEF Propose
    <2>3. CASE q = p
      BY <1>3, <2>2, <2>3 DEF Settled, RunSound
    <2>4. CASE q # p
      BY <1>2, <2>1, <2>2, <2>4 DEF Settled, RunSound, MayAnswer
    <2> QED
      BY <2>3, <2>4
  <1>5. ASSUME NEW j \in Threads, th[j].pc = "marked" PROVE Marks(th[j])'
    <2>1. th[j].p \in Proposals /\ Marks(th[j])
      BY <1>5, Here DEF Sound
    <2>2. th[j].p # p
      BY <1>3, <1>5, <2>1 DEF Marks
    <2> QED
      BY <1>2, <1>5, <2>1, <2>2 DEF Marks, Propose
  <1> QED
    BY <1>1, <1>4, <1>5, TableStep DEF Propose

\* A job that has ended stays as it is.
JobsSettled == \A p \in Proposals : job[p] \in Ended => job'[p] = job[p]

\* Only jobs and tasks change.
LEMMA JobTable ==
    ASSUME AssignmentInv, th' = th,
           UNCHANGED <<prop, kind, run, made, synced>>,
           job' \in [Proposals -> JobSet],
           task' \in [Tasks -> TaskSet],
           JobsSettled
    PROVE  AssignmentInv'
  <1>1. Typed'
    BY DEF AssignmentInv, TypeOK, Typed
  <1>2. ASSUME NEW p \in Proposals PROVE Settled(p) /\ RunSound(p)'
    <2>1. RunSound(p)
      BY DEF AssignmentInv, RunsSound
    <2>2. job[p] = "succeeded" => job'[p] = "succeeded"
      BY DEF JobsSettled, Ended
    <2> QED
      BY <2>1, <2>2 DEF Settled, RunSound, MayAnswer
  <1>3. ASSUME NEW j \in Threads, th[j].pc = "marked" PROVE Marks(th[j])'
    BY <1>3, Here DEF Marks
  <1> QED
    BY <1>1, <1>2, <1>3, TableStep

LEMMA JobTableStep ==
    ASSUME AssignmentInv,
           \/ \E p \in Proposals : JobSend(p) \/ \E to \in Ended : JobEnds(p, to)
           \/ \E t \in Tasks, to \in TaskSet : TaskChange(t, to)
    PROVE  AssignmentInv'
  <1>0. job \in [Proposals -> JobSet] /\ task \in [Tasks -> TaskSet]
    BY DEF AssignmentInv, TypeOK
  <1>1. ASSUME NEW p \in Proposals, JobSend(p) PROVE AssignmentInv'
    <2>1. job' \in [Proposals -> JobSet] /\ JobsSettled
      BY <1>0, <1>1, Literals DEF JobSend, JobsSettled, Ended
    <2> QED
      BY <1>0, <1>1, <2>1, JobTable DEF JobSend
  <1>2. ASSUME NEW p \in Proposals, NEW to \in Ended, JobEnds(p, to) PROVE AssignmentInv'
    <2>1. job' \in [Proposals -> JobSet] /\ JobsSettled
      BY <1>0, <1>2, Literals DEF JobEnds, JobsSettled, Ended
    <2> QED
      BY <1>0, <1>2, <2>1, JobTable DEF JobEnds
  <1>3. ASSUME NEW t \in Tasks, NEW to \in TaskSet, TaskChange(t, to) PROVE AssignmentInv'
    <2>1. job' \in [Proposals -> JobSet] /\ task' \in [Tasks -> TaskSet] /\ JobsSettled
      BY <1>0, <1>3 DEF TaskChange, JobsSettled
    <2> QED
      BY <1>3, <2>1, JobTable DEF TaskChange
  <1> QED
    BY <1>1, <1>2, <1>3

-----------------------------------------------------------------------------
(* The steps that change the tables and the thread. *)

\* A thread that is still marked after the step of another has not moved; what
\* it marked is not what a marked thread works on.
LEMMA StillMarked ==
    ASSUME AssignmentInv, NEW i \in Threads, NEW m \in Thread, m.pc # "marked",
           th' = [th EXCEPT ![i] = m],
           NEW j \in Threads, th'[j].pc = "marked"
    PROVE  /\ th'[j] = th[j]
           /\ th[j].pc = "marked"
           /\ th[j].p \in Proposals
           /\ Marks(th[j])
           /\ th[i].pc = "marked" => th[j].p # th[i].p
  <1>1. th'[j] = th[j] /\ j # i
    BY DEF AssignmentInv, TypeOK
  <1>2. th[j].p \in Proposals /\ Marks(th[j])
    BY <1>1, Here DEF Sound
  <1> QED
    BY <1>1, <1>2 DEF AssignmentInv, OneMark

\* A proposal that exists moves to another status.
LEMMA StatusStep ==
    ASSUME AssignmentInv, NEW i \in Threads, NEW m \in Thread,
           m.pc # "marked", Sound(m),
           th[i].pc # "idle",
           NEW status \in PropSet \ {"absent"},
           status = "prepared" => th[i].pc = "marked" \/ prop[th[i].p] = "prepared",
           prop' = [prop EXCEPT ![th[i].p] = status],
           th' = [th EXCEPT ![i] = m],
           UNCHANGED <<kind, run, made, job, synced, task>>
    PROVE  AssignmentInv'
  <1>1. th[i].p \in Proposals /\ prop[th[i].p] # "absent" /\ Marks(th[i])
    BY Here DEF Sound
  <1>2. Typed'
    BY DEF AssignmentInv, TypeOK, Typed
  <1>3. \A q \in Proposals : prop'[q] = IF q = th[i].p THEN status ELSE prop[q]
    BY DEF AssignmentInv, TypeOK
  <1>4. ASSUME NEW q \in Proposals PROVE Settled(q) /\ RunSound(q)'
    <2>1. RunSound(q)
      BY DEF AssignmentInv, RunsSound
    <2>2. status = "prepared" /\ q = th[i].p => made[q] = 0
      BY <1>1, <2>1 DEF Marks, RunSound
    <2> QED
      BY <1>1, <1>3, <2>1, <2>2 DEF Settled, RunSound, MayAnswer
  <1>5. ASSUME NEW j \in Threads, th'[j].pc = "marked" PROVE Marks(th[j])'
    <2>1. /\ th'[j] = th[j]
          /\ th[j].pc = "marked"
          /\ th[j].p \in Proposals
          /\ Marks(th[j])
          /\ th[i].pc = "marked" => th[j].p # th[i].p
      BY <1>5, StillMarked
    <2>2. prop'[th[j].p] \notin {"absent", "prepared"}
      BY <1>3, <2>1 DEF Marks
    <2> QED
      BY <2>1, <2>2 DEF Marks
  <1> QED
    BY <1>2, <1>4, <1>5, StepKeeps

\* A rejected proposal, a mark taken back, a proposal linked to its run.
LEMMA StatusSteps ==
    ASSUME AssignmentInv, NEW i \in Threads,
           RejectWrite(i) \/ ApplyRefused(i) \/ ApplyLink(i)
    PROVE  AssignmentInv'
  <1>0. {"prepared", "applying", "applied", "rejected"} \subseteq PropSet \ {"absent"}
    BY Literals
  <1>1. CASE RejectWrite(i)
    <2>1. "rejected" \in PropSet \ {"absent"}
      BY <1>0
    <2> QED
      BY <1>1, <2>1, IdleThread, StatusStep DEF RejectWrite
  <1>2. CASE ApplyRefused(i)
    <2>1. th[i].pc = "marked" /\ th[i].p \in Proposals /\ prop[th[i].p] # "absent"
      BY <1>2, Here DEF ApplyRefused, Sound
    <2>2. prop[th[i].p] \in PropSet
      BY <2>1 DEF AssignmentInv, TypeOK
    <2>3. PICK status \in PropSet \ {"absent"} : prop' = [prop EXCEPT ![th[i].p] = status]
      BY <1>0, <1>2, <2>1, <2>2, Zenon DEF ApplyRefused
    <2> QED
      BY <1>2, <2>1, <2>3, IdleThread, StatusStep DEF ApplyRefused
  <1>3. CASE ApplyLink(i)
    <2>1. /\ th[i].pc = "created"
          /\ th[i].p \in Proposals
          /\ prop[th[i].p] # "absent"
      BY <1>3, Here DEF ApplyLink, Sound
    <2>2. prop[th[i].p] \in PropSet
      BY <2>1 DEF AssignmentInv, TypeOK
    <2>3. PICK status \in PropSet \ {"absent"} :
            /\ prop' = [prop EXCEPT ![th[i].p] = status]
            /\ status = "prepared" => prop[th[i].p] = "prepared"
      BY <1>0, <1>3, <2>1, <2>2, Zenon DEF ApplyLink
    <2>4. /\ At("linked", th[i].p) \in Thread
          /\ At("linked", th[i].p).pc # "marked"
          /\ Sound(At("linked", th[i].p))
      <3>1. "linked" \in Stations
        BY DEF Stations
      <3> QED
        BY <2>1, <3>1, AtThread
    <2>5. kind[th[i].p] = "local_mock" =>
            /\ Completing("complete", th[i].p, "waiting_for_review", FALSE) \in Thread
            /\ Completing("complete", th[i].p, "waiting_for_review", FALSE).pc # "marked"
            /\ Sound(Completing("complete", th[i].p, "waiting_for_review", FALSE))
      <3>1. SUFFICES ASSUME kind[th[i].p] = "local_mock"
                     PROVE  "waiting_for_review" \in Answered /\ MayAnswer(th[i].p)
        BY <2>1, CompletingThread
      <3> QED
        BY <3>1 DEF Answered, MayAnswer
    <2>6. PICK m : /\ th' = [th EXCEPT ![i] = m]
                   /\ m \in Thread
                   /\ m.pc # "marked"
                   /\ Sound(m)
      BY <1>3, <2>4, <2>5, Zenon DEF ApplyLink
    <2>7. th[i].pc # "idle" /\ UNCHANGED <<kind, run, made, job, synced, task>>
      BY <1>3, <2>1 DEF ApplyLink
    <2> QED
      BY <2>3, <2>6, <2>7, StatusStep
  <1> QED
    BY <1>1, <1>2, <1>3

\* The status of the run, the synced mark or the task changes.
LEMMA ResultStep ==
    ASSUME AssignmentInv, NEW i \in Threads, NEW m \in Thread,
           m.pc # "marked", Sound(m),
           th[i].pc # "idle",
           NEW status \in RunSet,
           status = "waiting_for_review" => MayAnswer(th[i].p),
           run' = [run EXCEPT ![th[i].p] = status] \/ run' = run,
           th' = [th EXCEPT ![i] = m],
           synced' \in [Proposals -> BOOLEAN],
           task' \in [Tasks -> TaskSet],
           UNCHANGED <<prop, kind, made, job>>
    PROVE  AssignmentInv'
  <1>1. th[i].p \in Proposals /\ prop[th[i].p] # "absent"
    BY Here DEF Sound
  <1>2. Typed'
    BY DEF AssignmentInv, TypeOK, Typed
  <1>3. ASSUME NEW q \in Proposals PROVE Settled(q) /\ RunSound(q)'
    <2>1. RunSound(q)
      BY DEF AssignmentInv, RunsSound
    <2>2. UNCHANGED <<prop, kind, made, job>>
      OBVIOUS
    <2>3. CASE run'[q] = run[q]
      BY <2>1, <2>2, <2>3 DEF Settled, RunSound, MayAnswer
    <2>4. CASE run'[q] # run[q]
      <3>1. q = th[i].p /\ run'[q] = status
        BY <2>4 DEF AssignmentInv, TypeOK
      <3>2. prop[q] # "absent" /\ (status = "waiting_for_review" => MayAnswer(q))
        BY <1>1, <3>1
      <3> QED
        BY <2>1, <2>2, <3>1, <3>2 DEF Settled, RunSound, MayAnswer
    <2> QED
      BY <2>3, <2>4
  <1>4. ASSUME NEW j \in Threads, th'[j].pc = "marked" PROVE Marks(th[j])'
    BY <1>4, StillMarked DEF Marks
  <1> QED
    BY <1>2, <1>3, <1>4, StepKeeps

\* The writes of complete_agent_run, reconcile_agent_runs and review_agent_run.
LEMMA ResultSteps ==
    ASSUME AssignmentInv, NEW i \in Threads,
           CompleteWrite(i) \/ Sync(i) \/ ReviewWrite(i)
    PROVE  AssignmentInv'
  <1>0. /\ synced \in [Proposals -> BOOLEAN]
        /\ task \in [Tasks -> TaskSet]
        /\ th[i].want \in RunSet
        /\ "none" \in RunSet
    BY Here, Literals DEF AssignmentInv, TypeOK
  <1>1. CASE CompleteWrite(i)
    <2>1. th[i].pc # "idle" /\ (th[i].want = "waiting_for_review" => MayAnswer(th[i].p))
      BY <1>1, Here DEF CompleteWrite, Sound
    <2>2. Completed(i) \in Thread /\ Completed(i).pc # "marked" /\ Sound(Completed(i))
      BY <2>1, CompletedThread
    <2> QED
      BY <1>0, <1>1, <2>1, <2>2, ResultStep DEF CompleteWrite
  <1>2. CASE Sync(i)
    <2>1. synced' \in [Proposals -> BOOLEAN]
      BY <1>0, <1>2 DEF Sync
    <2> QED
      BY <1>0, <1>2, <2>1, IdleThread, ResultStep DEF Sync
  <1>3. CASE ReviewWrite(i)
    <2>1. th[i].want # "waiting_for_review"
      BY <1>3, Here DEF ReviewWrite, Sound, Reviews
    <2>2. task' \in [Tasks -> TaskSet]
      BY <1>0, <1>3, Literals DEF ReviewWrite
    <2> QED
      BY <1>0, <1>3, <2>1, <2>2, IdleThread, ResultStep DEF ReviewWrite
  <1> QED
    BY <1>1, <1>2, <1>3

\* The run of a marked proposal: the mark has gone from the thread.
LEMMA CreateStep ==
    ASSUME AssignmentInv, NEW i \in Threads, ApplyCreate(i)
    PROVE  AssignmentInv'
  <1>1. /\ th[i].p \in Proposals
        /\ prop[th[i].p] \notin {"absent", "prepared"}
        /\ made[th[i].p] = 0
        /\ th[i].pc = "marked"
    BY Here DEF ApplyCreate, Sound, Marks
  <1>2. /\ At("created", th[i].p) \in Thread
        /\ At("created", th[i].p).pc # "marked"
        /\ Sound(At("created", th[i].p))
    <2>1. "created" \in Stations
      BY DEF Stations
    <2> QED
      BY <1>1, <2>1, AtThread
  <1>3. /\ th' = [th EXCEPT ![i] = At("created", th[i].p)]
        /\ run' = [run EXCEPT ![th[i].p] = "running"]
        /\ made' = [made EXCEPT ![th[i].p] = made[th[i].p] + 1]
        /\ UNCHANGED <<prop, kind, job, synced, task>>
    BY Zenon DEF ApplyCreate
  <1>4. Typed'
    BY <1>1, <1>3, Literals DEF AssignmentInv, TypeOK, Typed
  <1>5. \A q \in Proposals :
            /\ run'[q] = IF q = th[i].p THEN "running" ELSE run[q]
            /\ made'[q] = IF q = th[i].p THEN 1 ELSE made[q]
    BY <1>1, <1>3 DEF AssignmentInv, TypeOK
  <1>6. ASSUME NEW q \in Proposals PROVE Settled(q) /\ RunSound(q)'
    <2>1. RunSound(q)
      BY DEF AssignmentInv, RunsSound
    <2> QED
      BY <1>1, <1>3, <1>5, <2>1 DEF Settled, RunSound, MayAnswer
  <1>7. ASSUME NEW j \in Threads, th'[j].pc = "marked" PROVE Marks(th[j])'
    <2>1. /\ th'[j] = th[j]
          /\ th[j].pc = "marked"
          /\ th[j].p \in Proposals
          /\ Marks(th[j])
          /\ th[j].p # th[i].p
      BY <1>1, <1>2, <1>3, <1>7, StillMarked
    <2> QED
      BY <1>3, <1>5, <2>1 DEF Marks
  <1> QED
    BY <1>2, <1>3, <1>4, <1>6, <1>7, StepKeeps

\* The job of a run, inserted at most once.
LEMMA EnqueueStep ==
    ASSUME AssignmentInv, NEW i \in Threads, EnqueueJob(i)
    PROVE  AssignmentInv' /\ JobsSettled
  <1>1. th[i].p \in Proposals
    BY Here DEF EnqueueJob, Enqueues, Sound
  <1>2. PICK status \in JobSet :
          /\ job' = [job EXCEPT ![th[i].p] = status]
          /\ job[th[i].p] # "none" => status = job[th[i].p]
    <2>1. job[th[i].p] \in JobSet /\ "live" \in JobSet
      BY <1>1, Literals DEF AssignmentInv, TypeOK
    <2> QED
      BY <2>1, Zenon DEF EnqueueJob, Enqueueable
  <1>3. job' \in [Proposals -> JobSet] /\ JobsSettled
    BY <1>2 DEF AssignmentInv, TypeOK, JobsSettled, Ended
  <1>4. Typed'
    BY <1>3 DEF AssignmentInv, TypeOK, Typed, EnqueueJob
  <1>5. ASSUME NEW q \in Proposals PROVE Settled(q) /\ RunSound(q)'
    <2>1. RunSound(q)
      BY DEF AssignmentInv, RunsSound
    <2>2. job[q] = "succeeded" => job'[q] = "succeeded"
      BY <1>3 DEF JobsSettled, Ended
    <2> QED
      BY <2>1, <2>2 DEF Settled, RunSound, MayAnswer, EnqueueJob
  <1>6. ASSUME NEW j \in Threads, th'[j].pc = "marked" PROVE Marks(th[j])'
    BY <1>6, IdleThread, StillMarked DEF Marks, EnqueueJob
  <1> QED
    BY <1>3, <1>4, <1>5, <1>6, IdleThread, StepKeeps DEF EnqueueJob

\* A prepared proposal is marked: it had no run, and no thread held its mark.
LEMMA MarkStep ==
    ASSUME AssignmentInv, NEW i \in Threads, NEW p \in Proposals, ApplyMark(i, p)
    PROVE  AssignmentInv'
  <1>1. /\ th' = [th EXCEPT ![i] = At("marked", p)]
        /\ prop' = [prop EXCEPT ![p] = "applying"]
        /\ UNCHANGED <<kind, run, made, job, synced, task>>
        /\ prop[p] = "prepared"
    BY Zenon DEF ApplyMark
  <1>2. made[p] = 0
    BY <1>1 DEF AssignmentInv, RunsSound, RunSound
  <1>3. /\ At("marked", p) \in Thread
        /\ At("marked", p).pc = "marked"
        /\ At("marked", p).p = p
        /\ Sound(At("marked", p))
    <2>1. "marked" \in Stations /\ prop[p] # "absent"
      BY <1>1 DEF Stations
    <2> QED
      BY <2>1, AtThread
  <1>4. TypeOK'
    BY <1>1, <1>3, Literals DEF AssignmentInv, TypeOK
  <1>5. \A q \in Proposals : prop'[q] = IF q = p THEN "applying" ELSE prop[q]
    BY <1>1 DEF AssignmentInv, TypeOK
  <1>6. \A j \in Threads : th'[j] = IF j = i THEN At("marked", p) ELSE th[j]
    BY <1>1 DEF AssignmentInv, TypeOK
  <1>7. ASSUME NEW j \in Threads PROVE Sound(th[j])'
    <2>1. Sound(th[j]) /\ Sound(At("marked", p))
      BY <1>3, Here
    <2>2. th'[j] = th[j] \/ th'[j] = At("marked", p)
      BY <1>6
    <2>3. \A q \in Proposals : prop[q] # "absent" => prop'[q] # "absent"
      BY <1>5
    <2> QED
      BY <1>1, <2>1, <2>2, <2>3 DEF Sound, MayAnswer
  <1>8. ASSUME NEW j \in Threads, th[j].pc = "marked" PROVE th[j].p # p
    BY <1>1, <1>8, Here DEF Marks
  <1>9. ASSUME NEW j \in Threads, th'[j].pc = "marked" PROVE Marks(th[j])'
    <2>1. CASE j = i
      BY <1>1, <1>2, <1>3, <1>5, <1>6, <2>1 DEF Marks
    <2>2. CASE j # i
      <3>1. th'[j] = th[j] /\ th[j].p \in Proposals /\ Marks(th[j])
        BY <1>6, <1>9, <2>2, Here DEF Sound
      <3> QED
        BY <1>1, <1>5, <1>9, <3>1 DEF Marks
    <2> QED
      BY <2>1, <2>2
  <1>10. OneMark'
    BY <1>3, <1>6, <1>8 DEF AssignmentInv, OneMark
  <1>11. RunsSound'
    BY <1>1, <1>5 DEF AssignmentInv, RunsSound, RunSound, MayAnswer
  <1>12. ThreadsSound'
    BY <1>7, <1>9 DEF ThreadsSound, Marks
  <1> QED
    BY <1>4, <1>10, <1>11, <1>12 DEF AssignmentInv

-----------------------------------------------------------------------------
(* The inductive invariant and the theorems. *)

LEMMA AssignmentInvInit == Init => AssignmentInv
  <1> SUFFICES ASSUME Init PROVE AssignmentInv
    OBVIOUS
  <1>1. /\ "absent" \in PropSet
        /\ "local_mock" \in Runners
        /\ "none" \in RunSet
        /\ "none" \in JobSet
        /\ "open" \in TaskSet
    BY DEF PropSet, Runners, RunSet, JobSet, TaskSet
  <1>2. \A i \in Threads : th[i] = Idle
    BY DEF Init
  <1>3. TypeOK
    BY <1>1, IdleThread DEF Init, TypeOK
  <1>4. ThreadsSound /\ OneMark
    BY <1>2, IdleThread DEF ThreadsSound, OneMark
  <1>5. RunsSound
    BY DEF Init, RunsSound, RunSound
  <1> QED
    BY <1>3, <1>4, <1>5 DEF AssignmentInv

LEMMA AssignmentInvStep == AssignmentInv /\ [Next]_vars => AssignmentInv'
  <1> SUFFICES ASSUME AssignmentInv, [Next]_vars PROVE AssignmentInv'
    OBVIOUS
  <1>1. ASSUME NEW p \in Proposals, NEW runner \in Runners, Propose(p, runner)
        PROVE  AssignmentInv'
    BY <1>1, ProposeStep
  <1>2. CASE \/ \E p \in Proposals : JobSend(p) \/ \E to \in Ended : JobEnds(p, to)
             \/ \E t \in Tasks, to \in TaskSet : TaskChange(t, to)
    BY <1>2, JobTableStep
  <1>3. ASSUME NEW i \in Threads, NEW p \in Proposals,
               Dashboard(i, p) \/ RecoverRead(i, p) \/ ReconcileRead(i, p)
        PROVE  AssignmentInv'
    BY <1>3, OpeningReads, MarkStep DEF Dashboard
  <1>4. ASSUME NEW i \in Threads, RejectWrite(i) \/ ApplyStep(i)
        PROVE  AssignmentInv'
    BY <1>4, StatusSteps, CreateStep DEF ApplyStep
  <1>5. ASSUME NEW i \in Threads, JobStep(i) \/ CompleteStep(i) \/ ReviewWrite(i) \/ Crash(i)
        PROVE  AssignmentInv'
    BY <1>5, EnqueueStep, FollowingReads, ResultSteps DEF JobStep, CompleteStep
  <1>6. CASE UNCHANGED vars
    <2>1. th' = th /\ UNCHANGED <<prop, kind, run, made, synced>> /\ job' = job /\ task' = task
      BY <1>6 DEF vars
    <2>2. job' \in [Proposals -> JobSet] /\ task' \in [Tasks -> TaskSet] /\ JobsSettled
      BY <2>1 DEF AssignmentInv, TypeOK, JobsSettled
    <2> QED
      BY <2>1, <2>2, JobTable
  <1> QED
    BY <1>1, <1>2, <1>3, <1>4, <1>5, <1>6 DEF Next

\* The tables have the types that the code gives them, in every reachable state.
THEOREM AssignmentTypeCorrect == Spec => []TypeOK
  <1>1. AssignmentInv => TypeOK
    BY DEF AssignmentInv
  <1> QED
    BY <1>1, AssignmentInvInit, AssignmentInvStep, PTL DEF Spec

\* Applying creates one run: however many requests apply, reject and take back
\* the mark of a proposal concurrently, and wherever they die, it never gets a
\* second run.
THEOREM OneRun == Spec => []OneRunPerProposal
  <1>1. AssignmentInv => OneRunPerProposal
    BY DEF AssignmentInv, RunsSound, RunSound, OneRunPerProposal
  <1> QED
    BY <1>1, AssignmentInvInit, AssignmentInvStep, PTL DEF Spec

\* A local model run waits for review only when its job succeeded, whichever
\* thread completes it and whatever that thread read before.
THEOREM RealAnswers == Spec => []AnswerIsReal
  <1>1. AssignmentInv => AnswerIsReal
    BY DEF AssignmentInv, RunsSound, RunSound, MayAnswer, AnswerIsReal
  <1> QED
    BY <1>1, AssignmentInvInit, AssignmentInvStep, PTL DEF Spec

\* No step touches a job that has ended.
LEMMA JobsStep == AssignmentInv /\ [Next]_vars => [JobsSettled]_vars
  <1> SUFFICES ASSUME AssignmentInv, Next PROVE JobsSettled
    BY DEF vars
  <1>1. CASE job' = job
    BY <1>1 DEF JobsSettled
  <1>2. CASE job' # job
    <2>1. ASSUME NEW p \in Proposals, JobSend(p) \/ \E to \in Ended : JobEnds(p, to)
          PROVE  JobsSettled
      BY <2>1 DEF AssignmentInv, TypeOK, JobSend, JobEnds, JobsSettled, Ended
    <2>2. ASSUME NEW i \in Threads, EnqueueJob(i) PROVE JobsSettled
      BY <2>2, EnqueueStep
    <2> QED
      BY <1>2, <2>1, <2>2
      DEF Next, Propose, Dashboard, RejectRead, ApplyMark, ReviewRead, RecoverRead,
          ReconcileRead, RejectWrite, ApplyStep, ApplyCreate, ApplyRefused, ApplyLink,
          JobStep, EnqueueRefused, CompleteStep, CompleteRead, CompleteWrite, Sync,
          ReviewWrite, Crash, TaskChange
  <1> QED
    BY <1>1, <1>2

\* Apply and recovery, racing to queue the job of a run, never queue it again
\* once it has ended.
THEOREM JobsStayEnded == Spec => JobNotRequeued
  <1>1. AssignmentInv /\ [Next]_vars
            => [\A p \in Proposals : job[p] \in Ended => job'[p] = job[p]]_vars
    BY JobsStep DEF JobsSettled
  <1> QED
    BY <1>1, AssignmentInvInit, AssignmentInvStep, PTL DEF Spec, JobNotRequeued
=============================================================================
