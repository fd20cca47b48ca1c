------------------------------ MODULE GpuLease ------------------------------
(***************************************************************************)
(* The lease of the one local GPU (gpu_lease.py).  The owner holds an      *)
(* advisory file lock; requests that wait for it keep a ticket in a small  *)
(* SQLite table, and only the head of that table may try the file lock.    *)
(* The coding wrapper takes the file lock without a ticket and gives way   *)
(* when a request is waiting; whoever asks whether the GPU is busy takes   *)
(* the lock for a moment to find out.  A ticket outlives its request when  *)
(* the process dies or when its DELETE fails; pruning removes it later.    *)
(*                                                                         *)
(* The table is the sequence of its rows by creation; time is relative, in *)
(* ticks (see WorkQueue).                                                  *)
(***************************************************************************)
EXTENDS Integers, SequencesExt

CONSTANTS
    GpuProcs,     \* processes that ask for the GPU with a ticket
    GpuCoders,    \* coding wrappers
    GpuProbers,   \* callers of busy
    GpuPriority,  \* the priority of a process's requests (0 is best)
    GpuAgeTicks,  \* AGE_SECONDS: waiting that raises a ticket one priority
    GpuTimeout,   \* timeout_seconds of an acquire
    GpuGrace,     \* a row expires so long after its deadline
    GpuFaults,    \* bound: crashes and failed deletes of a behaviour
    GpuNone

ASSUME GpuAssumption ==
    /\ GpuPriority \in [GpuProcs -> Nat]
    /\ GpuProcs \cap GpuCoders = {}
    /\ GpuProbers \cap (GpuProcs \cup GpuCoders) = {}
    /\ GpuNone \notin GpuProcs \cup GpuCoders \cup GpuProbers
    /\ GpuAgeTicks \in Nat \ {0} /\ GpuTimeout \in Nat
    /\ GpuGrace \in Nat /\ GpuFaults \in Nat

VARIABLES
    gpuRows,   \* the table waiting
    gpuPc,     \* what each process is doing
    gpuLeft,   \* ticks until the deadline of its acquire
    gpuLock,   \* the owner of the file lock
    gpuFaults  \* faults so far

gpuVars == <<gpuRows, gpuPc, gpuLeft, gpuLock, gpuFaults>>

GpuUsers == GpuProcs \cup GpuCoders \cup GpuProbers

\* A row is the ticket of a running acquire, a ghost its live process could
\* not delete, or the ticket of a dead process.
GpuRow == [p : GpuProcs, age : Nat, ttl : 0..(GpuTimeout + GpuGrace),
           of : {"ticket", "ghost", "dead"}]

GpuTypeOK ==
    /\ gpuRows \in Seq(GpuRow)
    /\ gpuPc \in [GpuUsers -> {"out", "waiting", "checking", "probing", "owner"}]
    /\ gpuLeft \in [GpuProcs -> 0..GpuTimeout]
    /\ gpuLock \in GpuUsers \cup {GpuNone}
    /\ gpuFaults \in 0..GpuFaults

GpuInit ==
    /\ gpuRows = <<>>
    /\ gpuPc = [p \in GpuUsers |-> "out"]
    /\ gpuLeft = [p \in GpuProcs |-> 0]
    /\ gpuLock = GpuNone
    /\ gpuFaults = 0

\* _prune: rows that expired or whose process is gone.
GpuPruned(rows) ==
    SelectSeq(rows, LAMBDA row : row.ttl > 0 /\ row.of # "dead")

\* Mutant: waiting does not improve the rank.
GpuRankUnaged(row) == GpuPriority[row.p]

\* MAX(0, priority - CAST((now - created) / AGE_SECONDS AS INTEGER))
GpuRank(row) ==
    LET rank == GpuPriority[row.p] - row.age \div GpuAgeTicks
    IN IF rank > 0 THEN rank ELSE 0

\* The row that sorts first, by rank and then by creation.
GpuIsHead(rows, p) ==
    \E i \in DOMAIN rows :
        /\ rows[i].p = p /\ rows[i].of = "ticket"
        /\ \A j \in DOMAIN rows \ {i} :
              \/ GpuRank(rows[i]) < GpuRank(rows[j])
              \/ GpuRank(rows[i]) = GpuRank(rows[j]) /\ i < j

GpuWithout(rows, p) ==
    SelectSeq(rows, LAMBDA row : ~(row.p = p /\ row.of = "ticket"))

\* The tickets of p change hands: a ghost or the ticket of a dead process.
GpuLeftBehind(rows, p, of) ==
    [i \in DOMAIN rows |->
        IF rows[i].p = p /\ (rows[i].of = "ticket" \/ of = "dead")
        THEN [rows[i] EXCEPT !.of = of] ELSE rows[i]]

-----------------------------------------------------------------------------
\* acquire inserts its ticket.
GpuJoin(p) ==
    /\ gpuPc[p] = "out"
    /\ gpuPc' = [gpuPc EXCEPT ![p] = "waiting"]
    /\ gpuLeft' = [gpuLeft EXCEPT ![p] = GpuTimeout]
    /\ gpuRows' = Append(gpuRows, [p |-> p, age |-> 0, of |-> "ticket",
                                   ttl |-> GpuTimeout + GpuGrace])
    /\ UNCHANGED <<gpuLock, gpuFaults>>

\* Mutant: the head of the table owns the GPU, file lock or not.
GpuAcquireUnlocked(p) ==
    LET rows == GpuPruned(gpuRows) IN
    /\ gpuPc[p] = "waiting"
    /\ GpuIsHead(rows, p)
    /\ gpuLock' = p
    /\ gpuPc' = [gpuPc EXCEPT ![p] = "owner"]
    /\ gpuRows' = GpuWithout(rows, p)
    /\ UNCHANGED <<gpuLeft, gpuFaults>>

\* One poll in BEGIN IMMEDIATE: prune; the head tries the file lock.
GpuAcquire(p) ==
    LET rows == GpuPruned(gpuRows) IN
    /\ gpuPc[p] = "waiting"
    /\ GpuIsHead(rows, p) /\ gpuLock = GpuNone
    /\ gpuLock' = p
    /\ gpuPc' = [gpuPc EXCEPT ![p] = "owner"]
    /\ gpuRows' = GpuWithout(rows, p)
    /\ UNCHANGED <<gpuLeft, gpuFaults>>

\* A poll that finds another head or the lock taken, before the deadline.
GpuPoll(p) ==
    LET rows == GpuPruned(gpuRows) IN
    /\ gpuPc[p] = "waiting" /\ gpuLeft[p] > 0
    /\ ~(GpuIsHead(rows, p) /\ gpuLock = GpuNone)
    /\ gpuRows' = rows
    /\ UNCHANGED <<gpuPc, gpuLeft, gpuLock, gpuFaults>>

\* The same at the deadline: local_gpu_busy, and the ticket is deleted, or
\* stays behind when SQLite refuses.
GpuBusy(p) ==
    LET rows == GpuPruned(gpuRows) IN
    /\ gpuPc[p] = "waiting" /\ gpuLeft[p] = 0
    /\ ~(GpuIsHead(rows, p) /\ gpuLock = GpuNone)
    /\ gpuPc' = [gpuPc EXCEPT ![p] = "out"]
    /\ \/ gpuRows' = GpuWithout(rows, p) /\ UNCHANGED gpuFaults
       \/ /\ gpuFaults < GpuFaults /\ gpuFaults' = gpuFaults + 1
          /\ gpuRows' = GpuLeftBehind(rows, p, "ghost")
    /\ UNCHANGED <<gpuLeft, gpuLock>>

\* The with block ends.
GpuRelease(p) ==
    /\ gpuPc[p] = "owner"
    /\ gpuPc' = [gpuPc EXCEPT ![p] = "out"]
    /\ gpuLock' = GpuNone
    /\ UNCHANGED <<gpuRows, gpuLeft, gpuFaults>>

\* The process dies: the kernel drops its file lock, its rows stay.
GpuCrash(p) ==
    /\ gpuPc[p] # "out" /\ gpuFaults < GpuFaults
    /\ gpuFaults' = gpuFaults + 1
    /\ gpuPc' = [gpuPc EXCEPT ![p] = "out"]
    /\ gpuLock' = IF gpuLock = p THEN GpuNone ELSE gpuLock
    /\ gpuRows' = GpuLeftBehind(gpuRows, p, "dead")
    /\ UNCHANGED gpuLeft

\* The coding wrapper takes the file lock, looks at the table and exits 75
\* or runs.
GpuCoderTake(c) ==
    /\ gpuPc[c] = "out" /\ gpuLock = GpuNone
    /\ gpuPc' = [gpuPc EXCEPT ![c] = "checking"]
    /\ gpuLock' = c
    /\ UNCHANGED <<gpuRows, gpuLeft, gpuFaults>>

GpuCoderCheck(c) ==
    /\ gpuPc[c] = "checking"
    /\ gpuRows' = GpuPruned(gpuRows)
    /\ \/ gpuRows' = <<>> /\ gpuPc' = [gpuPc EXCEPT ![c] = "owner"]
          /\ UNCHANGED gpuLock
       \/ gpuRows' # <<>> /\ gpuPc' = [gpuPc EXCEPT ![c] = "out"]
          /\ gpuLock' = GpuNone
    /\ UNCHANGED <<gpuLeft, gpuFaults>>

\* busy tries the file lock and gives it back; who polls in between finds it
\* taken.
GpuProbe(q) ==
    /\ gpuPc[q] = "out" /\ gpuLock = GpuNone
    /\ gpuPc' = [gpuPc EXCEPT ![q] = "probing"]
    /\ gpuLock' = q
    /\ UNCHANGED <<gpuRows, gpuLeft, gpuFaults>>

GpuProbed(q) ==
    /\ gpuPc[q] = "probing"
    /\ gpuPc' = [gpuPc EXCEPT ![q] = "out"]
    /\ gpuLock' = GpuNone
    /\ UNCHANGED <<gpuRows, gpuLeft, gpuFaults>>

GpuTick ==
    /\ gpuRows' = [i \in DOMAIN gpuRows |-> [gpuRows[i] EXCEPT
           !.age = IF @ < GpuPriority[gpuRows[i].p] * GpuAgeTicks
                   THEN @ + 1 ELSE @,
           !.ttl = IF @ > 0 THEN @ - 1 ELSE 0]]
    /\ gpuLeft' = [p \in GpuProcs |-> IF gpuLeft[p] > 0 THEN gpuLeft[p] - 1 ELSE 0]
    /\ UNCHANGED <<gpuPc, gpuLock, gpuFaults>>

GpuNext ==
    \/ \E p \in GpuProcs : \/ GpuJoin(p) \/ GpuAcquire(p) \/ GpuPoll(p)
                           \/ GpuBusy(p) \/ GpuCrash(p)
    \/ \E p \in GpuUsers : GpuRelease(p)
    \/ \E c \in GpuCoders : GpuCoderTake(c) \/ GpuCoderCheck(c)
    \/ \E q \in GpuProbers : GpuProbe(q) \/ GpuProbed(q)
    \/ GpuTick

GpuSpec == GpuInit /\ [][GpuNext]_gpuVars

\* A waiting process polls every 0.1 s, an owner finishes, time passes.
GpuProgress(p) == GpuAcquire(p) \/ GpuPoll(p) \/ GpuBusy(p)

-----------------------------------------------------------------------------
\* Whoever runs or checks holds the file lock, so there is one at most, with
\* or without a ticket, over crashes, ghosts and the coding wrapper.
GpuOneOwner ==
    \A p \in GpuUsers : gpuPc[p] \in {"owner", "checking", "probing"} => gpuLock = p

\* A ticket that waited long enough to reach the best rank is not overtaken
\* by one created after it, whatever its priority.
GpuAgedNotOvertaken ==
    [][\A p \in GpuProcs : gpuPc[p] = "waiting" /\ gpuPc'[p] = "owner" =>
          \A i, j \in DOMAIN gpuRows :
              /\ i < j /\ gpuRows[j].p = p /\ gpuRows[j].of = "ticket"
              /\ gpuRows[i].of = "ticket" /\ gpuRows[i].ttl > 0
              => gpuRows[i].age < GpuPriority[gpuRows[i].p] * GpuAgeTicks]_gpuVars

\* Tickets nobody polls for, left by a crash or a failed delete, do not stay
\* in front of those who wait.
GpuGhostsPass ==
    []<>(\/ \A i \in DOMAIN gpuRows : gpuRows[i].of = "ticket"
         \/ \A p \in GpuProcs : gpuPc[p] # "waiting")

\* The GPU has one owner at a time, with or without a ticket, the table of tickets
\* is well formed, and who waits gets a turn: neither better priorities that
\* arrive later nor tickets that a dead request left behind hold it up for ever.
GpuSafe == [](GpuTypeOK /\ GpuOneOwner) /\ GpuAgedNotOvertaken /\ GpuGhostsPass
=============================================================================
