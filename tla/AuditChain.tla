----------------------------- MODULE AuditChain -----------------------------
(***************************************************************************)
(* The audit log of the control plane (append_audit_event of store.py):    *)
(* every operation of the store appends events to one hash chain in the    *)
(* transaction of its own changes.  sqlite3 opens that transaction at the  *)
(* first write.  An operation that appends before it writes anything else  *)
(* therefore reads the end of the chain without holding the write lock,    *)
(* and another operation may commit before its INSERT; the UNIQUE column   *)
(* sequence then refuses it.                                               *)
(*                                                                         *)
(* A hash stands for the row it was computed from: equal hashes, equal     *)
(* rows.                                                                   *)
(***************************************************************************)
EXTENDS Integers, Sequences

CONSTANTS
    AudOps,        \* operations of the store
    AudEarly,      \* those whose first write is the append itself
    AudMax,        \* most events of one operation
    AudGenesis,    \* the prev_hash of the first event
    AudFree        \* nobody holds the write lock

ASSUME AudAssumption ==
    /\ AudEarly \subseteq AudOps /\ AudMax \in Nat \ {0}
    /\ AudGenesis \notin AudOps \X (1..AudMax)
    /\ AudFree \notin AudOps

VARIABLES
    audRows,  \* the committed rows of audit_events, by sequence
    audDone,  \* operations whose changes are committed
    audLock,  \* the write lock of SQLite
    audTx     \* the transaction of each operation

audVars == <<audRows, audDone, audLock, audTx>>

AudHash == AudOps \X (1..AudMax)
AudRow == [sequence : Nat \ {0}, prev : AudHash \cup {AudGenesis}, hash : AudHash]

\* What an operation that has read the end of the chain remembers (sequence,
\* prev), and the rows it has inserted but not committed.
AudTx == [pc : {"idle", "read", "open"}, sequence : Nat \ {0},
          prev : AudHash \cup {AudGenesis}, rows : Seq(AudRow)]

AudIdle == [pc |-> "idle", sequence |-> 1, prev |-> AudGenesis, rows |-> <<>>]

AudTypeOK ==
    /\ audRows \in Seq(AudRow)
    /\ audDone \subseteq AudOps
    /\ audLock \in AudOps \cup {AudFree}
    /\ audTx \in [AudOps -> AudTx]

AudInit ==
    /\ audRows = <<>>
    /\ audDone = {}
    /\ audLock = AudFree
    /\ audTx = [o \in AudOps |-> AudIdle]

\* The end of the chain as a statement of a connection sees it.
AudEnd(rows) ==
    IF rows = <<>> THEN [sequence |-> 1, prev |-> AudGenesis]
    ELSE [sequence |-> rows[Len(rows)].sequence + 1, prev |-> rows[Len(rows)].hash]

\* The k-th event of an operation, linked to an end.
AudEvent(o, k, end) ==
    [sequence |-> end.sequence, prev |-> end.prev, hash |-> <<o, k>>]

\* Mutant: nothing makes the sequence number unique.
AudTakenNever(sequence) == FALSE

\* UNIQUE(sequence)
AudTaken(sequence) == \E i \in 1..Len(audRows) : audRows[i].sequence = sequence

-----------------------------------------------------------------------------
\* An early append reads the end of the chain; no lock is held afterwards.
AudRead(o) ==
    /\ o \in AudEarly \ audDone /\ audTx[o].pc = "idle"
    /\ audTx' = [audTx EXCEPT ![o] =
          [pc |-> "read", sequence |-> AudEnd(audRows).sequence,
           prev |-> AudEnd(audRows).prev, rows |-> <<>>]]
    /\ UNCHANGED <<audRows, audDone, audLock>>

\* Its INSERT opens the transaction, or fails on the sequence number.
AudInsert(o) ==
    /\ audTx[o].pc = "read" /\ audLock = AudFree
    /\ \/ /\ ~AudTaken(audTx[o].sequence)
          /\ audLock' = o
          /\ audTx' = [audTx EXCEPT ![o].pc = "open",
                                    ![o].rows = <<AudEvent(o, 1, audTx[o])>>]
       \/ /\ AudTaken(audTx[o].sequence)
          /\ audTx' = [audTx EXCEPT ![o] = AudIdle]
          /\ UNCHANGED audLock
    /\ UNCHANGED <<audRows, audDone>>

\* Another operation writes its own rows first and so takes the lock.
AudBegin(o) ==
    /\ o \in AudOps \ (AudEarly \cup audDone) /\ audTx[o].pc = "idle"
    /\ audLock = AudFree /\ audLock' = o
    /\ audTx' = [audTx EXCEPT ![o].pc = "open"]
    /\ UNCHANGED <<audRows, audDone>>

\* An append inside a transaction.
AudAppend(o) ==
    LET rows == audTx[o].rows IN
    /\ audTx[o].pc = "open" /\ Len(rows) < AudMax
    /\ audTx' = [audTx EXCEPT ![o].rows =
          Append(@, AudEvent(o, Len(@) + 1, AudEnd(audRows \o @)))]
    /\ UNCHANGED <<audRows, audDone, audLock>>

\* An operation commits after it has appended.
AudReady(o) == audTx[o].pc = "open" /\ audTx[o].rows # <<>>

AudCommit(o) ==
    /\ AudReady(o)
    /\ audRows' = audRows \o audTx[o].rows
    /\ audDone' = audDone \cup {o}
    /\ audLock' = AudFree
    /\ audTx' = [audTx EXCEPT ![o] = AudIdle]

\* An exception or a crash.
AudRollback(o) ==
    /\ audTx[o].pc # "idle"
    /\ audLock' = IF audLock = o THEN AudFree ELSE audLock
    /\ audTx' = [audTx EXCEPT ![o] = AudIdle]
    /\ UNCHANGED <<audRows, audDone>>

AudNext ==
    \E o \in AudOps :
        \/ AudRead(o) \/ AudInsert(o) \/ AudBegin(o) \/ AudAppend(o)
        \/ AudCommit(o) \/ AudRollback(o)

AudSpec == AudInit /\ [][AudNext]_audVars

-----------------------------------------------------------------------------
\* Whatever the interleaving of operations, the log is one chain without gaps
\* or forks that validate_audit_hash_chain accepts.
AudChainValid ==
    \A i \in 1..Len(audRows) :
        /\ audRows[i].sequence = i
        /\ audRows[i].prev = IF i = 1 THEN AudGenesis ELSE audRows[i - 1].hash

\* What is committed is recorded, and what is recorded is committed.
AudRecorded ==
    \A o \in AudOps :
        (o \in audDone) <=> (\E i \in 1..Len(audRows) : audRows[i].hash[1] = o)

\* The log is one chain, and it holds exactly what was committed.
AudSafe == AudTypeOK /\ AudChainValid /\ AudRecorded
=============================================================================
