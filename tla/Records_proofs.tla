--------------------------- MODULE Records_proofs ---------------------------
(***************************************************************************)
(* Proofs about the records: the audit chain, orchestration, approvals of  *)
(* self-improvement, permissions, decisions, sources, memory and the       *)
(* night queue, for any number of operations, threads, items, rows and     *)
(* runs.                                                                   *)
(***************************************************************************)
EXTENDS AuditChain, Orchestration, SelfImprovement, Permissions, Decision, Sources, Memory,
        NightQueue, SequenceTheorems, TLAPS
-----------------------------------------------------------------------------
(* AuditChain *)

\* The link that the i-th row of a log carries.
Link(rows, i) == IF i = 1 THEN AudGenesis ELSE rows[i - 1].hash

Chained(rows) ==
    \A i \in 1..Len(rows) : rows[i].sequence = i /\ rows[i].prev = Link(rows, i)

Own(o, rows) == \A i \in 1..Len(rows) : rows[i].hash[1] = o

\* An operation that has read the end of the chain without a lock knows a true
\* link of it, perhaps an old one; one that has inserted extends the chain.
Extends(o, tx, rows) ==
    /\ tx.pc \in {"idle", "read"} => tx.rows = <<>>
    /\ tx.pc = "read" => tx.sequence \in 1..(Len(rows) + 1) /\ tx.prev = Link(rows, tx.sequence)
    /\ tx.pc = "open" => Chained(rows \o tx.rows) /\ Own(o, tx.rows)

\* An operation has a transaction open exactly when it holds the write lock.
TxSound(o) ==
    /\ Extends(o, audTx[o], audRows)
    /\ (audTx[o].pc = "open") <=> (audLock = o)

AudInv ==
    /\ AudTypeOK
    /\ Chained(audRows)
    /\ \A o \in AudOps : TxSound(o)
    /\ AudRecorded

-----------------------------------------------------------------------------
(* Facts about logs. *)

\* A chained log is what AudChainValid asks for.
LEMMA ChainedIsValid == Chained(audRows) => AudChainValid
  BY DEF Chained, Link, AudChainValid

\* The end of a chained log.
LEMMA ChainEnd ==
    ASSUME NEW rows \in Seq(AudRow), Chained(rows)
    PROVE  /\ AudEnd(rows).sequence = Len(rows) + 1
           /\ AudEnd(rows).prev = Link(rows, Len(rows) + 1)
           /\ AudEnd(rows).prev \in AudHash \cup {AudGenesis}
  <1>1. Len(rows) \in Nat /\ (rows = <<>> <=> Len(rows) = 0)
    BY EmptySeq
  <1>2. CASE rows = <<>>
    BY <1>1, <1>2 DEF AudEnd, Link
  <1>3. CASE rows # <<>>
    <2>1. Len(rows) \in 1..Len(rows) /\ rows[Len(rows)] \in AudRow
      BY <1>1, <1>3, ElementOfSeq
    <2> QED
      BY <1>1, <1>3, <2>1 DEF AudEnd, Link, Chained, AudRow
  <1> QED
    BY <1>2, <1>3

\* Appending an event that links to the end keeps a chain.
LEMMA ChainAppend ==
    ASSUME NEW rows \in Seq(AudRow), Chained(rows), NEW e \in AudRow,
           e.sequence = Len(rows) + 1, e.prev = Link(rows, Len(rows) + 1)
    PROVE  Chained(Append(rows, e))
  <1> DEFINE new == Append(rows, e)
  <1>1. /\ Len(rows) \in Nat
        /\ Len(new) = Len(rows) + 1
        /\ \A i \in 1..Len(rows) : new[i] = rows[i]
        /\ new[Len(rows) + 1] = e
    BY AppendProperties
  <1> HIDE DEF new
  <1>2. ASSUME NEW i \in 1..Len(new)
        PROVE  new[i].sequence = i /\ new[i].prev = Link(new, i)
    <2>1. Link(new, i) = Link(rows, i)
      BY <1>1 DEF Link
    <2>2. CASE i \in 1..Len(rows)
      BY <1>1, <2>1, <2>2 DEF Chained
    <2>3. CASE i = Len(rows) + 1
      BY <1>1, <2>1, <2>3
    <2> QED
      BY <1>1, <2>2, <2>3
  <1> QED
    BY <1>2 DEF Chained, new

\* An event of an operation is a row.
LEMMA EventRow ==
    ASSUME NEW o \in AudOps, NEW k \in 1..AudMax, NEW end,
           end.sequence \in Nat \ {0}, end.prev \in AudHash \cup {AudGenesis}
    PROVE  /\ AudEvent(o, k, end) \in AudRow
           /\ AudEvent(o, k, end).sequence = end.sequence
           /\ AudEvent(o, k, end).prev = end.prev
           /\ AudEvent(o, k, end).hash[1] = o
  BY DEF AudEvent, AudRow, AudHash

-----------------------------------------------------------------------------
LEMMA IdleTx == AudIdle \in AudTx /\ AudIdle.pc = "idle" /\ AudIdle.rows = <<>>
  BY EmptySeq DEF AudIdle, AudTx

LEMMA AudInvInit == AudInit => AudInv
  <1> SUFFICES ASSUME AudInit PROVE AudInv
    OBVIOUS
  <1>0. audRows = <<>> /\ Len(audRows) = 0
    BY EmptySeq DEF AudInit
  <1>1. AudTypeOK
    BY IdleTx, EmptySeq DEF AudInit, AudTypeOK
  <1>2. Chained(audRows)
    BY <1>0 DEF Chained
  <1>3. \A o \in AudOps : TxSound(o)
    BY IdleTx, AudAssumption DEF AudInit, TxSound, Extends
  <1>4. AudRecorded
    <2>1. ~\E i \in 1..Len(audRows) : TRUE
      BY <1>0
    <2> QED
      BY <2>1 DEF AudInit, AudRecorded
  <1> QED
    BY <1>1, <1>2, <1>3, <1>4 DEF AudInv

\* A transaction that stays as it is stays sound while the log does.
LEMMA OthersKept ==
    ASSUME AudInv, NEW o \in AudOps, NEW p \in AudOps, p # o,
           audTx'[p] = audTx[p], audRows' = audRows,
           (audLock' = p) <=> (audLock = p)
    PROVE  TxSound(p)'
  BY DEF AudInv, TxSound

\* The steps of an operation that leave the log as it is.
LEMMA TxStep ==
    ASSUME AudInv, NEW o \in AudOps, NEW tx \in AudTx,
           audTx' = [audTx EXCEPT ![o] = tx],
           UNCHANGED <<audRows, audDone>>,
           audLock' \in AudOps \cup {AudFree},
           \A p \in AudOps \ {o} : (audLock' = p) <=> (audLock = p),
           TxSound(o)'
    PROVE  AudInv'
  <1>1. AudTypeOK'
    BY DEF AudInv, AudTypeOK
  <1>2. Chained(audRows)'
    BY DEF AudInv, Chained, Link
  <1>3. ASSUME NEW p \in AudOps PROVE TxSound(p)'
    <2>1. CASE p = o
      BY <2>1
    <2>2. CASE p # o
      <3>1. audTx'[p] = audTx[p]
        BY <2>2 DEF AudInv, AudTypeOK
      <3> QED
        BY <2>2, <3>1, OthersKept
    <2> QED
      BY <2>1, <2>2
  <1>4. AudRecorded'
    BY DEF AudInv, AudRecorded
  <1> QED
    BY <1>1, <1>2, <1>3, <1>4 DEF AudInv

LEMMA ReadStep ==
    ASSUME AudInv, NEW o \in AudOps, AudRead(o) PROVE AudInv'
  <1> DEFINE tx == [pc |-> "read", sequence |-> AudEnd(audRows).sequence,
                    prev |-> AudEnd(audRows).prev, rows |-> <<>>]
  <1>1. audRows \in Seq(AudRow) /\ Chained(audRows) /\ Len(audRows) \in Nat
    BY DEF AudInv, AudTypeOK
  <1>2. tx \in AudTx
    BY <1>1, ChainEnd, EmptySeq DEF AudTx
  <1>3. audLock # o
    BY DEF AudInv, TxSound, AudRead
  <1>4. audTx'[o] = tx
    BY DEF AudInv, AudTypeOK, AudRead
  <1>5. TxSound(o)'
    BY <1>1, <1>3, <1>4, ChainEnd DEF TxSound, Extends, AudRead
  <1> QED
    BY <1>2, <1>5, TxStep DEF AudInv, AudTypeOK, AudRead

\* No row has the sequence number that was read: the end has not moved.
LEMMA FreshIsEnd ==
    ASSUME AudInv, NEW o \in AudOps, audTx[o].pc = "read", ~AudTaken(audTx[o].sequence)
    PROVE  /\ audTx[o].sequence = Len(audRows) + 1
           /\ audTx[o].prev = Link(audRows, Len(audRows) + 1)
  <1>1. Len(audRows) \in Nat
    BY DEF AudInv, AudTypeOK
  <1>2. /\ audTx[o].sequence \in 1..(Len(audRows) + 1)
        /\ audTx[o].prev = Link(audRows, audTx[o].sequence)
    BY DEF AudInv, TxSound, Extends
  <1>3. audTx[o].sequence \notin 1..Len(audRows)
    BY DEF AudInv, Chained, AudTaken
  <1> QED
    BY <1>1, <1>2, <1>3

\* A transaction with rows of its own.
LEMMA OpenTx ==
    ASSUME NEW tx \in AudTx, NEW rows \in Seq(AudRow)
    PROVE  LET new == [tx EXCEPT !.pc = "open", !.rows = rows]
           IN  new \in AudTx /\ new.pc = "open" /\ new.rows = rows
  BY DEF AudTx

LEMMA InsertStep ==
    ASSUME AudInv, NEW o \in AudOps, AudInsert(o) PROVE AudInv'
  <1>1. audRows \in Seq(AudRow) /\ Chained(audRows) /\ Len(audRows) \in Nat
    BY DEF AudInv, AudTypeOK
  <1>2. audTx[o] \in AudTx /\ audTx[o].pc = "read" /\ audLock = AudFree
    BY DEF AudInv, AudTypeOK, AudInsert
  <1>3. CASE ~AudTaken(audTx[o].sequence)
    <2> DEFINE e == AudEvent(o, 1, audTx[o])
    <2> DEFINE tx == [audTx[o] EXCEPT !.pc = "open", !.rows = <<e>>]
    <2>1. /\ e \in AudRow /\ e.hash[1] = o
          /\ e.sequence = Len(audRows) + 1 /\ e.prev = Link(audRows, Len(audRows) + 1)
      <3>1. 1 \in 1..AudMax
        BY AudAssumption
      <3>2. audTx[o].sequence \in Nat \ {0} /\ audTx[o].prev \in AudHash \cup {AudGenesis}
        BY <1>2 DEF AudTx
      <3> QED
        BY <1>2, <1>3, <3>1, <3>2, FreshIsEnd, EventRow
    <2> HIDE DEF e
    <2>2. tx \in AudTx /\ tx.pc = "open" /\ tx.rows = <<e>>
      <3>1. <<e>> \in Seq(AudRow)
        BY <2>1
      <3> QED
        BY <1>2, <3>1, OpenTx
    <2>3. Chained(audRows \o <<e>>)
      <3>1. audRows \o <<e>> = Append(audRows, e)
        BY <1>1, <2>1
      <3> QED
        BY <1>1, <2>1, <3>1, ChainAppend
    <2>4. Own(o, <<e>>)
      BY <2>1 DEF Own
    <2>5. /\ audTx' = [audTx EXCEPT ![o] = tx] /\ audLock' = o
          /\ UNCHANGED <<audRows, audDone>>
      BY <1>2, <1>3 DEF AudInsert, AudInv, AudTypeOK, e
    <2>6. audTx'[o] = tx
      BY <2>5 DEF AudInv, AudTypeOK
    <2>7. TxSound(o)'
      BY <2>2, <2>3, <2>4, <2>5, <2>6 DEF TxSound, Extends
    <2>8. \A p \in AudOps \ {o} : (audLock' = p) <=> (audLock = p)
      BY <1>2, <2>5, AudAssumption
    <2> QED
      BY <2>2, <2>5, <2>7, <2>8, TxStep
  <1>4. CASE AudTaken(audTx[o].sequence)
    <2>1. /\ audTx' = [audTx EXCEPT ![o] = AudIdle]
          /\ UNCHANGED <<audRows, audDone, audLock>>
      BY <1>4 DEF AudInsert
    <2>2. audTx'[o] = AudIdle
      BY <2>1 DEF AudInv, AudTypeOK
    <2>3. TxSound(o)'
      BY <1>2, <2>1, <2>2, IdleTx, AudAssumption DEF TxSound, Extends
    <2> QED
      BY <2>1, <2>3, IdleTx, TxStep DEF AudInv, AudTypeOK
  <1> QED
    BY <1>3, <1>4

LEMMA BeginStep ==
    ASSUME AudInv, NEW o \in AudOps, AudBegin(o) PROVE AudInv'
  <1> DEFINE tx == [audTx[o] EXCEPT !.pc = "open"]
  <1>1. audRows \in Seq(AudRow) /\ Chained(audRows)
    BY DEF AudInv, AudTypeOK
  <1>2. audTx[o] \in AudTx /\ audTx[o].rows = <<>> /\ audLock = AudFree
    BY DEF AudInv, AudTypeOK, TxSound, Extends, AudBegin
  <1>3. tx \in AudTx /\ tx.pc = "open" /\ tx.rows = <<>>
    BY <1>2 DEF AudTx
  <1>4. /\ audTx' = [audTx EXCEPT ![o] = tx] /\ audLock' = o
        /\ UNCHANGED <<audRows, audDone>>
    BY DEF AudBegin
  <1>5. audTx'[o] = tx
    BY <1>4 DEF AudInv, AudTypeOK
  <1>6. TxSound(o)'
    <2>1. audRows \o <<>> = audRows
      BY <1>1, ConcatEmptySeq
    <2>2. Own(o, <<>>)
      BY EmptySeq DEF Own
    <2> QED
      BY <1>1, <1>3, <1>4, <1>5, <2>1, <2>2 DEF TxSound, Extends
  <1>7. \A p \in AudOps \ {o} : (audLock' = p) <=> (audLock = p)
    BY <1>2, <1>4, AudAssumption
  <1> QED
    BY <1>3, <1>4, <1>6, <1>7, TxStep

\* Appending to what a transaction adds appends to the whole.
LEMMA ConcatAppend ==
    ASSUME NEW s \in Seq(AudRow), NEW t \in Seq(AudRow), NEW e \in AudRow
    PROVE  s \o Append(t, e) = Append(s \o t, e)
  <1>1. <<e>> \in Seq(AudRow) /\ s \o t \in Seq(AudRow)
    BY ConcatProperties
  <1>2. Append(t, e) = t \o <<e>> /\ Append(s \o t, e) = (s \o t) \o <<e>>
    BY <1>1, AppendIsConcat
  <1> QED
    BY <1>1, <1>2, ConcatAssociative

LEMMA AppendStep ==
    ASSUME AudInv, NEW o \in AudOps, AudAppend(o) PROVE AudInv'
  <1> DEFINE rows == audTx[o].rows
  <1> DEFINE end == AudEnd(audRows \o rows)
  <1> DEFINE e == AudEvent(o, Len(rows) + 1, end)
  <1> DEFINE tx == [audTx[o] EXCEPT !.rows = Append(rows, e)]
  <1>1. /\ audTx[o] \in AudTx /\ audTx[o].pc = "open" /\ audLock = o
        /\ audRows \in Seq(AudRow) /\ rows \in Seq(AudRow) /\ Len(rows) < AudMax
    BY DEF AudInv, AudTypeOK, AudTx, TxSound, AudAppend
  <1>2. Chained(audRows \o rows) /\ Own(o, rows) /\ audRows \o rows \in Seq(AudRow)
    BY <1>1, ConcatProperties DEF AudInv, TxSound, Extends
  <1>3. /\ end.sequence = Len(audRows \o rows) + 1
        /\ end.prev = Link(audRows \o rows, Len(audRows \o rows) + 1)
        /\ end.prev \in AudHash \cup {AudGenesis}
        /\ end.sequence \in Nat \ {0}
    <2> DEFINE all == audRows \o rows
    <2>1. all \in Seq(AudRow) /\ Chained(all) /\ Len(all) \in Nat
      BY <1>2
    <2> HIDE DEF all
    <2>2. /\ AudEnd(all).sequence = Len(all) + 1
          /\ AudEnd(all).prev = Link(all, Len(all) + 1)
          /\ AudEnd(all).prev \in AudHash \cup {AudGenesis}
      BY <2>1, ChainEnd
    <2> QED
      BY <2>1, <2>2 DEF all
  <1>4. /\ e \in AudRow /\ e.hash[1] = o
        /\ e.sequence = end.sequence /\ e.prev = end.prev
    <2>1. Len(rows) + 1 \in 1..AudMax
      BY <1>1, AudAssumption
    <2> HIDE DEF end
    <2> QED
      BY <1>3, <2>1, EventRow
  <1>5. Chained(audRows \o Append(rows, e))
    <2> HIDE DEF e
    <2>1. audRows \o Append(rows, e) = Append(audRows \o rows, e)
      BY <1>1, <1>4, ConcatAppend
    <2> DEFINE all == audRows \o rows
    <2>2. all \in Seq(AudRow) /\ Chained(all)
      BY <1>2
    <2>3. e \in AudRow /\ e.sequence = Len(all) + 1 /\ e.prev = Link(all, Len(all) + 1)
      BY <1>3, <1>4
    <2> HIDE DEF all
    <2>4. Chained(Append(all, e))
      BY <2>2, <2>3, ChainAppend
    <2> QED
      BY <2>1, <2>4 DEF all
  <1>6. Own(o, Append(rows, e))
    <2> HIDE DEF e, rows
    <2>1. /\ Len(Append(rows, e)) = Len(rows) + 1
          /\ \A i \in 1..Len(rows) : Append(rows, e)[i] = rows[i]
          /\ Append(rows, e)[Len(rows) + 1] = e
          /\ Len(rows) \in Nat
      BY <1>1, <1>4, AppendProperties
    <2>2. ASSUME NEW i \in 1..Len(Append(rows, e)) PROVE Append(rows, e)[i].hash[1] = o
      BY <1>2, <1>4, <2>1 DEF Own
    <2> QED
      BY <2>2 DEF Own
  <1>7. tx \in AudTx /\ tx.pc = "open" /\ tx.rows = Append(rows, e)
    <2>1. Append(rows, e) \in Seq(AudRow)
      BY <1>1, <1>4, AppendProperties
    <2> HIDE DEF e
    <2> QED
      BY <1>1, <2>1 DEF AudTx
  <1>8. /\ audTx' = [audTx EXCEPT ![o] = tx]
        /\ UNCHANGED <<audRows, audDone, audLock>>
    BY DEF AudAppend, AudInv, AudTypeOK
  <1>9. audTx'[o] = tx
    BY <1>8 DEF AudInv, AudTypeOK
  <1> HIDE DEF tx, e, end
  <1>10. TxSound(o)'
    BY <1>1, <1>5, <1>6, <1>7, <1>8, <1>9 DEF TxSound, Extends
  <1> QED
    BY <1>7, <1>8, <1>10, TxStep DEF AudInv, AudTypeOK

LEMMA RollbackStep ==
    ASSUME AudInv, NEW o \in AudOps, AudRollback(o) PROVE AudInv'
  <1>1. /\ audTx' = [audTx EXCEPT ![o] = AudIdle]
        /\ audLock' = IF audLock = o THEN AudFree ELSE audLock
        /\ UNCHANGED <<audRows, audDone>>
    BY DEF AudRollback
  <1>2. audTx'[o] = AudIdle
    BY <1>1 DEF AudInv, AudTypeOK
  <1>3. TxSound(o)'
    BY <1>1, <1>2, IdleTx, AudAssumption DEF TxSound, Extends
  <1>4. \A p \in AudOps \ {o} : (audLock' = p) <=> (audLock = p)
    BY <1>1, AudAssumption
  <1>5. audLock' \in AudOps \cup {AudFree}
    BY <1>1 DEF AudInv, AudTypeOK
  <1> QED
    BY <1>1, <1>3, <1>4, <1>5, IdleTx, TxStep

LEMMA CommitStep ==
    ASSUME AudInv, NEW o \in AudOps, AudCommit(o) PROVE AudInv'
  <1> DEFINE rows == audTx[o].rows
  <1>1. /\ audTx[o] \in AudTx /\ audTx[o].pc = "open" /\ audLock = o
        /\ audRows \in Seq(AudRow) /\ rows \in Seq(AudRow) /\ rows # <<>>
    BY DEF AudInv, AudTypeOK, AudTx, TxSound, AudCommit, AudReady
  <1>2. Chained(audRows \o rows) /\ Own(o, rows)
    BY <1>1 DEF AudInv, TxSound, Extends
  <1>3. /\ audRows' = audRows \o rows /\ audDone' = audDone \cup {o}
        /\ audLock' = AudFree /\ audTx' = [audTx EXCEPT ![o] = AudIdle]
    BY DEF AudCommit
  <1> HIDE DEF rows
  <1>4. /\ audRows' \in Seq(AudRow)
        /\ Len(audRows) \in Nat /\ Len(rows) \in Nat \ {0}
        /\ Len(audRows') = Len(audRows) + Len(rows)
        /\ \A i \in 1..Len(audRows) : audRows'[i] = audRows[i]
        /\ \A i \in 1..Len(rows) : audRows'[Len(audRows) + i] = rows[i]
    BY <1>1, <1>3, EmptySeq, ConcatProperties
  <1>5. AudTypeOK'
    BY <1>3, <1>4, IdleTx DEF AudInv, AudTypeOK
  <1>6. ASSUME NEW p \in AudOps PROVE TxSound(p)'
    <2>1. CASE p = o
      <3>1. audTx'[p] = AudIdle
        BY <1>3, <2>1 DEF AudInv, AudTypeOK
      <3> QED
        BY <1>3, <3>1, IdleTx, AudAssumption DEF TxSound, Extends
    <2>2. CASE p # o
      <3>1. audTx'[p] = audTx[p] /\ audTx[p].pc # "open" /\ Extends(p, audTx[p], audRows)
        BY <1>1, <1>3, <2>2 DEF AudInv, AudTypeOK, TxSound
      <3>2. \A s \in 1..(Len(audRows) + 1) : Link(audRows', s) = Link(audRows, s)
        BY <1>4 DEF Link
      <3>3. Extends(p, audTx[p], audRows')
        BY <1>4, <3>1, <3>2 DEF Extends
      <3> QED
        BY <1>3, <3>1, <3>3, AudAssumption DEF TxSound
    <2> QED
      BY <2>1, <2>2
  <1>7. ASSUME NEW p \in AudOps
        PROVE  (p \in audDone') <=> (\E i \in 1..Len(audRows') : audRows'[i].hash[1] = p)
    <2>1. (p \in audDone) <=> (\E i \in 1..Len(audRows) : audRows[i].hash[1] = p)
      BY DEF AudInv, AudRecorded
    <2>2. \A i \in (Len(audRows) + 1)..Len(audRows') : audRows'[i].hash[1] = o
      <3>1. ASSUME NEW i \in (Len(audRows) + 1)..Len(audRows')
            PROVE  audRows'[i].hash[1] = o
        <4>1. i - Len(audRows) \in 1..Len(rows) /\ i = Len(audRows) + (i - Len(audRows))
          BY <1>4
        <4>2. PICK j \in 1..Len(rows) : i = Len(audRows) + j
          BY <4>1
        <4>3. audRows'[i] = rows[j]
          BY <1>4, <4>2
        <4>4. rows[j].hash[1] = o
          BY <1>2 DEF Own
        <4> QED
          BY <4>3, <4>4
      <3> QED
        BY <3>1
    <2>3. Len(audRows) + 1 \in (Len(audRows) + 1)..Len(audRows')
      BY <1>4
    <2>4. 1..Len(audRows') = 1..Len(audRows) \cup (Len(audRows) + 1)..Len(audRows')
      BY <1>4
    <2>5. CASE p = o
      BY <1>3, <2>2, <2>3, <2>4, <2>5
    <2>6. CASE p # o
      BY <1>3, <1>4, <2>1, <2>2, <2>4, <2>6
    <2> QED
      BY <2>5, <2>6
  <1> QED
    BY <1>2, <1>3, <1>5, <1>6, <1>7 DEF AudInv, AudRecorded, Chained, Link

\* Every step keeps it.
LEMMA AudInvStep == AudInv /\ [AudNext]_audVars => AudInv'
  <1> SUFFICES ASSUME AudInv, [AudNext]_audVars PROVE AudInv'
    OBVIOUS
  <1>1. CASE UNCHANGED audVars
    BY <1>1 DEF audVars, AudInv, AudTypeOK, TxSound, Extends, AudRecorded, Chained, Link, Own
  <1>2. CASE AudNext
    BY <1>2, ReadStep, InsertStep, BeginStep, AppendStep, CommitStep, RollbackStep DEF AudNext
  <1> QED
    BY <1>1, <1>2

-----------------------------------------------------------------------------
\* The log, the lock and the transactions keep their types.
THEOREM AuditTypeCorrect == AudSpec => []AudTypeOK
  <1>1. AudInv => AudTypeOK
    BY DEF AudInv
  <1> QED
    BY <1>1, AudInvInit, AudInvStep, PTL DEF AudSpec

\* Whatever operations read the end of the chain before they hold the write
\* lock, and wherever they fail, append_audit_event keeps the log one chain,
\* without gaps or forks: validate_audit_hash_chain accepts it.
THEOREM AuditChainIsValid == AudSpec => []AudChainValid
  <1>1. AudInv => AudChainValid
    BY ChainedIsValid DEF AudInv
  <1> QED
    BY <1>1, AudInvInit, AudInvStep, PTL DEF AudSpec

\* An operation's changes are committed exactly when its events are in the log.
THEOREM AuditIsComplete == AudSpec => []AudRecorded
  <1>1. AudInv => AudRecorded
    BY DEF AudInv
  <1> QED
    BY <1>1, AudInvInit, AudInvStep, PTL DEF AudSpec

\* The log is well formed, one chain, and exactly what was committed.
THEOREM AuditIsSound == AudSpec => []AudSafe
  <1>1. AudTypeOK /\ AudChainValid /\ AudRecorded => AudSafe
    BY DEF AudSafe
  <1> QED
    BY <1>1, AuditTypeCorrect, AuditChainIsValid, AuditIsComplete, PTL

-----------------------------------------------------------------------------
(* SelfImprovement *)

SiBusyPcs == {"claimed", "consumed", "applied", "passed", "failed"}

\* A request that has taken the repository of a patch.
SiHolds(i, a) == siTh[i].pc \in SiBusyPcs /\ siTh[i].a = a

\* The repository of a patch has one holder: the server's memory or one
\* request.  It is made once, so it is never handed out again.
SiOneHolder ==
    \A a \in SiPatches :
        /\ a \in siOwned => \A i \in SiThreads : ~SiHolds(i, a)
        /\ \A i, j \in SiThreads : SiHolds(i, a) /\ SiHolds(j, a) => i = j

\* A patch without an approval is untouched.
SiUntouched ==
    \A a \in SiPatches : siAppr[a] = "none" =>
        /\ a \notin siOwned /\ siTested[a] = {}
        /\ \A i \in SiThreads : siTh[i].pc # "idle" => siTh[i].a # a

\* An unspent approval has changed nothing; a spent one stays spent.
SiSpent ==
    /\ \A a \in SiPatches : /\ siApplied[a] \in {0, 1}
                            /\ siApplied[a] = 1 => siAppr[a] = "consumed"
                            /\ a \in siOwned => siApplied[a] = 0
    /\ \A i \in SiThreads :
          /\ siTh[i].pc \in {"claimed", "consumed"} => siApplied[siTh[i].a] = 0
          /\ siTh[i].pc = "consumed" => siAppr[siTh[i].a] = "consumed"

\* What a request compared with the deployment is what was approved.
SiBindings ==
    /\ \A i \in SiThreads : siTh[i].pc # "idle" => siTh[i].cfg = siBound[siTh[i].a]
    /\ SiTestedAsApproved

SiInv == SiTypeOK /\ SiOneHolder /\ SiUntouched /\ SiSpent /\ SiBindings

LEMMA SiInvInit == SiInit => SiInv
  <1> SUFFICES ASSUME SiInit PROVE SiInv
    OBVIOUS
  <1>1. SiTypeOK
    BY DEF SiInit, SiTypeOK, SiModes
  <1>2. SiOneHolder
    BY DEF SiInit, SiOneHolder, SiHolds, SiBusyPcs, SiIdle
  <1>3. SiUntouched
    BY DEF SiInit, SiUntouched, SiIdle
  <1>4. SiSpent
    BY DEF SiInit, SiSpent, SiIdle
  <1>5. SiBindings
    BY DEF SiInit, SiBindings, SiTestedAsApproved, SiIdle
  <1> QED
    BY <1>1, <1>2, <1>3, <1>4, <1>5 DEF SiInv

\* SiSpent survives a step that applies nothing, hands nothing out and leaves
\* spent approvals spent, if no request comes closer to applying a patch.
LEMMA SpentKept ==
    ASSUME SiInv, siApplied' = siApplied, siOwned' \subseteq siOwned,
           \A a \in SiPatches : siAppr[a] = "consumed" => siAppr'[a] = "consumed",
           \A i \in SiThreads :
              /\ siTh'[i].pc \in {"claimed", "consumed"} => siTh'[i] = siTh[i]
              /\ siTh[i].pc = "consumed" => siTh[i].a \in SiPatches
    PROVE  SiSpent'
  BY DEF SiInv, SiSpent

\* A preview makes the one repository of a patch and its approval.
LEMMA SiPreviewStep ==
    ASSUME SiInv, NEW a \in SiPatches, SiPreview(a) PROVE SiInv'
  <1>1. SiTypeOK'
    BY DEF SiInv, SiTypeOK, SiPreview, SiSwept
  <1>2. SiOneHolder'
    BY DEF SiInv, SiTypeOK, SiOneHolder, SiUntouched, SiHolds, SiBusyPcs, SiPreview
  <1>3. SiUntouched'
    BY DEF SiInv, SiTypeOK, SiUntouched, SiPreview
  <1>4. SiSpent'
    BY DEF SiInv, SiTypeOK, SiUntouched, SiSpent, SiPreview
  <1>5. SiBindings'
    BY DEF SiInv, SiTypeOK, SiUntouched, SiBindings, SiTestedAsApproved, SiPreview
  <1> QED
    BY <1>1, <1>2, <1>3, <1>4, <1>5 DEF SiInv

\* The owner decides, time passes, the deployment changes.
LEMMA SiOwnerSteps ==
    ASSUME SiInv,
           \/ \E a \in SiPatches :
                 \/ SiApprove(a) \/ SiAge(a)
                 \/ \E choice \in {"approved", "rejected", "expired"} : SiDecide(a, choice)
           \/ \E config \in SiModes \cup {"invalid"} : SiDeploy(config)
    PROVE  SiInv'
  <1>1. SiTypeOK'
    BY DEF SiInv, SiTypeOK, SiApprove, SiAge, SiDecide, SiDeploy
  <1>2. SiOneHolder'
    BY DEF SiInv, SiOneHolder, SiHolds, SiApprove, SiAge, SiDecide, SiDeploy
  <1>3. SiUntouched'
    BY DEF SiInv, SiTypeOK, SiUntouched, SiApprove, SiAge, SiDecide, SiDeploy
  <1>4. SiSpent'
    <2>1. /\ siApplied' = siApplied /\ siOwned' = siOwned /\ siTh' = siTh
          /\ \A i \in SiThreads : siTh[i].pc = "consumed" => siTh[i].a \in SiPatches
      BY DEF SiInv, SiTypeOK, SiIdle, SiApprove, SiAge, SiDecide, SiDeploy
    <2>2. \A a \in SiPatches : siAppr[a] = "consumed" => siAppr'[a] = "consumed"
      BY DEF SiInv, SiTypeOK, SiApprove, SiAge, SiDecide, SiDeploy
    <2> QED
      BY <2>1, <2>2, SpentKept
  <1>5. SiBindings'
    BY DEF SiInv, SiBindings, SiTestedAsApproved, SiApprove, SiAge, SiDecide, SiDeploy
  <1> QED
    BY <1>1, <1>2, <1>3, <1>4, <1>5 DEF SiInv

\* A request binds itself to an approval, or expires it.
LEMMA SiBindStep ==
    ASSUME SiInv, NEW i \in SiThreads, NEW a \in SiPatches, SiBind(i, a) PROVE SiInv'
  <1>1. SiTypeOK'
    BY DEF SiInv, SiTypeOK, SiBind, SiExpired, SiAt, SiApproved, SiMatches, SiModes
  <1>2. SiOneHolder'
    BY DEF SiInv, SiTypeOK, SiOneHolder, SiHolds, SiBusyPcs, SiBind, SiAt
  <1>3. SiUntouched'
    BY DEF SiInv, SiTypeOK, SiUntouched, SiBind, SiAt, SiExpired, SiApproved
  <1>4. SiSpent'
    <2>1. siApplied' = siApplied /\ siOwned' \subseteq siOwned
      BY DEF SiBind
    <2>2. \A p \in SiPatches : siAppr[p] = "consumed" => siAppr'[p] = "consumed"
      BY DEF SiInv, SiTypeOK, SiBind, SiExpired
    <2>3. \A j \in SiThreads :
             /\ siTh'[j].pc \in {"claimed", "consumed"} => siTh'[j] = siTh[j]
             /\ siTh[j].pc = "consumed" => siTh[j].a \in SiPatches
      BY DEF SiInv, SiTypeOK, SiBind, SiAt, SiIdle
    <2> QED
      BY <2>1, <2>2, <2>3, SpentKept
  <1>5. SiBindings'
    BY DEF SiInv, SiTypeOK, SiBindings, SiTestedAsApproved, SiBind, SiAt, SiMatches
  <1> QED
    BY <1>1, <1>2, <1>3, <1>4, <1>5 DEF SiInv

\* It takes the repository.
LEMMA SiClaimStep ==
    ASSUME SiInv, NEW i \in SiThreads, SiClaim(i) PROVE SiInv'
  <1>0. siTh[i].a \in SiPatches /\ siTh[i].cfg \in SiModes
    BY DEF SiInv, SiTypeOK, SiClaim, SiIdle
  <1>1. SiTypeOK'
    BY <1>0 DEF SiInv, SiTypeOK, SiClaim, SiAt
  <1>2. SiOneHolder'
    BY <1>0 DEF SiInv, SiTypeOK, SiOneHolder, SiHolds, SiBusyPcs, SiClaim, SiAt, SiIdle
  <1>3. SiUntouched'
    BY <1>0 DEF SiInv, SiTypeOK, SiUntouched, SiClaim, SiAt, SiIdle
  <1>4. SiSpent'
    BY <1>0 DEF SiInv, SiTypeOK, SiSpent, SiClaim, SiAt, SiIdle
  <1>5. SiBindings'
    BY <1>0 DEF SiInv, SiTypeOK, SiBindings, SiTestedAsApproved, SiClaim, SiAt, SiIdle
  <1> QED
    BY <1>1, <1>2, <1>3, <1>4, <1>5 DEF SiInv

\* It consumes the approval, or fails.
LEMMA SiConsumeStep ==
    ASSUME SiInv, NEW i \in SiThreads, SiConsume(i) PROVE SiInv'
  <1>0. siTh[i].a \in SiPatches /\ siTh[i].cfg \in SiModes
    BY DEF SiInv, SiTypeOK, SiConsume, SiIdle
  <1>1. SiTypeOK'
    BY <1>0 DEF SiInv, SiTypeOK, SiConsume, SiConsumed, SiExpired, SiAt
  <1>2. SiOneHolder'
    BY <1>0 DEF SiInv, SiTypeOK, SiOneHolder, SiHolds, SiBusyPcs, SiConsume, SiAt
  <1>3. SiUntouched'
    BY <1>0 DEF SiInv, SiTypeOK, SiUntouched, SiConsume, SiConsumed, SiExpired, SiAt
  <1>4. SiSpent'
    <2>1. siApplied' = siApplied /\ siOwned' = siOwned
      BY DEF SiConsume
    <2>2. \A p \in SiPatches : siAppr[p] = "consumed" => siAppr'[p] = "consumed"
      BY <1>0 DEF SiInv, SiTypeOK, SiConsume, SiConsumed, SiExpired
    <2>3. \A j \in SiThreads : siTh[j].pc = "consumed" => siTh[j].a \in SiPatches
      BY DEF SiInv, SiTypeOK, SiIdle
    <2>4. siApplied[siTh[i].a] = 0
      BY DEF SiInv, SiSpent, SiConsume
    <2>5. \A j \in SiThreads \ {i} : siTh'[j] = siTh[j]
      BY DEF SiInv, SiTypeOK, SiConsume
    <2>6. CASE siTh'[i].pc = "failed"
      BY <2>1, <2>2, <2>3, <2>5, <2>6, SpentKept
    <2>7. CASE siTh'[i].pc = "consumed"
      <3>1. siTh'[i].a = siTh[i].a /\ siAppr'[siTh[i].a] = "consumed"
        BY <1>0, <2>7 DEF SiInv, SiTypeOK, SiConsume, SiConsumed, SiAt
      <3> QED
        BY <2>1, <2>2, <2>3, <2>4, <2>5, <2>7, <3>1 DEF SiInv, SiSpent
    <2>8. siTh'[i].pc \in {"failed", "consumed"}
      BY DEF SiInv, SiTypeOK, SiConsume, SiAt
    <2> QED
      BY <2>6, <2>7, <2>8
  <1>5. SiBindings'
    BY <1>0 DEF SiInv, SiTypeOK, SiBindings, SiTestedAsApproved, SiConsume, SiAt
  <1> QED
    BY <1>1, <1>2, <1>3, <1>4, <1>5 DEF SiInv

\* It applies the patch: the first and last time.
LEMMA SiApplyStep ==
    ASSUME SiInv, NEW i \in SiThreads, SiApply(i) PROVE SiInv'
  <1>0. siTh[i].a \in SiPatches /\ siTh[i].cfg \in SiModes
    BY DEF SiInv, SiTypeOK, SiApply, SiIdle
  <1>1. SiTypeOK'
    BY <1>0 DEF SiInv, SiTypeOK, SiSpent, SiApply, SiAt
  <1>2. SiOneHolder'
    BY <1>0 DEF SiInv, SiTypeOK, SiOneHolder, SiHolds, SiBusyPcs, SiApply, SiAt
  <1>3. SiUntouched'
    BY <1>0 DEF SiInv, SiTypeOK, SiUntouched, SiApply, SiAt
  <1>4. SiSpent'
    <2>1. siApplied[siTh[i].a] = 0 /\ siAppr[siTh[i].a] = "consumed"
      BY DEF SiInv, SiSpent, SiApply
    <2>2. /\ siTh'[i].pc \in {"applied", "failed"}
          /\ \A j \in SiThreads \ {i} : siTh'[j] = siTh[j]
          /\ UNCHANGED <<siAppr, siOwned>>
      BY DEF SiInv, SiTypeOK, SiApply, SiAt
    <2>3. SiHolds(i, siTh[i].a)
      BY DEF SiHolds, SiBusyPcs, SiApply
    <2>4. /\ siTh[i].a \notin siOwned
          /\ \A j \in SiThreads \ {i} :
                siTh[j].pc \in {"claimed", "consumed"} => siTh[j].a # siTh[i].a
      BY <1>0, <2>3 DEF SiInv, SiOneHolder, SiHolds, SiBusyPcs
    <2>5. CASE siApplied' = siApplied
      BY <2>2, <2>5 DEF SiInv, SiSpent
    <2>6. CASE siApplied' = [siApplied EXCEPT ![siTh[i].a] = @ + 1]
      <3>1. siApplied' = [siApplied EXCEPT ![siTh[i].a] = 1]
        BY <2>1, <2>6
      <3>2. /\ siApplied'[siTh[i].a] = 1
            /\ \A p \in SiPatches : p # siTh[i].a => siApplied'[p] = siApplied[p]
        BY <1>0, <3>1 DEF SiInv, SiTypeOK
      <3>3. \A j \in SiThreads : siTh[j].pc \in {"claimed", "consumed"} => siTh[j].a \in SiPatches
        BY DEF SiInv, SiTypeOK, SiIdle
      <3> QED
        BY <2>1, <2>2, <2>4, <3>2, <3>3 DEF SiInv, SiSpent
    <2> QED
      BY <2>5, <2>6 DEF SiApply
  <1>5. SiBindings'
    BY <1>0 DEF SiInv, SiTypeOK, SiBindings, SiTestedAsApproved, SiApply, SiAt
  <1> QED
    BY <1>1, <1>2, <1>3, <1>4, <1>5 DEF SiInv

\* It validates, tests and cleans up.
LEMMA SiLaterSteps ==
    ASSUME SiInv, NEW i \in SiThreads, SiValidate(i) \/ SiTest(i) \/ SiFinish(i)
    PROVE  SiInv'
  <1>0. /\ siTh[i].a \in SiPatches /\ siTh[i].cfg \in SiModes
        /\ siTh[i].pc \in {"applied", "passed", "failed"}
    BY DEF SiInv, SiTypeOK, SiValidate, SiTest, SiFinish, SiIdle
  <1>1. SiTypeOK'
    BY <1>0 DEF SiInv, SiTypeOK, SiValidate, SiTest, SiFinish, SiAt
  <1>2. SiOneHolder'
    <2>1. /\ \A j \in SiThreads \ {i} : siTh'[j] = siTh[j]
          /\ siTh'[i].a = siTh[i].a \/ siTh'[i].pc = "idle"
          /\ siOwned' = siOwned
      BY <1>0 DEF SiInv, SiTypeOK, SiValidate, SiTest, SiFinish, SiAt, SiIdle
    <2>2. \A j \in SiThreads, a \in SiPatches : SiHolds(j, a)' => SiHolds(j, a)
      BY <1>0, <2>1 DEF SiHolds, SiBusyPcs
    <2> QED
      BY <2>1, <2>2 DEF SiInv, SiOneHolder
  <1>3. SiUntouched'
    BY <1>0 DEF SiInv, SiTypeOK, SiUntouched, SiValidate, SiTest, SiFinish, SiAt, SiIdle
  <1>4. SiSpent'
    BY <1>0 DEF SiInv, SiTypeOK, SiSpent, SiValidate, SiTest, SiFinish, SiAt, SiIdle
  <1>5. SiBindings'
    BY <1>0 DEF SiInv, SiTypeOK, SiBindings, SiTestedAsApproved, SiValidate, SiTest,
                SiFinish, SiAt, SiIdle
  <1> QED
    BY <1>1, <1>2, <1>3, <1>4, <1>5 DEF SiInv

\* A restart forgets the repositories and the requests.
LEMMA SiRestartStep == ASSUME SiInv, SiRestart PROVE SiInv'
  <1>1. SiTypeOK'
    BY DEF SiInv, SiTypeOK, SiRestart
  <1>2. SiOneHolder'
    BY DEF SiInv, SiOneHolder, SiHolds, SiBusyPcs, SiRestart, SiIdle
  <1>3. SiUntouched'
    BY DEF SiInv, SiUntouched, SiRestart, SiIdle
  <1>4. SiSpent'
    BY DEF SiInv, SiSpent, SiRestart, SiIdle
  <1>5. SiBindings'
    BY DEF SiInv, SiBindings, SiTestedAsApproved, SiRestart, SiIdle
  <1> QED
    BY <1>1, <1>2, <1>3, <1>4, <1>5 DEF SiInv

\* Every step keeps it.
LEMMA SiInvStep == SiInv /\ [SiNext]_siVars => SiInv'
  <1> SUFFICES ASSUME SiInv, [SiNext]_siVars PROVE SiInv'
    OBVIOUS
  <1>1. CASE UNCHANGED siVars
    BY <1>1 DEF siVars, SiInv, SiTypeOK, SiOneHolder, SiHolds, SiUntouched, SiSpent,
                SiBindings, SiTestedAsApproved
  <1>2. CASE SiNext
    BY <1>2, SiPreviewStep, SiOwnerSteps, SiBindStep, SiClaimStep, SiConsumeStep,
       SiApplyStep, SiLaterSteps, SiRestartStep DEF SiNext
  <1> QED
    BY <1>1, <1>2

\* A patch is applied at most once, and only when its approval is spent.
THEOREM PatchAppliedOnce == SiSpec => []SiAppliedOnce
  <1>1. SiInv => SiAppliedOnce
    BY DEF SiInv, SiSpent, SiAppliedOnce
  <1> QED
    BY <1>1, SiInvInit, SiInvStep, PTL DEF SiSpec

\* Changed code runs only in the sandbox configuration that was approved.
THEOREM PatchTestedAsApproved == SiSpec => []SiTestedAsApproved
  <1>1. SiInv => SiTestedAsApproved
    BY DEF SiInv, SiBindings
  <1> QED
    BY <1>1, SiInvInit, SiInvStep, PTL DEF SiSpec

\* _run_preview: a patch does what was approved, once, and is tested only where
\* it was approved.
THEOREM PatchesAreSafe == SiSpec => []SiSafe
  <1>1. SiInv => SiTypeOK
    BY DEF SiInv
  <1>2. SiTypeOK /\ SiAppliedOnce /\ SiTestedAsApproved => SiSafe
    BY DEF SiSafe
  <1> QED
    BY <1>1, <1>2, PatchAppliedOnce, PatchTestedAsApproved, SiInvInit, SiInvStep, PTL DEF SiSpec

-----------------------------------------------------------------------------
(* Orchestration *)

\* The work of request i backs proposal p: gated work has been made to wait,
\* and does so as long as its approval is pending.
OrcBacked(i, p) ==
    /\ orcTask[i] # "none"
    /\ p \in OrcGated => /\ orcAppr[i] # "none"
                         /\ orcTask[i] \in {"waiting", "active", "blocked"}
                         /\ orcAppr[i] = "pending" => orcTask[i] = "waiting"

\* What a request has made by the time it is at each of its steps.
OrcProgress(i) ==
    /\ orcTh[i].pc # "new" => orcTh[i].p \in OrcProposals
    /\ orcTh[i].pc \in {"new", "read", "checked", "reject"} => orcTask[i] = "none"
    /\ orcTh[i].pc \in {"created", "planned", "approval"} => orcTask[i] # "none"
    /\ orcTask[i] = "none" => orcAppr[i] = "none"
    /\ orcTh[i].pc = "mark" => orcTh[i].p \in OrcTalk \/ OrcBacked(i, orcTh[i].p)

\* A request that began with a rejected plan gets no further than the check.
OrcStopped(i) ==
    i \in orcLate =>
        /\ orcTh[i].pc # "new" /\ orcPlan[orcTh[i].p]
        /\ orcTh[i].p \in OrcGated =>
              orcTh[i].pc \in {"read", "reject", "end"} /\ orcTask[i] = "none"

\* An applied proposal is backed by a request that has ended.
OrcLinked(p) ==
    orcSt[p] = "applied" /\ p \notin OrcTalk =>
        /\ orcLink[p] \in OrcThreads /\ orcTh[orcLink[p]].pc = "end"
        /\ OrcBacked(orcLink[p], p)

OrcInv ==
    /\ OrcTypeOK
    /\ \A i \in OrcThreads : OrcProgress(i) /\ OrcStopped(i)
    /\ \A p \in OrcProposals : OrcLinked(p)

LEMMA OrcInvInit == OrcInit => OrcInv
  <1> SUFFICES ASSUME OrcInit PROVE OrcInv
    OBVIOUS
  <1>1. OrcTypeOK
    BY DEF OrcInit, OrcTypeOK, OrcPcs
  <1>2. \A i \in OrcThreads : OrcProgress(i) /\ OrcStopped(i)
    BY DEF OrcInit, OrcProgress, OrcStopped
  <1>3. \A p \in OrcProposals : OrcLinked(p)
    BY DEF OrcInit, OrcLinked
  <1> QED
    BY <1>1, <1>2, <1>3 DEF OrcInv

\* A step of one request that has not ended disturbs no other request and no
\* proposal.
LEMMA OrcOwnStep ==
    ASSUME OrcInv, OrcTypeOK', NEW i \in OrcThreads, orcTh[i].pc # "end",
           \A j \in OrcThreads \ {i} :
              orcTh'[j] = orcTh[j] /\ orcTask'[j] = orcTask[j] /\ orcAppr'[j] = orcAppr[j],
           UNCHANGED <<orcSt, orcLink, orcPlan, orcLate>>,
           OrcProgress(i)', OrcStopped(i)'
    PROVE  OrcInv'
  <1>1. \A j \in OrcThreads \ {i} : OrcProgress(j)' /\ OrcStopped(j)'
    BY DEF OrcInv, OrcProgress, OrcStopped, OrcBacked
  <1>2. \A p \in OrcProposals : OrcLinked(p)'
    BY DEF OrcInv, OrcLinked, OrcBacked
  <1> QED
    BY <1>1, <1>2 DEF OrcInv

\* A request reads a proposal.
LEMMA OrcOpenStep ==
    ASSUME OrcInv, NEW i \in OrcThreads, NEW p \in OrcProposals, NEW pc \in {"read", "reject"},
           OrcOpen(i, p, pc)
    PROVE  OrcInv'
  <1>1. OrcTypeOK'
    BY DEF OrcInv, OrcTypeOK, OrcOpen, OrcPcs
  <1>2. /\ orcTh'[i] = [pc |-> pc, p |-> p] /\ orcTask[i] = "none"
        /\ \A j \in OrcThreads \ {i} : orcTh'[j] = orcTh[j]
        /\ i \notin orcLate /\ orcTh[i].pc = "new"
    BY DEF OrcInv, OrcTypeOK, OrcProgress, OrcStopped, OrcOpen, OrcAt
  <1>3. \A j \in OrcThreads : OrcProgress(j)'
    BY <1>2 DEF OrcInv, OrcProgress, OrcBacked, OrcOpen
  <1>4. \A j \in OrcThreads : OrcStopped(j)'
    BY <1>2 DEF OrcInv, OrcStopped, OrcOpen
  <1>5. \A q \in OrcProposals : OrcLinked(q)'
    BY <1>2 DEF OrcInv, OrcLinked, OrcBacked, OrcOpen
  <1> QED
    BY <1>1, <1>3, <1>4, <1>5 DEF OrcInv

\* The steps in which a request creates what the proposal asks for.
LEMMA OrcWorkSteps ==
    ASSUME OrcInv, NEW i \in OrcThreads,
           \/ OrcCheck(i) \/ OrcCreateTask(i) \/ OrcPlanTask(i) \/ OrcSettle(i)
           \/ OrcCreateApproval(i) \/ OrcGateTask(i) \/ OrcCrash(i)
    PROVE  OrcInv'
  <1>0. /\ orcTh[i].pc \notin {"new", "end"} /\ orcTh[i].p \in OrcProposals
        /\ orcTh[i] \in [pc : OrcPcs, p : OrcProposals \cup {OrcNone}]
        /\ OrcProgress(i) /\ OrcStopped(i)
    BY DEF OrcInv, OrcTypeOK, OrcProgress, OrcCheck, OrcCreateTask, OrcPlanTask, OrcSettle,
           OrcCreateApproval, OrcGateTask, OrcCrash, OrcAt
  <1>1. /\ UNCHANGED <<orcSt, orcLink, orcPlan, orcLate>>
        /\ \A j \in OrcThreads \ {i} :
              orcTh'[j] = orcTh[j] /\ orcTask'[j] = orcTask[j] /\ orcAppr'[j] = orcAppr[j]
    BY DEF OrcInv, OrcTypeOK, OrcCheck, OrcCreateTask, OrcPlanTask, OrcSettle,
           OrcCreateApproval, OrcGateTask, OrcCrash, OrcGo
  <1>2. CASE OrcCheck(i)
    <2>0. PICK pc \in {"end", "mark", "checked"} :
             /\ orcTh' = [orcTh EXCEPT ![i].pc = pc]
             /\ OrcRefused(orcTh[i].p) => pc = "end"
             /\ pc = "mark" => orcTh[i].p \in OrcTalk
      <3>1. CASE OrcRefused(orcTh[i].p)
        <4>1. orcTh[i].p \notin OrcTalk
          BY <3>1, OrcAssumption DEF OrcRefused
        <4> QED
          BY <1>2, <3>1, <4>1 DEF OrcCheck, OrcGo
      <3>2. CASE ~OrcRefused(orcTh[i].p) /\ orcTh[i].p \in OrcTalk
        BY <1>2, <3>2 DEF OrcCheck, OrcGo
      <3>3. CASE ~OrcRefused(orcTh[i].p) /\ orcTh[i].p \notin OrcTalk
        BY <1>2, <3>3 DEF OrcCheck, OrcGo
      <3> QED
        BY <3>1, <3>2, <3>3
    <2>1. OrcTypeOK'
      BY <1>0, <1>2, <2>0 DEF OrcInv, OrcTypeOK, OrcCheck, OrcPcs
    <2>2. /\ orcTh'[i].p = orcTh[i].p /\ orcTask' = orcTask /\ orcAppr' = orcAppr
          /\ orcTh'[i].pc = pc /\ orcTh[i].pc = "read"
      BY <1>0, <1>2, <2>0 DEF OrcInv, OrcTypeOK, OrcCheck, OrcAt
    <2>3. OrcProgress(i)'
      BY <1>0, <2>0, <2>2 DEF OrcProgress
    <2>4. OrcStopped(i)'
      BY <1>0, <1>1, <2>0, <2>2 DEF OrcStopped, OrcRefused, OrcPlanRejected
    <2> QED
      BY <1>0, <1>1, <2>1, <2>3, <2>4, OrcOwnStep
  <1>3. CASE OrcCreateTask(i)
    <2>1. OrcTypeOK'
      BY <1>0, <1>3 DEF OrcInv, OrcTypeOK, OrcCreateTask, OrcGo, OrcPcs
    <2>2. /\ orcTh'[i].p = orcTh[i].p /\ orcTask'[i] = "new" /\ orcAppr' = orcAppr
          /\ orcTh[i].pc = "checked" /\ orcTh'[i].pc = "created"
      BY <1>0, <1>3 DEF OrcInv, OrcTypeOK, OrcCreateTask, OrcGo, OrcAt
    <2>3. OrcProgress(i)' /\ OrcStopped(i)'
      BY <1>0, <1>1, <2>2 DEF OrcProgress, OrcStopped
    <2> QED
      BY <1>0, <1>1, <2>1, <2>3, OrcOwnStep
  <1>4. CASE OrcPlanTask(i)
    <2>1. OrcTypeOK'
      BY <1>0, <1>4 DEF OrcInv, OrcTypeOK, OrcPlanTask, OrcGo, OrcPcs
    <2>2. /\ orcTh'[i].p = orcTh[i].p /\ orcTask'[i] # "none" /\ orcAppr' = orcAppr
          /\ orcTh[i].pc = "created" /\ orcTh'[i].pc \in {"planned", "end"}
      BY <1>0, <1>4 DEF OrcInv, OrcTypeOK, OrcPlanTask, OrcGo, OrcAt, OrcProgress
    <2>3. OrcProgress(i)' /\ OrcStopped(i)'
      BY <1>0, <1>1, <2>2 DEF OrcProgress, OrcStopped
    <2> QED
      BY <1>0, <1>1, <2>1, <2>3, OrcOwnStep
  <1>5. CASE OrcSettle(i)
    <2>1. OrcTypeOK'
      BY <1>0, <1>5 DEF OrcInv, OrcTypeOK, OrcSettle, OrcGo, OrcPcs
    <2>2. /\ orcTh'[i].p = orcTh[i].p /\ orcTask'[i] # "none" /\ orcAppr' = orcAppr
          /\ orcTh[i].pc = "planned" /\ orcTh'[i].pc \in {"approval", "mark", "end"}
          /\ orcTh'[i].pc = "mark" => orcTh[i].p \notin OrcGated
      BY <1>0, <1>5 DEF OrcInv, OrcTypeOK, OrcSettle, OrcGo, OrcAt, OrcProgress
    <2>3. OrcProgress(i)' /\ OrcStopped(i)'
      BY <1>0, <1>1, <2>2 DEF OrcProgress, OrcStopped, OrcBacked
    <2> QED
      BY <1>0, <1>1, <2>1, <2>3, OrcOwnStep
  <1>6. CASE OrcCreateApproval(i)
    <2>1. OrcTypeOK'
      BY <1>0, <1>6 DEF OrcInv, OrcTypeOK, OrcCreateApproval, OrcGo, OrcPcs
    <2>2. /\ orcTh'[i].p = orcTh[i].p /\ orcTask'[i] = orcTask[i] /\ orcTask[i] # "none"
          /\ orcTh[i].pc = "approval" /\ orcTh'[i].pc = "wait"
      BY <1>0, <1>6 DEF OrcInv, OrcTypeOK, OrcCreateApproval, OrcGo, OrcAt, OrcProgress
    <2>3. OrcProgress(i)' /\ OrcStopped(i)'
      BY <1>0, <1>1, <2>2 DEF OrcProgress, OrcStopped
    <2> QED
      BY <1>0, <1>1, <2>1, <2>3, OrcOwnStep
  <1>7. CASE OrcGateTask(i)
    <2>1. OrcTypeOK'
      <3>1. CASE orcTask' = orcTask
        BY <1>0, <1>7, <3>1 DEF OrcInv, OrcTypeOK, OrcGateTask, OrcGo, OrcPcs
      <3>2. CASE orcTask' = [orcTask EXCEPT ![i] = "waiting"] /\ OrcGo(i, "mark")
        BY <1>0, <1>7, <3>2 DEF OrcInv, OrcTypeOK, OrcGateTask, OrcGo, OrcPcs
      <3> QED
        BY <1>7, <3>1, <3>2 DEF OrcGateTask
    <2>2. /\ orcTh'[i].p = orcTh[i].p /\ orcAppr' = orcAppr
          /\ orcTh[i].pc = "wait" /\ orcTh'[i].pc \in {"mark", "end"}
          /\ orcTh'[i].pc = "mark" => orcTask'[i] = "waiting" /\ orcAppr[i] = "pending"
          /\ orcTh'[i].pc = "end" => orcTask'[i] = orcTask[i]
      BY <1>0, <1>7 DEF OrcInv, OrcTypeOK, OrcGateTask, OrcGo, OrcAt
    <2>3. OrcProgress(i)' /\ OrcStopped(i)'
      BY <1>0, <1>1, <2>2 DEF OrcProgress, OrcStopped, OrcBacked
    <2> QED
      BY <1>0, <1>1, <2>1, <2>3, OrcOwnStep
  <1>8. CASE OrcCrash(i)
    <2>1. OrcTypeOK'
      BY <1>0, <1>8 DEF OrcInv, OrcTypeOK, OrcCrash, OrcGo, OrcPcs
    <2>2. /\ orcTh'[i].p = orcTh[i].p /\ orcTh'[i].pc = "end"
          /\ orcTask' = orcTask /\ orcAppr' = orcAppr
      BY <1>0, <1>8 DEF OrcInv, OrcTypeOK, OrcCrash, OrcGo
    <2>3. OrcProgress(i)' /\ OrcStopped(i)'
      BY <1>0, <1>1, <2>2 DEF OrcProgress, OrcStopped
    <2> QED
      BY <1>0, <1>1, <2>1, <2>3, OrcOwnStep
  <1> QED
    BY <1>2, <1>3, <1>4, <1>5, <1>6, <1>7, <1>8

\* The steps that write the status of a proposal.
LEMMA OrcStatusSteps ==
    ASSUME OrcInv,
           \/ \E p \in OrcProposals : OrcPropose(p)
           \/ \E i \in OrcThreads : OrcRejectWrite(i) \/ OrcMark(i)
    PROVE  OrcInv'
  <1>1. CASE \E p \in OrcProposals : OrcPropose(p)
    <2> PICK p \in OrcProposals : OrcPropose(p)
      BY <1>1
    <2>1. OrcTypeOK'
      BY DEF OrcInv, OrcTypeOK, OrcPropose
    <2>2. \A i \in OrcThreads : OrcProgress(i)' /\ OrcStopped(i)'
      BY DEF OrcInv, OrcProgress, OrcStopped, OrcBacked, OrcPropose
    <2>3. \A q \in OrcProposals : OrcLinked(q)'
      BY DEF OrcInv, OrcTypeOK, OrcLinked, OrcBacked, OrcPropose
    <2> QED
      BY <2>1, <2>2, <2>3 DEF OrcInv
  <1>2. ASSUME NEW i \in OrcThreads, OrcRejectWrite(i) \/ OrcMark(i) PROVE OrcInv'
    <2>0. /\ orcTh[i].p \in OrcProposals /\ orcTh[i].pc \in {"reject", "mark"}
          /\ orcTh[i] \in [pc : OrcPcs, p : OrcProposals \cup {OrcNone}]
      BY <1>2 DEF OrcInv, OrcTypeOK, OrcProgress, OrcRejectWrite, OrcMark, OrcAt
    <2>1. OrcTypeOK'
      <3>1. CASE OrcRejectWrite(i)
        BY <2>0, <3>1 DEF OrcInv, OrcTypeOK, OrcRejectWrite, OrcGo, OrcPcs
      <3>2. CASE OrcMark(i)
        BY <2>0, <3>2 DEF OrcInv, OrcTypeOK, OrcMark, OrcGo, OrcPcs
      <3> QED
        BY <1>2, <3>1, <3>2
    <2>2. /\ UNCHANGED <<orcTask, orcAppr, orcPlan, orcLate>>
          /\ orcTh'[i].pc = "end" /\ orcTh'[i].p = orcTh[i].p
          /\ \A j \in OrcThreads \ {i} : orcTh'[j] = orcTh[j]
      BY <1>2, <2>0 DEF OrcInv, OrcTypeOK, OrcRejectWrite, OrcMark, OrcGo
    <2>3. \A j \in OrcThreads : OrcProgress(j)'
      BY <2>0, <2>2 DEF OrcInv, OrcProgress, OrcBacked
    <2>4. \A j \in OrcThreads : OrcStopped(j)'
      BY <2>0, <2>2 DEF OrcInv, OrcStopped
    <2>5. \A q \in OrcProposals \ {orcTh[i].p} : OrcLinked(q)'
      <3>1. \A q \in OrcProposals \ {orcTh[i].p} : orcSt'[q] = orcSt[q] /\ orcLink'[q] = orcLink[q]
        BY <1>2, <2>0 DEF OrcInv, OrcTypeOK, OrcRejectWrite, OrcMark
      <3> QED
        BY <2>2, <3>1 DEF OrcInv, OrcLinked, OrcBacked
    <2>6. OrcLinked(orcTh[i].p)'
      <3>1. CASE OrcRejectWrite(i)
        BY <2>0, <2>2, <3>1 DEF OrcInv, OrcTypeOK, OrcLinked, OrcRejectWrite
      <3>2. CASE OrcMark(i)
        <4>1. orcLink'[orcTh[i].p] = i
          BY <2>0, <3>2 DEF OrcInv, OrcTypeOK, OrcMark
        <4>2. orcTh[i].p \in OrcTalk \/ OrcBacked(i, orcTh[i].p)
          BY <3>2 DEF OrcInv, OrcProgress, OrcMark, OrcAt
        <4> QED
          BY <2>2, <4>1, <4>2 DEF OrcLinked, OrcBacked
      <3> QED
        BY <1>2, <3>1, <3>2
    <2>7. \A q \in OrcProposals : OrcLinked(q)'
      <3> TAKE q \in OrcProposals
      <3>1. CASE q = orcTh[i].p
        BY <2>0, <2>2, <2>6, <3>1 DEF OrcLinked, OrcBacked
      <3>2. CASE q # orcTh[i].p
        BY <2>5, <3>2
      <3> QED
        BY <3>1, <3>2
    <2> QED
      BY <2>1, <2>3, <2>4, <2>7 DEF OrcInv
  <1> QED
    BY <1>1, <1>2

\* The owner decides approvals and moves tasks: what backs a proposal goes on
\* backing it.
LEMMA OrcOwnerSteps ==
    ASSUME OrcInv, NEW i \in OrcThreads, OrcDecide(i) \/ OrcConsume(i) \/ OrcOwnerMove(i)
    PROVE  OrcInv'
  <1>0. UNCHANGED <<orcSt, orcLink, orcPlan, orcTh, orcLate>>
    BY DEF OrcDecide, OrcConsume, OrcOwnerMove
  <1>1. OrcTypeOK'
    BY DEF OrcInv, OrcTypeOK, OrcDecide, OrcConsume, OrcOwnerMove
  <1>2. \A j \in OrcThreads :
           /\ orcTask'[j] = "none" <=> orcTask[j] = "none"
           /\ orcAppr'[j] = "none" <=> orcAppr[j] = "none"
    BY DEF OrcInv, OrcTypeOK, OrcProgress, OrcDecide, OrcConsume, OrcOwnerMove
  <1>3. \A j \in OrcThreads, p \in OrcProposals : OrcBacked(j, p) => OrcBacked(j, p)'
    BY <1>2 DEF OrcInv, OrcTypeOK, OrcBacked, OrcDecide, OrcConsume, OrcOwnerMove
  <1>4. \A j \in OrcThreads : OrcProgress(j)' /\ OrcStopped(j)'
    BY <1>0, <1>2, <1>3 DEF OrcInv, OrcProgress, OrcStopped
  <1>5. \A p \in OrcProposals : OrcLinked(p)'
    BY <1>0, <1>3 DEF OrcInv, OrcLinked
  <1> QED
    BY <1>1, <1>4, <1>5 DEF OrcInv

\* Every step keeps it.
LEMMA OrcInvStep == OrcInv /\ [OrcNext]_orcVars => OrcInv'
  <1> SUFFICES ASSUME OrcInv, [OrcNext]_orcVars PROVE OrcInv'
    OBVIOUS
  <1>1. CASE UNCHANGED orcVars
    BY <1>1 DEF orcVars, OrcInv, OrcTypeOK, OrcProgress, OrcStopped, OrcLinked, OrcBacked
  <1>2. CASE OrcNext
    BY <1>2, OrcOpenStep, OrcWorkSteps, OrcStatusSteps, OrcOwnerSteps DEF OrcNext
  <1> QED
    BY <1>1, <1>2

\* A proposal that reads applied is backed by its task and, for gated work,
\* by an approval the work waits for.
THEOREM AppliedIsBacked == OrcSpec => []OrcGateHolds
  <1>1. OrcInv => OrcGateHolds
    BY OrcAssumption DEF OrcInv, OrcLinked, OrcBacked, OrcGateHolds
  <1> QED
    BY <1>1, OrcInvInit, OrcInvStep, PTL DEF OrcSpec

\* Nothing is created for a plan that had been rejected when the request
\* began.
THEOREM RejectedPlanStops == OrcSpec => []OrcRejectedPlanStops
  <1>1. OrcInv => OrcRejectedPlanStops
    BY DEF OrcInv, OrcTypeOK, OrcStopped, OrcRejectedPlanStops
  <1> QED
    BY <1>1, OrcInvInit, OrcInvStep, PTL DEF OrcSpec

\* apply_orchestration_proposal: an applied proposal is backed, a plan rejected
\* before is not begun, whatever happens between the transactions.
THEOREM OrchestrationIsSafe == OrcSpec => []OrcSafe
  <1>1. OrcInv => OrcTypeOK
    BY DEF OrcInv
  <1>2. OrcTypeOK /\ OrcGateHolds /\ OrcRejectedPlanStops => OrcSafe
    BY DEF OrcSafe
  <1> QED
    BY <1>1, <1>2, AppliedIsBacked, RejectedPlanStops, OrcInvInit, OrcInvStep, PTL DEF OrcSpec

-----------------------------------------------------------------------------
(* Permissions *)

PermThreads == PermAskers \cup PermEditors

\* The threads are at one of their steps, for an id that has a row.
PermShapes ==
    /\ permRows = [t \in DOMAIN permRows |-> permRows[t]] /\ DOMAIN permRows \subseteq PermIds
    /\ permTh = [i \in PermThreads |-> permTh[i]]
    /\ \A i \in PermThreads :
          \/ permTh[i] = PermIdle
          \/ permTh[i] = [pc |-> "ask", id |-> permTh[i].id, row |-> permTh[i].row]
          \/ permTh[i] = [pc |-> "record", check |-> permTh[i].check]
          \/ /\ permTh[i] = [pc |-> permTh[i].pc, id |-> permTh[i].id,
                             doc |-> permTh[i].doc, st |-> permTh[i].st]
             /\ permTh[i].pc \in {"edit", "write"} /\ permTh[i].id \in DOMAIN permRows

\* A tool has a status beyond candidate only from a review.
PermEarned(t, st) == t \in PermTools /\ st \notin {"absent", "candidate"} => t \in permReviewed

\* Wherever a status is stored, read or about to be put back, it is earned.
PermStatusEarned ==
    /\ \A t \in DOMAIN permRows : PermEarned(t, permRows[t].st)
    /\ \A i \in PermThreads :
          /\ permTh[i].pc = "ask" => /\ permTh[i].row.st # "absent"
                                     /\ PermEarned(permTh[i].id, permTh[i].row.st)
          /\ permTh[i].pc = "write" => PermEarned(permTh[i].id, permTh[i].st)

\* A check that says allowed is right to say so, and stays right.
PermSound(c) ==
    c.decision = "allowed" =>
        /\ c.action # "read" => c.named /\ permAppr = "consumed"
        /\ c.action # "read_raw_secret" /\ c.scope # "raw"
        /\ c.action \notin c.doc.forbids /\ c.scope \notin c.doc.forbids
        /\ c.id \in PermTools => c.id \in permReviewed

\* So are the checks on record and the decided ones that wait to be recorded.
PermChecksSound ==
    /\ \A c \in permChecks : PermSound(c)
    /\ \A i \in PermThreads : permTh[i].pc = "record" => PermSound(permTh[i].check)

PermInv == PermShapes /\ PermStatusEarned /\ PermChecksSound /\ PermUndoable

\* classify_tool_action, classify_connector_action: what "allowed" says.
LEMMA PermAllowed ==
    ASSUME NEW t, NEW doc, NEW st, NEW action \in PermActions(t), NEW scope, NEW status,
           \/ t \in PermTools /\ PermToolDecision(doc, st, action, scope, status) = "allowed"
           \/ t \notin PermTools /\ PermConnectorDecision(doc, st, action, scope, status) = "allowed"
    PROVE  /\ action # "read" => PermGranted(status)
           /\ ~PermForbidden(doc, action, scope)
           /\ t \in PermTools => st # "candidate"
  <1>1. CASE t \in PermTools
    BY <1>1 DEF PermToolDecision
  <1>2. CASE t \notin PermTools
    <2>1. PermConnectorDecision(doc, st, action, scope, status) = "allowed"
      BY <1>2
    <2>2. ~PermForbidden(doc, action, scope)
      BY <2>1 DEF PermConnectorDecision
    <2>3. ASSUME action # "read" PROVE PermGranted(status)
      <3>1. PermPolicy(PermConnectorClass(doc, action, scope), action, scope, status)
              \notin {"blocked", "needs_review"}
        BY <2>1, <2>3 DEF PermConnectorDecision
      <3>2. action \in {"write", "connect", "read_raw_secret"}
        BY <1>2, <2>3 DEF PermActions, PermConnectorActions
      <3>3. PermConnectorClass(doc, action, scope) \in {"R4", "R5"}
        BY <3>2 DEF PermConnectorClass, PermClass
      <3> QED
        BY <3>1, <3>3 DEF PermPolicy
    <2> QED
      BY <1>2, <2>2, <2>3
  <1> QED
    BY <1>1, <1>2

LEMMA PermInvInit == PermInit => PermInv
  <1> SUFFICES ASSUME PermInit PROVE PermInv
    OBVIOUS
  <1>1. PICK t \in PermIds : permRows = [s \in {t} |-> [st |-> "absent"]]
    BY DEF PermInit
  <1>2. PermShapes
    BY <1>1 DEF PermInit, PermShapes, PermThreads
  <1>3. PermStatusEarned
    BY <1>1 DEF PermInit, PermStatusEarned, PermEarned, PermIdle, PermThreads
  <1>4. PermChecksSound /\ PermUndoable
    BY DEF PermInit, PermChecksSound, PermUndoable, PermIdle, PermThreads
  <1> QED
    BY <1>2, <1>3, <1>4 DEF PermInv

\* The handler reads the manifest.
LEMMA PermAskStep ==
    ASSUME PermInv, NEW i \in PermAskers, NEW t \in DOMAIN permRows, PermAsk(i, t)
    PROVE  PermInv'
  <1>1. /\ permTh' = [permTh EXCEPT ![i] = [pc |-> "ask", id |-> t, row |-> permRows[t]]]
        /\ i \in PermThreads
    BY DEF PermAsk, PermGo, PermThreads
  <1>2. PermShapes'
    BY <1>1 DEF PermInv, PermShapes, PermAsk
  <1>3. PermStatusEarned'
    BY <1>1 DEF PermInv, PermShapes, PermStatusEarned, PermEarned, PermAsk
  <1>4. PermChecksSound' /\ PermUndoable'
    BY <1>1 DEF PermInv, PermShapes, PermChecksSound, PermSound, PermUndoable, PermAsk
  <1> QED
    BY <1>2, <1>3, <1>4 DEF PermInv

\* It reads the approval and decides.
LEMMA PermClassifyStep ==
    ASSUME PermInv, NEW i \in PermAskers, NEW action, NEW scope, NEW named \in BOOLEAN,
           PermClassify(i, action, scope, named)
    PROVE  PermInv'
  <1> DEFINE t == permTh[i].id
             doc == permTh[i].row.doc
             st == permTh[i].row.st
             status == IF named THEN permAppr ELSE "none"
             decision == IF t \in PermTools
                         THEN PermToolDecision(doc, st, action, scope, status)
                         ELSE PermConnectorDecision(doc, st, action, scope, status)
             c == [id |-> t, action |-> action, scope |-> scope, named |-> named, doc |-> doc,
                   class |-> PermClassOf(t, doc, action, scope), decision |-> decision]
  <1>1. /\ permTh' = [permTh EXCEPT ![i] = [pc |-> "record", check |-> c]]
        /\ i \in PermThreads /\ permTh[i].pc = "ask" /\ action \in PermActions(t)
        /\ UNCHANGED <<permRows, permAppr, permChecks, permUndo, permReviewed>>
    BY DEF PermClassify, PermGo, PermThreads
  <1>2. PermSound(c)
    <2> SUFFICES ASSUME decision = "allowed"
                 PROVE  /\ action # "read" => named /\ permAppr = "consumed"
                        /\ ~PermForbidden(doc, action, scope)
                        /\ t \in PermTools => t \in permReviewed
      BY DEF PermSound, PermForbidden
    <2>1. /\ action # "read" => PermGranted(status)
          /\ ~PermForbidden(doc, action, scope)
          /\ t \in PermTools => st # "candidate"
      BY <1>1, PermAllowed
    <2>2. t \in PermTools => t \in permReviewed
      BY <1>1, <2>1 DEF PermInv, PermStatusEarned, PermEarned
    <2> QED
      BY <2>1, <2>2 DEF PermGranted
  <1> HIDE DEF c
  <1>3. PermShapes'
    BY <1>1 DEF PermInv, PermShapes
  <1>4. PermStatusEarned'
    BY <1>1 DEF PermInv, PermShapes, PermStatusEarned, PermEarned
  <1>5. PermChecksSound' /\ PermUndoable'
    BY <1>1, <1>2 DEF PermInv, PermShapes, PermChecksSound, PermSound, PermUndoable
  <1> QED
    BY <1>3, <1>4, <1>5 DEF PermInv

\* It records the check.
LEMMA PermRecordStep ==
    ASSUME PermInv, NEW i \in PermAskers, PermRecord(i) PROVE PermInv'
  <1>1. /\ permTh' = [permTh EXCEPT ![i] = PermIdle]
        /\ i \in PermThreads /\ permTh[i].pc = "record"
    BY DEF PermRecord, PermGo, PermThreads
  <1>2. PermShapes'
    BY <1>1 DEF PermInv, PermShapes, PermRecord
  <1>3. PermStatusEarned'
    BY <1>1 DEF PermInv, PermShapes, PermStatusEarned, PermEarned, PermRecord, PermIdle
  <1>4. PermChecksSound'
    BY <1>1 DEF PermInv, PermShapes, PermChecksSound, PermSound, PermRecord, PermIdle
  <1>5. PermUndoable'
    <2>1. permUndo \subseteq permUndo'
      BY DEF PermRecord
    <2>2. ASSUME PermUndone(permTh[i].check)
          PROVE  \E u \in permUndo' : u.check = permTh[i].check
      <3>1. [check |-> permTh[i].check,
             compensation |-> permRows[permTh[i].check.id].doc.notes] \in permUndo'
        BY <2>2 DEF PermRecord
      <3> QED
        BY <3>1
    <2> QED
      BY <2>1, <2>2 DEF PermInv, PermUndoable, PermUndone, PermRecord
  <1> QED
    BY <1>2, <1>3, <1>4, <1>5 DEF PermInv

\* An edit of a manifest begins.
LEMMA PermEditSteps ==
    ASSUME PermInv, NEW i \in PermEditors, NEW t \in DOMAIN permRows, NEW doc, NEW st,
           PermSync(i, t, doc, st) \/ PermRegister(i, t, doc, st)
    PROVE  PermInv'
  <1>1. /\ permTh' = [permTh EXCEPT ![i] = [pc |-> "edit", id |-> t, doc |-> doc, st |-> st]]
        /\ i \in PermThreads
        /\ UNCHANGED <<permRows, permAppr, permChecks, permUndo, permReviewed>>
    BY DEF PermSync, PermRegister, PermGo, PermThreads
  <1>2. PermShapes'
    BY <1>1 DEF PermInv, PermShapes
  <1>3. PermStatusEarned'
    BY <1>1 DEF PermInv, PermShapes, PermStatusEarned, PermEarned
  <1>4. PermChecksSound' /\ PermUndoable'
    BY <1>1 DEF PermInv, PermShapes, PermChecksSound, PermSound, PermUndoable
  <1> QED
    BY <1>2, <1>3, <1>4 DEF PermInv

\* A thread at an edit names a row.
LEMMA PermEditing ==
    ASSUME PermInv, NEW i \in PermThreads, permTh[i].pc \in {"edit", "write"}
    PROVE  \E t \in DOMAIN permRows : \E doc, st :
              permTh[i] = [pc |-> permTh[i].pc, id |-> t, doc |-> doc, st |-> st]
  <1>1. /\ permTh[i] = [pc |-> permTh[i].pc, id |-> permTh[i].id,
                        doc |-> permTh[i].doc, st |-> permTh[i].st]
        /\ permTh[i].id \in DOMAIN permRows
    <2>1. \/ permTh[i] = PermIdle
          \/ permTh[i] = [pc |-> "ask", id |-> permTh[i].id, row |-> permTh[i].row]
          \/ permTh[i] = [pc |-> "record", check |-> permTh[i].check]
          \/ /\ permTh[i] = [pc |-> permTh[i].pc, id |-> permTh[i].id,
                              doc |-> permTh[i].doc, st |-> permTh[i].st]
             /\ permTh[i].pc \in {"edit", "write"} /\ permTh[i].id \in DOMAIN permRows
      BY DEF PermInv, PermShapes
    <2>2. permTh[i] # PermIdle
      BY DEF PermIdle
    <2>3. permTh[i] # [pc |-> "ask", id |-> permTh[i].id, row |-> permTh[i].row]
      OBVIOUS
    <2>4. permTh[i] # [pc |-> "record", check |-> permTh[i].check]
      OBVIOUS
    <2> QED
      BY <2>1, <2>2, <2>3, <2>4
  <1> QED
    BY <1>1

\* It reads the stored status, and keeps it.
LEMMA PermUpsertReadStep ==
    ASSUME PermInv, NEW i \in PermEditors, PermUpsertRead(i) PROVE PermInv'
  <1>0. PICK t \in DOMAIN permRows : \E doc, st :
           permTh[i] = [pc |-> "edit", id |-> t, doc |-> doc, st |-> st]
    <2>1. permTh[i].pc = "edit" /\ i \in PermThreads
      BY DEF PermUpsertRead, PermThreads
    <2> QED
      BY <2>1, PermEditing
  <1>1. PICK doc, asked :
           permTh[i] = [pc |-> "edit", id |-> t, doc |-> doc, st |-> asked]
    BY <1>0
  <1>2. PICK st : /\ \/ permTh' = [permTh EXCEPT ![i] = PermIdle]
                     \/ permTh' = [permTh EXCEPT ![i] =
                                      [pc |-> "write", id |-> t, doc |-> doc, st |-> st]]
                  /\ PermEarned(t, st)
    <2>0. /\ permTh[i].id = t /\ permTh[i].st = asked
          /\ \A st : [permTh[i] EXCEPT !.pc = "write", !.st = st]
                       = [pc |-> "write", id |-> t, doc |-> doc, st |-> st]
      <3>1. permTh[i].id = t /\ permTh[i].st = asked
        BY <1>1
      <3>2. \A st : [permTh[i] EXCEPT !.pc = "write", !.st = st]
                     = [pc |-> "write", id |-> t, doc |-> doc, st |-> st]
        <4> TAKE st
        <4>1. [permTh[i] EXCEPT !.pc = "write"]
                 = [pc |-> "write", id |-> t, doc |-> doc, st |-> asked]
          BY <1>1
        <4>2. [permTh[i] EXCEPT !.pc = "write", !.st = st]
                 = [[permTh[i] EXCEPT !.pc = "write"] EXCEPT !.st = st]
          OBVIOUS
        <4>3. [[pc |-> "write", id |-> t, doc |-> doc, st |-> asked] EXCEPT !.st = st]
                 = [pc |-> "write", id |-> t, doc |-> doc, st |-> st]
          OBVIOUS
        <4> QED
          BY <4>1, <4>2, <4>3, Zenon
      <3> QED
        BY <3>1, <3>2
    <2>1. t \in PermTools /\ permRows[t].st = "absent" /\ asked # "candidate" =>
             permTh' = [permTh EXCEPT ![i] = PermIdle]
      BY <2>0 DEF PermUpsertRead, PermGo
    <2>2. ~(t \in PermTools /\ permRows[t].st = "absent" /\ asked # "candidate") =>
             /\ permTh' = [permTh EXCEPT ![i] = [pc |-> "write", id |-> t, doc |-> doc,
                                                 st |-> PermKept(permRows[t].st, asked)]]
             /\ PermEarned(t, PermKept(permRows[t].st, asked))
      <3>1. permTh' = [permTh EXCEPT ![i] =
                          IF t \in PermTools /\ permRows[t].st = "absent" /\ asked # "candidate"
                          THEN PermIdle
                          ELSE [permTh[i] EXCEPT !.pc = "write",
                                                 !.st = PermKept(permRows[t].st, asked)]]
        BY <2>0, Zenon DEF PermUpsertRead, PermGo
      <3>2. ~(t \in PermTools /\ permRows[t].st = "absent" /\ asked # "candidate") =>
               PermEarned(t, PermKept(permRows[t].st, asked))
        BY DEF PermInv, PermStatusEarned, PermEarned, PermKept
      <3> QED
        BY <2>0, <3>1, <3>2, Zenon
    <2>3. PermEarned(t, "absent")
      BY DEF PermEarned
    <2> QED
      BY <2>1, <2>2, <2>3
  <1>3. /\ i \in PermThreads
        /\ UNCHANGED <<permRows, permAppr, permChecks, permUndo, permReviewed>>
    BY DEF PermUpsertRead, PermThreads
  <1>4. PermShapes'
    BY <1>2, <1>3 DEF PermInv, PermShapes
  <1>5. PermStatusEarned'
    BY <1>2, <1>3 DEF PermInv, PermShapes, PermStatusEarned, PermEarned, PermIdle
  <1>6. PermChecksSound' /\ PermUndoable'
    BY <1>2, <1>3 DEF PermInv, PermShapes, PermChecksSound, PermSound, PermUndoable, PermIdle
  <1> QED
    BY <1>4, <1>5, <1>6 DEF PermInv

\* It replaces the row.
LEMMA PermUpsertWriteStep ==
    ASSUME PermInv, NEW i \in PermEditors, PermUpsertWrite(i) PROVE PermInv'
  <1>0. PICK t \in DOMAIN permRows : \E doc, st :
           permTh[i] = [pc |-> "write", id |-> t, doc |-> doc, st |-> st]
    <2>1. permTh[i].pc = "write" /\ i \in PermThreads
      BY DEF PermUpsertWrite, PermThreads
    <2> QED
      BY <2>1, PermEditing
  <1>1. PICK doc, st :
           permTh[i] = [pc |-> "write", id |-> t, doc |-> doc, st |-> st]
    BY <1>0
  <1>2. /\ permTh' = [permTh EXCEPT ![i] = PermIdle]
        /\ permRows' = [permRows EXCEPT ![t] = [st |-> st, doc |-> doc]]
        /\ i \in PermThreads /\ UNCHANGED <<permAppr, permChecks, permUndo, permReviewed>>
    BY <1>1 DEF PermUpsertWrite, PermGo, PermThreads
  <1>3. PermEarned(t, st)
    BY <1>1, <1>2 DEF PermInv, PermStatusEarned
  <1>4. PermShapes'
    BY <1>2 DEF PermInv, PermShapes
  <1>5. PermStatusEarned'
    BY <1>2, <1>3 DEF PermInv, PermShapes, PermStatusEarned, PermEarned, PermIdle
  <1>6. PermChecksSound' /\ PermUndoable'
    BY <1>2 DEF PermInv, PermShapes, PermChecksSound, PermSound, PermUndoable, PermIdle
  <1> QED
    BY <1>4, <1>5, <1>6 DEF PermInv

\* A review gives a status; the approval moves on.
LEMMA PermOwnerSteps ==
    ASSUME PermInv,
           \/ \E t \in DOMAIN permRows, d \in PermDocs : \E st \in PermStatus(t) :
                 PermReview(t, d, st)
           \/ PermDecideApproval
    PROVE  PermInv'
  <1>1. ASSUME NEW t \in DOMAIN permRows, NEW d, NEW st, PermReview(t, d, st) PROVE PermInv'
    <2>1. PermShapes'
      BY <1>1 DEF PermInv, PermShapes, PermReview
    <2>2. PermStatusEarned'
      BY <1>1 DEF PermInv, PermShapes, PermStatusEarned, PermEarned, PermReview
    <2>3. PermChecksSound' /\ PermUndoable'
      BY <1>1 DEF PermInv, PermChecksSound, PermSound, PermUndoable, PermReview
    <2> QED
      BY <2>1, <2>2, <2>3 DEF PermInv
  <1>2. CASE PermDecideApproval
    BY <1>2 DEF PermInv, PermShapes, PermStatusEarned, PermEarned, PermChecksSound, PermSound,
                PermUndoable, PermDecideApproval
  <1> QED
    BY <1>1, <1>2

LEMMA PermInvStep == PermInv /\ [PermNext]_permVars => PermInv'
  <1> SUFFICES ASSUME PermInv, [PermNext]_permVars PROVE PermInv'
    OBVIOUS
  <1>1. CASE UNCHANGED permVars
    BY <1>1 DEF permVars, PermInv, PermShapes, PermStatusEarned, PermEarned, PermChecksSound,
                PermSound, PermUndoable
  <1>2. CASE PermNext
    BY <1>2, PermAskStep, PermClassifyStep, PermRecordStep, PermEditSteps, PermUpsertReadStep,
       PermUpsertWriteStep, PermOwnerSteps DEF PermNext
  <1> QED
    BY <1>1, <1>2

\* classify_tool_action, record_tool_permission_check: however checks, edits,
\* reviews and the approval interleave, what is on record as allowed was neither
\* forbidden nor unapproved nor by a tool without review, and can be undone.
THEOREM PermissionsAreSafe == PermSpec => []PermSafe
  <1>1. PermInv => PermSafe
    BY DEF PermInv, PermChecksSound, PermSound, PermUndoable, PermSafe, PermWritesApproved,
           PermForbiddenNever, PermToolReviewed
  <1> QED
    BY <1>1, PermInvInit, PermInvStep, PTL DEF PermSpec

-----------------------------------------------------------------------------
(* Decision *)

DecRoutes == {"refuse_redirect", "clarification_required", "approval_required", "task_queue",
              "memory_retrieval", "research_agent", "quick_tool_use", "shell_agent_flow",
              "direct_answer"}
DecClasses == {"R1", "R2", "R3", "R4", "R5", "forbidden"}

LEMMA DecRouteIs == ASSUME NEW t PROVE DecRoute(t) \in DecRoutes
  BY DEF DecRoute, DecRoutes

LEMMA DecClassIs == ASSUME NEW t, NEW route PROVE DecClass(t, route) \in DecClasses
  BY DEF DecClass, DecClasses

\* infer_route and infer_risk_class look at the same signs: what is not asked
\* for, refused or made clear first is harmless.
LEMMA DecHarmless ==
    ASSUME NEW t, DecRoute(t) \in DecInstant,
           ~DecGated(DecRoute(t), DecClass(t, DecRoute(t)))
    PROVE  /\ DecClass(t, DecRoute(t)) = "R1"
           /\ t.signals \cap (DecRisky \cup {"refuse_unsafe"}) = {}
           /\ "secret" \notin t.words
  <1> DEFINE r == DecRoute(t)
             s == t.signals
  <1>1. r \notin {"refuse_redirect", "clarification_required", "approval_required",
                  "task_queue", "shell_agent_flow", "research_agent"}
    BY DEF DecInstant
  <1>2. /\ "refuse_unsafe" \notin s /\ ~t.vague /\ s \cap DecRisky = {} /\ "queue" \notin s
    BY <1>1 DEF DecRoute
  <1>3. r = "direct_answer" => "coding" \notin s
    BY DEF DecRoute
  <1>4. /\ "money_or_purchase" \notin s /\ "external_write" \notin s
        /\ "install_or_infra" \notin s
    BY <1>2 DEF DecRisky
  <1>5. DecClass(t, r) \notin {"R4", "R5"}
    BY <1>1 DEF DecGated
  <1>6. "secret" \notin t.words
    BY <1>2, <1>4, <1>5 DEF DecClass
  <1>7. DecClass(t, r) = "R1"
    BY <1>1, <1>2, <1>3, <1>4, <1>6 DEF DecClass, DecInstant
  <1> QED
    BY <1>2, <1>6, <1>7

\* value_band_for_score: only an instant route without a gate is executed.
LEMMA DecExecuted ==
    ASSUME NEW route, NEW class, NEW score, NEW gated \in BOOLEAN,
           DecHandling(route, class, score, gated) = "executed"
    PROVE  route \in DecInstant /\ ~gated
  BY DEF DecHandling, DecBand

\* A decision that asks for an approval is held, whatever its score.
LEMMA DecHeld ==
    ASSUME NEW t, DecGated(DecRoute(t), DecClass(t, DecRoute(t))), NEW score
    PROVE  /\ DecHandling(DecRoute(t), DecClass(t, DecRoute(t)), score, TRUE) = "held_for_approval"
           /\ DecStatus(DecRoute(t), DecClass(t, DecRoute(t)), score, TRUE)
                 \in {"blocked", "waiting_for_approval"}
  <1> DEFINE r == DecRoute(t)
             c == DecClass(t, r)
  <1>1. r # "refuse_redirect" /\ r # "clarification_required"
    BY DEF DecGated, DecClass, DecRoute
  <1>2. DecHandling(r, c, score, TRUE) = "held_for_approval"
    BY <1>1 DEF DecHandling
  <1>3. DecPolicyStatus(r, c) # "clarification_needed"
    <2>1. DecFirstStatus(r) # "clarification_needed"
      BY <1>1, DecRouteIs DEF DecFirstStatus, DecRoutes
    <2> QED
      BY <1>1, <2>1 DEF DecPolicyStatus
  <1>4. DecStatus(r, c, score, TRUE) \in {"blocked", "waiting_for_approval"}
    BY <1>2, <1>3 DEF DecStatus
  <1> QED
    BY <1>2, <1>4

\* The score of n points.
LEMMA DecClipped == ASSUME NEW n \in Int, n <= 0 PROVE Max({0, Min({100, n})}) = 0
  <1>1. Min({100, n}) = n
    BY DEF Min
  <1>2. Max({0, n}) = 0
    BY DEF Max
  <1> QED
    BY <1>1, <1>2

\* infer_value_score_inputs: code, complexity and relevant memory do not make up
\* for the risk of an unsafe request.
LEMMA DecUnsafeScore ==
    ASSUME NEW t \in DecTexts, DecRoute(t) = "refuse_redirect"
    PROVE  DecScore(t, DecRoute(t), DecClass(t, DecRoute(t))) = 0
  <1> DEFINE r == DecRoute(t)
             c == DecClass(t, r)
             If(b, n) == IF b THEN n ELSE 0
             raw == DecRoutePoints(r) + If("coding" \in t.signals, 8 + 6)
                    + If(DecComplexity(t) = "high", 4 + 4) + DecUrgencyPoints(t, r)
                    + t.context - DecPenalty(t, r, c)
  <1>1. c = "forbidden"
    BY DEF DecRoute, DecClass
  <1>2. DecRoutePoints(r) = 0 /\ DecUrgencyPoints(t, r) = 0
    BY DEF DecRoutePoints, DecUrgencyPoints
  <1>3. t.context \in 0..16
    <2>1. t.context \in DecContexts
      BY DEF DecTexts
    <2>2. DecContexts \subseteq {0} \cup 8..16
      BY DecAssumption
    <2>3. t.context \in {0} \cup 8..16
      BY <2>1, <2>2, Zenon
    <2> QED
      BY <2>3
  <1>4. "coding" \in t.signals => DecComplexity(t) # "high"
    BY DEF DecComplexity
  <1>5. /\ DecPenalty(t, r, c) \in Int
        /\ DecPenalty(t, r, c) >= 24 + If("coding" \in t.signals, 6)
    BY <1>1 DEF DecPenalty, DecRisk
  <1>6. raw \in Int /\ raw <= 0
    BY <1>2, <1>3, <1>4, <1>5
  <1>7. DecScore(t, r, c) = Max({0, Min({100, raw})})
    BY DEF DecScore
  <1> HIDE DEF raw
  <1> QED
    BY <1>6, <1>7, DecClipped

\* choose_route: high risk overrides the local model and the economy budget.
LEMMA DecPremium ==
    ASSUME NEW t, NEW type PROVE DecModel(t, type, "high") = "premium"
  BY DEF DecModel, DecCloud

\* build_orchestration_proposal: except for a secret, a decision that asks for an
\* approval has the route that creates one.
LEMMA DecGatedRoute ==
    ASSUME NEW t, DecGated(DecRoute(t), DecClass(t, DecRoute(t))), "secret" \notin t.words
    PROVE  DecRoute(t) = "approval_required"
  BY DEF DecGated, DecClass, DecRoute, DecRisky

DecInv ==
    /\ decPc \in {"asked", "decided", "proposed"} /\ decIn \in DecTexts
    /\ decPc # "asked" => decOut = DecDecision(decIn)
    /\ decPc = "proposed" => decPlan = [st |-> "proposed", task |-> DecPlanTask(decOut.route),
                                        approval |-> decOut.route = "approval_required"]

LEMMA DecInvInit == DecInit => DecInv
  BY DEF DecInit, DecInv

LEMMA DecInvStep == DecInv /\ [DecNext]_decVars => DecInv'
  BY DEF DecInv, DecNext, DecDecide, DecPropose, decVars

\* decide_routing, evaluate_action_policy, choose_route: the policies agree on
\* every text with any signs in any number.
THEOREM DecisionsAgree == DecSpec => []DecSafe
  <1>1. DecInv => DecSafe
    <2> SUFFICES ASSUME DecInv, decPc # "asked" PROVE DecSafe
      BY DEF DecSafe, DecRunsOnlySafe, DecGatedHeld, DecUnsafeWorthless, DecStrongModel,
             DecPlanGate, DecInv
    <2> DEFINE r == DecRoute(decIn)
               c == DecClass(decIn, r)
               g == DecGated(r, c)
               score == DecScore(decIn, r, c)
    <2>1. /\ decOut.route = r /\ decOut.class = c /\ decOut.gated = g /\ decOut.score = score
          /\ decOut.handling = DecHandling(r, c, score, g)
          /\ decOut.status = DecStatus(r, c, score, g)
          /\ decOut.model = DecModel(decIn, DecTaskType(decIn, r), DecRisk(c))
          /\ decOut.now = DecNow(r, g)
      BY DEF DecInv, DecDecision
    <2>2. g \in BOOLEAN
      BY DEF DecGated
    <2>3. DecRunsOnlySafe
      BY <2>1, <2>2, DecExecuted, DecHarmless DEF DecRunsOnlySafe, DecNow
    <2>4. DecGatedHeld
      BY <2>1, <2>2, DecHeld DEF DecGatedHeld
    <2>5. DecUnsafeWorthless
      BY <2>1, DecUnsafeScore DEF DecUnsafeWorthless, DecInv
    <2>6. DecStrongModel
      BY <2>1, DecPremium DEF DecStrongModel
    <2>7. DecPlanGate
      <3> SUFFICES ASSUME decPc = "proposed", decOut.gated, "secret" \notin decIn.words
                   PROVE  decPlan.approval
        BY DEF DecPlanGate
      <3>1. decOut.route = "approval_required"
        BY <2>1, DecGatedRoute
      <3>2. decPlan = [st |-> "proposed", task |-> DecPlanTask(decOut.route),
                       approval |-> decOut.route = "approval_required"]
        BY DEF DecInv
      <3>3. decPlan.approval = (decOut.route = "approval_required")
        BY <3>2, Zenon
      <3> QED
        BY <3>1, <3>3, Zenon
    <2> QED
      BY <2>3, <2>4, <2>5, <2>6, <2>7 DEF DecSafe
  <1> QED
    BY <1>1, DecInvInit, DecInvStep, PTL DEF DecSpec

-----------------------------------------------------------------------------
(* Sources *)

SrcStates == {"absent", "active", "blocked_secret"} \cup SrcTerminal

SrcTypes ==
    /\ srcRec \in [SrcIds -> [st : {"absent"}] \cup [st : SrcStates \ {"absent"}, ref : SrcRefs]]
    /\ srcEnt \in [SrcIds -> [st : {"absent"}] \cup [st : {"live"} \cup SrcTerminal, ref : SrcRefs, of : SrcIds]]
    /\ srcRel \in [SrcIds -> SrcIds \cup {SrcNone}]
    /\ srcTh = [i \in SrcThreads |-> srcTh[i]]

\* An entity is inserted with the source that has its id.
SrcEntOwned == \A e \in SrcIds : srcRec[e].st = "absent" => srcEnt[e].st = "absent"

\* A source that an answer may quote has been in use.
SrcSeen(s) == s \in SrcIds /\ srcRec[s].st \in {"active"} \cup SrcTerminal

\* An entity shown with a source is of its document.
SrcOfDocument(p) ==
    /\ p[1] \in SrcIds /\ p[2] \in SrcIds
    /\ srcRec[p[1]].st # "absent" /\ srcEnt[p[2]].st # "absent"
    /\ srcEnt[p[2]].ref = srcRec[p[1]].ref

\* What was gone when a question was asked is still gone when the sources are
\* read, so that none of it is found.
SrcThreadOK(th) ==
    /\ th.pc = "asked" => th.gone \subseteq SrcGone
    /\ th.pc \in {"recall", "named", "answer"} =>
          th.found \cap th.gone = {} /\ \A s \in th.found : SrcSeen(s)
    /\ th.pc \in {"named", "answer"} => \A p \in th.shown : SrcOfDocument(p)

SrcInv ==
    /\ SrcTypes /\ SrcEntOwned /\ SrcGraphBacked
    /\ \A i \in SrcThreads : SrcThreadOK(srcTh[i])

LEMMA SrcInvInit == SrcInit => SrcInv
  <1> SUFFICES ASSUME SrcInit PROVE SrcInv
    OBVIOUS
  <1>1. SrcTypes
    BY DEF SrcInit, SrcTypes, SrcStates
  <1>2. SrcEntOwned
    BY DEF SrcInit, SrcEntOwned
  <1>3. SrcGraphBacked
    BY DEF SrcInit, SrcGraphBacked
  <1>4. \A i \in SrcThreads : SrcThreadOK(srcTh[i])
    BY DEF SrcInit, SrcThreadOK, SrcIdle
  <1> QED
    BY <1>1, <1>2, <1>3, <1>4 DEF SrcInv

\* What is stored stays stored, of the same document; what is gone stays gone.
SrcStays ==
    /\ \A s \in SrcIds : srcRec[s].st # "absent" =>
          /\ srcRec'[s].ref = srcRec[s].ref /\ srcRec'[s].st # "absent"
          /\ srcRec'[s].st = srcRec[s].st \/ srcRec'[s].st \in SrcTerminal
    /\ \A e \in SrcIds : srcEnt[e].st # "absent" =>
          srcEnt'[e].ref = srcEnt[e].ref /\ srcEnt'[e].st # "absent"

\* Then every retrieval that is under way keeps what it needs.
LEMMA SrcThreadsKept ==
    ASSUME SrcStays, NEW th, SrcThreadOK(th) PROVE SrcThreadOK(th)'
  <1>1. SrcGone \subseteq SrcGone'
    BY DEF SrcStays, SrcGone, SrcTerminal
  <1>2. \A s : SrcSeen(s) => SrcSeen(s)'
    BY DEF SrcStays, SrcSeen, SrcTerminal
  <1>3. \A p : SrcOfDocument(p) => SrcOfDocument(p)'
    BY DEF SrcStays, SrcOfDocument
  <1> QED
    BY <1>1, <1>2, <1>3 DEF SrcThreadOK

\* The entity that a source is stored under.
LEMMA SrcEntityIs ==
    ASSUME NEW s \in SrcIds, NEW r
    PROVE  /\ SrcEntity(s, r) \in SrcIds
           /\ \/ SrcEntity(s, r) = s /\ SrcTwins(r) = {}
              \/ srcEnt[SrcEntity(s, r)].st = "live" /\ srcEnt[SrcEntity(s, r)].ref = r
  <1>1. CASE SrcTwins(r) = {}
    BY <1>1 DEF SrcEntity
  <1>2. CASE SrcTwins(r) # {}
    <2>1. SrcEntity(s, r) \in SrcTwins(r)
      BY <1>2 DEF SrcEntity
    <2> QED
      BY <2>1 DEF SrcTwins
  <1> QED
    BY <1>1, <1>2

\* A source is stored, in use or blocked.
LEMMA SrcStoredKeeps ==
    ASSUME SrcInv, NEW s \in SrcIds, NEW r \in SrcRefs, NEW secret \in BOOLEAN,
           SrcStored(s, r, secret),
           srcTh' = [i \in SrcThreads |-> srcTh'[i]],
           \A i \in SrcThreads : SrcThreadOK(srcTh'[i])
    PROVE  SrcInv'
  <1>1. PICK e : e = SrcEntity(s, r)
    OBVIOUS
  <1>2. /\ e \in SrcIds
        /\ \/ e = s /\ srcEnt[s].st = "absent"
           \/ srcEnt[e].st = "live" /\ srcEnt[e].ref = r
    BY <1>1, SrcEntityIs DEF SrcStored, SrcInv, SrcEntOwned
  <1>3. /\ srcRec[s].st = "absent"
        /\ srcRec'[s] = [st |-> IF secret THEN "blocked_secret" ELSE "active", ref |-> r]
        /\ \A q \in SrcIds : q # s => srcRec'[q] = srcRec[q]
    BY DEF SrcStored, SrcInv, SrcTypes
  <1>4. CASE secret
    <2>1. srcEnt' = srcEnt /\ srcRel' = srcRel
      BY <1>4 DEF SrcStored
    <2>2. srcRec'[s].st = "blocked_secret"
      BY <1>3, <1>4
    <2>3. SrcTypes'
      BY <1>4, <2>1 DEF SrcInv, SrcTypes, SrcStored, SrcStates
    <2>4. SrcStays
      BY <1>3, <2>1 DEF SrcStays
    <2>5. SrcEntOwned'
      BY <1>3, <2>1, <2>2 DEF SrcInv, SrcEntOwned
    <2>6. SrcGraphBacked'
      BY <1>3, <2>1 DEF SrcInv, SrcTypes, SrcGraphBacked
    <2> QED
      BY <2>3, <2>4, <2>5, <2>6, SrcThreadsKept DEF SrcInv
  <1>5. CASE ~secret
    <2>1. /\ srcEnt' = [srcEnt EXCEPT ![e] = [st |-> "live", ref |-> r, of |-> s]]
          /\ srcRel' = [srcRel EXCEPT ![s] = e]
          /\ srcRec' = [srcRec EXCEPT ![s] = [st |-> "active", ref |-> r]]
      BY <1>1, <1>5 DEF SrcStored
    <2>2. /\ srcEnt'[e] = [st |-> "live", ref |-> r, of |-> s]
          /\ \A q \in SrcIds : q # e => srcEnt'[q] = srcEnt[q]
          /\ srcRel'[s] = e /\ \A q \in SrcIds : q # s => srcRel'[q] = srcRel[q]
          /\ srcRec'[s] = [st |-> "active", ref |-> r]
      BY <1>2, <2>1 DEF SrcInv, SrcTypes
    <2>3. SrcTypes'
      BY <1>2, <2>1 DEF SrcInv, SrcTypes, SrcStates
    <2>4. SrcStays
      BY <1>2, <1>3, <2>2 DEF SrcStays
    <2>5. SrcEntOwned'
      BY <1>2, <1>3, <2>2 DEF SrcInv, SrcEntOwned
    <2>6. SrcGraphBacked'
      <3>1. ASSUME NEW q \in SrcIds, srcEnt'[q].st = "live"
            PROVE  srcRec'[srcEnt'[q].of].st = "active" /\ srcRec'[srcEnt'[q].of].ref = srcEnt'[q].ref
        <4>1. CASE q = e
          BY <2>2, <4>1
        <4>2. CASE q # e
          <5>1. srcEnt'[q] = srcEnt[q] /\ srcEnt[q].st = "live"
            BY <2>2, <3>1, <4>2
          <5>2. srcEnt[q].of \in SrcIds
            BY <5>1 DEF SrcInv, SrcTypes
          <5>3. srcRec[srcEnt[q].of].st = "active" /\ srcRec[srcEnt[q].of].ref = srcEnt[q].ref
            BY <5>1 DEF SrcInv, SrcGraphBacked
          <5>4. srcEnt[q].of # s
            BY <1>3, <5>3
          <5> QED
            BY <1>3, <5>1, <5>2, <5>3, <5>4
        <4> QED
          BY <4>1, <4>2
      <3>2. ASSUME NEW q \in SrcIds, srcRel'[q] # SrcNone
            PROVE  /\ srcRec'[q].st = "active"
                   /\ srcEnt'[srcRel'[q]].st # "absent" /\ srcEnt'[srcRel'[q]].ref = srcRec'[q].ref
        <4>1. CASE q = s
          BY <2>2, <4>1
        <4>2. CASE q # s
          <5>1. srcRel'[q] = srcRel[q] /\ srcRel[q] \in SrcIds /\ srcRec'[q] = srcRec[q]
            BY <1>3, <2>2, <3>2, <4>2 DEF SrcInv, SrcTypes
          <5>2. /\ srcRec[q].st = "active"
                /\ srcEnt[srcRel[q]].st # "absent" /\ srcEnt[srcRel[q]].ref = srcRec[q].ref
            BY <3>2, <5>1 DEF SrcInv, SrcGraphBacked
          <5> QED
            BY <2>4, <5>1, <5>2 DEF SrcStays
        <4> QED
          BY <4>1, <4>2
      <3> QED
        BY <3>1, <3>2 DEF SrcGraphBacked
    <2> QED
      BY <2>3, <2>4, <2>5, <2>6, SrcThreadsKept DEF SrcInv
  <1> QED
    BY <1>4, <1>5

\* A source is taken out of use, with the entities that name it and its own
\* relationship.
LEMMA SrcEraseStep ==
    ASSUME SrcInv, NEW s \in SrcIds, NEW st \in SrcTerminal, SrcErase(s, st) PROVE SrcInv'
  <1>1. /\ srcRec[s].st # "absent" /\ srcRec'[s].st = st /\ srcRec'[s].ref = srcRec[s].ref
        /\ \A q \in SrcIds : q # s => srcRec'[q] = srcRec[q]
        /\ srcRel' = [srcRel EXCEPT ![s] = SrcNone]
    BY DEF SrcInv, SrcTypes, SrcErase
  <1>2. \A e \in SrcIds :
           \/ srcEnt'[e] = srcEnt[e] /\ ~(srcEnt[e].st = "live" /\ srcEnt[e].of = s)
           \/ /\ srcEnt[e].st = "live" /\ srcEnt'[e].st = st
              /\ srcEnt'[e].ref = srcEnt[e].ref /\ srcEnt'[e].of = srcEnt[e].of
    BY DEF SrcInv, SrcTypes, SrcErase, SrcUnnamed
  <1>3. SrcTypes'
    <2>1. srcEnt' \in [SrcIds -> [st : {"absent"}] \cup [st : {"live"} \cup SrcTerminal, ref : SrcRefs, of : SrcIds]]
      BY DEF SrcInv, SrcTypes, SrcErase, SrcUnnamed
    <2>2. PICK row : row = [srcRec[s] EXCEPT !.st = st]
      OBVIOUS
    <2>3. row \in [st : SrcStates \ {"absent"}, ref : SrcRefs]
      BY <1>1, <2>2 DEF SrcInv, SrcTypes, SrcStates, SrcTerminal
    <2>4. srcRec' = [srcRec EXCEPT ![s] = row]
      BY <2>2 DEF SrcErase
    <2>5. srcRel' \in [SrcIds -> SrcIds \cup {SrcNone}] /\ srcTh' = srcTh
      BY <1>1 DEF SrcInv, SrcTypes, SrcErase
    <2> QED
      BY <2>1, <2>3, <2>4, <2>5 DEF SrcInv, SrcTypes
  <1>4. SrcStays
    BY <1>1, <1>2 DEF SrcStays, SrcTerminal
  <1>5. SrcEntOwned'
    BY <1>1, <1>2 DEF SrcInv, SrcEntOwned, SrcTerminal
  <1>6. SrcGraphBacked'
    <2>1. ASSUME NEW e \in SrcIds, srcEnt'[e].st = "live"
          PROVE  srcRec'[srcEnt'[e].of].st = "active" /\ srcRec'[srcEnt'[e].of].ref = srcEnt'[e].ref
      <3>1. srcEnt'[e] = srcEnt[e] /\ srcEnt[e].of # s
        BY <1>2, <2>1 DEF SrcTerminal
      <3>2. srcEnt[e].of \in SrcIds
        BY <2>1, <3>1 DEF SrcInv, SrcTypes
      <3> QED
        BY <1>1, <2>1, <3>1, <3>2 DEF SrcInv, SrcGraphBacked
    <2>2. ASSUME NEW q \in SrcIds, srcRel'[q] # SrcNone
          PROVE  /\ srcRec'[q].st = "active"
                 /\ srcEnt'[srcRel'[q]].st # "absent" /\ srcEnt'[srcRel'[q]].ref = srcRec'[q].ref
      <3>1. q # s /\ srcRel'[q] = srcRel[q] /\ srcRel[q] \in SrcIds /\ srcRec'[q] = srcRec[q]
        BY <1>1, <2>2 DEF SrcInv, SrcTypes
      <3>2. /\ srcRec[q].st = "active"
            /\ srcEnt[srcRel[q]].st # "absent" /\ srcEnt[srcRel[q]].ref = srcRec[q].ref
        BY <2>2, <3>1 DEF SrcInv, SrcGraphBacked
      <3> QED
        BY <1>4, <3>1, <3>2 DEF SrcStays
    <2> QED
      BY <2>1, <2>2 DEF SrcGraphBacked
  <1> QED
    BY <1>3, <1>4, <1>5, <1>6, SrcThreadsKept DEF SrcInv, SrcErase

\* A retrieval goes on.
LEMMA SrcRetrievalSteps ==
    ASSUME SrcInv, NEW i \in SrcThreads,
           \/ SrcCheck(i) \/ SrcAsk(i) \/ SrcNamed(i) \/ SrcRelated(i) \/ SrcAnswer(i)
           \/ \E found \in SUBSET SrcIds : SrcRecall(i, found)
    PROVE  SrcInv'
  <1>1. /\ UNCHANGED <<srcRec, srcEnt, srcRel>>
        /\ srcTh' = [j \in SrcThreads |-> srcTh'[j]]
        /\ \A j \in SrcThreads : j # i => srcTh'[j] = srcTh[j]
    BY DEF SrcInv, SrcTypes, SrcCheck, SrcAsk, SrcRecall, SrcNamed, SrcRelated, SrcAnswer
  <1>2. SrcThreadOK(srcTh[i]) /\ srcTh = [j \in SrcThreads |-> srcTh[j]]
    BY DEF SrcInv, SrcTypes
  <1>3. SrcThreadOK(srcTh'[i])
    <2>1. CASE SrcCheck(i) \/ SrcAnswer(i)
      BY <1>2, <2>1 DEF SrcThreadOK, SrcCheck, SrcAnswer, SrcIdle
    <2>2. CASE SrcAsk(i)
      BY <1>2, <2>2 DEF SrcThreadOK, SrcAsk
    <2>3. ASSUME NEW found \in SUBSET SrcIds, SrcRecall(i, found) PROVE SrcThreadOK(srcTh'[i])
      <3>1. srcTh'[i] = [pc |-> "recall", gone |-> srcTh[i].gone, found |-> found]
        BY <1>2, <2>3 DEF SrcRecall
      <3>2. srcTh[i].gone \subseteq SrcGone /\ \A s \in found : s \in SrcIds /\ srcRec[s].st = "active"
        BY <1>2, <2>3 DEF SrcThreadOK, SrcRecall, SrcSearched
      <3>3. \A s \in found : s \notin SrcGone
        BY <3>2 DEF SrcGone, SrcTerminal
      <3> QED
        BY <3>1, <3>2, <3>3 DEF SrcThreadOK, SrcSeen
    <2>4. CASE SrcNamed(i)
      <3>1. PICK shown : shown = {p \in srcTh[i].found \X SrcIds : srcEnt[p[2]].st = "live" /\ srcEnt[p[2]].of = p[1]}
        OBVIOUS
      <3>2. srcTh'[i] = [pc |-> "named", gone |-> srcTh[i].gone, found |-> srcTh[i].found, shown |-> shown]
        BY <1>2, <2>4, <3>1 DEF SrcNamed
      <3>3. srcTh[i].found \cap srcTh[i].gone = {} /\ \A s \in srcTh[i].found : SrcSeen(s)
        BY <1>2, <2>4 DEF SrcThreadOK, SrcNamed
      <3>4. ASSUME NEW p \in shown PROVE SrcOfDocument(p)
        <4>1. p[1] \in SrcIds /\ p[2] \in SrcIds /\ srcEnt[p[2]].st = "live" /\ srcEnt[p[2]].of = p[1]
          BY <3>1, <3>3, <3>4 DEF SrcSeen
        <4> QED
          BY <4>1 DEF SrcInv, SrcGraphBacked, SrcOfDocument
      <3> QED
        BY <3>2, <3>3, <3>4 DEF SrcThreadOK
    <2>5. CASE SrcRelated(i)
      <3>1. PICK shown : shown = srcTh[i].shown \cup {p \in srcTh[i].found \X SrcIds : srcRel[p[1]] = p[2]}
        OBVIOUS
      <3>2. srcTh'[i] = [pc |-> "answer", gone |-> srcTh[i].gone, found |-> srcTh[i].found, shown |-> shown]
        BY <1>2, <2>5, <3>1 DEF SrcRelated
      <3>3. /\ srcTh[i].found \cap srcTh[i].gone = {} /\ \A s \in srcTh[i].found : SrcSeen(s)
            /\ \A p \in srcTh[i].shown : SrcOfDocument(p)
        BY <1>2, <2>5 DEF SrcThreadOK, SrcRelated
      <3>4. ASSUME NEW p \in srcTh[i].found \X SrcIds, srcRel[p[1]] = p[2] PROVE SrcOfDocument(p)
        <4>1. p[1] \in SrcIds /\ p[2] \in SrcIds /\ srcRel[p[1]] # SrcNone
          BY <3>3, <3>4, SrcAssumption DEF SrcSeen
        <4> QED
          BY <3>4, <4>1 DEF SrcInv, SrcGraphBacked, SrcOfDocument
      <3>5. \A p \in shown : SrcOfDocument(p)
        BY <3>1, <3>3, <3>4
      <3> QED
        BY <3>2, <3>3, <3>5 DEF SrcThreadOK
    <2> QED
      BY <2>1, <2>2, <2>3, <2>4, <2>5
  <1>4. SrcStays
    BY <1>1 DEF SrcStays
  <1>5. \A j \in SrcThreads : SrcThreadOK(srcTh'[j])
    BY <1>1, <1>3 DEF SrcInv
  <1>6. \A j \in SrcThreads : SrcThreadOK(srcTh[j])'
    BY <1>1, <1>5 DEF SrcThreadOK, SrcGone, SrcSeen, SrcOfDocument
  <1> QED
    BY <1>1, <1>6 DEF SrcInv, SrcTypes, SrcEntOwned, SrcGraphBacked

LEMMA SrcInvStep == SrcInv /\ [SrcNext]_srcVars => SrcInv'
  <1> SUFFICES ASSUME SrcInv, [SrcNext]_srcVars PROVE SrcInv'
    OBVIOUS
  <1>1. ASSUME NEW s \in SrcIds, NEW r \in SrcRefs, NEW secret \in BOOLEAN, SrcIngest(s, r, secret)
        PROVE  SrcInv'
    <2>1. SrcStored(s, r, secret) /\ srcTh' = srcTh
      BY <1>1 DEF SrcIngest
    <2>2. srcTh' = [i \in SrcThreads |-> srcTh'[i]] /\ \A i \in SrcThreads : SrcThreadOK(srcTh'[i])
      BY <2>1 DEF SrcInv, SrcTypes
    <2> QED
      BY <2>1, <2>2, SrcStoredKeeps
  <1>2. ASSUME NEW s \in SrcIds, NEW r \in SrcRefs, NEW secret \in BOOLEAN, NEW i \in SrcThreads,
               SrcIngestChecked(i, s, r, secret)
        PROVE  SrcInv'
    <2>1. SrcStored(s, r, secret) /\ srcTh' = [srcTh EXCEPT ![i] = SrcIdle]
      BY <1>2 DEF SrcIngestChecked
    <2>2. SrcThreadOK(SrcIdle)
      BY DEF SrcThreadOK, SrcIdle
    <2>3. /\ srcTh' = [j \in SrcThreads |-> srcTh'[j]]
          /\ \A j \in SrcThreads : SrcThreadOK(srcTh'[j])
      BY <2>1, <2>2 DEF SrcInv, SrcTypes
    <2> QED
      BY <2>1, <2>3, SrcStoredKeeps
  <1>3. CASE UNCHANGED srcVars
    BY <1>3 DEF srcVars, SrcInv, SrcTypes, SrcEntOwned, SrcGraphBacked,
                SrcThreadOK, SrcGone, SrcSeen, SrcOfDocument
  <1> QED
    BY <1>1, <1>2, <1>3, SrcEraseStep, SrcRetrievalSteps DEF SrcNext

\* retrieve_memory, delete_source_record: however ingestion, erasure and the steps
\* of a retrieval interleave, the graph is backed by sources in use, and an answer
\* quotes no source that was erased or blocked before its question was asked.
THEOREM SourcesAreSafe == SrcSpec => []SrcSafe
  <1>1. SrcInv => SrcSafe
    BY DEF SrcInv, SrcSafe, SrcAnswerCurrent, SrcThreadOK, SrcSeen, SrcOfDocument, SrcTerminal
  <1> QED
    BY <1>1, SrcInvInit, SrcInvStep, PTL DEF SrcSpec

-----------------------------------------------------------------------------
(* Memory *)

MemRow == [st : MemStatuses, sens : BOOLEAN, note : BOOLEAN, fixes : MemItems \cup {MemNone}]

\* A row that may be stored as item m: it carries the note it needs, and
\* corrects another item that exists.
MemStorable(m, row) ==
    /\ row \in MemRow /\ MemValid(row) /\ row.fixes # m
    /\ row.fixes # MemNone => memItem[row.fixes].st # "absent"

\* What an item corrects exists.
MemFixesExist ==
    \A q \in MemItems : memItem[q].st # "absent" /\ memItem[q].fixes # MemNone =>
        memItem[memItem[q].fixes].st # "absent"

\* Items and the stale rows that updates hold may all be stored.
MemInv ==
    /\ memItem \in [MemItems -> [st : {"absent"}] \cup MemRow]
    /\ memTh = [i \in MemThreads |-> memTh[i]]
    /\ MemReviewNote /\ MemFixesExist
    /\ \A i \in MemThreads : memTh[i].pc = "write" =>
          memTh[i].m \in MemItems /\ MemStorable(memTh[i].m, memTh[i].row)

LEMMA MemInvInit == MemInit => MemInv
  BY DEF MemInit, MemInv, MemReviewNote, MemFixesExist

\* _mark_superseded_memory: what storing a row does to every item.
LEMMA MemStores ==
    ASSUME MemInv, NEW m \in MemItems, NEW row, MemStorable(m, row),
           memItem' = MemSuperseded([memItem EXCEPT ![m] = row], row)
    PROVE  /\ memItem'[m] = row
           /\ memItem' \in [MemItems -> [st : {"absent"}] \cup MemRow]
           /\ \A q \in MemItems \ {m} :
                 \/ memItem'[q] = memItem[q]
                 \/ /\ memItem[q].st # "absent" /\ memItem'[q].st = "rejected"
                    /\ memItem'[q].fixes = memItem[q].fixes
           /\ row.st = "active" /\ row.fixes # MemNone =>
                 memItem'[row.fixes].st \notin {"candidate", "active"}
  <1> DEFINE rows == [memItem EXCEPT ![m] = row]
             f == row.fixes
  <1>1. /\ rows \in [MemItems -> [st : {"absent"}] \cup MemRow] /\ rows[m] = row
        /\ \A q \in MemItems \ {m} : rows[q] = memItem[q]
    BY DEF MemInv, MemStorable
  <1>2. f \in MemItems \cup {MemNone} /\ f # m
    BY DEF MemStorable, MemRow
  <1> HIDE DEF rows
  <1>3. CASE row.st = "active" /\ f # MemNone /\ rows[f].st \in {"candidate", "active"}
    <2>1. f \in MemItems /\ rows[f] \in MemRow
      BY <1>1, <1>2, <1>3
    <2>2. [rows[f] EXCEPT !.st = "rejected", !.note = TRUE] \in MemRow
      BY <2>1 DEF MemRow, MemStatuses
    <2>3. /\ [rows[f] EXCEPT !.st = "rejected", !.note = TRUE].st = "rejected"
          /\ [rows[f] EXCEPT !.st = "rejected", !.note = TRUE].fixes = rows[f].fixes
      BY <2>1 DEF MemRow
    <2>4. memItem' = [rows EXCEPT ![f] = [rows[f] EXCEPT !.st = "rejected", !.note = TRUE]]
      BY <1>3 DEF MemSuperseded, rows
    <2> HIDE DEF f
    <2>5. /\ memItem'[f].st = "rejected" /\ memItem'[f].fixes = rows[f].fixes
          /\ \A q \in MemItems \ {f} : memItem'[q] = rows[q]
          /\ memItem' \in [MemItems -> [st : {"absent"}] \cup MemRow]
      BY <1>1, <2>1, <2>2, <2>3, <2>4
    <2>6. memItem[f].st # "absent" /\ rows[f] = memItem[f]
      BY <1>1, <1>2, <1>3, <2>1
    <2> QED
      BY <1>1, <1>2, <2>1, <2>5, <2>6 DEF f
  <1>4. CASE ~(row.st = "active" /\ f # MemNone /\ rows[f].st \in {"candidate", "active"})
    <2>1. memItem' = rows
      BY <1>4 DEF MemSuperseded, rows
    <2> QED
      BY <1>1, <1>4, <2>1
  <1> QED
    BY <1>3, <1>4

\* A step that leaves correction c and item m both in use left c alone, and found
\* both in use unless it stored m (and, by the second operand, m was there).
MemOnlyBy(q) ==
    \A c, m \in MemItems : MemBoth(c, m)' =>
        memItem'[c] = memItem[c] /\ (MemBoth(c, m) \/ (m = q /\ memItem[m].st # "absent"))

\* Storing a row keeps the invariant, and what it corrects is out of use.
LEMMA MemStoreStep ==
    ASSUME MemInv, NEW m \in MemItems, NEW row, MemStorable(m, row),
           memItem' = MemSuperseded([memItem EXCEPT ![m] = row], row),
           memTh' = [i \in MemThreads |-> memTh'[i]],
           \A i \in MemThreads : memTh'[i] = memTh[i] \/ memTh'[i] = [pc |-> "idle"]
    PROVE  MemInv' /\ MemOnlyBy(m)
  <1>1. /\ memItem'[m] = row
        /\ memItem' \in [MemItems -> [st : {"absent"}] \cup MemRow]
        /\ \A q \in MemItems \ {m} :
              \/ memItem'[q] = memItem[q]
              \/ /\ memItem[q].st # "absent" /\ memItem'[q].st = "rejected"
                 /\ memItem'[q].fixes = memItem[q].fixes
        /\ row.st = "active" /\ row.fixes # MemNone =>
              memItem'[row.fixes].st \notin {"candidate", "active"}
    BY MemStores
  <1>2. row \in MemRow /\ MemValid(row)
    BY DEF MemStorable
  <1>3. MemReviewNote'
    BY <1>1, <1>2 DEF MemInv, MemReviewNote, MemValid
  <1>4. \A q \in MemItems : memItem[q].st # "absent" => memItem'[q].st # "absent"
    BY <1>1, <1>2 DEF MemRow, MemStatuses
  <1>5. \A q \in MemItems : \A r : MemStorable(q, r) => MemStorable(q, r)'
    BY <1>4 DEF MemStorable, MemRow
  <1>6. \A i \in MemThreads : memTh'[i].pc = "write" =>
           memTh'[i].m \in MemItems /\ MemStorable(memTh[i].m, memTh[i].row)' /\ memTh'[i] = memTh[i]
    BY <1>5 DEF MemInv
  <1>7. MemFixesExist'
    <2> SUFFICES ASSUME NEW q \in MemItems, memItem'[q].st # "absent", memItem'[q].fixes # MemNone
                 PROVE  memItem'[memItem'[q].fixes].st # "absent"
      BY DEF MemFixesExist
    <2>1. CASE q = m
      BY <1>1, <1>2, <1>4, <2>1 DEF MemStorable, MemRow
    <2>2. CASE q # m
      <3>1. memItem[q].st # "absent" /\ memItem'[q].fixes = memItem[q].fixes
        BY <1>1, <2>2
      <3>2. memItem[q].fixes \in MemItems
        BY <3>1 DEF MemInv, MemRow
      <3> QED
        BY <1>4, <3>1, <3>2 DEF MemInv, MemFixesExist
    <2> QED
      BY <2>1, <2>2
  <1>8. MemInv'
    BY <1>1, <1>3, <1>6, <1>7 DEF MemInv, MemStorable
  <1>9. MemOnlyBy(m)
    <2> SUFFICES ASSUME NEW c \in MemItems, NEW x \in MemItems, MemBoth(c, x)'
                 PROVE  memItem'[c] = memItem[c] /\ (MemBoth(c, x) \/ (x = m /\ memItem[x].st # "absent"))
      BY DEF MemOnlyBy
    <2>1. /\ memItem'[c].st = "active" /\ memItem'[c].fixes = x
          /\ memItem'[x].st \in {"candidate", "active"}
      BY DEF MemBoth
    <2>2. c # m
      BY <1>1, <2>1, MemAssumption
    <2>3. memItem'[c] = memItem[c]
      BY <1>1, <2>1, <2>2
    <2>4. memItem[x].st # "absent"
      BY <2>1, <2>3, MemAssumption DEF MemInv, MemFixesExist
    <2>5. x # m => memItem'[x] = memItem[x]
      BY <1>1, <2>1
    <2> QED
      BY <2>1, <2>3, <2>4, <2>5 DEF MemBoth
  <1> QED
    BY <1>8, <1>9

\* What MemCorrectionWins says of a step.
MemWins ==
    \A c, m \in MemItems :
        MemBoth(c, m)' =>
            /\ memItem'[c] = memItem[c]
            /\ MemBoth(c, m) \/ (\E i \in MemThreads : MemUpdate(i) /\ memTh[i].m = m)

\* create_memory_item: nothing corrects an item that did not exist.
LEMMA MemCreateStep ==
    ASSUME MemInv, NEW m \in MemItems, NEW row \in MemRow, MemCreate(m, row)
    PROVE  MemInv' /\ MemWins
  <1>1. MemStorable(m, row)
    BY MemAssumption DEF MemStorable, MemCreate, MemRow
  <1>2. /\ memItem' = MemSuperseded([memItem EXCEPT ![m] = row], row) /\ memTh' = memTh
        /\ memTh' = [i \in MemThreads |-> memTh'[i]]
    BY DEF MemCreate, MemInv
  <1>3. MemInv' /\ MemOnlyBy(m)
    BY <1>1, <1>2, MemStoreStep
  <1>4. memItem[m].st = "absent"
    BY DEF MemCreate
  <1> QED
    BY <1>3, <1>4 DEF MemOnlyBy, MemWins

\* update_memory_item writes what it merged, however stale.
LEMMA MemUpdateStep ==
    ASSUME MemInv, NEW i \in MemThreads, MemUpdate(i)
    PROVE  MemInv' /\ MemWins
  <1>1. PICK m, row : m = memTh[i].m /\ row = memTh[i].row
    OBVIOUS
  <1>2. m \in MemItems /\ MemStorable(m, row)
    BY <1>1 DEF MemInv, MemUpdate
  <1>3. memItem' = MemSuperseded([memItem EXCEPT ![m] = row], row)
    BY <1>1 DEF MemUpdate, MemWritten
  <1>4. /\ memTh' = [j \in MemThreads |-> memTh'[j]]
        /\ \A j \in MemThreads : memTh'[j] = memTh[j] \/ memTh'[j] = [pc |-> "idle"]
    BY DEF MemInv, MemUpdate
  <1>5. MemInv' /\ MemOnlyBy(m)
    BY <1>2, <1>3, <1>4, MemStoreStep
  <1>6. \E j \in MemThreads : MemUpdate(j) /\ memTh[j].m = m
    BY <1>1
  <1> HIDE DEF MemUpdate
  <1> QED
    BY <1>5, <1>6 DEF MemOnlyBy, MemWins

\* It reads the item and merges the changes.
LEMMA MemMergeStep ==
    ASSUME MemInv, NEW i \in MemThreads, NEW m \in MemItems, NEW named \in BOOLEAN,
           NEW st \in MemStatuses, NEW sens \in BOOLEAN, NEW note \in BOOLEAN,
           NEW f \in MemItems \cup {MemNone}, MemMerge(i, m, named, st, sens, note, f)
    PROVE  MemInv' /\ memItem' = memItem
  <1>1. PICK row : row = [st |-> st, sens |-> sens, note |-> memItem[m].note \/ note, fixes |-> f]
    OBVIOUS
  <1>2. row \in MemRow /\ row.fixes = f
    BY <1>1 DEF MemRow
  <1>3. MemStorable(m, row)
    BY <1>1, <1>2 DEF MemStorable, MemMerge
  <1>4. /\ memTh' = [memTh EXCEPT ![i] = [pc |-> "write", m |-> m, row |-> row, named |-> named]]
        /\ memItem' = memItem
    BY <1>1 DEF MemMerge
  <1> QED
    BY <1>3, <1>4 DEF MemInv, MemReviewNote, MemFixesExist, MemStorable

\* delete_memory_item, scrub_memory_item
LEMMA MemEraseStep ==
    ASSUME MemInv, NEW m \in MemItems, NEW st \in MemTerminal, MemErase(m, st)
    PROVE  MemInv' /\ MemWins
  <1>1. memItem[m] \in MemRow
    BY DEF MemInv, MemErase
  <1>2. PICK row : row = [memItem[m] EXCEPT !.st = st, !.note = TRUE]
    OBVIOUS
  <1>3. row \in MemRow /\ row.st = st /\ row.fixes = memItem[m].fixes
    BY <1>1, <1>2 DEF MemRow, MemStatuses, MemTerminal
  <1>4. memItem' = [memItem EXCEPT ![m] = row] /\ memTh' = memTh
    BY <1>2 DEF MemErase
  <1>5. \A q \in MemItems : memItem[q].st # "absent" => memItem'[q].st # "absent"
    BY <1>3, <1>4 DEF MemInv, MemTerminal
  <1>6. \A q \in MemItems : \A r : MemStorable(q, r) => MemStorable(q, r)'
    BY <1>5 DEF MemStorable, MemRow
  <1>7. MemReviewNote'
    BY <1>3, <1>4 DEF MemInv, MemReviewNote, MemTerminal
  <1>8. memItem' \in [MemItems -> [st : {"absent"}] \cup MemRow]
    BY <1>3, <1>4 DEF MemInv
  <1>9. MemFixesExist'
    <2> SUFFICES ASSUME NEW q \in MemItems, memItem'[q].st # "absent", memItem'[q].fixes # MemNone
                 PROVE  memItem'[memItem'[q].fixes].st # "absent"
      BY DEF MemFixesExist
    <2>1. memItem[q].st # "absent" /\ memItem'[q].fixes = memItem[q].fixes
      BY <1>3, <1>4 DEF MemInv, MemErase
    <2>2. memItem[q].fixes \in MemItems
      BY <2>1 DEF MemInv, MemRow
    <2> QED
      BY <1>5, <2>1, <2>2 DEF MemInv, MemFixesExist
  <1>10. \A q \in MemItems : memItem'[q] = memItem[q] \/ memItem'[q].st \in MemTerminal
    BY <1>3, <1>4 DEF MemInv
  <1>11. MemWins
    BY <1>10 DEF MemWins, MemBoth, MemTerminal
  <1> QED
    BY <1>4, <1>6, <1>7, <1>8, <1>9, <1>11 DEF MemInv, MemStorable

LEMMA MemInvStep == MemInv /\ [MemNext]_memVars => MemInv' /\ (MemWins \/ UNCHANGED memVars)
  <1> SUFFICES ASSUME MemInv, [MemNext]_memVars PROVE MemInv' /\ (MemWins \/ UNCHANGED memVars)
    OBVIOUS
  <1>1. ASSUME NEW m \in MemItems, NEW st \in MemStatuses, NEW sens \in BOOLEAN, NEW note \in BOOLEAN,
               NEW f \in MemItems \cup {MemNone},
               MemCreate(m, [st |-> st, sens |-> sens, note |-> note, fixes |-> f])
        PROVE  MemInv' /\ MemWins
    <2>1. [st |-> st, sens |-> sens, note |-> note, fixes |-> f] \in MemRow
      BY DEF MemRow
    <2> QED
      BY <1>1, <2>1, MemCreateStep
  <1>2. ASSUME NEW m \in MemItems, NEW st \in MemTerminal, MemErase(m, st) PROVE MemInv' /\ MemWins
    BY <1>2, MemEraseStep
  <1>3. ASSUME NEW i \in MemThreads, MemUpdate(i) PROVE MemInv' /\ MemWins
    BY <1>3, MemUpdateStep
  <1>4. ASSUME NEW i \in MemThreads, NEW m \in MemItems, NEW named \in BOOLEAN,
               NEW st \in MemStatuses, NEW sens \in BOOLEAN, NEW note \in BOOLEAN,
               NEW f \in MemItems \cup {MemNone}, MemMerge(i, m, named, st, sens, note, f)
        PROVE  MemInv' /\ MemWins
    BY <1>4, MemMergeStep DEF MemWins, MemBoth
  <1>5. CASE UNCHANGED memVars
    BY <1>5 DEF memVars, MemInv, MemReviewNote, MemFixesExist, MemStorable
  <1> QED
    BY <1>1, <1>2, <1>3, <1>4, <1>5 DEF MemNext

\* update_memory_item, _mark_superseded_memory: stale updates, corrections and
\* erasures keep the notes; the step that puts a correction in use takes what it
\* corrects out of use, and only an update of the corrected item itself puts that
\* back beside it.
THEOREM MemoryIsSafe == MemSpec => MemSafe
  <1>1. MemInv => MemReviewNote
    BY DEF MemInv
  <1>2. MemSpec => []MemReviewNote
    BY <1>1, MemInvInit, MemInvStep, PTL DEF MemSpec
  <1>3. MemInv /\ [MemNext]_memVars => [MemWins]_memVars
    BY MemInvStep
  <1>4. MemSpec => MemCorrectionWins
    BY <1>3, MemInvInit, MemInvStep, PTL DEF MemSpec, MemCorrectionWins, MemWins
  <1> QED
    BY <1>2, <1>4 DEF MemSafe

-----------------------------------------------------------------------------
(* The night queue: a run that has not ended is running, and what it has   *)
(* written it has listed, reported as failed, or is just writing.          *)

NgActs == {"index", "graph", "context", "missing", "cache", "improve", "propose"}
NgEntries == {<<"graph", "memory_item">>, <<"context", "memory_item">>, <<"cache", "cache">>,
              <<"propose", "task">>, <<"missing", "task">>, <<"missing", "need">>}
NgEnds == {"succeeded", "completed_with_attention", "failed"}
NgReports == NgActs \cup {"finalization"}
NgPapers == [by : {NgNone, "queue", "manual", "fallback"}, status : NgEnds \cup {NgNone},
             failed : SUBSET NgReports, proposals : SUBSET (NgActs \cup {"ui"})]
NgRecords == [status : NgEnds \cup {"absent", "running"}, failed : SUBSET NgReports,
              listed : SUBSET NgEntries, proposed : SUBSET NgActs, brief : NgPapers]
NgLocals == [at : {"idle", "walk", "sought", "fallback", "done"}, list : Seq(NgActs),
             i : Nat \ {0}, allowed : SUBSET {"R1", "R2", "R3", "R4", "R5"},
             found : NgRuns \cup {NgNone}, failed : SUBSET NgActs,
             listed : SUBSET NgEntries, proposed : SUBSET NgActs]

NgTypeOK ==
    /\ ngRow \in [NgRuns -> NgRecords]
    /\ ngWork \in [NgRuns -> NgLocals]
    /\ ngKept \in [NgRuns -> SUBSET NgEntries]
    /\ ngTask \in [NgRuns -> {NgNone, "open", "closed"}]
    /\ ngAsk \in [NgRuns -> NgPapers]

NgPermits(allowed, kept) == \A e \in kept : NgClass(e[1]) \in allowed \cap {"R1", "R2"}

\* The locals of a run against what it has written and the task it made.
NgWorkSound(r, w, kept, task) ==
    /\ w.at = "idle" => kept = {}
    /\ NgPermits(w.allowed, kept)
    /\ w.listed \subseteq kept
    /\ w.at \in {"walk", "fallback"} => \A e \in kept : e \in w.listed \/ e[1] \in w.failed
    /\ w.at = "sought" =>
         /\ w.i <= Len(w.list) /\ w.list[w.i] = "missing"
         /\ NgClass("missing") \in w.allowed
         /\ \A e \in kept : \/ e \in w.listed \/ e[1] \in w.failed
                            \/ e = <<"missing", "task">> /\ w.found = r
         /\ w.found = r => <<"missing", "task">> \in kept
    /\ task = "open" => <<"missing", "task">> \in kept

\* What a brief that is not the fallback has to say of a row.
NgTells(brief, row) ==
    brief.by \in {"queue", "manual"} =>
        /\ brief.status = row.status /\ brief.failed = row.failed
        /\ row.proposed \subseteq brief.proposals
        /\ <<"missing", "need">> \in row.listed => "ui" \in brief.proposals

NgOver(row) == row.status \in NgEnds

\* The row of a run, and a brief that was built from it, against the run.
NgRowSound(w, row, kept, ask) ==
    /\ NgOver(row) => w.at = "done"
    /\ w.at \in {"walk", "sought", "fallback"} => row.status = "running"
    /\ ~NgOver(row) => row.brief = NgNoBrief /\ ask = NgNoBrief
    /\ NgOver(row) =>
         /\ \A e \in kept : e \in row.listed \/ e[1] \in row.failed
         /\ row.listed \subseteq kept
         /\ row.status = "succeeded" => row.failed = {} /\ row.proposed = {}
    /\ NgTells(row.brief, row) /\ NgTells(ask, row)

NgSound == \A r \in NgRuns : /\ NgWorkSound(r, ngWork[r], ngKept[r], ngTask[r])
                             /\ NgRowSound(ngWork[r], ngRow[r], ngKept[r], ngAsk[r])

NgInv == NgTypeOK /\ NgSound

\* The step that NgClosedForGood asks for.
NgFinal == \A r \in NgRuns : NgClosed(r) =>
    /\ ngRow'[r].status = ngRow[r].status
    /\ ngRow'[r].failed = ngRow[r].failed
    /\ ngRow'[r].listed = ngRow[r].listed

-----------------------------------------------------------------------------
LEMMA NgWantedSeq == \A a \in NgActs : \A req : NgWanted(a, req) \in Seq(NgActs)
  <1> SUFFICES ASSUME NEW a \in NgActs, NEW req PROVE NgWanted(a, req) \in Seq(NgActs)
    OBVIOUS
  <1>1. <<a>> \in Seq(NgActs) /\ <<>> \in Seq(NgActs)
    OBVIOUS
  <1> QED BY <1>1 DEF NgWanted

\* What a caller selects is a list of the actions.
LEMMA NgSelectedSeq == ASSUME NEW req PROVE NgSelected(req) \in Seq(NgActs)
  <1>1. CASE req = {}
    BY <1>1 DEF NgSelected, NgActions, NgActs
  <1>2. CASE req # {}
    <2> DEFINE W(a) == NgWanted(a, req)
    <2>1. \A a \in NgActs : W(a) \in Seq(NgActs)
      BY NgWantedSeq
    <2>2. \A s, t \in Seq(NgActs) : s \o t \in Seq(NgActs)
      BY ConcatProperties
    <2>3. /\ W("index") \in Seq(NgActs) /\ W("graph") \in Seq(NgActs)
          /\ W("context") \in Seq(NgActs) /\ W("missing") \in Seq(NgActs)
          /\ W("cache") \in Seq(NgActs) /\ W("improve") \in Seq(NgActs)
          /\ W("propose") \in Seq(NgActs)
      BY <2>1 DEF NgActs
    <2> HIDE DEF W
    <2>4. W("index") \o W("graph") \o W("context") \o W("missing") \o W("cache")
            \o W("improve") \o W("propose") \in Seq(NgActs)
      BY <2>2, <2>3
    <2> QED BY <1>2, <2>4 DEF NgSelected, W
  <1> QED BY <1>1, <1>2

LEMMA NgAllowedSet ==
    ASSUME NEW cls \in NgClasses
    PROVE  NgAllowed(cls) \in SUBSET {"R1", "R2", "R3", "R4", "R5"}
  BY NgAssumption DEF NgAllowed

\* The rows that are written, and their class.
LEMMA NgEntryClass ==
    /\ \A e \in NgEntries : e[1] \in NgActs \ {"index", "improve"}
    /\ \A a \in NgActs : NgWrites(a) \subseteq NgEntries \/ a \in {"missing", "improve"}
    /\ \A a \in NgActs \ {"missing", "improve"} : \A e \in NgWrites(a) : e \in NgEntries /\ e[1] = a
  BY DEF NgEntries, NgActs, NgWrites, NgCache, NgRollback

\* Two locals of a run that agree but for one field.
NgSame(v, w, f) ==
    /\ f = "at" \/ v.at = w.at
    /\ f = "list" \/ v.list = w.list
    /\ f = "i" \/ v.i = w.i
    /\ f = "allowed" \/ v.allowed = w.allowed
    /\ f = "found" \/ v.found = w.found
    /\ f = "failed" \/ v.failed = w.failed
    /\ f = "listed" \/ v.listed = w.listed
    /\ f = "proposed" \/ v.proposed = w.proposed

LEMMA NgPutAt ==
    \A w \in NgLocals : \A x \in {"idle", "walk", "sought", "fallback", "done"} :
        LET v == [w EXCEPT !.at = x] IN v \in NgLocals /\ v.at = x /\ NgSame(v, w, "at")
  BY DEF NgLocals, NgSame

LEMMA NgPutList ==
    \A w \in NgLocals : \A x \in Seq(NgActs) :
        LET v == [w EXCEPT !.list = x] IN v \in NgLocals /\ v.list = x /\ NgSame(v, w, "list")
  BY DEF NgLocals, NgSame

LEMMA NgPutI ==
    \A w \in NgLocals : \A x \in Nat \ {0} :
        LET v == [w EXCEPT !.i = x] IN v \in NgLocals /\ v.i = x /\ NgSame(v, w, "i")
  BY DEF NgLocals, NgSame

LEMMA NgPutAllowed ==
    \A w \in NgLocals : \A x \in SUBSET {"R1", "R2", "R3", "R4", "R5"} :
        LET v == [w EXCEPT !.allowed = x] IN v \in NgLocals /\ v.allowed = x /\ NgSame(v, w, "allowed")
  BY DEF NgLocals, NgSame

LEMMA NgPutFound ==
    \A w \in NgLocals : \A x \in NgRuns \cup {NgNone} :
        LET v == [w EXCEPT !.found = x] IN v \in NgLocals /\ v.found = x /\ NgSame(v, w, "found")
  BY DEF NgLocals, NgSame

LEMMA NgPutFailed ==
    \A w \in NgLocals : \A x \in SUBSET NgActs :
        LET v == [w EXCEPT !.failed = x] IN v \in NgLocals /\ v.failed = x /\ NgSame(v, w, "failed")
  BY DEF NgLocals, NgSame

LEMMA NgPutListed ==
    \A w \in NgLocals : \A x \in SUBSET NgEntries :
        LET v == [w EXCEPT !.listed = x] IN v \in NgLocals /\ v.listed = x /\ NgSame(v, w, "listed")
  BY DEF NgLocals, NgSame

LEMMA NgPutProposed ==
    \A w \in NgLocals : \A x \in SUBSET NgActs :
        LET v == [w EXCEPT !.proposed = x] IN v \in NgLocals /\ v.proposed = x /\ NgSame(v, w, "proposed")
  BY DEF NgLocals, NgSame

LEMMA NgTyped ==
    ASSUME NgTypeOK, NEW r \in NgRuns
    PROVE  /\ ngWork[r] \in NgLocals /\ ngRow[r] \in NgRecords /\ ngKept[r] \in SUBSET NgEntries
           /\ ngTask[r] \in {NgNone, "open", "closed"} /\ ngAsk[r] \in NgPapers
           /\ ngWork[r].list \in Seq(NgActs) /\ ngWork[r].i \in Nat \ {0}
           /\ ngWork[r].failed \in SUBSET NgActs /\ ngWork[r].listed \in SUBSET NgEntries
           /\ ngWork[r].proposed \in SUBSET NgActs
           /\ ngWork[r].allowed \in SUBSET {"R1", "R2", "R3", "R4", "R5"}
           /\ ngRow[r].status \in NgEnds \cup {"absent", "running"}
           /\ ngRow[r].failed \in SUBSET NgReports /\ ngRow[r].listed \in SUBSET NgEntries
           /\ ngRow[r].proposed \in SUBSET NgActs /\ ngRow[r].brief \in NgPapers
  BY DEF NgTypeOK, NgLocals, NgRecords

\* A function that keeps its values is one whose value at r is put back.
LEMMA NgKeeps ==
    ASSUME NgTypeOK, NEW r \in NgRuns
    PROVE  /\ ngRow = [ngRow EXCEPT ![r] = ngRow[r]]
           /\ ngWork = [ngWork EXCEPT ![r] = ngWork[r]]
           /\ ngKept = [ngKept EXCEPT ![r] = ngKept[r]]
           /\ ngTask = [ngTask EXCEPT ![r] = ngTask[r]]
           /\ ngAsk = [ngAsk EXCEPT ![r] = ngAsk[r]]
  BY DEF NgTypeOK

\* A step of one run: the run is sound afterwards and the others are untouched.
LEMMA NgOne ==
    ASSUME NgInv, NEW r \in NgRuns, NEW w \in NgLocals, NEW row \in NgRecords,
           NEW k \in SUBSET NgEntries, NEW t \in {NgNone, "open", "closed"}, NEW a \in NgPapers,
           ngWork' = [ngWork EXCEPT ![r] = w], ngRow' = [ngRow EXCEPT ![r] = row],
           ngKept' = [ngKept EXCEPT ![r] = k], ngTask' = [ngTask EXCEPT ![r] = t],
           ngAsk' = [ngAsk EXCEPT ![r] = a],
           NgWorkSound(r, w, k, t), NgRowSound(w, row, k, a),
           NgOver(ngRow[r]) => /\ row.status = ngRow[r].status
                               /\ row.failed = ngRow[r].failed /\ row.listed = ngRow[r].listed
    PROVE  NgInv' /\ NgFinal
  <1>1. NgTypeOK /\ NgSound
    BY DEF NgInv
  <1>2. NgTypeOK'
    BY <1>1 DEF NgTypeOK
  <1>3. /\ ngWork'[r] = w /\ ngRow'[r] = row /\ ngKept'[r] = k /\ ngTask'[r] = t /\ ngAsk'[r] = a
        /\ \A q \in NgRuns : q # r => /\ ngWork'[q] = ngWork[q] /\ ngRow'[q] = ngRow[q]
                                      /\ ngKept'[q] = ngKept[q] /\ ngTask'[q] = ngTask[q]
                                      /\ ngAsk'[q] = ngAsk[q]
    BY <1>1 DEF NgTypeOK
  <1>4. NgSound'
    <2> SUFFICES ASSUME NEW q \in NgRuns
                 PROVE  /\ NgWorkSound(q, ngWork'[q], ngKept'[q], ngTask'[q])
                        /\ NgRowSound(ngWork'[q], ngRow'[q], ngKept'[q], ngAsk'[q])
      BY DEF NgSound
    <2>1. CASE q = r
      BY <1>3, <2>1
    <2>2. CASE q # r
      BY <1>1, <1>3, <2>2 DEF NgSound
    <2> QED BY <2>1, <2>2
  <1>5. NgFinal
    <2> SUFFICES ASSUME NEW q \in NgRuns, NgClosed(q)
                 PROVE  /\ ngRow'[q].status = ngRow[q].status
                        /\ ngRow'[q].failed = ngRow[q].failed
                        /\ ngRow'[q].listed = ngRow[q].listed
      BY DEF NgFinal
    <2>1. CASE q = r
      BY <1>3, <2>1 DEF NgClosed, NgOver, NgEnds
    <2>2. CASE q # r
      BY <1>3, <2>2
    <2> QED BY <2>1, <2>2
  <1> QED BY <1>2, <1>4, <1>5 DEF NgInv

\* A step of a run that has not ended and leaves its row alone: only the
\* locals, the rows written and the task count.
LEMMA NgWorks ==
    ASSUME NgInv, NEW r \in NgRuns, NEW w \in NgLocals,
           NEW k \in SUBSET NgEntries, NEW t \in {NgNone, "open", "closed"},
           ngWork' = [ngWork EXCEPT ![r] = w], ngKept' = [ngKept EXCEPT ![r] = k],
           ngTask' = [ngTask EXCEPT ![r] = t], ngRow' = ngRow, ngAsk' = ngAsk,
           ngWork[r].at \in {"walk", "sought", "fallback"},
           w.at \in {"walk", "sought", "fallback", "done"},
           NgWorkSound(r, w, k, t)
    PROVE  NgInv' /\ NgFinal
  <1>1. NgTypeOK /\ NgRowSound(ngWork[r], ngRow[r], ngKept[r], ngAsk[r])
    BY DEF NgInv, NgSound
  <1>2. ngRow[r].status = "running" /\ ~NgOver(ngRow[r])
    BY <1>1 DEF NgRowSound, NgOver, NgEnds
  <1>3. NgRowSound(w, ngRow[r], k, ngAsk[r])
    BY <1>1, <1>2 DEF NgRowSound
  <1>4. ngRow' = [ngRow EXCEPT ![r] = ngRow[r]] /\ ngAsk' = [ngAsk EXCEPT ![r] = ngAsk[r]]
    BY <1>1, NgKeeps
  <1>5. ngRow[r] \in NgRecords /\ ngAsk[r] \in NgPapers
    BY <1>1 DEF NgTypeOK
  <1>6. NgOver(ngRow[r]) => /\ ngRow[r].status = ngRow[r].status
                            /\ ngRow[r].failed = ngRow[r].failed
                            /\ ngRow[r].listed = ngRow[r].listed
    OBVIOUS
  <1> HIDE DEF NgRowSound
  <1> QED BY ONLY <1>3, <1>4, <1>5, <1>6, NgOne, NgInv, r \in NgRuns, w \in NgLocals,
             k \in SUBSET NgEntries, t \in {NgNone, "open", "closed"},
             ngWork' = [ngWork EXCEPT ![r] = w], ngKept' = [ngKept EXCEPT ![r] = k],
             ngTask' = [ngTask EXCEPT ![r] = t], NgWorkSound(r, w, k, t)

LEMMA NgIdleOK ==
    NgIdle \in NgLocals /\ NgIdle.at = "idle" /\ NgIdle.listed = {} /\ NgIdle.failed = {}
  <1>1. <<>> \in Seq(NgActs)
    OBVIOUS
  <1> QED BY <1>1 DEF NgIdle, NgLocals

LEMMA NgInitInv == NgInit => NgInv
  <1> SUFFICES ASSUME NgInit PROVE NgInv
    OBVIOUS
  <1>1. NgNoBrief \in NgPapers /\ NgNoBrief.by = NgNone
    BY DEF NgNoBrief, NgBriefs, NgPapers
  <1>2. /\ NgAbsent \in NgRecords /\ NgAbsent.status = "absent" /\ NgAbsent.brief = NgNoBrief
    BY <1>1 DEF NgAbsent, NgRecords
  <1>3. NgIdle \in NgLocals /\ NgIdle.at = "idle" /\ NgIdle.listed = {}
    BY NgIdleOK
  <1>4. NgTypeOK
    BY <1>1, <1>2, <1>3 DEF NgInit, NgTypeOK
  <1>5. ASSUME NEW r \in NgRuns
        PROVE  /\ NgWorkSound(r, ngWork[r], ngKept[r], ngTask[r])
               /\ NgRowSound(ngWork[r], ngRow[r], ngKept[r], ngAsk[r])
    <2>1. /\ ngWork[r] = NgIdle /\ ngKept[r] = {} /\ ngTask[r] = NgNone
          /\ ngRow[r] = NgAbsent /\ ngAsk[r] = NgNoBrief
      BY DEF NgInit
    <2>2. NgWorkSound(r, ngWork[r], ngKept[r], ngTask[r])
      BY <2>1, <1>3, NgAssumption DEF NgWorkSound, NgPermits
    <2>3. NgRowSound(ngWork[r], ngRow[r], ngKept[r], ngAsk[r])
      BY <2>1, <1>1, <1>2, <1>3, NgAssumption DEF NgRowSound, NgOver, NgEnds, NgTells
    <2> QED BY <2>2, <2>3
  <1> QED BY <1>4, <1>5 DEF NgInv, NgSound

-----------------------------------------------------------------------------
LEMMA NgStartStep == ASSUME NgInv, NEW r \in NgRuns, NgStart(r) PROVE NgInv' /\ NgFinal
  <1>1. NgTypeOK /\ NgWorkSound(r, ngWork[r], ngKept[r], ngTask[r])
        /\ NgRowSound(ngWork[r], ngRow[r], ngKept[r], ngAsk[r])
    BY DEF NgInv, NgSound
  <1>2. PICK req \in NgRequested, cls \in NgClasses :
           ngWork' = [ngWork EXCEPT ![r] = [NgIdle EXCEPT !.at = "walk",
                                            !.list = NgSelected(req), !.allowed = NgAllowed(cls)]]
    BY DEF NgStart
  <1> DEFINE w1 == [NgIdle EXCEPT !.at = "walk"]
             w2 == [w1 EXCEPT !.list = NgSelected(req)]
             w == [w2 EXCEPT !.allowed = NgAllowed(cls)]
             row == [ngRow[r] EXCEPT !.status = "running"]
  <1>3. ngWork' = [ngWork EXCEPT ![r] = w]
    BY <1>2
  <1>a. NgIdle \in NgLocals /\ NgIdle.listed = {} /\ NgIdle.failed = {}
    BY NgIdleOK
  <1>b. w1 \in NgLocals /\ w1.at = "walk" /\ NgSame(w1, NgIdle, "at")
    BY <1>a, NgPutAt
  <1>c. w2 \in NgLocals /\ NgSame(w2, w1, "list")
    <2> HIDE DEF w1
    <2> QED BY <1>b, NgSelectedSeq, NgPutList
  <1>4. w \in NgLocals /\ NgSame(w, w2, "allowed")
    <2> HIDE DEF w2
    <2> QED BY <1>c, NgAllowedSet, NgPutAllowed
  <1> HIDE DEF w1, w2, w
  <1>5. w.at = "walk" /\ w.listed = {} /\ w.failed = {}
    BY <1>a, <1>b, <1>c, <1>4 DEF NgSame
  <1>6. ngKept[r] = {} /\ ngTask[r] # "open" /\ ~NgOver(ngRow[r])
    BY <1>1 DEF NgStart, NgWorkSound, NgRowSound
  <1>7. /\ row \in NgRecords /\ row.status = "running" /\ row.brief = ngRow[r].brief
        /\ ngRow' = [ngRow EXCEPT ![r] = row]
    <2>1. ngRow[r] \in NgRecords
      BY <1>1 DEF NgTypeOK
    <2>2. row \in NgRecords /\ row.status = "running" /\ row.brief = ngRow[r].brief
      BY <2>1 DEF NgRecords
    <2>3. ngRow' = [ngRow EXCEPT ![r] = row]
      BY DEF NgStart
    <2> QED BY <2>2, <2>3
  <1> HIDE DEF row
  <1>8. NgWorkSound(r, w, ngKept[r], ngTask[r])
    BY <1>5, <1>6 DEF NgWorkSound, NgPermits
  <1>9. NgRowSound(w, row, ngKept[r], ngAsk[r])
    <2>1. ngRow[r].brief = NgNoBrief /\ ngAsk[r] = NgNoBrief
      BY <1>1, <1>6 DEF NgRowSound
    <2>2. ~NgOver(row)
      BY <1>7 DEF NgOver, NgEnds
    <2>3. \A x : NgTells(NgNoBrief, x)
      BY NgAssumption DEF NgTells, NgNoBrief, NgBriefs
    <2> QED BY <2>1, <2>2, <2>3, <1>5, <1>7 DEF NgRowSound
  <1>10. /\ ngKept' = [ngKept EXCEPT ![r] = ngKept[r]] /\ ngTask' = [ngTask EXCEPT ![r] = ngTask[r]]
         /\ ngAsk' = [ngAsk EXCEPT ![r] = ngAsk[r]]
    BY <1>1, NgKeeps DEF NgStart
  <1>11. /\ ngKept[r] \in SUBSET NgEntries /\ ngTask[r] \in {NgNone, "open", "closed"}
         /\ ngAsk[r] \in NgPapers
    BY <1>1 DEF NgTypeOK
  <1> QED BY <1>3, <1>4, <1>6, <1>7, <1>8, <1>9, <1>10, <1>11, NgOne, ZenonT(40)

\* The action a run is at is one of the list.
LEMMA NgAtAction ==
    ASSUME NgTypeOK, NEW r \in NgRuns, ngWork[r].i <= Len(ngWork[r].list)
    PROVE  NgNow(r) \in NgActs
  <1>1. ngWork[r].list \in Seq(NgActs) /\ ngWork[r].i \in Nat \ {0}
    BY NgTyped
  <1> QED BY <1>1, ElementOfSeq DEF NgNow

LEMMA NgBlockStep == ASSUME NgInv, NEW r \in NgRuns, NgBlock(r) PROVE NgInv' /\ NgFinal
  <1> DEFINE w == ngWork[r]
             a == NgNow(r)
             w1 == [w EXCEPT !.i = w.i + 1]
             w2 == [w1 EXCEPT !.failed = w1.failed \cup {a}]
             w3 == [w2 EXCEPT !.proposed = w2.proposed \cup {a}]
  <1>1. NgTypeOK /\ NgWorkSound(r, w, ngKept[r], ngTask[r]) /\ w.at = "walk"
    BY DEF NgInv, NgSound, NgBlock, NgWalks
  <1>2. w \in NgLocals /\ a \in NgActs /\ w.i + 1 \in Nat \ {0}
    BY <1>1, NgTyped, NgAtAction DEF NgBlock, NgWalks
  <1>3. w1 \in NgLocals /\ w1.i = w.i + 1 /\ NgSame(w1, w, "i")
    BY <1>2, NgPutI
  <1>4. w1.failed \cup {a} \in SUBSET NgActs
    BY <1>2, <1>3 DEF NgLocals
  <1>5. w2 \in NgLocals /\ w2.failed = w1.failed \cup {a} /\ NgSame(w2, w1, "failed")
    <2> HIDE DEF w1
    <2> QED BY <1>3, <1>4, NgPutFailed
  <1>6. w2.proposed \cup {a} \in SUBSET NgActs
    BY <1>2, <1>5 DEF NgLocals
  <1>7. w3 \in NgLocals /\ NgSame(w3, w2, "proposed")
    <2> HIDE DEF w2
    <2> QED BY <1>5, <1>6, NgPutProposed
  <1>8. ngWork' = [ngWork EXCEPT ![r] = w3]
    <2>1. w1.failed = w.failed /\ w2.proposed = w.proposed
      BY <1>3, <1>5 DEF NgSame
    <2>2. ngWork' = [ngWork EXCEPT ![r] = [[[ngWork[r] EXCEPT !.i = ngWork[r].i + 1]
                        EXCEPT !.failed = ngWork[r].failed \cup {a}]
                        EXCEPT !.proposed = ngWork[r].proposed \cup {a}]]
      BY DEF NgBlock
    <2> QED BY <2>1, <2>2
  <1> HIDE DEF w1, w2, w3
  <1>9. /\ w3.at = "walk" /\ w3.allowed = w.allowed /\ w3.listed = w.listed
        /\ w3.failed = w.failed \cup {a}
    BY <1>1, <1>3, <1>5, <1>7 DEF NgSame
  <1>10. NgWorkSound(r, w3, ngKept[r], ngTask[r])
    BY <1>1, <1>9 DEF NgWorkSound
  <1>11. /\ ngKept' = [ngKept EXCEPT ![r] = ngKept[r]] /\ ngTask' = [ngTask EXCEPT ![r] = ngTask[r]]
         /\ ngRow' = ngRow /\ ngAsk' = ngAsk
    BY <1>1, NgKeeps DEF NgBlock
  <1>12. /\ ngKept[r] \in SUBSET NgEntries /\ ngTask[r] \in {NgNone, "open", "closed"}
    BY <1>1 DEF NgTypeOK
  <1> QED BY <1>1, <1>7, <1>8, <1>9, <1>10, <1>11, <1>12, NgWorks

LEMMA NgExecuteStep == ASSUME NgInv, NEW r \in NgRuns, NgExecute(r) PROVE NgInv' /\ NgFinal
  <1> DEFINE w == ngWork[r]
             a == NgNow(r)
             k == ngKept[r] \cup NgWrites(a)
             w1 == [w EXCEPT !.i = w.i + 1]
             w2 == [w1 EXCEPT !.listed = w1.listed \cup NgWrites(a)]
             w3 == [w2 EXCEPT !.proposed = w2.proposed \cup ({a} \cap {"propose"})]
  <1>1. NgTypeOK /\ NgWorkSound(r, w, ngKept[r], ngTask[r]) /\ w.at = "walk"
    BY DEF NgInv, NgSound, NgExecute, NgWalks
  <1>2. w \in NgLocals /\ a \in NgActs \ {"missing", "improve"} /\ w.i + 1 \in Nat \ {0}
    BY <1>1, NgTyped, NgAtAction DEF NgExecute, NgWalks
  <1>w. \A e \in NgWrites(a) : e \in NgEntries /\ e[1] = a
    BY <1>2, NgEntryClass
  <1>3. w1 \in NgLocals /\ w1.i = w.i + 1 /\ NgSame(w1, w, "i")
    BY <1>2, NgPutI
  <1>4. w1.listed \cup NgWrites(a) \in SUBSET NgEntries
    BY <1>w, <1>3 DEF NgLocals
  <1>5. w2 \in NgLocals /\ w2.listed = w1.listed \cup NgWrites(a) /\ NgSame(w2, w1, "listed")
    <2> HIDE DEF w1
    <2> QED BY <1>3, <1>4, NgPutListed
  <1>6. w2.proposed \cup ({a} \cap {"propose"}) \in SUBSET NgActs
    BY <1>2, <1>5 DEF NgLocals
  <1>7. w3 \in NgLocals /\ NgSame(w3, w2, "proposed")
    <2> HIDE DEF w2
    <2> QED BY <1>5, <1>6, NgPutProposed
  <1>8. ngWork' = [ngWork EXCEPT ![r] = w3]
    <2>1. w1.listed = w.listed /\ w2.proposed = w.proposed
      BY <1>3, <1>5 DEF NgSame
    <2>2. ngWork' = [ngWork EXCEPT ![r] = [[[ngWork[r] EXCEPT !.i = ngWork[r].i + 1]
                        EXCEPT !.listed = ngWork[r].listed \cup NgWrites(a)]
                        EXCEPT !.proposed = ngWork[r].proposed \cup ({a} \cap {"propose"})]]
      BY DEF NgExecute
    <2> QED BY <2>1, <2>2
  <1> HIDE DEF w1, w2, w3
  <1>9. /\ w3.at = "walk" /\ w3.allowed = w.allowed /\ w3.failed = w.failed
        /\ w3.listed = w.listed \cup NgWrites(a)
    BY <1>1, <1>3, <1>5, <1>7 DEF NgSame
  <1>10. NgClass(a) \in w.allowed \cap {"R1", "R2"}
    BY DEF NgExecute, NgBlocked, NgExecutionAllowed
  <1>11. NgWorkSound(r, w3, k, ngTask[r])
    BY <1>1, <1>w, <1>9, <1>10 DEF NgWorkSound, NgPermits
  <1>12. /\ ngKept' = [ngKept EXCEPT ![r] = k] /\ ngTask' = [ngTask EXCEPT ![r] = ngTask[r]]
         /\ ngRow' = ngRow /\ ngAsk' = ngAsk
    BY <1>1, NgKeeps DEF NgExecute
  <1>13. /\ k \in SUBSET NgEntries /\ ngTask[r] \in {NgNone, "open", "closed"}
    BY <1>1, <1>w DEF NgTypeOK
  <1> QED BY <1>1, <1>7, <1>8, <1>9, <1>11, <1>12, <1>13, NgWorks

LEMMA NgSeekStep == ASSUME NgInv, NEW r \in NgRuns, NgSeek(r) PROVE NgInv' /\ NgFinal
  <1>1. NgTypeOK /\ NgWorkSound(r, ngWork[r], ngKept[r], ngTask[r]) /\ ngWork[r].at = "walk"
    BY DEF NgInv, NgSound, NgSeek, NgWalks
  <1>2. PICK t \in NgRuns \cup {NgNone} :
           /\ t \in NgRuns => ngTask[t] = "open"
           /\ ngWork' = [ngWork EXCEPT ![r].at = "sought", ![r].found = t]
    BY NgAssumption DEF NgSeek
  <1> DEFINE w == ngWork[r]
             w1 == [w EXCEPT !.at = "sought"]
             w2 == [w1 EXCEPT !.found = t]
  <1>3. w \in NgLocals
    BY <1>1, NgTyped
  <1>4. w1 \in NgLocals /\ w1.at = "sought" /\ NgSame(w1, w, "at")
    BY <1>3, NgPutAt
  <1>5. w2 \in NgLocals /\ w2.found = t /\ NgSame(w2, w1, "found")
    <2> HIDE DEF w1
    <2> QED BY <1>4, NgPutFound
  <1>6. ngWork' = [ngWork EXCEPT ![r] = w2]
    BY <1>2
  <1> HIDE DEF w1, w2
  <1>7. /\ w2.at = "sought" /\ w2.i = w.i /\ w2.list = w.list /\ w2.allowed = w.allowed
        /\ w2.failed = w.failed /\ w2.listed = w.listed /\ w2.found = t
    BY <1>4, <1>5 DEF NgSame
  <1>8. /\ w.i <= Len(w.list) /\ w.list[w.i] = "missing" /\ NgClass("missing") \in w.allowed
    BY DEF NgSeek, NgWalks, NgNow, NgBlocked
  <1>9. t = r => <<"missing", "task">> \in ngKept[r]
    BY <1>1, <1>2 DEF NgWorkSound
  <1>10. NgWorkSound(r, w2, ngKept[r], ngTask[r])
    BY <1>1, <1>7, <1>8, <1>9 DEF NgWorkSound
  <1>11. /\ ngKept' = [ngKept EXCEPT ![r] = ngKept[r]] /\ ngTask' = [ngTask EXCEPT ![r] = ngTask[r]]
         /\ ngRow' = ngRow /\ ngAsk' = ngAsk
    BY <1>1, NgKeeps DEF NgSeek
  <1>12. /\ ngKept[r] \in SUBSET NgEntries /\ ngTask[r] \in {NgNone, "open", "closed"}
    BY <1>1 DEF NgTypeOK
  <1> QED BY <1>1, <1>5, <1>6, <1>7, <1>10, <1>11, <1>12, NgWorks

LEMMA NgMissingClass == NgClass("missing") = "R2"
  BY DEF NgClass

LEMMA NgMakeTaskStep == ASSUME NgInv, NEW r \in NgRuns, NgMakeTask(r) PROVE NgInv' /\ NgFinal
  <1> DEFINE w == ngWork[r]
             w1 == [w EXCEPT !.found = r]
             e == <<"missing", "task">>
             k == ngKept[r] \cup {e}
  <1>1. NgTypeOK /\ NgWorkSound(r, w, ngKept[r], ngTask[r]) /\ w.at = "sought" /\ w.found = NgNone
    BY DEF NgInv, NgSound, NgMakeTask
  <1>2. w \in NgLocals
    BY <1>1, NgTyped
  <1>3. w1 \in NgLocals /\ w1.found = r /\ NgSame(w1, w, "found")
    BY <1>2, NgPutFound
  <1>4. /\ ngWork' = [ngWork EXCEPT ![r] = w1] /\ ngKept' = [ngKept EXCEPT ![r] = k]
        /\ ngTask' = [ngTask EXCEPT ![r] = "open"] /\ ngRow' = ngRow /\ ngAsk' = ngAsk
    BY DEF NgMakeTask
  <1> HIDE DEF w1
  <1>5. e \in NgEntries /\ k \in SUBSET NgEntries /\ e[1] = "missing"
    BY <1>1 DEF NgEntries, NgTypeOK
  <1>6. w.found # r
    BY <1>1, NgAssumption
  <1>7. \A x \in ngKept[r] : x \in w.listed \/ x[1] \in w.failed
    BY <1>1, <1>6 DEF NgWorkSound
  <1>8. NgPermits(w.allowed, k)
    BY <1>1, <1>5, NgMissingClass DEF NgPermits, NgWorkSound
  <1> HIDE DEF e
  <1>9. NgWorkSound(r, w1, k, "open")
    <2>1. /\ w1.at = "sought" /\ w1.i = w.i /\ w1.list = w.list /\ w1.allowed = w.allowed
          /\ w1.failed = w.failed /\ w1.listed = w.listed /\ w1.found = r
      BY <1>1, <1>3 DEF NgSame
    <2> QED BY <1>1, <1>7, <1>8, <2>1 DEF NgWorkSound, e
  <1> QED BY <1>1, <1>3, <1>4, <1>5, <1>9, NgWorks DEF NgSame

LEMMA NgNeedStep == ASSUME NgInv, NEW r \in NgRuns, NgNeed(r) PROVE NgInv' /\ NgFinal
  <1> DEFINE w == ngWork[r]
             new == {<<"missing", "need">>}
             own == IF w.found = r THEN {<<"missing", "task">>} ELSE {}
             k == ngKept[r] \cup new
             w1 == [w EXCEPT !.at = "walk"]
             w2 == [w1 EXCEPT !.i = w1.i + 1]
             w3 == [w2 EXCEPT !.found = NgNone]
             w4 == [w3 EXCEPT !.listed = w3.listed \cup new \cup own]
  <1>1. NgTypeOK /\ NgWorkSound(r, w, ngKept[r], ngTask[r]) /\ w.at = "sought"
    BY DEF NgInv, NgSound, NgNeed
  <1>2. w \in NgLocals /\ w.i \in Nat \ {0}
    BY <1>1, NgTyped
  <1>3. new \cup own \subseteq NgEntries /\ (\A e \in new \cup own : e[1] = "missing")
    BY DEF NgEntries
  <1>4. w1 \in NgLocals /\ w1.at = "walk" /\ NgSame(w1, w, "at")
    BY <1>2, NgPutAt
  <1>5. w1.i + 1 \in Nat \ {0}
    BY <1>2, <1>4 DEF NgSame
  <1>6. w2 \in NgLocals /\ NgSame(w2, w1, "i")
    <2> HIDE DEF w1
    <2> QED BY <1>4, <1>5, NgPutI
  <1>7. w3 \in NgLocals /\ NgSame(w3, w2, "found")
    <2> HIDE DEF w2
    <2> QED BY <1>6, NgPutFound
  <1>8. w3.listed \cup new \cup own \in SUBSET NgEntries
    <2> HIDE DEF w3, new, own
    <2> QED BY <1>3, <1>7 DEF NgLocals
  <1>9. w4 \in NgLocals /\ w4.listed = w3.listed \cup new \cup own /\ NgSame(w4, w3, "listed")
    <2> HIDE DEF w3, new, own
    <2> QED BY <1>7, <1>8, NgPutListed
  <1>10. ngWork' = [ngWork EXCEPT ![r] = w4]
    <2>1. w1.i = w.i /\ w3.listed = w.listed
      BY <1>4, <1>6, <1>7 DEF NgSame
    <2>2. ngWork' = [ngWork EXCEPT ![r] = [[[[w EXCEPT !.at = "walk"] EXCEPT !.i = w.i + 1]
                        EXCEPT !.found = NgNone] EXCEPT !.listed = w.listed \cup new \cup own]]
      BY DEF NgNeed
    <2> QED BY <2>1, <2>2
  <1> HIDE DEF w1, w2, w3, w4, new
  <1>11. /\ w4.at = "walk" /\ w4.allowed = w.allowed /\ w4.failed = w.failed
         /\ w4.listed = w.listed \cup new \cup own
    BY <1>4, <1>6, <1>7, <1>9 DEF NgSame
  <1>12. NgPermits(w.allowed, k)
    BY <1>1, <1>3, NgMissingClass DEF NgPermits, NgWorkSound
  <1>13. own \subseteq ngKept[r]
    BY <1>1 DEF NgWorkSound
  <1>14. \A e \in k : e \in w4.listed \/ e[1] \in w.failed
    BY <1>1, <1>11 DEF NgWorkSound
  <1>15. NgWorkSound(r, w4, k, ngTask[r])
    <2> HIDE DEF own, k
    <2>1. w4.listed \subseteq k
      BY <1>1, <1>11, <1>13 DEF NgWorkSound, k
    <2> QED BY <1>1, <1>11, <1>12, <1>14, <2>1 DEF NgWorkSound, k
  <1>16. /\ ngKept' = [ngKept EXCEPT ![r] = k] /\ ngTask' = [ngTask EXCEPT ![r] = ngTask[r]]
         /\ ngRow' = ngRow /\ ngAsk' = ngAsk
    BY <1>1, NgKeeps DEF NgNeed, new
  <1>17. /\ k \in SUBSET NgEntries /\ ngTask[r] \in {NgNone, "open", "closed"}
    BY <1>1, <1>3 DEF NgTypeOK
  <1> QED BY <1>1, <1>9, <1>10, <1>11, <1>15, <1>16, <1>17, NgWorks

LEMMA NgCloseTaskStep == ASSUME NgInv, NEW r \in NgRuns, NgCloseTask(r) PROVE NgInv' /\ NgFinal
  <1>1. NgTypeOK /\ NgWorkSound(r, ngWork[r], ngKept[r], ngTask[r])
        /\ NgRowSound(ngWork[r], ngRow[r], ngKept[r], ngAsk[r])
    BY DEF NgInv, NgSound
  <1>2. NgWorkSound(r, ngWork[r], ngKept[r], "closed")
    BY <1>1 DEF NgWorkSound
  <1>3. /\ ngKept' = [ngKept EXCEPT ![r] = ngKept[r]] /\ ngTask' = [ngTask EXCEPT ![r] = "closed"]
        /\ ngRow' = [ngRow EXCEPT ![r] = ngRow[r]] /\ ngAsk' = [ngAsk EXCEPT ![r] = ngAsk[r]]
        /\ ngWork' = [ngWork EXCEPT ![r] = ngWork[r]]
    BY <1>1, NgKeeps DEF NgCloseTask
  <1>4. /\ ngKept[r] \in SUBSET NgEntries /\ ngWork[r] \in NgLocals /\ ngRow[r] \in NgRecords
        /\ ngAsk[r] \in NgPapers
    BY <1>1 DEF NgTypeOK
  <1> QED BY <1>1, <1>2, <1>3, <1>4, NgOne

\* The locals after an exception.
LEMMA NgFailedLocals ==
    ASSUME NEW w \in NgLocals, NEW a \in NgActs
    PROVE  /\ NgFailed(w, a) \in NgLocals
           /\ NgFailed(w, a).at = "walk" /\ NgFailed(w, a).allowed = w.allowed
           /\ NgFailed(w, a).listed = w.listed /\ NgFailed(w, a).failed = w.failed \cup {a}
  <1> DEFINE w1 == [w EXCEPT !.at = "walk"]
             w2 == [w1 EXCEPT !.i = w1.i + 1]
             w3 == [w2 EXCEPT !.found = NgNone]
             w4 == [w3 EXCEPT !.failed = w3.failed \cup {a}]
  <1>1. w.i \in Nat \ {0}
    BY DEF NgLocals
  <1>2. w1 \in NgLocals /\ w1.at = "walk" /\ NgSame(w1, w, "at")
    BY NgPutAt
  <1>3. w1.i + 1 \in Nat \ {0}
    BY <1>1, <1>2 DEF NgSame
  <1>4. w2 \in NgLocals /\ NgSame(w2, w1, "i")
    <2> HIDE DEF w1
    <2> QED BY <1>2, <1>3, NgPutI
  <1>5. w3 \in NgLocals /\ NgSame(w3, w2, "found")
    <2> HIDE DEF w2
    <2> QED BY <1>4, NgPutFound
  <1>6. w3.failed \cup {a} \in SUBSET NgActs
    <2> HIDE DEF w3
    <2> QED BY <1>5 DEF NgLocals
  <1>7. w4 \in NgLocals /\ w4.failed = w3.failed \cup {a} /\ NgSame(w4, w3, "failed")
    <2> HIDE DEF w3
    <2> QED BY <1>5, <1>6, NgPutFailed
  <1>8. NgFailed(w, a) = w4
    <2>1. w1.i = w.i /\ w3.failed = w.failed
      BY <1>2, <1>4, <1>5 DEF NgSame
    <2>2. NgFailed(w, a) = [[[[w EXCEPT !.at = "walk"] EXCEPT !.i = w.i + 1]
                        EXCEPT !.found = NgNone] EXCEPT !.failed = w.failed \cup {a}]
      BY DEF NgFailed
    <2> QED BY <2>1, <2>2
  <1> HIDE DEF w1, w2, w3, w4
  <1>9. /\ w4.at = "walk" /\ w4.allowed = w.allowed /\ w4.listed = w.listed
        /\ w4.failed = w.failed \cup {a}
    BY <1>2, <1>4, <1>5, <1>7 DEF NgSame
  <1> QED BY <1>7, <1>8, <1>9

LEMMA NgRaiseStep == ASSUME NgInv, NEW r \in NgRuns, NgRaise(r) PROVE NgInv' /\ NgFinal
  <1> DEFINE w == ngWork[r]
             a == NgNow(r)
             v == NgFailed(w, a)
  <1>1. NgTypeOK /\ NgWorkSound(r, w, ngKept[r], ngTask[r]) /\ w.at \in {"walk", "sought"}
    BY DEF NgInv, NgSound, NgRaise, NgWalks
  <1>2. w \in NgLocals /\ a \in NgActs
    <2>1. w.i <= Len(w.list)
      BY <1>1 DEF NgRaise, NgWalks, NgWorkSound
    <2> QED BY <1>1, <2>1, NgAtAction DEF NgTypeOK
  <1>3. /\ v \in NgLocals /\ v.at = "walk" /\ v.allowed = w.allowed
        /\ v.listed = w.listed /\ v.failed = w.failed \cup {a}
    BY <1>2, NgFailedLocals
  <1>4. /\ ngWork' = [ngWork EXCEPT ![r] = v] /\ ngKept' = [ngKept EXCEPT ![r] = ngKept[r]]
        /\ ngTask' = [ngTask EXCEPT ![r] = ngTask[r]] /\ ngRow' = ngRow /\ ngAsk' = ngAsk
    BY <1>1, NgKeeps DEF NgRaise
  <1> HIDE DEF v
  <1>5. \A e \in ngKept[r] : e \in w.listed \/ e[1] \in w.failed \/ e[1] = a
    <2>1. w.at = "sought" => a = "missing"
      BY <1>1 DEF NgWorkSound, NgNow
    <2>2. <<"missing", "task">>[1] = "missing"
      OBVIOUS
    <2> QED BY <1>1, <2>1, <2>2 DEF NgWorkSound
  <1>6. NgWorkSound(r, v, ngKept[r], ngTask[r])
    BY <1>1, <1>3, <1>5 DEF NgWorkSound
  <1>7. /\ ngKept[r] \in SUBSET NgEntries /\ ngTask[r] \in {NgNone, "open", "closed"}
    BY <1>1 DEF NgTypeOK
  <1> QED BY <1>1, <1>3, <1>4, <1>6, <1>7, NgWorks

\* Only where a run stands changes: it ends, or goes to the fallback.
LEMMA NgMoves ==
    ASSUME NgInv, NEW r \in NgRuns, NEW x \in {"fallback", "done"},
           x = "fallback" => ngWork[r].at = "walk"
    PROVE  LET w == [ngWork[r] EXCEPT !.at = x] IN
           w \in NgLocals /\ w.at = x /\ NgWorkSound(r, w, ngKept[r], ngTask[r])
  <1> DEFINE w == [ngWork[r] EXCEPT !.at = x]
  <1>1. NgTypeOK /\ NgWorkSound(r, ngWork[r], ngKept[r], ngTask[r])
    BY DEF NgInv, NgSound
  <1>2. w \in NgLocals /\ w.at = x /\ NgSame(w, ngWork[r], "at")
    <2>1. ngWork[r] \in NgLocals
      BY <1>1 DEF NgTypeOK
    <2>2. x \in {"idle", "walk", "sought", "fallback", "done"}
      OBVIOUS
    <2> QED BY <2>1, <2>2, NgPutAt
  <1> HIDE DEF w
  <1>3. NgWorkSound(r, w, ngKept[r], ngTask[r])
    BY <1>1, <1>2 DEF NgWorkSound, NgSame
  <1> QED BY <1>2, <1>3 DEF w

LEMMA NgStopStep ==
    ASSUME NgInv, NEW r \in NgRuns, NgFinishRaises(r) \/ NgCrash(r)
    PROVE  NgInv' /\ NgFinal
  <1>1. PICK x \in {"fallback", "done"} :
           /\ ngWork' = [ngWork EXCEPT ![r].at = x]
           /\ x = "fallback" => ngWork[r].at = "walk"
           /\ ngWork[r].at \in {"walk", "sought", "fallback"}
           /\ UNCHANGED <<ngRow, ngKept, ngTask, ngAsk>>
    <2>1. CASE NgFinishRaises(r)
      BY <2>1 DEF NgFinishRaises
    <2>2. CASE NgCrash(r)
      <3>1. ngWork[r].at \in {"idle", "walk", "sought", "fallback", "done"}
        BY DEF NgInv, NgTypeOK, NgLocals
      <3> QED BY <2>2, <3>1 DEF NgCrash
    <2> QED BY <2>1, <2>2
  <1> DEFINE w == [ngWork[r] EXCEPT !.at = x]
  <1>2. w \in NgLocals /\ w.at = x /\ NgWorkSound(r, w, ngKept[r], ngTask[r])
    BY <1>1, NgMoves
  <1>3. NgTypeOK
    BY DEF NgInv
  <1>4. /\ ngWork' = [ngWork EXCEPT ![r] = w] /\ ngKept' = [ngKept EXCEPT ![r] = ngKept[r]]
        /\ ngTask' = [ngTask EXCEPT ![r] = ngTask[r]] /\ ngRow' = ngRow /\ ngAsk' = ngAsk
    BY <1>1, <1>3, NgKeeps
  <1>5. /\ ngKept[r] \in SUBSET NgEntries /\ ngTask[r] \in {NgNone, "open", "closed"}
    BY <1>3 DEF NgTypeOK
  <1>6. w.at \in {"walk", "sought", "fallback", "done"}
    BY <1>2
  <1> HIDE DEF w
  <1>7. ngWork[r].at \in {"walk", "sought", "fallback"}
    BY <1>1
  <1> QED BY <1>2, <1>4, <1>5, <1>6, <1>7, NgWorks, ZenonT(60)

\* A run is closed: what it accounts for is what it wrote, and the brief tells.
LEMMA NgCloses ==
    ASSUME NgInv, NEW r \in NgRuns, NEW status \in NgEnds, NEW failed \in SUBSET NgReports,
           NEW brief \in NgPapers, NgComplete(r, status, failed, brief),
           ngWork[r].at \in {"walk", "fallback"}, ngWork[r].failed \subseteq failed,
           status = "succeeded" => failed = {} /\ ngWork[r].proposed = {},
           brief.by \in {"queue", "manual"} =>
              /\ brief.status = status /\ brief.failed = failed
              /\ ngWork[r].proposed \subseteq brief.proposals
              /\ <<"missing", "need">> \in ngWork[r].listed => "ui" \in brief.proposals,
           ngWork' = [ngWork EXCEPT ![r].at = "done"],
           UNCHANGED <<ngKept, ngTask, ngAsk>>
    PROVE  NgInv' /\ NgFinal
  <1> DEFINE w == [ngWork[r] EXCEPT !.at = "done"]
             row == [status |-> status, failed |-> failed, listed |-> ngWork[r].listed,
                     proposed |-> ngWork[r].proposed, brief |-> brief]
  <1>1. NgTypeOK /\ NgWorkSound(r, ngWork[r], ngKept[r], ngTask[r])
        /\ NgRowSound(ngWork[r], ngRow[r], ngKept[r], ngAsk[r])
    BY DEF NgInv, NgSound
  <1>2. w \in NgLocals /\ w.at = "done" /\ NgWorkSound(r, w, ngKept[r], ngTask[r])
    BY NgMoves
  <1>3. ngWork[r].listed \in SUBSET NgEntries /\ ngWork[r].proposed \in SUBSET NgActs
    BY <1>1, NgTyped
  <1>4. row \in NgRecords
    BY <1>3 DEF NgRecords
  <1>5. /\ row.status = status /\ row.failed = failed /\ row.listed = ngWork[r].listed
        /\ row.proposed = ngWork[r].proposed /\ row.brief = brief
    OBVIOUS
  <1>6. /\ ngWork' = [ngWork EXCEPT ![r] = w] /\ ngRow' = [ngRow EXCEPT ![r] = row]
        /\ ngKept' = [ngKept EXCEPT ![r] = ngKept[r]] /\ ngTask' = [ngTask EXCEPT ![r] = ngTask[r]]
        /\ ngAsk' = [ngAsk EXCEPT ![r] = ngAsk[r]]
    BY <1>1, NgKeeps DEF NgComplete
  <1> HIDE DEF w, row
  <1>7. /\ ngKept[r] \in SUBSET NgEntries /\ ngTask[r] \in {NgNone, "open", "closed"}
        /\ ngAsk[r] \in NgPapers
    BY <1>1 DEF NgTypeOK
  <1>8. ~NgOver(ngRow[r]) /\ ngAsk[r] = NgNoBrief
    BY <1>1 DEF NgRowSound
  <1>9. NgRowSound(w, row, ngKept[r], ngAsk[r])
    <2>1. \A e \in ngKept[r] : e \in row.listed \/ e[1] \in row.failed
      BY <1>1, <1>5 DEF NgWorkSound
    <2>2. row.listed \subseteq ngKept[r]
      BY <1>1, <1>5 DEF NgWorkSound
    <2>3. NgTells(row.brief, row)
      BY <1>5 DEF NgTells
    <2>4. NgTells(ngAsk[r], row)
      BY <1>8, NgAssumption DEF NgTells, NgNoBrief, NgBriefs
    <2>5. NgOver(row)
      BY <1>5 DEF NgOver
    <2> QED BY <2>1, <2>2, <2>3, <2>4, <2>5, <1>2, <1>5 DEF NgRowSound
  <1>10. NgOver(ngRow[r]) => /\ row.status = ngRow[r].status
                             /\ row.failed = ngRow[r].failed /\ row.listed = ngRow[r].listed
    BY <1>8
  <1> QED BY ONLY <1>2, <1>4, <1>6, <1>7, <1>9, <1>10, NgOne, NgInv, r \in NgRuns

LEMMA NgFinishStep == ASSUME NgInv, NEW r \in NgRuns, NgFinish(r) PROVE NgInv' /\ NgFinal
  <1> DEFINE w == ngWork[r]
             status == NgStatus(w)
             brief == NgBuild("queue", status, w.failed, w.listed, w.proposed)
  <1>1. w.failed \in SUBSET NgActs /\ w.listed \in SUBSET NgEntries /\ w.proposed \in SUBSET NgActs
    BY NgTyped DEF NgInv
  <1>2. status \in NgEnds /\ (status = "succeeded" => w.failed = {} /\ w.proposed = {})
    BY DEF NgStatus, NgEnds
  <1>3. NgMissing(w.listed) \in SUBSET {"ui"} /\ (<<"missing", "need">> \in w.listed => "ui" \in NgMissing(w.listed))
    BY DEF NgMissing
  <1> HIDE DEF status
  <1>4. /\ brief \in NgPapers /\ brief.status = status /\ brief.failed = w.failed
        /\ brief.proposals = w.proposed \cup NgMissing(w.listed)
    <2>1. w.proposed \cup NgMissing(w.listed) \in SUBSET (NgActs \cup {"ui"})
      BY <1>1, <1>3
    <2>2. w.failed \in SUBSET NgReports
      BY <1>1 DEF NgReports
    <2> QED BY <1>2, <2>1, <2>2 DEF NgBuild, NgBriefs, NgPapers
  <1>5. /\ NgComplete(r, status, w.failed, brief) /\ w.at = "walk"
        /\ ngWork' = [ngWork EXCEPT ![r].at = "done"] /\ UNCHANGED <<ngKept, ngTask, ngAsk>>
    BY DEF NgFinish, NgAfterClose, status
  <1>6. w.failed \in SUBSET NgReports
    BY <1>1 DEF NgReports
  <1> HIDE DEF brief
  <1> QED BY <1>2, <1>3, <1>4, <1>5, <1>6, NgCloses

LEMMA NgFallbackStep == ASSUME NgInv, NEW r \in NgRuns, NgFallback(r) PROVE NgInv' /\ NgFinal
  <1> DEFINE failed == ngWork[r].failed \cup {"finalization"}
             brief == NgBriefs("fallback", "failed", failed, {})
  <1>1. failed \in SUBSET NgReports
    <2>1. ngWork[r].failed \in SUBSET NgActs
      BY NgTyped DEF NgInv
    <2> QED BY <2>1 DEF NgReports
  <1>2. /\ NgComplete(r, "failed", failed, brief) /\ ngWork[r].at = "fallback"
        /\ ngWork' = [ngWork EXCEPT ![r].at = "done"] /\ UNCHANGED <<ngKept, ngTask, ngAsk>>
    BY DEF NgFallback
  <1>3. ngWork[r].failed \subseteq failed
    OBVIOUS
  <1> HIDE DEF failed
  <1>4. brief \in NgPapers /\ brief.by = "fallback"
    BY <1>1 DEF NgBriefs, NgPapers, NgEnds
  <1>5. "failed" \in NgEnds
    BY DEF NgEnds
  <1> HIDE DEF brief
  <1> QED BY <1>1, <1>2, <1>3, <1>4, <1>5, NgCloses

\* A brief made later: built from the row as it stands, stored as it was built.
LEMMA NgAskBriefStep == ASSUME NgInv, NEW r \in NgRuns, NgAskBrief(r) PROVE NgInv' /\ NgFinal
  <1> DEFINE row == ngRow[r]
             made == NgCollected(row.proposed, row.brief) \cup NgMissing(row.listed)
             brief == NgBuild("manual", row.status, row.failed, row.listed,
                              NgCollected(row.proposed, row.brief))
  <1>1. NgTypeOK /\ NgWorkSound(r, ngWork[r], ngKept[r], ngTask[r])
        /\ NgRowSound(ngWork[r], row, ngKept[r], ngAsk[r])
    BY DEF NgInv, NgSound
  <1>2. /\ row.failed \in SUBSET NgReports /\ row.proposed \in SUBSET NgActs
        /\ row.brief \in NgPapers /\ row.status \in NgEnds \cup {"absent", "running"}
    BY <1>1, NgTyped
  <1>3. row.status \in NgEnds /\ NgOver(row)
    BY <1>2 DEF NgAskBrief, NgRead, NgOver
  <1>4. row.brief.proposals \in SUBSET (NgActs \cup {"ui"})
    BY <1>2 DEF NgPapers
  <1>5. made \in SUBSET (NgActs \cup {"ui"}) /\ row.proposed \subseteq made
        /\ (<<"missing", "need">> \in row.listed => "ui" \in made)
    BY <1>2, <1>4 DEF NgCollected, NgMissing
  <1>6. /\ brief = [by |-> "manual", status |-> row.status, failed |-> row.failed, proposals |-> made]
        /\ ngAsk' = [ngAsk EXCEPT ![r] = brief]
    BY DEF NgAskBrief, NgRead, NgBuild, NgBriefs
  <1> HIDE DEF made, brief
  <1>7. /\ brief \in NgPapers /\ brief.status = row.status /\ brief.failed = row.failed
        /\ brief.proposals = made
    BY <1>2, <1>3, <1>5, <1>6 DEF NgPapers
  <1>8. NgTells(brief, row)
    BY <1>5, <1>7 DEF NgTells
  <1>9. NgRowSound(ngWork[r], row, ngKept[r], brief)
    BY <1>1, <1>3, <1>8 DEF NgRowSound
  <1>10. /\ ngKept' = [ngKept EXCEPT ![r] = ngKept[r]] /\ ngTask' = [ngTask EXCEPT ![r] = ngTask[r]]
         /\ ngRow' = [ngRow EXCEPT ![r] = row] /\ ngWork' = [ngWork EXCEPT ![r] = ngWork[r]]
    BY <1>1, NgKeeps DEF NgAskBrief
  <1>11. /\ ngKept[r] \in SUBSET NgEntries /\ ngTask[r] \in {NgNone, "open", "closed"}
         /\ ngWork[r] \in NgLocals /\ row \in NgRecords
    BY <1>1 DEF NgTypeOK
  <1>12. NgOver(row) => row.status = row.status /\ row.failed = row.failed /\ row.listed = row.listed
    OBVIOUS
  <1> QED BY <1>1, <1>6, <1>7, <1>9, <1>10, <1>11, <1>12, NgOne

LEMMA NgStoreBriefStep == ASSUME NgInv, NEW r \in NgRuns, NgStoreBrief(r) PROVE NgInv' /\ NgFinal
  <1> DEFINE row == [ngRow[r] EXCEPT !.brief = ngAsk[r]]
  <1>1. NgTypeOK /\ NgWorkSound(r, ngWork[r], ngKept[r], ngTask[r])
        /\ NgRowSound(ngWork[r], ngRow[r], ngKept[r], ngAsk[r]) /\ ngAsk[r] # NgNoBrief
    BY DEF NgInv, NgSound, NgStoreBrief
  <1>2. /\ ngRow[r] \in NgRecords /\ ngAsk[r] \in NgPapers /\ ngWork[r] \in NgLocals
        /\ ngKept[r] \in SUBSET NgEntries /\ ngTask[r] \in {NgNone, "open", "closed"}
    BY <1>1 DEF NgTypeOK
  <1>3. /\ row \in NgRecords /\ row.brief = ngAsk[r] /\ row.status = ngRow[r].status
        /\ row.failed = ngRow[r].failed /\ row.listed = ngRow[r].listed
        /\ row.proposed = ngRow[r].proposed
    BY <1>2 DEF NgRecords
  <1>4. /\ ngRow' = [ngRow EXCEPT ![r] = row] /\ ngAsk' = [ngAsk EXCEPT ![r] = NgNoBrief]
        /\ ngKept' = [ngKept EXCEPT ![r] = ngKept[r]] /\ ngTask' = [ngTask EXCEPT ![r] = ngTask[r]]
        /\ ngWork' = [ngWork EXCEPT ![r] = ngWork[r]]
    BY <1>1, NgKeeps DEF NgStoreBrief
  <1> HIDE DEF row
  <1>5. NgOver(ngRow[r]) /\ NgOver(row)
    BY <1>1, <1>3 DEF NgRowSound, NgOver
  <1>6. NgNoBrief \in NgPapers /\ \A x : NgTells(NgNoBrief, x)
    BY NgAssumption DEF NgTells, NgNoBrief, NgBriefs, NgPapers
  <1>7. NgTells(row.brief, row)
    BY <1>1, <1>3 DEF NgRowSound, NgTells
  <1>8. NgRowSound(ngWork[r], row, ngKept[r], NgNoBrief)
    BY <1>1, <1>3, <1>5, <1>6, <1>7 DEF NgRowSound
  <1> QED BY <1>1, <1>2, <1>3, <1>4, <1>6, <1>8, NgOne

LEMMA NgNextInv == NgInv /\ [NgNext]_ngVars => NgInv' /\ [NgFinal]_ngVars
  <1> SUFFICES ASSUME NgInv, [NgNext]_ngVars PROVE NgInv' /\ [NgFinal]_ngVars
    OBVIOUS
  <1>1. CASE UNCHANGED ngVars
    BY <1>1 DEF ngVars, NgInv, NgTypeOK, NgSound
  <1>2. ASSUME NEW r \in NgRuns,
               \/ NgStart(r) \/ NgBlock(r) \/ NgExecute(r)
               \/ NgSeek(r) \/ NgMakeTask(r) \/ NgNeed(r) \/ NgCloseTask(r)
               \/ NgRaise(r) \/ NgFinish(r) \/ NgFinishRaises(r) \/ NgFallback(r) \/ NgCrash(r)
               \/ NgAskBrief(r) \/ NgStoreBrief(r)
        PROVE  NgInv' /\ NgFinal
    BY <1>2, NgStartStep, NgBlockStep, NgExecuteStep, NgSeekStep, NgMakeTaskStep, NgNeedStep,
       NgCloseTaskStep, NgRaiseStep, NgStopStep, NgFinishStep, NgFallbackStep, NgAskBriefStep,
       NgStoreBriefStep
  <1> QED BY <1>1, <1>2 DEF NgNext

LEMMA NgInvSafe == NgInv => NgWithinLimits /\ NgDisclosed /\ NgBriefTells
  <1> SUFFICES ASSUME NgInv, NEW r \in NgRuns
               PROVE  /\ \A e \in ngKept[r] : NgClass(e[1]) \in ngWork[r].allowed \cap {"R1", "R2"}
                      /\ NgClosed(r) =>
                           /\ \A e \in ngKept[r] : e \in ngRow[r].listed \/ e[1] \in ngRow[r].failed
                           /\ ngRow[r].listed \subseteq ngKept[r]
                           /\ ngRow[r].status = "succeeded" =>
                                 ngRow[r].failed = {} /\ ngRow[r].proposed = {}
                      /\ NgTells(ngRow[r].brief, ngRow[r])
    BY DEF NgWithinLimits, NgDisclosed, NgBriefTells, NgTells
  <1>1. NgWorkSound(r, ngWork[r], ngKept[r], ngTask[r]) /\ NgRowSound(ngWork[r], ngRow[r], ngKept[r], ngAsk[r])
    BY DEF NgInv, NgSound
  <1>2. NgClosed(r) => NgOver(ngRow[r])
    BY DEF NgClosed, NgOver, NgEnds
  <1> QED BY <1>1, <1>2 DEF NgWorkSound, NgPermits, NgRowSound

\* For any number of runs, whatever they are asked and allowed and whatever
\* raises: rows are written only within the limits, a closed run accounts for
\* them, its brief tells what it came to, and the outcome is final (run_once,
\* generate_morning_brief_for_night_run).
THEOREM NightIsAccountable == NgSpec => NgSafe
  <1>1. NgSpec => []NgInv
    BY NgInitInv, NgNextInv, PTL DEF NgSpec
  <1>2. NgSpec => [][NgFinal]_ngVars
    BY <1>1, NgNextInv, PTL DEF NgSpec
  <1> QED BY <1>1, <1>2, NgInvSafe, PTL DEF NgSafe, NgClosedForGood, NgFinal
=============================================================================
