------------------------------ MODULE Memory ------------------------------
(***************************************************************************)
(* Memory items (store.py): created, corrected, updated, deleted and       *)
(* scrubbed.  An update reads the item first and writes all of it in a     *)
(* transaction of its own afterwards, so it may take back what happened    *)
(* meanwhile.  The graph rows of items are left out; sources and retrieval *)
(* are in Sources.                                                         *)
(***************************************************************************)
EXTENDS Integers, FiniteSets

CONSTANTS
    MemItems,     \* ids of memory items
    MemThreads,   \* request threads that update
    MemNone       \* no id

ASSUME MemAssumption == MemNone \notin MemItems

VARIABLES
    memItem,   \* memory items
    memTh      \* updates under way

memVars == <<memItem, memTh>>

MemStatuses == {"candidate", "active", "rejected", "deleted", "scrubbed"}
MemTerminal == {"deleted", "scrubbed"}

MemInit ==
    /\ memItem = [m \in MemItems |-> [st |-> "absent"]]
    /\ memTh = [i \in MemThreads |-> [pc |-> "idle"]]

-----------------------------------------------------------------------------

\* _normalize_memory_payload: what may be stored.  sens: long-term, of high
\* sensitivity, or sensitive.
MemValid(row) == row.st \in MemStatuses /\ (row.st = "active" /\ row.sens => row.note)

\* Mutant: only an active item is superseded.
MemSupersededActive(rows, row) ==
    IF row.st = "active" /\ row.fixes # MemNone /\ rows[row.fixes].st = "active"
    THEN [rows EXCEPT ![row.fixes] = [@ EXCEPT !.st = "rejected", !.note = TRUE]]
    ELSE rows

\* _mark_superseded_memory: an active correction rejects what it corrects, with
\* a note of its own.
MemSuperseded(rows, row) ==
    IF row.st = "active" /\ row.fixes # MemNone /\ rows[row.fixes].st \in {"candidate", "active"}
    THEN [rows EXCEPT ![row.fixes] = [@ EXCEPT !.st = "rejected", !.note = TRUE]]
    ELSE rows

\* create_memory_item
MemCreate(m, row) ==
    /\ memItem[m].st = "absent" /\ MemValid(row)
    /\ row.fixes # MemNone => memItem[row.fixes].st # "absent"
    /\ memItem' = MemSuperseded([memItem EXCEPT ![m] = row], row)
    /\ UNCHANGED memTh

\* update_memory_item reads the item and merges the changes; named: the request
\* names a status, else the status read is written again.  It refuses to delete
\* or scrub, and a correction of itself.  The stored note counts when no new one
\* is given.
MemMerge(i, m, named, st, sens, note, fixes) ==
    LET row == [st |-> st, sens |-> sens, note |-> memItem[m].note \/ note, fixes |-> fixes] IN
    /\ memTh[i].pc = "idle" /\ memItem[m].st # "absent"
    /\ MemValid(row) /\ fixes # m
    /\ named \/ st = memItem[m].st
    /\ st \in MemTerminal => st = memItem[m].st
    /\ fixes # MemNone => memItem[fixes].st # "absent"
    /\ memTh' = [memTh EXCEPT ![i] = [pc |-> "write", m |-> m, row |-> row, named |-> named]]
    /\ UNCHANGED memItem

\* The UPDATE sets every column to what was merged, whatever happened to the
\* item meanwhile.
MemWritten(th) == th.row

MemUpdate(i) ==
    LET th == memTh[i] IN
    /\ th.pc = "write"
    /\ memItem' = MemSuperseded([memItem EXCEPT ![th.m] = MemWritten(th)], MemWritten(th))
    /\ memTh' = [memTh EXCEPT ![i] = [pc |-> "idle"]]

\* delete_memory_item, scrub_memory_item: the reason becomes the review note.
MemErase(m, st) ==
    /\ memItem[m].st # "absent"
    /\ memItem' = [memItem EXCEPT ![m] = [@ EXCEPT !.st = st, !.note = TRUE]]
    /\ UNCHANGED memTh

MemNext ==
    \/ \E m \in MemItems :
        \/ \E st \in MemStatuses, sens, note \in BOOLEAN, f \in MemItems \cup {MemNone} :
               MemCreate(m, [st |-> st, sens |-> sens, note |-> note, fixes |-> f])
        \/ \E st \in MemTerminal : MemErase(m, st)
    \/ \E i \in MemThreads :
        \/ \E m \in MemItems, named, sens, note \in BOOLEAN, st \in MemStatuses,
              f \in MemItems \cup {MemNone} : MemMerge(i, m, named, st, sens, note, f)
        \/ MemUpdate(i)

MemSpec == MemInit /\ [][MemNext]_memVars

-----------------------------------------------------------------------------
\* An active long-term or sensitive item carries a note, also when one update
\* makes the item sensitive while another, which read it before, activates it:
\* each writes the whole row that it judged.
MemReviewNote ==
    \A m \in MemItems : memItem[m].st = "active" /\ memItem[m].sens => memItem[m].note

\* A correction c and what it corrects, m, are both in use.
MemBoth(c, m) ==
    /\ memItem[c].st = "active" /\ memItem[c].fixes = m
    /\ memItem[m].st \in {"candidate", "active"}

\* The step that puts a correction in use, or changes one that is, takes what it
\* corrects out of use; only an update of the corrected item itself (the owner's,
\* or one from a row read before) puts it back beside its correction.
MemCorrectionWins ==
    [][\A c, m \in MemItems :
        MemBoth(c, m)' =>
            /\ memItem'[c] = memItem[c]
            /\ MemBoth(c, m) \/ \E i \in MemThreads : MemUpdate(i) /\ memTh[i].m = m]_memVars

\* Notes stay with what needs them, and a correction replaces what it corrects
\* when it is stored.
MemSafe == []MemReviewNote /\ MemCorrectionWins

\* Delete and scrub, and the correction of an item: what they took out of use
\* comes back only by an update that names a status ("Verwijderde inhoud ontbreekt
\* daarna in lijst en zoekresultaat", docs/memory-today-browser-evidence.md).
\* The code does not keep this: an update writes back the status it read before.
MemOutStaysOut ==
    [][\A m \in MemItems :
        memItem[m].st \in {"rejected"} \cup MemTerminal /\ memItem'[m].st \in {"candidate", "active"} =>
            \E i \in MemThreads : memTh[i].pc = "write" /\ memTh[i].m = m /\ memTh[i].named]_memVars
=============================================================================
