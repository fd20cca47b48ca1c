------------------------------ MODULE Sources ------------------------------
(***************************************************************************)
(* Source records and retrieval (store.py).  Sources are ingested into an  *)
(* index and a graph whose entities several sources may share, and are     *)
(* deleted or scrubbed; a retrieval reads the index and the graph in turn, *)
(* and records its answer in a transaction of its own.  What is erased     *)
(* between these steps may still be in that answer.                        *)
(***************************************************************************)
EXTENDS Integers, FiniteSets

CONSTANTS
    SrcIds,       \* ids of source records
    SrcRefs,      \* files, tasks or messages that sources are made of
    SrcThreads,   \* request threads
    SrcNone       \* no id

ASSUME SrcAssumption == SrcNone \notin SrcIds

VARIABLES
    srcRec,   \* source records
    srcEnt,   \* per source, the graph entity of a document that its ingestion inserted
    srcRel,   \* per source, the entity that its live relationship comes from
    srcTh     \* request threads

srcVars == <<srcRec, srcEnt, srcRel, srcTh>>

SrcTerminal == {"deleted", "scrubbed"}
SrcIdle == [pc |-> "idle"]

SrcInit ==
    /\ srcRec = [s \in SrcIds |-> [st |-> "absent"]]
    /\ srcEnt = [e \in SrcIds |-> [st |-> "absent"]]
    /\ srcRel = [s \in SrcIds |-> SrcNone]
    /\ srcTh = [i \in SrcThreads |-> SrcIdle]

-----------------------------------------------------------------------------
\* Mutant: an entity is found by its type only.
SrcTwinsAny(r) == {e \in SrcIds : srcEnt[e].st = "live"}

\* _upsert_memory_graph_entity: the live entities of the same document, of one
\* type, label and reference.
SrcTwins(r) == {e \in SrcIds : srcEnt[e].st = "live" /\ srcEnt[e].ref = r}

\* The entity that is there is kept and names the new source from then on; else
\* a new one is inserted.
SrcEntity(s, r) == IF SrcTwins(r) = {} THEN s ELSE CHOOSE e \in SrcTwins(r) : TRUE

\* ingest_source_record: text that looks like a secret is blocked and leaves
\* nothing in the graph.  The entity of the source itself lives as long as its
\* relationship and is not told apart from it.
SrcStored(s, r, secret) ==
    /\ srcRec[s].st = "absent"
    /\ srcRec' = [srcRec EXCEPT ![s] = [st |-> IF secret THEN "blocked_secret" ELSE "active", ref |-> r]]
    /\ srcEnt' = IF secret THEN srcEnt
                 ELSE [srcEnt EXCEPT ![SrcEntity(s, r)] = [st |-> "live", ref |-> r, of |-> s]]
    /\ srcRel' = IF secret THEN srcRel ELSE [srcRel EXCEPT ![s] = SrcEntity(s, r)]

\* A file, a task, a run: read, then ingested.
SrcIngest(s, r, secret) == SrcStored(s, r, secret) /\ UNCHANGED srcTh

\* ingest_connector_read_context: a permission check is recorded first; only an
\* allowed one goes on.
SrcCheck(i) ==
    /\ srcTh[i].pc = "idle"
    /\ srcTh' = [srcTh EXCEPT ![i] = [pc |-> "checked"]]
    /\ UNCHANGED <<srcRec, srcEnt, srcRel>>

SrcIngestChecked(i, s, r, secret) ==
    /\ srcTh[i].pc = "checked" /\ SrcStored(s, r, secret)
    /\ srcTh' = [srcTh EXCEPT ![i] = SrcIdle]

\* Mutant: only the entity that the source itself inserted is found.
SrcUnnamedOwn(e, s, st) == IF e = s /\ srcEnt[e].st = "live" THEN [srcEnt[e] EXCEPT !.st = st] ELSE srcEnt[e]

\* An entity whose provenance names the source goes with it; the label of one
\* that is scrubbed is replaced.  One that was deleted before is left as it is.
SrcUnnamed(e, s, st) ==
    IF srcEnt[e].st = "live" /\ srcEnt[e].of = s THEN [srcEnt[e] EXCEPT !.st = st] ELSE srcEnt[e]

\* delete_source_record, scrub_source_record.  The reference stays as history:
\* a scrub replaces it in the record and in the entities.
SrcErase(s, st) ==
    /\ srcRec[s].st # "absent"
    /\ srcRec' = [srcRec EXCEPT ![s].st = st]
    /\ srcEnt' = [e \in SrcIds |-> SrcUnnamed(e, s, st)]
    /\ srcRel' = [srcRel EXCEPT ![s] = SrcNone]
    /\ UNCHANGED srcTh

-----------------------------------------------------------------------------
\* Sources that were erased, or are blocked.
SrcGone == {s \in SrcIds : srcRec[s].st \in SrcTerminal \cup {"blocked_secret"}}

\* A retrieval is asked; gone is kept as history, the code does not read it.
SrcAsk(i) ==
    /\ srcTh[i].pc = "idle"
    /\ srcTh' = [srcTh EXCEPT ![i] = [pc |-> "asked", gone |-> SrcGone]]
    /\ UNCHANGED <<srcRec, srcEnt, srcRel>>

\* Mutant: what is not blocked is searched.
SrcSearchedKept(s) == srcRec[s].st \notin {"absent", "blocked_secret"}

\* The sources a retrieval searches.
SrcSearched(s) == srcRec[s].st = "active"

\* retrieve_memory reads the sources; those that match the query count ...
SrcRecall(i, found) ==
    /\ srcTh[i].pc = "asked" /\ \A s \in found : SrcSearched(s)
    /\ srcTh' = [srcTh EXCEPT ![i] = [pc |-> "recall", gone |-> @.gone, found |-> found]]
    /\ UNCHANGED <<srcRec, srcEnt, srcRel>>

\* ... then the live entities that name one of them (limits on how many of each
\* are read are left out) ...
SrcNamed(i) ==
    /\ srcTh[i].pc = "recall"
    /\ srcTh' = [srcTh EXCEPT ![i] = [pc |-> "named", gone |-> @.gone, found |-> @.found,
                    shown |-> {p \in @.found \X SrcIds : srcEnt[p[2]].st = "live" /\ srcEnt[p[2]].of = p[1]}]]
    /\ UNCHANGED <<srcRec, srcEnt, srcRel>>

\* ... and their live relationships, joined with the entity they come from, be it
\* live or not, ...
SrcRelated(i) ==
    /\ srcTh[i].pc = "named"
    /\ srcTh' = [srcTh EXCEPT ![i] = [pc |-> "answer", gone |-> @.gone, found |-> @.found,
                    shown |-> @.shown \cup {p \in @.found \X SrcIds : srcRel[p[1]] = p[2]}]]
    /\ UNCHANGED <<srcRec, srcEnt, srcRel>>

\* ... and records an answer from the sources found and what the graph says of them.
SrcAnswer(i) ==
    /\ srcTh[i].pc = "answer"
    /\ srcTh' = [srcTh EXCEPT ![i] = SrcIdle]
    /\ UNCHANGED <<srcRec, srcEnt, srcRel>>

SrcNext ==
    \/ \E s \in SrcIds :
        \/ \E r \in SrcRefs, secret \in BOOLEAN :
               SrcIngest(s, r, secret) \/ \E i \in SrcThreads : SrcIngestChecked(i, s, r, secret)
        \/ \E st \in SrcTerminal : SrcErase(s, st)
    \/ \E i \in SrcThreads :
        \/ SrcCheck(i) \/ SrcAsk(i) \/ SrcNamed(i) \/ SrcRelated(i) \/ SrcAnswer(i)
        \/ \E found \in SUBSET SrcIds : SrcRecall(i, found)

SrcSpec == SrcInit /\ [][SrcNext]_srcVars

-----------------------------------------------------------------------------
\* What the graph says is backed: a live entity, also one that several sources
\* have shared in turn, names an active source of its own document; a live
\* relationship is of an active source and comes from an entity of its document,
\* which may have been erased with another source.
SrcGraphBacked ==
    /\ \A e \in SrcIds : srcEnt[e].st = "live" =>
          srcRec[srcEnt[e].of].st = "active" /\ srcRec[srcEnt[e].of].ref = srcEnt[e].ref
    /\ \A s \in SrcIds : srcRel[s] # SrcNone =>
          srcRec[s].st = "active" /\ srcEnt[srcRel[s]].st # "absent" /\ srcEnt[srcRel[s]].ref = srcRec[s].ref

\* An answer about to be recorded quotes nothing that was erased or blocked before
\* the question was asked, and names in the graph only entities of the documents
\* it quotes.  A source erased while the retrieval is under way may be in it.
SrcAnswerCurrent ==
    \A i \in SrcThreads : srcTh[i].pc = "answer" =>
        /\ srcTh[i].found \cap srcTh[i].gone = {}
        /\ \A s \in srcTh[i].found : srcRec[s].st # "blocked_secret"
        /\ \A p \in srcTh[i].shown : srcEnt[p[2]].ref = srcRec[p[1]].ref

\* The graph is backed, and an answer is about sources that were in use when it
\* was asked for or later.
SrcSafe == SrcGraphBacked /\ SrcAnswerCurrent
=============================================================================
