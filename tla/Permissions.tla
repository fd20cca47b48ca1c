---------------------------- MODULE Permissions ----------------------------
(***************************************************************************)
(* The permission gate in front of tools and connectors (tool_registry.py, *)
(* connector_registry.py, risk_policy.py and the manifest and permission-  *)
(* check operations of store.py).  A manifest says what a tool may do; a   *)
(* check reads the manifest, reads the approval, decides, and records the  *)
(* decision, each in a transaction of its own, while other requests edit   *)
(* the manifest and the approval moves on.                                 *)
(***************************************************************************)
EXTENDS Integers, FiniteSets

CONSTANTS
    PermTools, PermConnectors,   \* the ids with a manifest
    PermDocs,                    \* the contents a manifest may have
    PermTried,                   \* the statuses that are asked for
    PermAskers, PermEditors,     \* request threads that check, and that edit manifests
    PermMax                      \* bound: checks on record when a request still arrives

PermIds == PermTools \cup PermConnectors
PermScopes == {"plain", "public", "system", "raw"}
PermToolActions == {"read", "write", "install", "connect", "read_raw_secret"}
PermConnectorActions == {"read", "write", "connect", "read_raw_secret"}
PermToolStatus == {"candidate", "reviewed", "approved_readonly", "approved_write_gated", "rejected"}
PermConnectorStatus == {"disabled", "approved_readonly", "approved_write_gated", "rejected"}

\* A manifest: scopes it may read and write, what it forbids, which high-impact
\* actions it lists, whether reads are free, whether it needs a key, whether it
\* is heavy, billable or GPU work, whether a connector's system is external,
\* whether it has rollback notes.
PermDoc == [reads : SUBSET PermScopes, writes : SUBSET PermScopes,
            forbids : SUBSET (PermScopes \cup PermToolActions),
            gates : SUBSET PermToolActions, free : BOOLEAN, keyed : BOOLEAN,
            heavy : BOOLEAN, ext : BOOLEAN, notes : BOOLEAN]

ASSUME PermAssumption ==
    /\ PermDocs \subseteq PermDoc /\ PermMax \in Nat
    /\ PermTools \cap PermConnectors = {} /\ PermAskers \cap PermEditors = {}

VARIABLES
    permRows,      \* the manifest of the tool or connector at hand: id -> [st, doc]
    permAppr,      \* the approval the requests name
    permKeys,      \* the required keys are in the environment
    permTh,        \* the request threads
    permChecks,    \* the recorded checks
    permUndo,      \* the rollback records of checks
    permReviewed   \* history: ids given a status by a review

permVars == <<permRows, permAppr, permKeys, permTh, permChecks, permUndo, permReviewed>>

PermIdle == [pc |-> "idle"]
PermStatus(t) == PermTried \cap (IF t \in PermTools THEN PermToolStatus ELSE PermConnectorStatus)
PermActions(t) == IF t \in PermTools THEN PermToolActions ELSE PermConnectorActions

PermInit ==
    /\ \E t \in PermIds : permRows = [s \in {t} |-> [st |-> "absent"]]
    /\ permAppr = "pending" /\ permKeys \in BOOLEAN
    /\ permTh = [i \in PermAskers \cup PermEditors |-> PermIdle]
    /\ permChecks = {} /\ permUndo = {} /\ permReviewed = {}

-----------------------------------------------------------------------------
\* infer_risk_class, for the actions a check may name.
PermClass(doc, action, scope) ==
    IF action = "read_raw_secret" \/ scope = "raw"   THEN "R5"
    ELSE IF action \in {"install", "connect"}        THEN "R5"
    ELSE IF scope = "public"                         THEN "R5"
    ELSE IF doc.heavy                                THEN "R5"
    ELSE IF action = "write"                         THEN "R4"
    ELSE IF scope = "system"                         THEN "R3"
    ELSE "R1"

\* _policy_for_connector: a write to an external system is R4, whatever it is
\* written to; a local write is classified like a tool's.  Connector manifests
\* have no resource or cost profile.
PermConnectorClass(doc, action, scope) ==
    IF action = "write" /\ doc.ext THEN "R4" ELSE PermClass([doc EXCEPT !.heavy = FALSE], action, scope)

PermClassOf(t, doc, action, scope) ==
    IF t \in PermTools THEN PermClass(doc, action, scope)
    ELSE PermConnectorClass(doc, action, scope)

\* _approval_present
PermGranted(status) == status = "consumed"

\* evaluate_action_policy.  A check's metadata never says that tests passed.
PermPolicy(class, action, scope, status) ==
    IF action = "read_raw_secret" \/ scope = "raw" THEN "blocked"
    ELSE IF class \in {"R1", "R2"}                 THEN "autonomous"
    ELSE IF class = "R3"                           THEN "needs_review"
    ELSE IF PermGranted(status)                    THEN "autonomous"
    ELSE IF class = "R4"                           THEN "needs_review"
    ELSE "blocked"

\* Mutant: the forbidden actions are looked up, the forbidden scopes are not.
PermForbiddenAction(doc, action, scope) ==
    action = "read_raw_secret" \/ action \in doc.forbids \/ scope = "raw"

PermForbidden(doc, action, scope) ==
    action = "read_raw_secret" \/ action \in doc.forbids \/ scope \in doc.forbids \/ scope = "raw"

\* classify_tool_action
PermToolDecision(doc, st, action, scope, status) ==
    LET policy == PermPolicy(PermClass(doc, action, scope), action, scope, status)
        reading == IF policy = "needs_review"        THEN "waiting_for_approval"
                   ELSE IF policy = "blocked"        THEN "denied"
                   ELSE IF scope \notin doc.reads    THEN "denied"
                   ELSE IF ~doc.free                 THEN "waiting_for_approval"
                   ELSE "allowed"
    IN
    IF PermForbidden(doc, action, scope)                    THEN "denied"
    ELSE IF st \in {"candidate", "reviewed", "rejected"}    THEN "denied"
    ELSE IF doc.keyed /\ ~permKeys                          THEN "waiting_for_secret"
    ELSE IF action = "read"                                 THEN reading
    ELSE IF policy = "blocked"                              THEN "blocked"
    ELSE IF action = "write" /\ scope \notin doc.writes     THEN "denied"
    ELSE IF action # "write" /\ action \notin doc.gates     THEN "denied"
    ELSE IF ~PermGranted(status)                            THEN "waiting_for_approval"
    ELSE "allowed"

\* classify_connector_action: a read needs no policy, a write needs the
\* write-gated status.
PermConnectorDecision(doc, st, action, scope, status) ==
    LET policy == PermPolicy(PermConnectorClass(doc, action, scope), action, scope, status) IN
    IF PermForbidden(doc, action, scope)                    THEN "denied"
    ELSE IF st \in {"rejected", "disabled"}                 THEN "denied"
    ELSE IF doc.keyed /\ ~permKeys                          THEN "waiting_for_secret"
    ELSE IF action = "read" THEN IF scope \in doc.reads THEN "allowed" ELSE "denied"
    ELSE IF st # "approved_write_gated"                     THEN "denied"
    ELSE IF action = "write" /\ scope \notin doc.writes     THEN "denied"
    ELSE IF action = "connect" /\ action \notin doc.gates   THEN "denied"
    ELSE IF policy = "blocked"                              THEN "blocked"
    ELSE IF policy = "needs_review"                         THEN "waiting_for_approval"
    ELSE "allowed"

-----------------------------------------------------------------------------
PermOpen(i) == permTh[i].pc = "idle" /\ Cardinality(permChecks) < PermMax
PermGo(i, th) == permTh' = [permTh EXCEPT ![i] = th]

\* The handler reads the manifest; without one the request fails.
PermAsk(i, t) ==
    /\ PermOpen(i) /\ permRows[t].st # "absent"
    /\ PermGo(i, [pc |-> "ask", id |-> t, row |-> permRows[t]])
    /\ UNCHANGED <<permRows, permAppr, permKeys, permChecks, permUndo, permReviewed>>

\* It reads the approval's status, if the request names one, and the
\* environment, and decides.
PermClassify(i, action, scope, named) ==
    LET t == permTh[i].id
        doc == permTh[i].row.doc
        st == permTh[i].row.st
        status == IF named THEN permAppr ELSE "none"
    IN
    /\ permTh[i].pc = "ask" /\ action \in PermActions(t)
    /\ PermGo(i, [pc |-> "record",
                  check |-> [id |-> t, action |-> action, scope |-> scope, named |-> named, doc |-> doc,
                             class |-> PermClassOf(t, doc, action, scope),
                             decision |-> IF t \in PermTools
                                          THEN PermToolDecision(doc, st, action, scope, status)
                                          ELSE PermConnectorDecision(doc, st, action, scope, status)]])
    /\ UNCHANGED <<permRows, permAppr, permKeys, permChecks, permUndo, permReviewed>>

\* Mutant: reads are told apart by their class, not by their action.
PermUndoneOnlyR5(c) == c.decision = "allowed" /\ c.class = "R5" /\ c.action # "read"

\* Which checks get a rollback record.
PermUndone(c) == c.decision = "allowed" /\ c.class = "R4" /\ c.action # "read"

\* record_tool_permission_check, record_connector_permission_check: the check
\* and its rollback record, whose plan is in the manifest as it is now.
PermRecord(i) ==
    LET c == permTh[i].check IN
    /\ permTh[i].pc = "record"
    /\ permChecks' = permChecks \cup {c}
    /\ permUndo' = IF PermUndone(c)
                   THEN permUndo \cup {[check |-> c, compensation |-> permRows[c.id].doc.notes]}
                   ELSE permUndo
    /\ PermGo(i, PermIdle)
    /\ UNCHANGED <<permRows, permAppr, permKeys, permReviewed>>

-----------------------------------------------------------------------------
\* sync_tool_catalog looks whether the manifest is approved before it edits it.
PermSync(i, t, doc, st) ==
    /\ PermOpen(i) /\ t \in PermTools
    /\ permRows[t].st \notin {"approved_readonly", "approved_write_gated"}
    /\ PermGo(i, [pc |-> "edit", id |-> t, doc |-> doc, st |-> st])
    /\ UNCHANGED <<permRows, permAppr, permKeys, permChecks, permUndo, permReviewed>>

\* The handlers that register a manifest: a tool's is a candidate.
PermRegister(i, t, doc, st) ==
    /\ PermOpen(i)
    /\ t \in PermTools => st = "candidate"
    /\ PermGo(i, [pc |-> "edit", id |-> t, doc |-> doc, st |-> st])
    /\ UNCHANGED <<permRows, permAppr, permKeys, permChecks, permUndo, permReviewed>>

\* Mutant: an edit takes the status it asks for.
PermKeptAsked(old, asked) == asked

\* The status an upsert stores.
PermKept(old, asked) == IF old # "absent" THEN old ELSE asked

\* upsert_tool_manifest, upsert_connector_manifest: read the stored status (a new
\* tool must be a candidate) ...
PermUpsertRead(i) ==
    LET th == permTh[i]
        old == permRows[th.id].st
    IN
    /\ th.pc = "edit"
    /\ PermGo(i, IF th.id \in PermTools /\ old = "absent" /\ th.st # "candidate" THEN PermIdle
                 ELSE [th EXCEPT !.pc = "write", !.st = PermKept(old, th.st)])
    /\ UNCHANGED <<permRows, permAppr, permKeys, permChecks, permUndo, permReviewed>>

\* ... and replace the row.
PermUpsertWrite(i) ==
    LET th == permTh[i] IN
    /\ th.pc = "write"
    /\ permRows' = [permRows EXCEPT ![th.id] = [st |-> th.st, doc |-> th.doc]]
    /\ PermGo(i, PermIdle)
    /\ UNCHANGED <<permAppr, permKeys, permChecks, permUndo, permReviewed>>

\* The same with allow_status_change: what it reads does not matter.
PermReview(t, doc, st) ==
    /\ Cardinality(permChecks) < PermMax
    /\ permRows' = [permRows EXCEPT ![t] = [st |-> st, doc |-> doc]]
    /\ permReviewed' = permReviewed \cup {t}
    /\ UNCHANGED <<permAppr, permKeys, permTh, permChecks, permUndo>>

-----------------------------------------------------------------------------
\* The approval of the requests: decided, then used once.
PermDecideApproval ==
    /\ \/ permAppr = "pending" /\ permAppr' \in {"approved", "rejected"}
       \/ permAppr = "approved" /\ permAppr' = "consumed"
    /\ UNCHANGED <<permRows, permKeys, permTh, permChecks, permUndo, permReviewed>>

PermNext ==
    \/ \E i \in PermAskers :
        \/ \E t \in DOMAIN permRows : PermAsk(i, t)
        \/ \E a \in PermToolActions, s \in PermScopes, n \in BOOLEAN : PermClassify(i, a, s, n)
        \/ PermRecord(i)
    \/ \E i \in PermEditors :
        \/ PermUpsertRead(i) \/ PermUpsertWrite(i)
        \/ \E t \in DOMAIN permRows, d \in PermDocs :
            \E st \in PermStatus(t) : PermSync(i, t, d, st) \/ PermRegister(i, t, d, st)
    \/ \E t \in DOMAIN permRows, d \in PermDocs : \E st \in PermStatus(t) : PermReview(t, d, st)
    \/ PermDecideApproval

PermSpec == PermInit /\ [][PermNext]_permVars

-----------------------------------------------------------------------------
\* No write, install or connection is ever on record as allowed without the
\* approval it names being used up: the status read before the decision can not
\* be taken back before the decision is recorded.
PermWritesApproved ==
    \A c \in permChecks : c.decision = "allowed" /\ c.action # "read" =>
        c.named /\ permAppr = "consumed"

\* What a manifest forbids, and any raw secret, is never allowed: no status, no
\* listed scope and no approval gets past it.
PermForbiddenNever ==
    \A c \in permChecks : c.decision = "allowed" =>
        /\ c.action # "read_raw_secret" /\ c.scope # "raw"
        /\ c.action \notin c.doc.forbids /\ c.scope \notin c.doc.forbids

\* A tool does something only after a review gave it a status: an edit, however
\* it interleaves with others, only puts back a status that a review gave.
PermToolReviewed ==
    \A c \in permChecks : c.id \in PermTools /\ c.decision = "allowed" => c.id \in permReviewed

\* Every allowed R4 write has its rollback record.  An R5 one has none.
PermUndoable ==
    \A c \in permChecks :
        c.decision = "allowed" /\ c.class = "R4" /\ c.action # "read" =>
            \E u \in permUndo : u.check = c

\* What is on record as allowed was neither forbidden nor unapproved nor by a
\* tool without review, and has a rollback record on file where it is R4.
PermSafe == PermWritesApproved /\ PermForbiddenNever /\ PermToolReviewed /\ PermUndoable
=============================================================================
