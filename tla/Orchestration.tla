---------------------------- MODULE Orchestration ---------------------------
(***************************************************************************)
(* Orchestration proposals (store.py): a reviewed proposal is applied by   *)
(* creating a task and, for gated work, an approval, in several            *)
(* transactions one after the other, and is marked applied last.  HTTP     *)
(* threads apply and reject beside each other, a request may die between   *)
(* two transactions, and meanwhile the owner decides approvals and moves   *)
(* tasks.                                                                  *)
(***************************************************************************)
EXTENDS Integers, FiniteSets

CONSTANTS
    OrcProposals,  \* stored proposals
    OrcGated,      \* those with an approval payload
    OrcTalk,       \* those with neither task nor approval
    OrcThreads,    \* requests that apply or reject, each once
    OrcNone

ASSUME OrcAssumption ==
    OrcGated \cap OrcTalk = {} /\ OrcGated \cup OrcTalk \subseteq OrcProposals
    /\ OrcNone \notin OrcThreads

VARIABLES
    orcSt,     \* the status of a proposal
    orcLink,   \* the request whose task and approval it was applied with
    orcTask,   \* the task a request created
    orcAppr,   \* the approval a request created
    orcPlan,   \* was the plan of the proposal rejected in an earlier approval
    orcTh,     \* where each request is, and on which proposal
    orcLate    \* requests that began when the plan was rejected already

orcVars == <<orcSt, orcLink, orcTask, orcAppr, orcPlan, orcTh, orcLate>>

OrcPcs == {"new", "read", "checked", "created", "planned", "approval", "wait",
           "mark", "reject", "end"}

OrcTypeOK ==
    /\ orcSt \in [OrcProposals -> {"absent", "prepared", "rejected", "applied"}]
    /\ orcLink \in [OrcProposals -> OrcThreads \cup {OrcNone}]
    /\ orcTask \in [OrcThreads -> {"none", "new", "planned", "active", "waiting",
                                   "blocked"}]
    /\ orcAppr \in [OrcThreads -> {"none", "pending", "approved", "rejected",
                                   "consumed"}]
    /\ orcPlan \in [OrcProposals -> BOOLEAN]
    /\ orcTh \in [OrcThreads -> [pc : OrcPcs, p : OrcProposals \cup {OrcNone}]]
    /\ orcLate \subseteq OrcThreads

OrcInit ==
    /\ orcSt = [p \in OrcProposals |-> "absent"]
    /\ orcLink = [p \in OrcProposals |-> OrcNone]
    /\ orcTask = [i \in OrcThreads |-> "none"]
    /\ orcAppr = [i \in OrcThreads |-> "none"]
    /\ orcPlan \in [OrcProposals -> BOOLEAN]
    /\ orcTh = [i \in OrcThreads |-> [pc |-> "new", p |-> OrcNone]]
    /\ orcLate = {}

\* An approval with the fingerprint of the plan is rejected.
OrcPlanRejected(p) ==
    orcPlan[p] \/ \E i \in OrcThreads : orcTh[i].p = p /\ orcAppr[i] = "rejected"

OrcAt(i, pc) == orcTh[i].pc = pc
OrcGo(i, pc) == orcTh' = [orcTh EXCEPT ![i].pc = pc]

\* create_orchestration_proposal
OrcPropose(p) ==
    /\ orcSt[p] = "absent"
    /\ orcSt' = [orcSt EXCEPT ![p] = "prepared"]
    /\ UNCHANGED <<orcLink, orcTask, orcAppr, orcPlan, orcTh, orcLate>>

-----------------------------------------------------------------------------
\* apply_orchestration_proposal and reject_orchestration_proposal read a
\* prepared proposal.
OrcOpen(i, p, pc) ==
    /\ OrcAt(i, "new") /\ orcSt[p] = "prepared"
    /\ orcTh' = [orcTh EXCEPT ![i] = [pc |-> pc, p |-> p]]
    /\ orcLate' = IF orcPlan[p] THEN orcLate \cup {i} ELSE orcLate
    /\ UNCHANGED <<orcSt, orcLink, orcTask, orcAppr, orcPlan>>

OrcRejectWrite(i) ==
    /\ OrcAt(i, "reject")
    /\ orcSt' = [orcSt EXCEPT ![orcTh[i].p] = "rejected"]
    /\ OrcGo(i, "end")
    /\ UNCHANGED <<orcLink, orcTask, orcAppr, orcPlan, orcLate>>

\* A plan that was rejected is refused before anything is created.
OrcRefused(p) == p \in OrcGated /\ OrcPlanRejected(p)

OrcCheck(i) ==
    /\ OrcAt(i, "read")
    /\ OrcGo(i, CASE OrcRefused(orcTh[i].p)  -> "end"
                  [] orcTh[i].p \in OrcTalk  -> "mark"
                  [] OTHER                   -> "checked")
    /\ UNCHANGED <<orcSt, orcLink, orcTask, orcAppr, orcPlan, orcLate>>

OrcCreateTask(i) ==
    /\ OrcAt(i, "checked")
    /\ orcTask' = [orcTask EXCEPT ![i] = "new"] /\ OrcGo(i, "created")
    /\ UNCHANGED <<orcSt, orcLink, orcAppr, orcPlan, orcLate>>

\* The task is planned; the call fails if the owner has moved it on already.
OrcPlanTask(i) ==
    /\ OrcAt(i, "created")
    /\ IF orcTask[i] \in {"new", "planned"}
       THEN orcTask' = [orcTask EXCEPT ![i] = "planned"] /\ OrcGo(i, "planned")
       ELSE OrcGo(i, "end") /\ UNCHANGED orcTask
    /\ UNCHANGED <<orcSt, orcLink, orcAppr, orcPlan, orcLate>>

\* Plain work stays planned or becomes active; gated work gets an approval, unless its plan
\* was rejected meanwhile.
OrcSettle(i) ==
    /\ OrcAt(i, "planned")
    /\ IF orcTh[i].p \in OrcGated
       THEN /\ OrcGo(i, IF OrcPlanRejected(orcTh[i].p) THEN "end" ELSE "approval")
            /\ UNCHANGED orcTask
       ELSE /\ orcTask' \in {orcTask, [orcTask EXCEPT ![i] = "active"]}
            /\ OrcGo(i, "mark")
    /\ UNCHANGED <<orcSt, orcLink, orcAppr, orcPlan, orcLate>>

OrcCreateApproval(i) ==
    /\ OrcAt(i, "approval")
    /\ orcAppr' = [orcAppr EXCEPT ![i] = "pending"] /\ OrcGo(i, "wait")
    /\ UNCHANGED <<orcSt, orcLink, orcTask, orcPlan, orcLate>>

\* Mutant: a task that could not be made to wait is left as it is.
OrcGateTaskLoose(i) ==
    /\ OrcAt(i, "wait")
    /\ orcTask' = [orcTask EXCEPT ![i] = IF @ = "planned" THEN "waiting" ELSE @]
    /\ OrcGo(i, "mark")
    /\ UNCHANGED <<orcSt, orcLink, orcAppr, orcPlan, orcLate>>

\* The task waits for the pending approval, or the call fails.
OrcGateTask(i) ==
    /\ OrcAt(i, "wait")
    /\ IF orcTask[i] \in {"planned", "active"} /\ orcAppr[i] = "pending"
       THEN orcTask' = [orcTask EXCEPT ![i] = "waiting"] /\ OrcGo(i, "mark")
       ELSE OrcGo(i, "end") /\ UNCHANGED orcTask
    /\ UNCHANGED <<orcSt, orcLink, orcAppr, orcPlan, orcLate>>

\* The proposal is marked, whatever its status is by now.
OrcMark(i) ==
    /\ OrcAt(i, "mark")
    /\ orcSt' = [orcSt EXCEPT ![orcTh[i].p] = "applied"]
    /\ orcLink' = [orcLink EXCEPT ![orcTh[i].p] = i]
    /\ OrcGo(i, "end")
    /\ UNCHANGED <<orcTask, orcAppr, orcPlan, orcLate>>

\* The request dies between two transactions.
OrcCrash(i) ==
    /\ orcTh[i].pc \notin {"new", "end"}
    /\ OrcGo(i, "end")
    /\ UNCHANGED <<orcSt, orcLink, orcTask, orcAppr, orcPlan, orcLate>>

-----------------------------------------------------------------------------
(* The owner, with the transitions of Approvals. *)

OrcDecide(i) ==
    /\ orcAppr[i] \in {"pending", "approved", "rejected"}
    /\ \/ /\ orcAppr' = [orcAppr EXCEPT ![i] = "approved"]
          /\ UNCHANGED orcTask
       \/ /\ orcAppr' = [orcAppr EXCEPT ![i] = "rejected"]
          /\ orcTask' = [orcTask EXCEPT ![i] = "blocked"]
    /\ UNCHANGED <<orcSt, orcLink, orcPlan, orcTh, orcLate>>

OrcConsume(i) ==
    /\ orcAppr[i] = "approved"
    /\ orcAppr' = [orcAppr EXCEPT ![i] = "consumed"]
    /\ UNCHANGED <<orcSt, orcLink, orcTask, orcPlan, orcTh, orcLate>>

\* A task moves by hand; one that waits needs its consumed approval.
OrcOwnerMove(i) ==
    /\ \/ orcTask[i] = "new"     /\ orcTask' = [orcTask EXCEPT ![i] = "planned"]
       \/ orcTask[i] \in {"planned", "blocked"}
          /\ orcTask' = [orcTask EXCEPT ![i] = "active"]
       \/ orcTask[i] = "waiting" /\ orcAppr[i] = "consumed"
          /\ orcTask' = [orcTask EXCEPT ![i] = "active"]
    /\ UNCHANGED <<orcSt, orcLink, orcAppr, orcPlan, orcTh, orcLate>>

OrcNext ==
    \/ \E p \in OrcProposals : OrcPropose(p)
    \/ \E i \in OrcThreads, p \in OrcProposals :
          OrcOpen(i, p, "read") \/ OrcOpen(i, p, "reject")
    \/ \E i \in OrcThreads :
          \/ OrcRejectWrite(i) \/ OrcCheck(i) \/ OrcCreateTask(i) \/ OrcPlanTask(i)
          \/ OrcSettle(i) \/ OrcCreateApproval(i) \/ OrcGateTask(i) \/ OrcMark(i)
          \/ OrcCrash(i) \/ OrcDecide(i) \/ OrcConsume(i) \/ OrcOwnerMove(i)

OrcSpec == OrcInit /\ [][OrcNext]_orcVars

-----------------------------------------------------------------------------
\* A proposal that reads applied is backed by the work it asks for: its task
\* exists, and gated work is not active while its approval is undecided,
\* whatever the owner and other requests did between the transactions.
OrcGateHolds ==
    \A p \in OrcProposals : orcSt[p] = "applied" /\ p \notin OrcTalk =>
        LET i == orcLink[p] IN
        /\ i # OrcNone /\ orcTask[i] # "none"
        /\ p \in OrcGated => /\ orcAppr[i] # "none"
                             /\ orcTask[i] = "active" => orcAppr[i] # "pending"

\* Nothing is created for a plan that had been rejected when the request
\* began: not even a task without an approval.
OrcRejectedPlanStops ==
    \A i \in orcLate : orcTask[i] = "none" \/ orcTh[i].p \notin OrcGated

\* An applied proposal is backed by gated work, and a rejected plan makes none.
OrcSafe == OrcTypeOK /\ OrcGateHolds /\ OrcRejectedPlanStops
=============================================================================
