------------------------------ MODULE Decision ------------------------------
(***************************************************************************)
(* How a request of the owner is judged (decision_layer.py, risk_policy.py,*)
(* model_policy.py, orchestrator.py).  Three policies look at the same text*)
(* and must agree: the route, the risk class, and the score that decides   *)
(* what happens to the work.  A text is abstracted to what they see in it: *)
(* its signals, a few words, its length, whether it is vague, and what the *)
(* memory search added.                                                    *)
(***************************************************************************)
EXTENDS Integers, FiniteSets, FiniteSetsExt

CONSTANTS
    DecMax,       \* bound: signals that one text holds
    DecContexts   \* prioritization points of the memory context; 0: none

ASSUME DecAssumption == DecMax \in Nat /\ DecContexts \subseteq {0} \cup 8..16

VARIABLES
    decPc,     \* asked, decided, proposed
    decIn,     \* the request
    decOut,    \* the recorded decision
    decPlan    \* the proposal made of it

decVars == <<decPc, decIn, decOut, decPlan>>

DecRisky == {"money_or_purchase", "external_write", "install_or_infra"}
DecSignals == DecRisky \cup {"refuse_unsafe", "queue", "memory_retrieval", "research",
                             "quick_read_tool", "coding"}
DecInstant == {"direct_answer", "quick_tool_use", "memory_retrieval"}

\* What is seen of a text.  A vague one has few words.
DecTexts ==
    {t \in [signals : {s \in SUBSET DecSignals : Cardinality(s) <= DecMax},
            words : SUBSET {"secret", "urgent", "hard", "gpu"},
            size : {"short", "mid", "long"}, vague : BOOLEAN,
            context : DecContexts, budget : {"economy", "balanced", "quality"},
            local : {"off", "ready", "failing"}] : t.vague => t.size = "short"}

DecNone == [st |-> "none"]

DecInit ==
    /\ decPc = "asked" /\ decIn \in DecTexts
    /\ decOut = DecNone /\ decPlan = DecNone

-----------------------------------------------------------------------------
\* Mutant: side effects are looked for after the harmless routes.
DecRouteRiskLast(t) ==
    LET s == t.signals IN
    IF "refuse_unsafe" \in s         THEN "refuse_redirect"
    ELSE IF t.vague                  THEN "clarification_required"
    ELSE IF "queue" \in s            THEN "task_queue"
    ELSE IF "memory_retrieval" \in s THEN "memory_retrieval"
    ELSE IF "research" \in s         THEN "research_agent"
    ELSE IF "quick_read_tool" \in s  THEN "quick_tool_use"
    ELSE IF s \cap DecRisky # {}     THEN "approval_required"
    ELSE IF "coding" \in s           THEN "shell_agent_flow"
    ELSE IF t.context > 0 THEN "memory_retrieval" ELSE "direct_answer"

\* The route: the first rule that applies.  Relevant memory turns a direct
\* answer into a retrieval.
DecRoute(t) ==
    LET s == t.signals IN
    IF "refuse_unsafe" \in s         THEN "refuse_redirect"
    ELSE IF t.vague                  THEN "clarification_required"
    ELSE IF s \cap DecRisky # {}     THEN "approval_required"
    ELSE IF "queue" \in s            THEN "task_queue"
    ELSE IF "memory_retrieval" \in s THEN "memory_retrieval"
    ELSE IF "research" \in s         THEN "research_agent"
    ELSE IF "quick_read_tool" \in s  THEN "quick_tool_use"
    ELSE IF "coding" \in s           THEN "shell_agent_flow"
    ELSE IF t.context > 0 THEN "memory_retrieval" ELSE "direct_answer"

\* infer_complexity
DecComplexity(t) ==
    IF t.signals \cap {"research", "coding"} # {}            THEN "medium"
    ELSE IF t.words \cap {"hard", "gpu"} # {}                THEN "high"
    ELSE IF t.size = "short" /\ t.signals \cap DecRisky = {} THEN "low"
    ELSE IF t.size = "long"                                  THEN "high"
    ELSE "medium"

\* infer_urgency
DecUrgency(t) ==
    IF "queue" \in t.signals THEN "low" ELSE IF "urgent" \in t.words THEN "high" ELSE "normal"

DecByEffort(t, plain, hard) == IF DecComplexity(t) = "high" THEN hard ELSE plain

\* infer_task_type
DecTaskType(t, route) ==
    IF route = "refuse_redirect"             THEN "security_review"
    ELSE IF route = "clarification_required" THEN "classification"
    ELSE IF route = "memory_retrieval"       THEN "extraction"
    ELSE IF route = "shell_agent_flow"       THEN DecByEffort(t, "debugging", "tool_making")
    ELSE IF route = "approval_required"      THEN "high_value_decision"
    ELSE IF "coding" \in t.signals           THEN "tool_making"
    ELSE IF route = "research_agent"         THEN DecByEffort(t, "routine_research", "architecture")
    ELSE IF route = "task_queue"             THEN "documentation"
    ELSE "general"

\* The action a request amounts to, and the class of that action.
DecClass(t, route) ==
    LET s == t.signals IN
    IF "refuse_unsafe" \in s                                                   THEN "forbidden"
    ELSE IF s \cap {"money_or_purchase", "install_or_infra"} # {}              THEN "R5"
    ELSE IF "secret" \in t.words                                               THEN "R5"
    ELSE IF "external_write" \in s                                             THEN "R4"
    ELSE IF route = "task_queue"                                               THEN "R2"
    ELSE IF route \in {"memory_retrieval", "research_agent", "quick_tool_use"} THEN "R1"
    ELSE IF "coding" \in s                                                     THEN "R3"
    ELSE "R1"

\* evaluate_action_policy without an approval: nothing unsafe can be approved,
\* money, installs and secrets are blocked, code and external writes reviewed.
DecPolicy(class) ==
    CASE class \in {"R1", "R2"} -> "autonomous"
      [] class \in {"R3", "R4"} -> "needs_review"
      [] OTHER                  -> "blocked"

DecRisk(class) == CASE class = "R1" -> "low" [] class \in {"R2", "R3"} -> "medium"
                    [] OTHER -> "high"

-----------------------------------------------------------------------------
\* The points of a route: relevance to the goal, time saved, reuse.
DecRoutePoints(route) ==
    CASE route = "direct_answer"          -> 26 + 18 + 8
      [] route = "clarification_required" -> 12 + 6
      [] route = "quick_tool_use"         -> 30 + 22 + 12
      [] route = "memory_retrieval"       -> 32 + 24 + 16
      [] route = "shell_agent_flow"       -> 36 + 30 + 22
      [] route = "research_agent"         -> 34 + 26 + 18
      [] route = "task_queue"             -> 30 + 20 + 14
      [] route = "approval_required"      -> 36 + 28 + 16
      [] OTHER                            -> 0

DecPenalty(t, route, class) ==
    LET s == t.signals
        If(c, n) == IF c THEN n ELSE 0
    IN If(DecRisk(class) = "medium", 8) + If(DecRisk(class) = "high", 24)
       + If(route = "research_agent", 4)
       + If("install_or_infra" \in s \/ "gpu" \in t.words, 12)
       + If("money_or_purchase" \in s, 10)
       + If(s \cap {"coding", "install_or_infra"} # {}, 6)
       + If("queue" \in s, 3) + If("external_write" \in s, 4)

DecUrgencyPoints(t, route) ==
    IF route = "refuse_redirect"      THEN 0
    ELSE IF DecUrgency(t) = "high"    THEN 12
    ELSE IF DecUrgency(t) = "normal"  THEN 6
    ELSE 2

\* infer_value_score_inputs
DecScore(t, route, class) ==
    LET If(c, n) == IF c THEN n ELSE 0
        raw == DecRoutePoints(route) + If("coding" \in t.signals, 8 + 6)
               + If(DecComplexity(t) = "high", 4 + 4) + DecUrgencyPoints(t, route)
               + t.context - DecPenalty(t, route, class)
    IN Max({0, Min({100, raw})})

DecBand(score) ==
    IF score <= 24      THEN "ignored"
    ELSE IF score <= 49 THEN "queued"
    ELSE IF score <= 69 THEN "proposed"
    ELSE IF score <= 89 THEN "executed"
    ELSE "held_for_approval"

\* value_band_for_score: the route and the policy come before the score.
DecHandling(route, class, score, gated) ==
    LET band == DecBand(score) IN
    IF route = "refuse_redirect"                                                THEN "ignored"
    ELSE IF route = "clarification_required"                                    THEN "proposed"
    ELSE IF gated \/ DecRisk(class) = "high" \/ DecPolicy(class) # "autonomous" THEN "held_for_approval"
    ELSE IF route = "task_queue"                                                THEN "queued"
    ELSE IF band = "executed" /\ route \notin DecInstant                        THEN "proposed"
    ELSE band

\* Mutant: the route alone decides.
DecGatedByRoute(route, class) == route = "approval_required"

\* Whether the decision asks for an approval.
DecGated(route, class) ==
    \/ route = "approval_required"
    \/ route # "clarification_required" /\ class \in {"R4", "R5"}

\* The status first recommended by the route, ...
DecFirstStatus(route) ==
    CASE route = "clarification_required" -> "clarification_needed"
      [] route \in {"memory_retrieval", "shell_agent_flow", "task_queue", "research_agent"} -> "planned"
      [] route = "approval_required"      -> "waiting_for_approval"
      [] OTHER                            -> "none"

\* ... then by the policy, ...
DecPolicyStatus(route, class) ==
    CASE DecPolicy(class) = "blocked" /\ route \notin {"refuse_redirect", "clarification_required"}
            -> "blocked"
      [] DecPolicy(class) = "needs_review" /\ route \notin {"approval_required", "clarification_required"}
            -> IF class = "R4" THEN "waiting_for_approval" ELSE "review"
      [] OTHER -> DecFirstStatus(route)

\* ... and last by how the work is handled.
DecStatus(route, class, score, gated) ==
    LET handling == DecHandling(route, class, score, gated)
        status   == DecPolicyStatus(route, class)
    IN CASE handling = "ignored"                      -> "none"
         [] handling = "queued" /\ status = "none"    -> "queued"
         [] /\ handling = "held_for_approval"
            /\ status \notin {"blocked", "clarification_needed"} -> "waiting_for_approval"
         [] OTHER                                     -> status

-----------------------------------------------------------------------------
\* choose_route: the model for a task.  Later rules override earlier ones.
DecCloud(type, complexity, risk, budget) ==
    LET cheap == \/ type \in {"classification", "extraction"} /\ risk # "high"
                 \/ complexity = "low" /\ risk = "low"
        balanced == type \in {"tool_making", "debugging", "documentation", "routine_research"}
        premium == \/ type \in {"architecture", "security_review", "high_value_decision"}
                   \/ risk = "high" \/ complexity = "high"
        base == IF premium THEN "premium" ELSE IF cheap /\ ~balanced THEN "cheap" ELSE "balanced"
    IN CASE base = "balanced" /\ budget = "economy" /\ risk = "low"        -> "cheap"
         [] base = "balanced" /\ budget = "quality" /\ complexity # "low"  -> "premium"
         [] OTHER                                                          -> base

\* A private text stays on the validated local model unless that fails or the
\* risk is high.
DecModel(t, type, risk) ==
    IF t.local = "ready" /\ risk # "high" THEN "local_gpu"
    ELSE DecCloud(type, DecComplexity(t), risk, t.budget)

\* infer_execution_path: what may be done without another step of the owner.
DecNow(route, gated) == route \in DecInstant /\ ~gated

\* The parts of the decision, in the order in which each uses the ones before.
DecDecision(t) ==
    LET route == DecRoute(t)
        class == DecClass(t, route)
        gated == DecGated(route, class)
        score == DecScore(t, route, class)
    IN [st |-> "decided", route |-> route, class |-> class, gated |-> gated, score |-> score,
        handling |-> DecHandling(route, class, score, gated),
        status |-> DecStatus(route, class, score, gated),
        model |-> DecModel(t, DecTaskType(t, route), DecRisk(class)),
        now |-> DecNow(route, gated)]

\* record_routing_decision
DecDecide ==
    /\ decPc = "asked"
    /\ decOut' = DecDecision(decIn)
    /\ decPc' = "decided"
    /\ UNCHANGED <<decIn, decPlan>>

\* The routes whose proposal creates a task.
DecPlanTask(route) ==
    route \notin {"direct_answer", "clarification_required", "refuse_redirect"}

\* build_orchestration_proposal: what applying the proposal would create.
DecPropose ==
    /\ decPc = "decided"
    /\ decPlan' = [st |-> "proposed", task |-> DecPlanTask(decOut.route),
                   approval |-> decOut.route = "approval_required"]
    /\ decPc' = "proposed"
    /\ UNCHANGED <<decIn, decOut>>

DecNext == DecDecide \/ DecPropose

DecSpec == DecInit /\ [][DecNext]_decVars

-----------------------------------------------------------------------------
\* What may run at once, or is called executed, is of the lowest class and
\* holds no sign of a side effect or a secret: the order of the route rules
\* and the order of the policy rules agree.
DecRunsOnlySafe ==
    decPc # "asked" /\ (decOut.now \/ decOut.handling = "executed") =>
        /\ decOut.class = "R1"
        /\ decIn.signals \cap (DecRisky \cup {"refuse_unsafe"}) = {}
        /\ "secret" \notin decIn.words

\* A decision that asks for an approval is held, and no later rule takes the
\* gate off its recommended status.
DecGatedHeld ==
    decPc # "asked" /\ decOut.gated =>
        /\ decOut.handling = "held_for_approval"
        /\ decOut.status \in {"blocked", "waiting_for_approval"}

\* No bonus lifts unsafe work out of the lowest band: its score is zero even
\* with the most relevant memory, code and complexity.
DecUnsafeWorthless ==
    decPc # "asked" /\ decOut.route = "refuse_redirect" => decOut.score = 0

\* Work of high risk is given to the strongest model, never to the local one
\* and never, in economy mode, to a cheap one.
DecStrongModel ==
    decPc # "asked" /\ DecRisk(decOut.class) = "high" => decOut.model = "premium"

\* A proposal for a gated decision creates no task without its approval.  This
\* does not hold when a mention of a secret is all that gates the decision:
\* the proposal follows the route only.
DecPlanGate ==
    decPc = "proposed" /\ decOut.gated /\ "secret" \notin decIn.words =>
        decPlan.approval \/ ~decPlan.task

\* The policies agree on every text: what needs an approval is held and planned
\* with it, what runs at once is harmless, what is unsafe is worth nothing, and
\* high risk is given to the strongest model.
DecSafe == DecRunsOnlySafe /\ DecGatedHeld /\ DecUnsafeWorthless /\ DecStrongModel /\ DecPlanGate
=============================================================================
