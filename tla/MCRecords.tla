------------------------------ MODULE MCRecords ------------------------------
(***************************************************************************)
(* What the control plane records and decides, one instance for TLC: the   *)
(* audit chain, orchestration proposals, self-improvement, research, the   *)
(* shopper and its replies, the decision layer, permission checks, the     *)
(* night queue and learned skills.  They share no state that their         *)
(* properties speak of, so a behaviour follows one of them, chosen in the  *)
(* initial state, and leaves the others at rest.                           *)
(***************************************************************************)
EXTENDS AuditChain, Orchestration, SelfImprovement, Research, Shopper,
        ShopperReplies, Decision, Permissions, NightQueue, Skills

VARIABLE focus

MCGenesis == <<"genesis", 0>>

\* Two manifests: a plain one of a local system, and one of an external system
\* that needs a key, is heavy, has no rollback notes and forbids a scope.
MCPlainDoc ==
    [reads |-> {"plain", "public", "system", "raw"}, writes |-> {"plain", "public"},
     forbids |-> {"read_raw_secret"}, gates |-> {"install", "connect"},
     free |-> TRUE, keyed |-> FALSE, heavy |-> FALSE, ext |-> FALSE, notes |-> TRUE]
MCDocs ==
    {MCPlainDoc, [MCPlainDoc EXCEPT !.forbids = {"public"}, !.keyed = TRUE,
                                    !.notes = FALSE, !.heavy = TRUE, !.ext = TRUE, !.gates = {}]}

\* What a night run is asked to do, and the risk classes its policy allows.
MCRequested == {{}, {"missing", "propose"}}
MCClasses == {{}, {"R1", "R3"}}

MCRecords == {"audit", "orch", "self", "research", "shop", "reply", "decide",
              "perm", "night", "skill"}

MCRest(s) ==
    /\ IF s = "audit" THEN TRUE ELSE UNCHANGED audVars
    /\ IF s = "orch" THEN TRUE ELSE UNCHANGED orcVars
    /\ IF s = "self" THEN TRUE ELSE UNCHANGED siVars
    /\ IF s = "research" THEN TRUE ELSE UNCHANGED resVars
    /\ IF s = "shop" THEN TRUE ELSE UNCHANGED shopVars
    /\ IF s = "reply" THEN TRUE ELSE UNCHANGED repVars
    /\ IF s = "decide" THEN TRUE ELSE UNCHANGED decVars
    /\ IF s = "perm" THEN TRUE ELSE UNCHANGED permVars
    /\ IF s = "night" THEN TRUE ELSE UNCHANGED ngVars
    /\ IF s = "skill" THEN TRUE ELSE UNCHANGED skVars

\* A part at rest has one initial state.
MCRestingState ==
    /\ IF focus = "orch" THEN TRUE ELSE orcPlan = [p \in OrcProposals |-> FALSE]
    /\ IF focus = "self" THEN TRUE ELSE siConfig = SiStatic
    /\ IF focus = "research" THEN TRUE
       ELSE resConf = CHOOSE conf \in ResConf : conf.ready
    /\ IF focus = "decide" THEN TRUE
       ELSE decIn = [signals |-> {}, words |-> {}, size |-> "short", vague |-> FALSE,
                     context |-> 0, budget |-> "balanced", local |-> "ready"]
    /\ IF focus = "perm" THEN TRUE
       ELSE permRows = [s \in PermTools |-> [st |-> "absent"]] /\ permKeys = TRUE

MCInit ==
    /\ focus \in MCRecords
    /\ MCRestingState
    /\ AudInit /\ OrcInit /\ SiInit /\ ResInit /\ ShopInit /\ RepInit
    /\ DecInit /\ PermInit /\ NgInit /\ SkInit

\* Bound: the second patch is previewed, decided on and grows old, and its
\* preview sweeps the repository of the first, but it is not run itself.
MCOnePatchRuns == \A i \in SiThreads : siTh'[i] # SiIdle => siTh'[i].a = "a"

MCNext ==
    /\ UNCHANGED focus
    /\ \/ focus = "audit" /\ AudNext /\ MCRest("audit")
       \/ focus = "orch" /\ OrcNext /\ MCRest("orch")
       \/ focus = "self" /\ SiNext /\ MCOnePatchRuns /\ MCRest("self")
       \/ focus = "research" /\ ResNext /\ MCRest("research")
       \/ focus = "shop" /\ ShopNext /\ MCRest("shop")
       \/ focus = "reply" /\ RepNext /\ MCRest("reply")
       \/ focus = "decide" /\ DecNext /\ MCRest("decide")
       \/ focus = "perm" /\ PermNext /\ MCRest("perm")
       \/ focus = "night" /\ NgNext /\ MCRest("night")
       \/ focus = "skill" /\ SkNext /\ MCRest("skill")

MCSpec ==
    MCInit /\ [][MCNext]_<<focus, audVars, orcVars, siVars, resVars, shopVars,
                           repVars, decVars, permVars, ngVars, skVars>>
=============================================================================
