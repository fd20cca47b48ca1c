--------------------------- MODULE SelfImprovement --------------------------
(***************************************************************************)
(* Approval-gated review of a proposed code patch (self_improvement_api.py *)
(* with self_improvement_sandbox.py and os_sandbox.py).  A preview copies  *)
(* the allowed files to a temporary repository and asks for an approval    *)
(* that is bound to the patch, the files and the sandbox configuration.    *)
(* A run of the approved patch takes the repository out of the server's    *)
(* memory, consumes the approval, applies the patch there, validates it    *)
(* statically and, if the approval says so, tests it in a container.       *)
(*                                                                         *)
(* Requests run in threads beside each other; the deployment changes its   *)
(* configuration; old repositories are swept; a restart forgets which      *)
(* repositories the server owns.                                           *)
(***************************************************************************)
EXTENDS Integers, FiniteSets

CONSTANTS
    SiPatches,  \* previews, each with its approval and repository
    SiThreads,  \* run requests
    SiConfigs,  \* sandbox configurations a deployment may have
    SiStatic    \* no sandbox: static review only

ASSUME SiAssumption == SiStatic \notin SiConfigs

VARIABLES
    siAppr,    \* the status of the approval
    siBound,   \* the configuration the approval is bound to
    siOwned,   \* _OWNED_TEMP_ROOTS
    siDir,     \* repositories on disk: none, base, patched
    siOld,     \* approvals and repositories older than the TTL
    siConfig,  \* the configuration of the deployment
    siTh,      \* the run requests
    siApplied, \* how often a patch was applied
    siTested   \* configurations under which the changed code ran

siVars == <<siAppr, siBound, siOwned, siDir, siOld, siConfig, siTh, siApplied,
            siTested>>

SiModes == SiConfigs \cup {SiStatic}
SiIdle == [pc |-> "idle"]
SiAt(pc, a, cfg) == [pc |-> pc, a |-> a, cfg |-> cfg]

SiTypeOK ==
    /\ siAppr \in [SiPatches -> {"none", "pending", "approved", "rejected",
                                 "expired", "consumed"}]
    /\ siBound \in [SiPatches -> SiModes]
    /\ siOwned \subseteq SiPatches /\ siOld \subseteq SiPatches
    /\ siDir \in [SiPatches -> {"none", "base", "patched"}]
    /\ siConfig \in SiModes \cup {"invalid"}
    /\ siTh \in [SiThreads -> {SiIdle} \cup
          [pc : {"bound", "claimed", "consumed", "applied", "passed", "failed"},
           a : SiPatches, cfg : SiModes]]
    /\ siApplied \in [SiPatches -> 0..2]
    /\ siTested \in [SiPatches -> SUBSET SiModes]

SiInit ==
    /\ siAppr = [a \in SiPatches |-> "none"]
    /\ siBound = [a \in SiPatches |-> SiStatic]
    /\ siOwned = {} /\ siOld = {}
    /\ siDir = [a \in SiPatches |-> "none"]
    /\ siConfig \in SiModes \cup {"invalid"}
    /\ siTh = [i \in SiThreads |-> SiIdle]
    /\ siApplied = [a \in SiPatches |-> 0]
    /\ siTested = [a \in SiPatches |-> {}]

\* sweep_abandoned_temp_repositories: by age alone.
SiSwept(dir) == [a \in SiPatches |-> IF a \in siOld THEN "none" ELSE dir[a]]

\* preview_self_improvement: an invalid configuration is refused; old
\* repositories are swept; a new one is made, its patch is checked, and a
\* pending approval is created for the configuration of the moment.
SiPreview(a) ==
    /\ siAppr[a] = "none" /\ siConfig # "invalid"
    /\ siDir' = [SiSwept(siDir) EXCEPT ![a] = "base"]
    /\ siAppr' = [siAppr EXCEPT ![a] = "pending"]
    /\ siBound' = [siBound EXCEPT ![a] = siConfig]
    /\ siOwned' = siOwned \cup {a}
    /\ UNCHANGED <<siOld, siConfig, siTh, siApplied, siTested>>

\* approve_self_improvement: a live preview whose repository is owned.
SiApprove(a) ==
    /\ siAppr[a] = "pending" /\ a \notin siOld /\ a \in siOwned
    /\ siAppr' = [siAppr EXCEPT ![a] = "approved"]
    /\ UNCHANGED <<siBound, siOwned, siDir, siOld, siConfig, siTh, siApplied,
                   siTested>>

\* update_approval by the owner, who may decide as long as it is not consumed.
SiDecide(a, choice) ==
    /\ siAppr[a] \in {"pending", "approved", "rejected"}
    /\ siAppr' = [siAppr EXCEPT ![a] = choice]
    /\ UNCHANGED <<siBound, siOwned, siDir, siOld, siConfig, siTh, siApplied,
                   siTested>>

-----------------------------------------------------------------------------
(* run_self_improvement *)

\* _approval_binding: approved, not consumed, not past its expiry.
SiApproved(a) == siAppr[a] = "approved" /\ a \notin siOld

\* A static approval stays static; a container run needs the very
\* configuration that was approved.
SiMatches(a) == siBound[a] = SiStatic \/ siConfig = siBound[a]

\* _invalidate_bound_execution: the repository goes, the approval expires.
SiExpired(a) ==
    siAppr' = [siAppr EXCEPT ![a] = IF @ = "consumed" THEN @ ELSE "expired"]

\* The request reads the binding and compares it with the deployment.
SiBind(i, a) ==
    /\ siTh[i] = SiIdle /\ SiApproved(a)
    /\ IF SiMatches(a)
       THEN /\ siTh' = [siTh EXCEPT ![i] = SiAt("bound", a,
                  IF siBound[a] = SiStatic THEN SiStatic ELSE siConfig)]
            /\ UNCHANGED <<siAppr, siOwned, siDir>>
       ELSE /\ SiExpired(a)
            /\ siOwned' = siOwned \ {a}
            /\ siDir' = [siDir EXCEPT ![a] = IF a \in siOwned THEN "none" ELSE @]
            /\ UNCHANGED siTh
    /\ UNCHANGED <<siBound, siOld, siConfig, siApplied, siTested>>

\* It takes the repository out of memory, or fails.
SiClaim(i) ==
    LET a == siTh[i].a IN
    /\ siTh[i].pc = "bound"
    /\ siTh' = [siTh EXCEPT ![i] = IF a \in siOwned
                                   THEN SiAt("claimed", a, siTh[i].cfg) ELSE SiIdle]
    /\ siOwned' = siOwned \ {a}
    /\ UNCHANGED <<siAppr, siBound, siDir, siOld, siConfig, siApplied, siTested>>

\* Mutant: the approval is read once more but not consumed.
SiConsumedNot(status) == status

SiConsumed(status) == "consumed"

\* execute_review_only: the repository must be there and clean, the approval
\* still good; it is consumed whether or not the patch will apply.
SiConsume(i) ==
    LET a == siTh[i].a IN
    /\ siTh[i].pc = "claimed"
    /\ IF siDir[a] = "base" /\ SiApproved(a)
       THEN /\ siAppr' = [siAppr EXCEPT ![a] = SiConsumed(@)]
            /\ \E pc \in {"consumed", "failed"} :
                  siTh' = [siTh EXCEPT ![i] = SiAt(pc, a, @.cfg)]
       ELSE SiExpired(a) /\ siTh' = [siTh EXCEPT ![i] = SiAt("failed", a, @.cfg)]
    /\ UNCHANGED <<siBound, siOwned, siDir, siOld, siConfig, siApplied, siTested>>

\* The patch is applied, unless the repository was swept meanwhile.
SiApply(i) ==
    LET a == siTh[i].a IN
    /\ siTh[i].pc = "consumed"
    /\ \/ /\ siDir[a] = "base"
          /\ siDir' = [siDir EXCEPT ![a] = "patched"]
          /\ siApplied' = [siApplied EXCEPT ![a] = @ + 1]
          /\ siTh' = [siTh EXCEPT ![i] = SiAt("applied", a, @.cfg)]
       \/ /\ siTh' = [siTh EXCEPT ![i] = SiAt("failed", a, @.cfg)]
          /\ UNCHANGED <<siDir, siApplied>>
    /\ UNCHANGED <<siAppr, siBound, siOwned, siOld, siConfig, siTested>>

\* Static validation passes, or the patch is rolled back.
SiValidate(i) ==
    LET a == siTh[i].a IN
    /\ siTh[i].pc = "applied"
    /\ \/ /\ siDir[a] = "patched"
          /\ siTh' = [siTh EXCEPT ![i] = SiAt("passed", a, @.cfg)]
          /\ UNCHANGED siDir
       \/ /\ siTh' = [siTh EXCEPT ![i] = SiAt("failed", a, @.cfg)]
          /\ siDir' = [siDir EXCEPT ![a] = IF @ = "patched" THEN "base" ELSE @]
    /\ UNCHANGED <<siAppr, siBound, siOwned, siOld, siConfig, siApplied, siTested>>

\* run_podman_sandbox with the configuration that was compared: the probe or
\* the snapshot fails, or the changed code runs.
SiTest(i) ==
    LET a == siTh[i].a IN
    /\ siTh[i].pc = "passed" /\ siTh[i].cfg # SiStatic
    /\ \/ UNCHANGED siTested
       \/ /\ siDir[a] = "patched"
          /\ siTested' = [siTested EXCEPT ![a] = @ \cup {siTh[i].cfg}]
    /\ siTh' = [siTh EXCEPT ![i] = SiAt("failed", a, @.cfg)]
    /\ UNCHANGED <<siAppr, siBound, siOwned, siDir, siOld, siConfig, siApplied>>

\* The repository is deleted at the end, whatever happened.
SiFinish(i) ==
    /\ \/ siTh[i].pc = "failed"
       \/ siTh[i].pc = "passed" /\ siTh[i].cfg = SiStatic
    /\ siDir' = [siDir EXCEPT ![siTh[i].a] = "none"]
    /\ siTh' = [siTh EXCEPT ![i] = SiIdle]
    /\ UNCHANGED <<siAppr, siBound, siOwned, siOld, siConfig, siApplied, siTested>>

-----------------------------------------------------------------------------
SiAge(a) ==
    /\ siAppr[a] # "none" /\ siOld' = siOld \cup {a}
    /\ UNCHANGED <<siAppr, siBound, siOwned, siDir, siConfig, siTh, siApplied,
                   siTested>>

SiDeploy(config) ==
    /\ siConfig' = config
    /\ UNCHANGED <<siAppr, siBound, siOwned, siDir, siOld, siTh, siApplied, siTested>>

\* The server restarts: what it owned is forgotten, its repositories stay.
SiRestart ==
    /\ siOwned' = {} /\ siTh' = [i \in SiThreads |-> SiIdle]
    /\ UNCHANGED <<siAppr, siBound, siDir, siOld, siConfig, siApplied, siTested>>

SiNext ==
    \/ \E a \in SiPatches :
          \/ SiPreview(a) \/ SiApprove(a) \/ SiAge(a)
          \/ \E choice \in {"approved", "rejected", "expired"} : SiDecide(a, choice)
          \/ \E i \in SiThreads : SiBind(i, a)
    \/ \E i \in SiThreads :
          \/ SiClaim(i) \/ SiConsume(i) \/ SiApply(i) \/ SiValidate(i) \/ SiTest(i)
          \/ SiFinish(i)
    \/ \E config \in SiModes \cup {"invalid"} : SiDeploy(config)
    \/ SiRestart

SiSpec == SiInit /\ [][SiNext]_siVars

-----------------------------------------------------------------------------
\* A patch is applied at most once, and only when its approval is spent:
\* two runs of one approval, a late rejection, a sweep or a restart between
\* the steps change nothing about that.
SiAppliedOnce ==
    \A a \in SiPatches :
        siApplied[a] <= 1 /\ (siApplied[a] = 1 => siAppr[a] = "consumed")

\* Changed code runs only in the sandbox that was approved, never after a
\* static approval, although the deployment may change at any moment.
SiTestedAsApproved ==
    \A a \in SiPatches : siTested[a] \subseteq ({siBound[a]} \ {SiStatic})

\* A patch does what was approved: once, and tested only where it was approved.
SiSafe == SiTypeOK /\ SiAppliedOnce /\ SiTestedAsApproved
=============================================================================
