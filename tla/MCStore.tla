------------------------------ MODULE MCStore ------------------------------
(***************************************************************************)
(* What the control plane keeps for the owner, one instance for TLC:       *)
(* approvals of tasks, memory items, and ingested sources with the graph   *)
(* drawn from them.  They share no state, so a behaviour follows one of    *)
(* them, chosen in the initial state, and leaves the others at rest.       *)
(***************************************************************************)
EXTENDS MCApprovals, Memory, Sources

VARIABLE focus

MCRest(s) ==
    /\ IF s = "approval" THEN TRUE ELSE UNCHANGED vars
    /\ IF s = "memory" THEN TRUE ELSE UNCHANGED memVars
    /\ IF s = "source" THEN TRUE ELSE UNCHANGED srcVars

MCInit ==
    /\ focus \in {"approval", "memory", "source"}
    /\ IF focus = "approval" THEN TRUE ELSE task = [t \in Tasks |-> "new"]
    /\ Init /\ MemInit /\ SrcInit

\* Bound: a second update of memory items begins after the first and ends before
\* it, while there is only one item.
MCMemPairs ==
    memTh'["j"].pc = "write" =>
        /\ memTh'["i"].pc = "write"
        /\ \E m \in MemItems : memItem'[m].st = "absent"

\* Ids of items and sources, and the two references, are interchangeable: they
\* are used in one order only.
MCMemOrder == memItem'["m2"].st # "absent" => memItem'["m1"].st # "absent"
MCSrcOrder ==
    /\ srcRec'["s1"].st = "absent" => srcRec'["s2"].st = "absent"
    /\ srcRec'["s2"].st = "absent" => srcRec'["s3"].st = "absent"
    /\ srcRec'["s1"].st # "absent" => srcRec'["s1"].ref = "r1"

MCNext ==
    /\ UNCHANGED focus
    /\ \/ focus = "approval" /\ Next /\ MCRest("approval")
       \/ focus = "memory" /\ MemNext /\ MCMemOrder /\ MCMemPairs /\ MCRest("memory")
       \/ focus = "source" /\ SrcNext /\ MCSrcOrder /\ MCRest("source")

MCSpec == MCInit /\ [][MCNext]_<<focus, vars, memVars, srcVars>>
=============================================================================
