------------------------------ MODULE OneShot -------------------------------
(***************************************************************************)
(* What a durable operation with an outside effect promises: the effect is *)
(* sent at most once, only after the decision to send was recorded, and    *)
(* the operation is called done only after the world was seen as wanted.   *)
(* An operation whose effect got no answer may stay claimed for ever; it   *)
(* is never opened or sent again.                                          *)
(***************************************************************************)
EXTENDS Naturals

CONSTANT Items

VARIABLES
    stage,  \* open, claimed or confirmed
    sent,   \* how often the effect was sent
    world   \* was the world ever as the operation wants it

vars == <<stage, sent, world>>

Init ==
    /\ stage = [i \in Items |-> "open"]
    /\ sent = [i \in Items |-> 0]
    /\ world = [i \in Items |-> FALSE]

Claim(i) ==
    /\ stage[i] = "open"
    /\ stage' = [stage EXCEPT ![i] = "claimed"]
    /\ UNCHANGED <<sent, world>>

Send(i) ==
    /\ stage[i] = "claimed" /\ sent[i] = 0
    /\ sent' = [sent EXCEPT ![i] = 1]
    /\ world' \in {world, [world EXCEPT ![i] = TRUE]}
    /\ UNCHANGED stage

\* The effect arrives late.
Arrive(i) ==
    /\ sent[i] = 1
    /\ world' = [world EXCEPT ![i] = TRUE]
    /\ UNCHANGED <<stage, sent>>

Confirm(i) ==
    /\ stage[i] = "claimed" /\ world[i]
    /\ stage' = [stage EXCEPT ![i] = "confirmed"]
    /\ UNCHANGED <<sent, world>>

Next == \E i \in Items : Claim(i) \/ Send(i) \/ Arrive(i) \/ Confirm(i)

Spec == Init /\ [][Next]_vars
=============================================================================
