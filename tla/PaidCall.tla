------------------------------ MODULE PaidCall ------------------------------
(***************************************************************************)
(* What the ledger of model_work.py promises of paid calls: an item is     *)
(* first reserved at its full price within the budget, then bought at most *)
(* once, at no more than its price, and only then accounted, at what it    *)
(* really cost.  An item that was bought may stay reserved for ever, but   *)
(* its reservation is never given back unaccounted.                        *)
(***************************************************************************)
EXTENDS Integers, FiniteSetsExt

CONSTANTS
    Items,  \* paid requests
    Price,  \* the reservation of an item
    Limit   \* the budget

VARIABLES
    stage,     \* open, reserved or accounted
    exposure,  \* what the item counts against the budget
    bought,    \* how often it was bought
    bill       \* what it cost

vars == <<stage, exposure, bought, bill>>

Total(f) == MapThenSumSet(LAMBDA i : f[i], Items)

Init ==
    /\ stage = [i \in Items |-> "open"]
    /\ exposure = [i \in Items |-> 0]
    /\ bought = [i \in Items |-> 0]
    /\ bill = [i \in Items |-> 0]

Reserve(i) ==
    /\ stage[i] = "open"
    /\ Total(exposure) + Price[i] <= Limit
    /\ stage' = [stage EXCEPT ![i] = "reserved"]
    /\ exposure' = [exposure EXCEPT ![i] = Price[i]]
    /\ UNCHANGED <<bought, bill>>

Buy(i) ==
    /\ stage[i] = "reserved"
    /\ bought[i] = 0
    /\ bought' = [bought EXCEPT ![i] = 1]
    /\ \E cost \in 0..Price[i] : bill' = [bill EXCEPT ![i] = cost]
    /\ UNCHANGED <<stage, exposure>>

Account(i) ==
    /\ stage[i] = "reserved"
    /\ bought[i] = 1
    /\ stage' = [stage EXCEPT ![i] = "accounted"]
    /\ exposure' = [exposure EXCEPT ![i] = bill[i]]
    /\ UNCHANGED <<bought, bill>>

Next == \E i \in Items : Reserve(i) \/ Buy(i) \/ Account(i)

Spec == Init /\ [][Next]_vars
=============================================================================
