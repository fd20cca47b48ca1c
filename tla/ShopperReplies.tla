--------------------------- MODULE ShopperReplies ---------------------------
(***************************************************************************)
(* The conversation with one seller (follow_up and hold of                 *)
(* shopper_service.py).  Two processes may follow up at once: the timer    *)
(* and the one the browser's events start.  Both read the conversation,    *)
(* note the seller's turn, let a delay pass, ask the local model and       *)
(* answer; the browser lock keeps the last read, the claim and the answer  *)
(* together.  The seller, the owner and Marktplaats do not wait for it.    *)
(*                                                                         *)
(* Messages are only added, so the length of the conversation stands for   *)
(* the fingerprint of what was read.                                       *)
(***************************************************************************)
EXTENDS Integers, Sequences

CONSTANTS
    RepProcs,   \* processes that run follow_up
    RepTurns,   \* bound: messages of the conversation
    RepFree     \* nobody holds the browser lock

ASSUME RepAssumption == RepTurns \in Nat \ {0} /\ RepFree \notin RepProcs

VARIABLES
    repTalk,     \* the conversation as the page shows it
    repLate,     \* answers that were sent and are not shown yet
    repContact,  \* the contact's status
    repRow,      \* replies, by fingerprint
    repDue,      \* has the delay of the reply passed
    repHeld,     \* turns that waited when the owner called hold
    repSent,     \* answers sent to a turn
    repPc,
    repLock

repVars == <<repTalk, repLate, repContact, repRow, repDue, repHeld, repSent, repPc, repLock>>

RepLengths == 1..RepTurns
RepIdle == [pc |-> "idle", n |-> 0]
RepAt(pc, n) == [pc |-> pc, n |-> n]

RepTypeOK ==
    /\ repTalk \in Seq({"own", "seller"}) /\ Len(repTalk) \in RepLengths
    /\ repLate \in BOOLEAN
    /\ repContact \in {"clicked", "confirmed", "on_hold"}
    /\ repRow \in [RepLengths -> {"none", "pending", "superseded", "on_hold",
                                  "attempted", "clicked", "unknown", "ready_for_owner"}]
    /\ repDue \in [RepLengths -> BOOLEAN]
    /\ repHeld \in [RepLengths -> BOOLEAN]
    /\ repSent \in [RepLengths -> 0..2]
    /\ repPc \in [RepProcs -> {RepIdle} \cup
          [pc : {"check", "read", "note", "decide", "reread", "send", "write"}, n : 0..RepTurns]]
    /\ repLock \in RepProcs \cup {RepFree}

\* The first message was clicked; whether it arrived is still open.
RepInit ==
    /\ repTalk = <<"own">>
    /\ repLate = FALSE
    /\ repContact = "clicked"
    /\ repRow = [n \in RepLengths |-> "none"]
    /\ repDue = [n \in RepLengths |-> FALSE]
    /\ repHeld = [n \in RepLengths |-> FALSE]
    /\ repSent = [n \in RepLengths |-> 0]
    /\ repPc = [p \in RepProcs |-> RepIdle]
    /\ repLock = RepFree

RepGo(p, pc, n) == repPc' = [repPc EXCEPT ![p] = RepAt(pc, n)]
RepStop(p) == repPc' = [repPc EXCEPT ![p] = RepIdle]

\* Every pending reply but one is superseded.
RepSuperseded(n) ==
    [k \in RepLengths |-> IF repRow[k] = "pending" /\ k # n THEN "superseded" ELSE repRow[k]]

-----------------------------------------------------------------------------
(* The world. *)

RepWrites(who) ==
    /\ Len(repTalk) < RepTurns
    /\ repTalk' = Append(repTalk, who)
    /\ UNCHANGED <<repLate, repContact, repRow, repDue, repHeld, repSent, repPc, repLock>>

RepArrives ==
    /\ repLate /\ Len(repTalk) < RepTurns
    /\ repLate' = FALSE
    /\ repTalk' = Append(repTalk, "own")
    /\ UNCHANGED <<repContact, repRow, repDue, repHeld, repSent, repPc, repLock>>

\* reply_due passes (between 8 and 23 o'clock).
RepElapses(n) ==
    /\ repRow[n] = "pending" /\ ~repDue[n]
    /\ repDue' = [repDue EXCEPT ![n] = TRUE]
    /\ UNCHANGED <<repTalk, repLate, repContact, repRow, repHeld, repSent, repPc, repLock>>

\* hold: the contact and the replies that wait.
RepHold ==
    /\ repContact # "on_hold"
    /\ repContact' = "on_hold"
    /\ repHeld' = [n \in RepLengths |-> repHeld[n] \/ repRow[n] = "pending"]
    /\ repRow' = [n \in RepLengths |-> IF repRow[n] = "pending" THEN "on_hold" ELSE repRow[n]]
    /\ UNCHANGED <<repTalk, repLate, repDue, repSent, repPc, repLock>>

-----------------------------------------------------------------------------
(* follow_up *)

\* An uncertain contact is looked up, a confirmed one is read.
RepSelect(p) ==
    /\ repPc[p] = RepIdle
    /\ \/ repContact = "clicked" /\ RepGo(p, "check", 0)
       \/ repContact = "confirmed" /\ RepGo(p, "read", 0)
    /\ UNCHANGED <<repTalk, repLate, repContact, repRow, repDue, repHeld, repSent, repLock>>

\* confirm_delivery found our message, or not; the row is written by its key,
\* so that a hold made meanwhile is lost.
RepCheck(p) ==
    /\ repPc[p].pc = "check"
    /\ repContact' \in {"clicked", "confirmed"}
    /\ RepStop(p)
    /\ UNCHANGED <<repTalk, repLate, repRow, repDue, repHeld, repSent, repLock>>

\* The conversation is read under the lock.  When we wrote last, what waits is
\* superseded.
RepRead(p) ==
    LET n == Len(repTalk) IN
    /\ repPc[p].pc = "read" /\ repLock = RepFree
    /\ IF repTalk[n] = "own"
       THEN repRow' = RepSuperseded(0) /\ RepStop(p)
       ELSE RepGo(p, "note", n) /\ UNCHANGED repRow
    /\ UNCHANGED <<repTalk, repLate, repContact, repDue, repHeld, repSent, repLock>>

\* INSERT OR IGNORE
RepNoted(n) == [RepSuperseded(n) EXCEPT ![n] = IF @ = "none" THEN "pending" ELSE @]

\* The turn is noted; only one that waits and whose time has come goes on.
RepNote(p) ==
    LET n == repPc[p].n IN
    /\ repPc[p].pc = "note"
    /\ repRow' = RepNoted(n)
    /\ IF RepNoted(n)[n] = "pending" /\ repDue[n] THEN RepGo(p, "decide", n) ELSE RepStop(p)
    /\ UNCHANGED <<repTalk, repLate, repContact, repDue, repHeld, repSent, repLock>>

\* Outside the hours the reply waits for the morning.
RepNight(p) ==
    LET n == repPc[p].n IN
    /\ repPc[p].pc = "decide"
    /\ repDue' = [repDue EXCEPT ![n] = @ /\ repRow[n] # "pending"]
    /\ RepStop(p)
    /\ UNCHANGED <<repTalk, repLate, repContact, repRow, repHeld, repSent, repLock>>

\* The model decides, and the browser is taken again.
RepDecide(p) ==
    /\ repPc[p].pc = "decide" /\ repLock = RepFree
    /\ repLock' = p
    /\ RepGo(p, "reread", repPc[p].n)
    /\ UNCHANGED <<repTalk, repLate, repContact, repRow, repDue, repHeld, repSent>>

\* Mutant: the claim does not look at the row.
RepClaimableAny(n) == TRUE

RepClaimable(n) == repRow[n] = "pending"

\* The decision is dropped when the conversation moved on or somebody else
\* has taken the reply.
RepClaim(p) ==
    LET n == repPc[p].n IN
    /\ repPc[p].pc = "reread"
    /\ IF Len(repTalk) = n /\ RepClaimable(n)
       THEN /\ repRow' = [repRow EXCEPT ![n] = "attempted"]
            /\ RepGo(p, "send", n)
            /\ UNCHANGED repLock
       ELSE /\ RepStop(p) /\ repLock' = RepFree
            /\ UNCHANGED repRow
    /\ UNCHANGED <<repTalk, repLate, repContact, repDue, repHeld, repSent>>

\* send_reply: the message is shown now or later; or the offer is for the
\* owner and nothing is sent.
RepSend(p) ==
    LET n == repPc[p].n IN
    /\ repPc[p].pc = "send"
    /\ \/ /\ repSent' = [repSent EXCEPT ![n] = @ + 1]
          /\ \/ Len(repTalk) < RepTurns /\ repTalk' = Append(repTalk, "own") /\ UNCHANGED repLate
             \/ repLate' = TRUE /\ UNCHANGED repTalk
       \/ UNCHANGED <<repSent, repTalk, repLate>>
    /\ RepGo(p, "write", n)
    /\ UNCHANGED <<repContact, repRow, repDue, repHeld, repLock>>

RepOutcomes == {"clicked", "unknown", "ready_for_owner"}

RepWrite(p) ==
    LET n == repPc[p].n IN
    /\ repPc[p].pc = "write"
    /\ \E status \in RepOutcomes :
          /\ status = "clicked" => repSent[n] > 0
          /\ repRow' = [repRow EXCEPT ![n] = status]
    /\ RepStop(p) /\ repLock' = RepFree
    /\ UNCHANGED <<repTalk, repLate, repContact, repDue, repHeld, repSent>>

\* An exception or a crash: the lock falls, an attempt stays an attempt.
RepDies(p) ==
    /\ repPc[p] # RepIdle
    /\ RepStop(p)
    /\ repLock' = IF repLock = p THEN RepFree ELSE repLock
    /\ UNCHANGED <<repTalk, repLate, repContact, repRow, repDue, repHeld, repSent>>

RepNext ==
    \/ \E who \in {"own", "seller"} : RepWrites(who)
    \/ RepArrives \/ RepHold
    \/ \E n \in RepLengths : RepElapses(n)
    \/ \E p \in RepProcs :
          \/ RepSelect(p) \/ RepCheck(p) \/ RepRead(p) \/ RepNote(p) \/ RepNight(p)
          \/ RepDecide(p) \/ RepClaim(p) \/ RepSend(p) \/ RepWrite(p) \/ RepDies(p)

RepSpec == RepInit /\ [][RepNext]_repVars

-----------------------------------------------------------------------------
\* A seller's turn gets at most one answer, also when two processes follow up,
\* the answer is not shown yet, or its outcome was lost in a crash.
RepAnsweredOnce == \A n \in RepLengths : repSent[n] <= 1

\* A reply that waited when the owner put the conversation on hold is never
\* sent, though a process may have decided on it before and the hold on the
\* contact itself can be lost.
RepHeldUnsent == [][\A n \in RepLengths : repHeld[n] => repSent'[n] = repSent[n]]_repVars

\* A seller's turn gets at most one answer, and none that was put on hold.
RepSafe == [](RepTypeOK /\ RepAnsweredOnce) /\ RepHeldUnsent
=============================================================================
