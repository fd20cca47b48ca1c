------------------------------- MODULE Shopper ------------------------------
(***************************************************************************)
(* The shopper (shopper_service.py): watches search marketplaces, and a    *)
(* search may write to one seller.  Searches run in threads of the server  *)
(* and in the timer's process.  One that takes longer than five minutes is *)
(* taken for dead and another is started beside it; it may still go on.    *)
(*                                                                         *)
(* Every use of the browser may find the browser lock taken or the browser *)
(* gone.  Which listings match and which one the local model picks is      *)
(* open.  Time is counted in ticks that keep the order of the delays:      *)
(* spacing <= stale <= hour <= day <= week.                                *)
(***************************************************************************)
EXTENDS Integers, Sequences, FiniteSets

CONSTANTS
    ShopWatches, ShopListings,
    ShopMax,        \* enabled watches create allows (8)
    ShopDaily,      \* contacts in one day (2)
    ShopSpacing,    \* 60 s between two searches of a watch
    ShopStale,      \* 300 s until a running search is taken for dead
    ShopHour,       \* a failed search is due again after an hour
    ShopDay,        \* the window of the contact limit
    ShopWeek,       \* a started search is due again after a week
    ShopHorizon,    \* bound: the clock
    ShopRuns,       \* bound: searches
    ShopNone

ASSUME ShopAssumption ==
    /\ {ShopMax, ShopDaily, ShopHorizon, ShopRuns} \subseteq Nat
    /\ {ShopSpacing, ShopStale, ShopHour, ShopDay, ShopWeek} \subseteq Nat
    /\ ShopNone \notin ShopWatches \cup ShopListings

VARIABLES
    shopNow,
    shopWatch,    \* watches
    shopRun,      \* runs, with the thread that executes each
    shopContact,  \* contacts, by listing
    shopSent      \* messages that went to the seller of a listing

shopVars == <<shopNow, shopWatch, shopRun, shopContact, shopSent>>

ShopRow == [watch : ShopWatches, at : 0..ShopHorizon,
            status : {"running", "interrupted", "complete", "partial", "needs_owner", "disconnected"},
            pc : {"search", "pick", "claim", "send", "note", "finish", "done"},
            matches : SUBSET ShopListings, pick : ShopListings \cup {ShopNone},
            ends : {"complete", "partial", "needs_owner", "disconnected"}]

ShopTypeOK ==
    /\ shopNow \in 0..ShopHorizon
    /\ shopWatch \in [ShopWatches ->
          [st : {"none", "on", "off"}, next : 0..ShopHorizon + ShopHour + ShopWeek]]
    /\ shopRun \in Seq(ShopRow)
    /\ shopContact \in [ShopListings ->
          [watch : ShopWatches \cup {ShopNone}, at : 0..ShopHorizon,
           status : {"none", "attempted", "needs_owner", "clicked", "confirmed", "unknown", "on_hold"}]]
    /\ shopSent \in [ShopListings -> 0..ShopRuns]

ShopInit ==
    /\ shopNow = 0
    /\ shopWatch = [w \in ShopWatches |-> [st |-> "none", next |-> 0]]
    /\ shopRun = <<>>
    /\ shopContact = [l \in ShopListings |-> [watch |-> ShopNone, at |-> 0, status |-> "none"]]
    /\ shopSent = [l \in ShopListings |-> 0]

ShopEnabled == {w \in ShopWatches : shopWatch[w].st = "on"}
ShopRunsOf(w) == {k \in DOMAIN shopRun : shopRun[k].watch = w}
ShopContacted == {l \in ShopListings : shopContact[l].status # "none"}
ShopRecent == {l \in ShopContacted : shopContact[l].at > shopNow - ShopDay}

\* The thread of a run goes on; what it no longer needs is dropped.
ShopGo(k, pc) ==
    shopRun' = [shopRun EXCEPT ![k].pc = pc, ![k].matches = {},
                    ![k].pick = IF pc \in {"finish", "done"} THEN ShopNone ELSE @]

-----------------------------------------------------------------------------
ShopCreate(w) ==
    /\ shopWatch[w].st = "none" /\ Cardinality(ShopEnabled) < ShopMax
    /\ shopWatch' = [shopWatch EXCEPT ![w] = [st |-> "on", next |-> shopNow]]
    /\ UNCHANGED <<shopNow, shopRun, shopContact, shopSent>>

\* set_enabled does not look at the number of watches.
ShopSetEnabled(w, st) ==
    /\ shopWatch[w].st \in {"on", "off"} \ {st}
    /\ shopWatch' = [shopWatch EXCEPT ![w].st = st]
    /\ UNCHANGED <<shopNow, shopRun, shopContact, shopSent>>

\* start, from the owner or (due) from the timer.
ShopStart(w, due) ==
    LET active == {k \in ShopRunsOf(w) : shopRun[k].status = "running"} IN
    /\ shopWatch[w].st = "on" /\ (due => shopWatch[w].next <= shopNow)
    /\ \A k \in active : shopNow - shopRun[k].at >= ShopStale
    /\ \A k \in ShopRunsOf(w) : shopNow - shopRun[k].at >= ShopSpacing
    /\ Len(shopRun) < ShopRuns
    /\ shopRun' = Append(
          [k \in DOMAIN shopRun |->
              IF k \in active THEN [shopRun[k] EXCEPT !.status = "interrupted"] ELSE shopRun[k]],
          [watch |-> w, at |-> shopNow, status |-> "running", pc |-> "search",
           matches |-> {}, pick |-> ShopNone, ends |-> "disconnected"])
    /\ shopWatch' = [shopWatch EXCEPT ![w].next = shopNow + ShopWeek]
    /\ UNCHANGED <<shopNow, shopContact, shopSent>>

\* execute: each source is searched under the browser lock, or it is busy.
\* Only a source that was read has matches.
ShopSearch(k, ends, matches) ==
    /\ shopRun[k].pc = "search"
    /\ ends \in {"needs_owner", "disconnected"} => matches = {}
    /\ shopRun' = [shopRun EXCEPT ![k].ends = ends, ![k].matches = matches,
          ![k].pc = IF matches = {} THEN "finish" ELSE "pick"]
    /\ UNCHANGED <<shopNow, shopWatch, shopContact, shopSent>>

\* autonomous_contact: what was contacted is read, and the model picks one of
\* the others, none, or fails.
ShopPick(k) ==
    LET candidates == shopRun[k].matches \ ShopContacted IN
    /\ shopRun[k].pc = "pick"
    /\ \/ /\ Cardinality(ShopRecent) < ShopDaily
          /\ \E l \in candidates :
                shopRun' = [shopRun EXCEPT ![k].pc = "claim", ![k].pick = l, ![k].matches = {}]
       \/ ShopGo(k, "finish")
    /\ UNCHANGED <<shopNow, shopWatch, shopContact, shopSent>>

\* Mutant: the listing is not a key of contacts.
ShopFreeAlways(l) == TRUE

ShopFree(l) == l \notin ShopContacted

ShopRoom == Cardinality(ShopRecent) < ShopDaily

\* The claim: one immediate transaction under the browser lock.
ShopClaim(k) ==
    LET l == shopRun[k].pick IN
    /\ shopRun[k].pc = "claim"
    /\ \/ /\ ShopRoom /\ ShopFree(l)
          /\ shopContact' = [shopContact EXCEPT ![l] =
                [watch |-> shopRun[k].watch, at |-> shopNow, status |-> "attempted"]]
          /\ ShopGo(k, "send")
       \/ /\ ShopGo(k, "finish")
          /\ UNCHANGED shopContact
    /\ UNCHANGED <<shopNow, shopWatch, shopSent>>

\* send_first_contact: the message goes out, or the page is not as expected,
\* or the browser fails before or after the click.
ShopSend(k) ==
    LET l == shopRun[k].pick IN
    /\ shopRun[k].pc = "send"
    /\ \/ /\ shopSent' = [shopSent EXCEPT ![l] = @ + 1]
          /\ ShopGo(k, "note") \/ ShopGo(k, "finish")
       \/ /\ ShopGo(k, "note") \/ ShopGo(k, "finish")
          /\ UNCHANGED shopSent
    /\ UNCHANGED <<shopNow, shopWatch, shopContact>>

\* The outcome is written whatever happened to the row meanwhile: an owner's
\* hold is lost.  Whether an unknown one went out is open.
ShopNote(k, status) ==
    LET l == shopRun[k].pick IN
    /\ shopRun[k].pc = "note"
    /\ status \in {"clicked", "confirmed"} => shopSent[l] > 0
    /\ shopContact' = [shopContact EXCEPT ![l].status = status]
    /\ ShopGo(k, "finish")
    /\ UNCHANGED <<shopNow, shopWatch, shopSent>>

\* The run's row is written by id, interrupted or not.
ShopFinish(k) ==
    LET ends == shopRun[k].ends IN
    /\ shopRun[k].pc = "finish"
    /\ shopRun' = [shopRun EXCEPT ![k].pc = "done", ![k].status = ends,
                                  ![k].ends = "disconnected"]
    /\ shopWatch' = IF ends \in {"complete", "partial"} THEN shopWatch
                    ELSE [shopWatch EXCEPT ![shopRun[k].watch].next = shopNow + ShopHour]
    /\ UNCHANGED <<shopNow, shopContact, shopSent>>

\* hold: the last contact of a watch waits for the owner.
ShopHold(w) ==
    \E l \in ShopContacted :
        /\ shopContact[l].watch = w
        /\ \A x \in ShopContacted :
              shopContact[x].watch = w => shopContact[x].at <= shopContact[l].at
        /\ shopContact' = [shopContact EXCEPT ![l].status = "on_hold"]
        /\ UNCHANGED <<shopNow, shopWatch, shopRun, shopSent>>

ShopCrash(k) ==
    /\ shopRun[k].pc # "done"
    /\ shopRun' = [shopRun EXCEPT ![k].pc = "done", ![k].matches = {}, ![k].pick = ShopNone,
                                  ![k].ends = "disconnected"]
    /\ UNCHANGED <<shopNow, shopWatch, shopContact, shopSent>>

ShopTick ==
    /\ shopNow < ShopHorizon /\ shopNow' = shopNow + 1
    /\ UNCHANGED <<shopWatch, shopRun, shopContact, shopSent>>

ShopNext ==
    \/ \E w \in ShopWatches :
          \/ ShopCreate(w) \/ ShopHold(w)
          \/ \E st \in {"on", "off"} : ShopSetEnabled(w, st)
          \/ \E due \in BOOLEAN : ShopStart(w, due)
    \/ \E k \in DOMAIN shopRun :
          \/ \E ends \in {"complete", "partial", "needs_owner", "disconnected"},
                matches \in SUBSET ShopListings : ShopSearch(k, ends, matches)
          \/ ShopPick(k) \/ ShopClaim(k) \/ ShopSend(k)
          \/ \E status \in {"needs_owner", "clicked", "confirmed", "unknown"} : ShopNote(k, status)
          \/ ShopFinish(k) \/ ShopCrash(k)
    \/ ShopTick

ShopSpec == ShopInit /\ [][ShopNext]_shopVars

-----------------------------------------------------------------------------
\* Over searches that run beside one another, crashes and restarts, a seller
\* gets at most one first message, and only for a listing recorded before.
ShopContactOnce ==
    \A l \in ShopListings :
        /\ shopSent[l] <= 1
        /\ shopSent[l] = 1 => l \in ShopContacted

\* No window of a day holds more contacts than the limit, however many
\* searches decided to write while there was still room.
ShopWithinDay == Cardinality(ShopRecent) <= ShopDaily

\* Sellers are written to once each, and not more of them in a day than allowed.
ShopSafe == ShopTypeOK /\ ShopContactOnce /\ ShopWithinDay
=============================================================================
