-------------------------- MODULE ModelWork_proofs --------------------------
(***************************************************************************)
(* Proofs about ModelWork: it implements WorkQueue, so the theorems of     *)
(* WorkQueue_proofs hold of the queue with model executors, and no paid    *)
(* request is ever called twice.  The second half is about money and       *)
(* answers: the budgets bound what providers charge, a succeeded paid job  *)
(* has exactly one reconciled row, and the ledger keeps the contract       *)
(* PaidCall.                                                               *)
(***************************************************************************)
EXTENDS ModelWork, WorkQueue_proofs, WellFoundedInduction

-----------------------------------------------------------------------------
(* The inductive invariant. *)

\* The executor of worker w has a call for r in progress.
Busy(w, r) == ex[w].pc # "none" /\ wk[w].job = r

\* A call in progress belongs to a claim, and an answered one has an outcome.
CallsClaimed ==
    \A w \in Workers :
        /\ ex[w].pc # "none" => wk[w].pc = "claimed"
        /\ ex[w].pc \in {"answered", "recorded"} => ex[w].out \in Outcomes

\* A row that is accounted has its result.
ResultsStored ==
    \A r \in Requests :
        mw[r].state \in {"settled", "reconciled"} => mw[r].result # "none"

\* A paid request is called only by the one worker that authorised it, before
\* its row is accounted; what is stored of the call is what it cost.
OneShot(r) ==
    /\ mw[r].state = "approved" => calls[r] = 0
    /\ mw[r].state \in {"sending", "unknown"} => mw[r].held = Hold[r]
    /\ mw[r].state \in {"settled", "reconciled"} =>
          calls[r] = 1 /\ mw[r].charged = bill[r]
    /\ calls[r] \in {0, 1}
    /\ calls[r] = 0 => bill[r] = 0 /\ receipt[r] = NoReceipt
    /\ bill[r] <= Hold[r]
    /\ receipt[r] # NoReceipt => receipt[r] = bill[r]
    /\ \A w \in Workers : Busy(w, r) =>
          /\ mw[r].state \notin {"approved", "settled"}
          /\ ex[w].pc = "authorised" => calls[r] = 0
          /\ ex[w].pc # "authorised" => calls[r] = 1
          /\ ex[w].pc # "authorised" /\ ex[w].out # "failed"
                => ex[w].charge = bill[r]
    /\ \A v, w \in Workers : Busy(v, r) /\ Busy(w, r) => v = w

\* Local calls are never billed.
LocalFree == \A r \in Requests : ~Paid(r) => bill[r] = 0

LedgerInv ==
    /\ QueueInv
    /\ MTypeOK
    /\ CallsClaimed
    /\ ResultsStored
    /\ \A r \in Requests : Paid(r) => OneShot(r)
    /\ LocalFree

\* Every step of the executors is a step of the queue or leaves it alone.
LEMMA QueueSimulation ==
    ASSUME LedgerInv, [MNext]_mvars
    PROVE  [Next]_vars
  <1> DEFINE Executes == \E w \in Workers, res \in Results : Execute(w, res)
  <1>1. Executes => Next
    BY DEF Next
  <1>r. ASSUME NEW w \in Workers, wk[w].pc = "claimed",
               mw[wk[w].job].result # "none"
        PROVE  mw[wk[w].job].result \in Results
    <2>1. wk[w].job \in Requests
      BY <1>r DEF LedgerInv, QueueInv, ClaimsNameJobs
    <2>2. mw[wk[w].job] \in LedgerRow
      BY <2>1 DEF LedgerInv, MTypeOK
    <2> QED
      BY <1>r, <2>2 DEF LedgerRow, Results, Answers
  <1>2. CASE UNCHANGED mvars
    BY <1>2 DEF mvars, vars
  <1>3. CASE QueueStep
    BY <1>3 DEF QueueStep, Next
  <1>4. ASSUME NEW w \in Workers, Begin(w) PROVE [Next]_vars
    <2>1. CASE BeginStale(w) \/ BeginUnknown(w) \/ BeginRefused(w)
      <3>1. Execute(w, "bad") /\ "bad" \in Results
        BY <2>1 DEF BeginStale, BeginUnknown, BeginRefused, Results
      <3> QED
        BY <1>1, <3>1
    <2>2. CASE BeginCached(w)
      <3>1. mw[wk[w].job].result \in Results
        BY <1>r, <2>2 DEF BeginCached, Beginning
      <3>2. Execute(w, mw[wk[w].job].result)
        BY <2>2 DEF BeginCached
      <3> QED
        BY <1>1, <3>1, <3>2
    <2>3. CASE BeginSend(w)
      <3>1. UNCHANGED vars \/ ExtendLease(w)
        BY <2>3 DEF BeginSend
      <3> QED
        BY <3>1 DEF Next
    <2> QED
      BY <1>4, <2>1, <2>2, <2>3 DEF Begin
  <1>5. ASSUME NEW w \in Workers, NEW out \in Outcomes, NEW charge \in Charges,
               Transport(w, out, charge)
        PROVE  UNCHANGED vars
    BY <1>5 DEF Transport, vars
  <1>6. ASSUME NEW w \in Workers, Record(w) PROVE UNCHANGED vars
    BY <1>6 DEF Record, vars
  <1>7. ASSUME NEW w \in Workers, Finish(w) PROVE [Next]_vars
    <2>1. CASE FinishReconciled(w)
      <3>1. wk[w].pc = "claimed" /\ wk[w].job \in Requests
        BY <2>1 DEF FinishReconciled, Finishing, LedgerInv, CallsClaimed, QueueInv,
                    ClaimsNameJobs
      <3>3. mw[wk[w].job].result # "none"
        BY <2>1, <3>1 DEF FinishReconciled, LedgerInv, ResultsStored
      <3>4. mw[wk[w].job].result \in Results
        BY <1>r, <3>1, <3>3
      <3>2. Execute(w, mw[wk[w].job].result)
        BY <2>1 DEF FinishReconciled
      <3> QED
        BY <1>1, <3>4, <3>2
    <2>2. CASE FinishSettled(w)
      <3> DEFINE res == IF ex[w].out = "ok" THEN "ok" ELSE "bad"
      <3>1. Execute(w, res)
        BY <2>2 DEF FinishSettled
      <3>2. res \in Results
        BY DEF Results
      <3> HIDE DEF res
      <3> QED
        BY <1>1, <3>1, <3>2
    <2>3. CASE FinishLocalFailure(w) \/ FinishUnknown(w)
      <3>1. Execute(w, "retry") \/ Execute(w, "bad")
        BY <2>3 DEF FinishLocalFailure, FinishUnknown
      <3>2. "retry" \in Results /\ "bad" \in Results
        BY DEF Results
      <3> QED
        BY <1>1, <3>1, <3>2
    <2> QED
      BY <1>7, <2>1, <2>2, <2>3 DEF Finish
  <1>8. ASSUME NEW w \in Workers, MCrash(w) PROVE Next
    BY <1>8 DEF MCrash, Next
  <1>9. CASE (\E r \in Requests : Reconcile(r)) \/ NewDay
    BY <1>9 DEF Reconcile, NewDay, vars
  <1> HIDE DEF Executes
  <1> QED
    BY <1>2, <1>3, <1>4, <1>5, <1>6, <1>7, <1>8, <1>9 DEF MNext

-----------------------------------------------------------------------------
(* Ledger rows. *)

\* The sending marker reserves and keeps charge and answer.
LEMMA SendingRow ==
    ASSUME NEW row \in LedgerRow, NEW n \in Nat
    PROVE  /\ Sending(row, n) \in LedgerRow
           /\ Sending(row, n).state = "sending"
           /\ Sending(row, n).held = n
           /\ Sending(row, n).charged = row.charged
           /\ Sending(row, n).sent = "today"
           /\ Sending(row, n).result = row.result
  BY Zenon DEF Sending, LedgerRow, LedgerStates

\* Accounting replaces the reservation by the charge.
LEMMA AccountedRow ==
    ASSUME NEW row \in LedgerRow, NEW s \in LedgerStates,
           NEW n \in Nat, NEW res \in Answers
    PROVE  /\ Accounted(row, s, n, res) \in LedgerRow
           /\ Accounted(row, s, n, res).state = s
           /\ Accounted(row, s, n, res).held = 0
           /\ Accounted(row, s, n, res).charged = n
           /\ Accounted(row, s, n, res).sent = row.sent
           /\ Accounted(row, s, n, res).result = res
  <1>1. 0 \in Nat
    OBVIOUS
  <1> QED
    BY <1>1, Zenon DEF Accounted, LedgerRow

\* An unknown outcome keeps reservation and charge.
LEMMA UnknownRow ==
    ASSUME NEW row \in LedgerRow, NEW res \in Answers \cup {"none"}
    PROVE  /\ Unknown(row, res) \in LedgerRow
           /\ Unknown(row, res).state = "unknown"
           /\ Unknown(row, res).held = row.held
           /\ Unknown(row, res).charged = row.charged
           /\ Unknown(row, res).sent = row.sent
           /\ Unknown(row, res).result = res
  BY Zenon DEF Unknown, LedgerRow, LedgerStates

\* Forgetting a local failure keeps the charge.
LEMMA ForgottenRow ==
    ASSUME NEW row \in LedgerRow
    PROVE  /\ Forgotten(row) \in LedgerRow
           /\ Forgotten(row).state = "approved"
           /\ Forgotten(row).held = 0
           /\ Forgotten(row).charged = row.charged
           /\ Forgotten(row).sent = row.sent
           /\ Forgotten(row).result = "none"
  <1>1. 0 \in Nat
    OBVIOUS
  <1> QED
    BY <1>1, Zenon DEF Forgotten, LedgerRow, LedgerStates

\* A new day changes the day of a row and nothing else.
LEMMA YesterdayRow ==
    ASSUME NEW row \in LedgerRow
    PROVE  /\ Yesterday(row) \in LedgerRow
           /\ Yesterday(row).state = row.state
           /\ Yesterday(row).held = row.held
           /\ Yesterday(row).charged = row.charged
           /\ Yesterday(row).sent # "today"
           /\ Yesterday(row).result = row.result
  <1> DEFINE s == IF row.sent = "today" THEN "earlier" ELSE row.sent
  <1>1. s \in {"never", "today", "earlier"} /\ s # "today"
    BY DEF LedgerRow
  <1>2. Yesterday(row) = [row EXCEPT !.sent = s]
    BY Zenon DEF Yesterday
  <1> HIDE DEF s
  <1> QED
    BY <1>1, <1>2, Zenon DEF LedgerRow

-----------------------------------------------------------------------------
(* Preservation. *)

\* A request whose rows and whose calls in progress do not change stays a
\* one-shot request.
LEMMA OneShotFrame ==
    ASSUME NEW r \in Requests, OneShot(r),
           mw'[r].state = mw[r].state,
           mw'[r].held = mw[r].held,
           mw'[r].charged = mw[r].charged,
           receipt'[r] = receipt[r],
           calls'[r] = calls[r],
           bill'[r] = bill[r],
           \A w \in Workers : Busy(w, r)' => Busy(w, r) /\ ex'[w] = ex[w]
    PROVE  OneShot(r)'
  BY DEF OneShot

\* A step that changes neither the ledger nor the claim of a worker with a
\* call in progress preserves the invariant.
LEMMA LedgerFrame ==
    ASSUME LedgerInv, QueueInv',
           UNCHANGED ledger,
           \A w \in Workers : ex[w].pc # "none" => wk'[w] = wk[w]
    PROVE  LedgerInv'
  <1>1. /\ mw' = mw /\ receipt' = receipt /\ ex' = ex
        /\ calls' = calls /\ bill' = bill
    BY DEF ledger
  <1>2. MTypeOK'
    BY <1>1 DEF LedgerInv, MTypeOK, QueueInv
  <1>3. CallsClaimed'
    BY <1>1 DEF LedgerInv, CallsClaimed
  <1>4. ResultsStored' /\ LocalFree'
    BY <1>1 DEF LedgerInv, ResultsStored, LocalFree, Paid
  <1>5. ASSUME NEW r \in Requests, Paid(r) PROVE OneShot(r)'
    <2>1. \A w \in Workers : Busy(w, r)' => Busy(w, r) /\ ex'[w] = ex[w]
      BY <1>1 DEF Busy
    <2>2. OneShot(r)
      BY <1>5 DEF LedgerInv
    <2> QED
      BY <1>1, <2>1, <2>2, OneShotFrame
  <1> QED
    BY <1>2, <1>3, <1>4, <1>5 DEF LedgerInv, Paid

\* The types of the ledger, apart from those of the queue.
LedgerTypes ==
    /\ mw \in [Requests -> LedgerRow]
    /\ receipt \in [Requests -> Nat \cup {NoReceipt}]
    /\ ex \in [Workers -> Call]
    /\ calls \in [Requests -> Nat]
    /\ bill \in [Requests -> Nat]

\* What Execute does to the claims.
LEMMA ExecuteFacts ==
    ASSUME QueueInv, NEW w \in Workers, NEW res, Execute(w, res)
    PROVE  /\ wk[w].pc = "claimed"
           /\ wk'[w].job = wk[w].job
           /\ wk'[w].pc = "result"
           /\ wk'[w].res = res
           /\ \A v \in Workers \ {w} : wk'[v] = wk[v]
  <1>1. wk \in [Workers -> Claims] /\ wk[w] \in Claims
    BY DEF QueueInv, TypeOK
  <1> DEFINE c == [wk[w] EXCEPT !.pc = "result", !.res = res]
  <1>2. wk' = [wk EXCEPT ![w] = c]
    BY Zenon DEF Execute
  <1>3. c.job = wk[w].job /\ c.pc = "result" /\ c.res = res
    BY <1>1, Zenon DEF Claims
  <1> HIDE DEF c
  <1> QED
    BY <1>1, <1>2, <1>3 DEF Execute

\* A step of worker w that changes only the ledger rows of the request r it
\* claimed, and its own call and claim, preserves the invariant if it keeps
\* the rows well-formed and r one-shot.
LEMMA WorkerLedgerStep ==
    ASSUME LedgerInv, QueueInv', NEW w \in Workers,
           NEW r \in Requests, r = wk[w].job,
           LedgerTypes',
           \A q \in Requests \ {r} :
              /\ mw'[q] = mw[q]
              /\ receipt'[q] = receipt[q]
              /\ calls'[q] = calls[q]
              /\ bill'[q] = bill[q],
           \A v \in Workers \ {w} : ex'[v] = ex[v] /\ wk'[v] = wk[v],
           wk'[w].job = r,
           ex'[w].pc # "none" => wk'[w].pc = "claimed",
           ex'[w].pc \in {"answered", "recorded"} => ex'[w].out \in Outcomes,
           mw'[r].state \in {"settled", "reconciled"} => mw'[r].result # "none",
           ~Paid(r) => bill'[r] = 0,
           Paid(r) => OneShot(r)'
    PROVE  LedgerInv'
  <1>1. MTypeOK'
    BY DEF MTypeOK, LedgerTypes, QueueInv
  <1>2. CallsClaimed'
    BY DEF LedgerInv, CallsClaimed
  <1>3. ResultsStored'
    BY DEF LedgerInv, ResultsStored
  <1>4. LocalFree'
    BY DEF LedgerInv, LocalFree, Paid
  <1>5. ASSUME NEW q \in Requests, Paid(q) PROVE OneShot(q)'
    <2>1. CASE q = r
      BY <1>5, <2>1
    <2>2. CASE q # r
      <3>1. /\ mw'[q] = mw[q] /\ receipt'[q] = receipt[q]
            /\ calls'[q] = calls[q] /\ bill'[q] = bill[q]
        BY <2>2
      <3>2. \A v \in Workers : Busy(v, q)' => Busy(v, q) /\ ex'[v] = ex[v]
        BY <2>2 DEF Busy
      <3>3. OneShot(q)
        BY <1>5 DEF LedgerInv
      <3> QED
        BY <3>1, <3>2, <3>3, OneShotFrame
    <2> QED
      BY <2>1, <2>2
  <1> QED
    BY <1>1, <1>2, <1>3, <1>4, <1>5 DEF LedgerInv, Paid

\* Facts about the claim and the rows of a worker that is executing.
LEMMA WorkerFacts ==
    ASSUME LedgerInv, NEW w \in Workers, wk[w].pc = "claimed"
    PROVE  /\ wk[w].job \in Requests
           /\ mw[wk[w].job] \in LedgerRow
           /\ receipt[wk[w].job] \in Nat \cup {NoReceipt}
           /\ ex[w] \in Call
           /\ calls[wk[w].job] \in Nat
           /\ bill[wk[w].job] \in Nat
           /\ Hold[wk[w].job] \in Nat
           /\ Paid(wk[w].job) => OneShot(wk[w].job)
           /\ ~Paid(wk[w].job) => bill[wk[w].job] = 0
           /\ LedgerTypes
           /\ QueueInv
  BY LedgerAssumption
  DEF LedgerInv, MTypeOK, QueueInv, ClaimsNameJobs, LedgerTypes, LocalFree

\* _begin preserves the invariant.
LEMMA BeginStep ==
    ASSUME LedgerInv, QueueInv', NEW w \in Workers, Begin(w)
    PROVE  LedgerInv'
  <1>0. wk[w].pc = "claimed" /\ ex[w].pc = "none" /\ QueueInv
    BY DEF Begin, BeginStale, BeginCached, BeginUnknown, BeginRefused, BeginSend,
           Beginning, LedgerInv
  <1>p. PICK r \in Requests : r = wk[w].job
    BY <1>0, WorkerFacts
  <1>f. /\ r \in Requests
        /\ mw[r] \in LedgerRow
        /\ receipt[r] \in Nat \cup {NoReceipt}
        /\ ex[w] \in Call
        /\ calls[r] \in Nat
        /\ bill[r] \in Nat
        /\ Hold[r] \in Nat
        /\ Paid(r) => OneShot(r)
        /\ ~Paid(r) => bill[r] = 0
        /\ LedgerTypes
    BY <1>0, <1>p, WorkerFacts
  <1>1. CASE BeginStale(w) \/ BeginCached(w) \/ BeginRefused(w)
    <2>1. /\ UNCHANGED ledger
          /\ \E res : Execute(w, res)
      BY <1>1 DEF BeginStale, BeginCached, BeginRefused
    <2>2. \A v \in Workers \ {w} : wk'[v] = wk[v]
      BY <1>0, <2>1, ExecuteFacts
    <2> QED
      BY <1>0, <2>1, <2>2, LedgerFrame
  <1>2. CASE BeginUnknown(w)
    <2> DEFINE row == Unknown(mw[r], mw[r].result)
    <2>1. /\ Paid(r)
          /\ mw[r].state \in {"sending", "unknown"}
          /\ mw' = [mw EXCEPT ![r] = row]
          /\ Execute(w, "bad")
          /\ UNCHANGED <<receipt, ex, calls, bill>>
      BY <1>2, <1>p DEF BeginUnknown
    <2>2. mw[r].result \in Answers \cup {"none"}
      BY <1>f DEF LedgerRow
    <2>3. /\ row \in LedgerRow
          /\ row.state = "unknown"
          /\ row.held = mw[r].held
      BY <1>f, <2>2, UnknownRow
    <2>4. /\ wk'[w].job = r
          /\ \A v \in Workers \ {w} : wk'[v] = wk[v]
      BY <1>0, <1>p, <2>1, ExecuteFacts
    <2> HIDE DEF row
    <2>5. OneShot(r)'
      <3>1. mw'[r] = row
        BY <1>f, <2>1 DEF LedgerTypes
      <3>2. \A v \in Workers : Busy(v, r)' => Busy(v, r)
        BY <1>0, <1>p, <2>1, <2>4 DEF Busy
      <3> QED
        BY <1>f, <2>1, <2>3, <3>1, <3>2 DEF OneShot
    <2>6. /\ LedgerTypes'
          /\ mw'[r] = row
          /\ \A q \in Requests \ {r} : mw'[q] = mw[q]
      BY <1>f, <2>1, <2>3 DEF LedgerTypes
    <2> QED
      BY <1>0, <1>p, <1>f, <2>1, <2>3, <2>4, <2>5, <2>6, WorkerLedgerStep
  <1>3. CASE BeginSend(w)
    <2> DEFINE row == Sending(mw[r], Reservation(r))
               c   == [pc |-> "authorised", out |-> "none", charge |-> 0]
    <2>1. /\ Undecided(r)
          /\ mw' = [mw EXCEPT ![r] = row]
          /\ ex' = [ex EXCEPT ![w] = c]
          /\ UNCHANGED <<receipt, calls, bill>>
          /\ wk' = wk
      BY <1>3, <1>p DEF BeginSend, ExtendLease, vars
    <2>2. Reservation(r) \in Nat
      BY <1>f DEF Reservation
    <2>3. /\ row \in LedgerRow
          /\ row.state = "sending"
          /\ row.held = Reservation(r)
      BY <1>f, <2>2, SendingRow
    <2>4. c \in Call /\ c.pc = "authorised"
      BY DEF Call
    <2> HIDE DEF row, c
    <2>5. ASSUME Paid(r) PROVE OneShot(r)'
      <3>1. mw[r].state = "approved"
        BY <1>f, <2>1, <2>5 DEF Undecided, LedgerInv, ResultsStored, LedgerRow, LedgerStates
      <3>2. /\ mw'[r] = row
            /\ ex'[w] = c
            /\ \A v \in Workers \ {w} : ex'[v] = ex[v]
        BY <1>f, <2>1 DEF LedgerTypes
      <3>3. \A v \in Workers : ~Busy(v, r)
        BY <1>f, <2>5, <3>1 DEF OneShot
      <3>4. \A v \in Workers : Busy(v, r)' => v = w
        BY <1>p, <2>1, <3>2, <3>3 DEF Busy
      <3>5. row.held = Hold[r]
        BY <2>3, <2>5 DEF Reservation
      <3> QED
        BY <1>f, <2>1, <2>3, <2>4, <2>5, <3>1, <3>2, <3>4, <3>5 DEF OneShot
    <2>6. /\ LedgerTypes'
          /\ mw'[r] = row
          /\ \A q \in Requests \ {r} : mw'[q] = mw[q]
          /\ ex'[w] = c
          /\ \A v \in Workers \ {w} : ex'[v] = ex[v]
      BY <1>f, <2>1, <2>3, <2>4 DEF LedgerTypes
    <2> QED
      BY <1>0, <1>p, <1>f, <2>1, <2>3, <2>4, <2>5, <2>6, WorkerLedgerStep
  <1> QED
    BY <1>1, <1>2, <1>3 DEF Begin

\* The provider call preserves the invariant: it is the one call of a paid
\* request.
LEMMA TransportStep ==
    ASSUME LedgerInv, QueueInv', NEW w \in Workers,
           NEW out \in Outcomes, NEW charge \in Charges, Transport(w, out, charge)
    PROVE  LedgerInv'
  <1>0. wk[w].pc = "claimed" /\ ex[w].pc = "authorised" /\ charge \in Nat
    BY LedgerAssumption DEF Transport, LedgerInv, CallsClaimed, Charges
  <1>p. PICK r \in Requests : r = wk[w].job
    BY <1>0, WorkerFacts
  <1>f. /\ mw[r] \in LedgerRow
        /\ calls[r] \in Nat
        /\ bill[r] \in Nat
        /\ Hold[r] \in Nat
        /\ Paid(r) => OneShot(r)
        /\ ~Paid(r) => bill[r] = 0
        /\ LedgerTypes
    BY <1>0, <1>p, WorkerFacts
  <1> DEFINE c == [pc |-> "answered", out |-> out,
                   charge |-> IF out = "failed" THEN 0 ELSE charge]
  <1>1. /\ charge <= Reservation(r)
        /\ ex' = [ex EXCEPT ![w] = c]
        /\ calls' = [calls EXCEPT ![r] = @ + 1]
        /\ bill' = [bill EXCEPT ![r] = @ + charge]
        /\ wk' = wk /\ mw' = mw /\ receipt' = receipt
    BY <1>p DEF Transport
  <1>2. /\ c \in Call
        /\ c.pc = "answered"
        /\ c.out = out
        /\ out # "failed" => c.charge = charge
    BY <1>0 DEF Call
  <1> HIDE DEF c
  <1>3. /\ LedgerTypes'
        /\ ex'[w] = c
        /\ \A v \in Workers \ {w} : ex'[v] = ex[v]
        /\ calls'[r] = calls[r] + 1
        /\ bill'[r] = bill[r] + charge
        /\ \A q \in Requests \ {r} : calls'[q] = calls[q] /\ bill'[q] = bill[q]
    BY <1>0, <1>f, <1>1, <1>2 DEF LedgerTypes
  <1>4. ASSUME Paid(r) PROVE OneShot(r)'
    <2>1. Busy(w, r) /\ calls[r] = 0 /\ bill[r] = 0 /\ receipt[r] = NoReceipt
      BY <1>0, <1>p, <1>f, <1>4 DEF Busy, OneShot
    <2>2. mw[r].state \in {"sending", "unknown"}
      BY <1>f, <1>4, <2>1 DEF OneShot, LedgerRow, LedgerStates
    <2>3. \A v \in Workers : Busy(v, r)' => v = w
      BY <1>1, <1>3, <1>f, <1>4, <2>1 DEF Busy, OneShot
    <2>4. charge <= Hold[r]
      BY <1>1, <1>4 DEF Reservation
    <2>5. calls'[r] = 1 /\ bill'[r] = charge
      BY <1>3, <2>1, <1>0
    <2> QED
      BY <1>f, <1>1, <1>2, <1>3, <1>4, <2>1, <2>2, <2>3, <2>4, <2>5 DEF OneShot
  <1>5. ~Paid(r) => bill'[r] = 0
    BY <1>0, <1>f, <1>1, <1>3 DEF Reservation
  <1>6. mw'[r].state \in {"settled", "reconciled"} => mw'[r].result # "none"
    BY <1>1 DEF LedgerInv, ResultsStored
  <1> QED
    BY <1>0, <1>p, <1>1, <1>2, <1>3, <1>4, <1>5, <1>6, WorkerLedgerStep

\* Storing the usage receipt preserves the invariant: it is what the call cost.
LEMMA RecordStep ==
    ASSUME LedgerInv, QueueInv', NEW w \in Workers, Record(w)
    PROVE  LedgerInv'
  <1>0. wk[w].pc = "claimed" /\ ex[w].pc = "answered" /\ ex[w].out \in Outcomes
    BY DEF Record, LedgerInv, CallsClaimed
  <1>p. PICK r \in Requests : r = wk[w].job
    BY <1>0, WorkerFacts
  <1>f. /\ mw[r] \in LedgerRow
        /\ receipt[r] \in Nat \cup {NoReceipt}
        /\ ex[w] \in Call
        /\ bill[r] \in Nat
        /\ Paid(r) => OneShot(r)
        /\ ~Paid(r) => bill[r] = 0
        /\ LedgerTypes
    BY <1>0, <1>p, WorkerFacts
  <1> DEFINE o == IF receipt[r] \in {NoReceipt, ex[w].charge} THEN ex[w].out ELSE "failed"
             c == [pc |-> "recorded", out |-> o, charge |-> ex[w].charge]
  <1>1. /\ Paid(r)
        /\ ex[w].out # "failed"
        /\ receipt' = [receipt EXCEPT ![r] = IF @ = NoReceipt THEN ex[w].charge ELSE @]
        /\ ex' = [ex EXCEPT ![w] = c]
        /\ wk' = wk /\ mw' = mw /\ calls' = calls /\ bill' = bill
    BY <1>p DEF Record
  <1>2. /\ c \in Call
        /\ c.pc = "recorded"
        /\ c.out \in Outcomes
        /\ c.charge = ex[w].charge
    BY <1>0, <1>f DEF Call, Outcomes
  <1> HIDE DEF c
  <1>3. ex[w].charge \in Nat
    BY <1>f DEF Call
  <1>4. /\ LedgerTypes'
        /\ ex'[w] = c
        /\ \A v \in Workers \ {w} : ex'[v] = ex[v]
        /\ receipt'[r] = IF receipt[r] = NoReceipt THEN ex[w].charge ELSE receipt[r]
        /\ \A q \in Requests \ {r} : receipt'[q] = receipt[q]
    BY <1>f, <1>1, <1>2, <1>3 DEF LedgerTypes
  <1>5. OneShot(r)'
    <2>1. Busy(w, r) /\ ex[w].charge = bill[r] /\ calls[r] = 1
      BY <1>0, <1>p, <1>f, <1>1 DEF Busy, OneShot
    <2>2. \A v \in Workers : Busy(v, r)' => v = w
      BY <1>1, <1>4, <1>f, <2>1 DEF Busy, OneShot
    <2> QED
      BY <1>f, <1>1, <1>2, <1>4, <2>1, <2>2 DEF OneShot
  <1>6. mw'[r].state \in {"settled", "reconciled"} => mw'[r].result # "none"
    BY <1>1 DEF LedgerInv, ResultsStored
  <1> QED
    BY <1>0, <1>p, <1>f, <1>1, <1>2, <1>4, <1>5, <1>6, WorkerLedgerStep

\* The end of execute preserves the invariant.
LEMMA FinishStep ==
    ASSUME LedgerInv, QueueInv', NEW w \in Workers, Finish(w)
    PROVE  LedgerInv'
  <1>a. Finishing(w)
    BY DEF Finish, FinishReconciled, FinishSettled, FinishLocalFailure, FinishUnknown
  <1>0. /\ wk[w].pc = "claimed"
        /\ ex[w].pc \in {"answered", "recorded"}
        /\ QueueInv
    BY <1>a DEF Finishing, LedgerInv, CallsClaimed
  <1>p. PICK r \in Requests : r = wk[w].job
    BY <1>0, WorkerFacts
  <1>f. /\ mw[r] \in LedgerRow
        /\ ex[w] \in Call
        /\ bill[r] \in Nat
        /\ Paid(r) => OneShot(r)
        /\ ~Paid(r) => bill[r] = 0
        /\ LedgerTypes
    BY <1>0, <1>p, WorkerFacts
  <1>n. NoCall \in Call /\ NoCall.pc = "none"
    BY DEF NoCall, Call
  <1>e. /\ ex' = [ex EXCEPT ![w] = NoCall]
        /\ UNCHANGED <<receipt, calls, bill>>
        /\ \E res : Execute(w, res)
    BY DEF Finish, FinishReconciled, FinishSettled, FinishLocalFailure, FinishUnknown
  <1>w. /\ wk'[w].job = r
        /\ \A v \in Workers \ {w} : wk'[v] = wk[v]
    BY <1>0, <1>p, <1>e, ExecuteFacts
  <1>x. /\ ex'[w] = NoCall
        /\ \A v \in Workers \ {w} : ex'[v] = ex[v]
        /\ ex' \in [Workers -> Call]
    BY <1>e, <1>f, <1>n DEF LedgerTypes
  <1>b. ASSUME Paid(r)
        PROVE  /\ Busy(w, r)
               /\ calls[r] = 1
               /\ mw[r].state \notin {"approved", "settled"}
               /\ ex[w].out # "failed" => ex[w].charge = bill[r]
               /\ \A v \in Workers : ~Busy(v, r)'
    <2>1. Busy(w, r)
      BY <1>0, <1>p DEF Busy
    <2>2. \A v \in Workers : ~Busy(v, r)'
      BY <1>b, <1>f, <1>x, <1>w, <1>n, <2>1 DEF Busy, OneShot
    <2> QED
      BY <1>b, <1>0, <1>f, <2>1, <2>2 DEF OneShot
  <1>g. ASSUME NEW row \in LedgerRow,
               mw' = [mw EXCEPT ![r] = row],
               row.state \in {"settled", "reconciled"} => row.result # "none",
               Paid(r) => \/ row.state = "unknown" /\ row.held = Hold[r]
                          \/ /\ row.state \in {"settled", "reconciled"}
                             /\ row.charged = bill[r]
        PROVE  LedgerInv'
    <2>1. /\ LedgerTypes'
          /\ mw'[r] = row
          /\ \A q \in Requests \ {r} : mw'[q] = mw[q]
      BY <1>f, <1>g, <1>e, <1>x DEF LedgerTypes
    <2>2. ASSUME Paid(r) PROVE OneShot(r)'
      BY <1>b, <1>e, <1>f, <1>g, <2>1, <2>2 DEF OneShot
    <2> QED
      BY <1>p, <1>f, <1>g, <1>e, <1>w, <1>x, <1>n, <2>1, <2>2, WorkerLedgerStep
  <1>1. CASE FinishReconciled(w)
    <2>1. mw' = mw /\ mw[r].state = "reconciled"
      BY <1>1, <1>p DEF FinishReconciled
    <2>2. mw' = [mw EXCEPT ![r] = mw[r]]
      BY <1>f, <2>1 DEF LedgerTypes
    <2>3. Paid(r) => mw[r].charged = bill[r]
      BY <1>f, <2>1 DEF OneShot
    <2>4. mw[r].result # "none"
      BY <2>1 DEF LedgerInv, ResultsStored
    <2> QED
      BY <1>f, <1>g, <2>1, <2>2, <2>3, <2>4
  <1>2. CASE FinishSettled(w)
    <2> DEFINE res == IF ex[w].out = "ok" THEN "ok" ELSE "bad"
               row == Accounted(mw[r], "settled", ex[w].charge, res)
    <2>1. /\ mw' = [mw EXCEPT ![r] = row]
          /\ ex[w].out \in {"ok", "refused"}
      BY <1>2, <1>p DEF FinishSettled
    <2>2. res \in Answers /\ res # "none" /\ ex[w].charge \in Nat
      BY <1>f DEF Call, Answers
    <2>3. /\ row \in LedgerRow
          /\ row.state = "settled"
          /\ row.charged = ex[w].charge
          /\ row.result = res
      <3>1. "settled" \in LedgerStates
        BY DEF LedgerStates
      <3> HIDE DEF res
      <3> QED
        BY <1>f, <2>2, <3>1, AccountedRow
    <2> HIDE DEF row
    <2> QED
      BY <1>b, <1>g, <2>1, <2>2, <2>3
  <1>3. CASE FinishLocalFailure(w)
    <2>1. /\ mw' = [mw EXCEPT ![r] = Forgotten(mw[r])]
          /\ ~Paid(r)
      BY <1>3, <1>p DEF FinishLocalFailure
    <2> QED
      BY <1>f, <1>g, <2>1, ForgottenRow
  <1>4. CASE FinishUnknown(w)
    <2> DEFINE row == Unknown(mw[r], "bad")
    <2>1. /\ mw' = [mw EXCEPT ![r] = row]
          /\ Paid(r)
          /\ mw[r].state # "reconciled"
      BY <1>4, <1>p DEF FinishUnknown
    <2>2. mw[r].state \in {"sending", "unknown"}
      BY <1>b, <1>f, <2>1 DEF LedgerRow, LedgerStates
    <2>3. row \in LedgerRow /\ row.state = "unknown" /\ row.held = mw[r].held
      <3>1. "bad" \in Answers \cup {"none"}
        BY DEF Answers
      <3> QED
        BY <1>f, <3>1, UnknownRow
    <2>4. row.held = Hold[r]
      BY <1>f, <2>1, <2>2, <2>3 DEF OneShot
    <2> HIDE DEF row
    <2> QED
      BY <1>g, <2>1, <2>3, <2>4
  <1> QED
    BY <1>1, <1>2, <1>3, <1>4 DEF Finish

\* A step of the queue never touches the claim of a worker whose call is in
\* progress.
LEMMA ClaimKept ==
    ASSUME LedgerInv, QueueStep, NEW w \in Workers, ex[w].pc # "none"
    PROVE  wk'[w] = wk[w]
  <1>1. wk[w].pc = "claimed" /\ wk \in [Workers -> Claims]
    BY DEF LedgerInv, CallsClaimed, QueueInv, TypeOK
  <1>2. CASE wk' = wk
    BY <1>2
  <1>3. ASSUME NEW v \in Workers, NEW ready \in BOOLEAN, Claim(v, ready)
        PROVE  wk'[w] = wk[w]
    BY <1>1, <1>3 DEF Claim, ClaimPause, ClaimExhausted, ClaimRun
  <1>4. ASSUME NEW v \in Workers, Checkpoint(v)
        PROVE  wk'[w] = wk[w]
    BY <1>1, <1>4 DEF Checkpoint, CheckpointStale, CheckpointPause,
                      CheckpointRetry, CheckpointCommit
  <1>5. ASSUME NEW q \in Requests, Operator(q) PROVE wk' = wk
    BY <1>5 DEF Operator, Enqueue, BindChat, Pause, Resume, Cancel
  <1>6. ASSUME NEW t \in Tasks, TaskChange(t) PROVE wk' = wk
    BY <1>6 DEF TaskChange
  <1>7. CASE Tick
    BY <1>7 DEF Tick
  <1> QED
    BY <1>2, <1>3, <1>4, <1>5, <1>6, <1>7 DEF QueueStep

\* Steps of the queue preserve the invariant.
LEMMA QueueStepLedger ==
    ASSUME LedgerInv, QueueInv', QueueStep
    PROVE  LedgerInv'
  <1>1. \A w \in Workers : ex[w].pc # "none" => wk'[w] = wk[w]
    BY ClaimKept
  <1> QED
    BY <1>1, LedgerFrame DEF QueueStep

\* The user's reconciliation preserves the invariant: it charges the receipt.
LEMMA ReconcileStep ==
    ASSUME LedgerInv, QueueInv', NEW r \in Requests, Reconcile(r)
    PROVE  LedgerInv'
  <1> DEFINE row == Accounted(mw[r], "reconciled", receipt[r], "bad")
  <1>1. /\ mw[r].state = "unknown"
        /\ receipt[r] # NoReceipt
        /\ mw' = [mw EXCEPT ![r] = row]
        /\ UNCHANGED <<wk, receipt, ex, calls, bill>>
    BY DEF Reconcile
  <1>2. LedgerTypes /\ mw[r] \in LedgerRow /\ receipt[r] \in Nat
    BY <1>1 DEF LedgerInv, MTypeOK, LedgerTypes
  <1>3. /\ row \in LedgerRow
        /\ row.state = "reconciled"
        /\ row.charged = receipt[r]
        /\ row.result = "bad"
    <2>1. "reconciled" \in LedgerStates /\ "bad" \in Answers
      BY DEF LedgerStates, Answers
    <2> QED
      BY <1>2, <2>1, AccountedRow
  <1> HIDE DEF row
  <1>4. /\ mw' \in [Requests -> LedgerRow]
        /\ mw'[r] = row
        /\ \A q \in Requests \ {r} : mw'[q] = mw[q]
    BY <1>1, <1>2, <1>3 DEF LedgerTypes
  <1>5. MTypeOK'
    BY <1>1, <1>4 DEF LedgerInv, MTypeOK, QueueInv
  <1>6. CallsClaimed' /\ LocalFree'
    BY <1>1 DEF LedgerInv, CallsClaimed, LocalFree, Paid
  <1>7. ResultsStored'
    BY <1>3, <1>4 DEF LedgerInv, ResultsStored
  <1>8. ASSUME NEW q \in Requests, Paid(q) PROVE OneShot(q)'
    <2>1. \A w \in Workers : Busy(w, q)' => Busy(w, q) /\ ex'[w] = ex[w]
      BY <1>1 DEF Busy
    <2>2. OneShot(q)
      BY <1>8 DEF LedgerInv
    <2>3. CASE q # r
      BY <1>1, <1>4, <2>1, <2>2, <2>3, OneShotFrame
    <2>4. CASE q = r
      <3>1. calls[r] = 1 /\ receipt[r] = bill[r]
        BY <1>1, <2>2, <2>4 DEF OneShot
      <3> QED
        BY <1>1, <1>3, <1>4, <2>1, <2>2, <2>4, <3>1 DEF OneShot
    <2> QED
      BY <2>3, <2>4
  <1> QED
    BY <1>5, <1>6, <1>7, <1>8 DEF LedgerInv, Paid

\* The turn of the day preserves the invariant.
LEMMA NewDayStep ==
    ASSUME LedgerInv, QueueInv', NewDay
    PROVE  LedgerInv'
  <1>1. /\ mw' = [r \in Requests |-> Yesterday(mw[r])]
        /\ UNCHANGED <<wk, receipt, ex, calls, bill>>
    BY DEF NewDay
  <1>2. \A r \in Requests :
           /\ mw'[r] \in LedgerRow
           /\ mw'[r].state = mw[r].state
           /\ mw'[r].held = mw[r].held
           /\ mw'[r].charged = mw[r].charged
           /\ mw'[r].result = mw[r].result
    <2> TAKE r \in Requests
    <2>1. mw[r] \in LedgerRow
      BY DEF LedgerInv, MTypeOK
    <2>2. mw'[r] = Yesterday(mw[r])
      BY <1>1
    <2> QED
      BY <2>1, <2>2, YesterdayRow
  <1>3. MTypeOK'
    <2>1. mw' \in [Requests -> LedgerRow]
      BY <1>1, <1>2
    <2> QED
      BY <1>1, <2>1 DEF LedgerInv, MTypeOK, QueueInv
  <1>4. CallsClaimed' /\ LocalFree' /\ ResultsStored'
    BY <1>1, <1>2 DEF LedgerInv, CallsClaimed, LocalFree, Paid, ResultsStored
  <1>5. ASSUME NEW q \in Requests, Paid(q) PROVE OneShot(q)'
    <2>1. \A w \in Workers : Busy(w, q)' => Busy(w, q) /\ ex'[w] = ex[w]
      BY <1>1 DEF Busy
    <2>2. OneShot(q)
      BY <1>5 DEF LedgerInv
    <2> QED
      BY <1>1, <1>2, <2>1, <2>2, OneShotFrame
  <1> QED
    BY <1>3, <1>4, <1>5 DEF LedgerInv, Paid

\* A crash preserves the invariant: a call in progress is gone, its rows stay.
LEMMA CrashStep ==
    ASSUME LedgerInv, QueueInv', NEW w \in Workers, MCrash(w)
    PROVE  LedgerInv'
  <1>1. /\ wk' = [wk EXCEPT ![w] = Idle]
        /\ ex' = [ex EXCEPT ![w] = NoCall]
        /\ UNCHANGED <<mw, receipt, calls, bill>>
    BY DEF MCrash, Crash
  <1>2. NoCall \in Call /\ NoCall.pc = "none"
    BY DEF NoCall, Call
  <1>3. /\ ex' \in [Workers -> Call]
        /\ ex'[w].pc = "none"
        /\ \A v \in Workers \ {w} : ex'[v] = ex[v] /\ wk'[v] = wk[v]
    BY <1>1, <1>2 DEF LedgerInv, MTypeOK, QueueInv, TypeOK
  <1>4. MTypeOK'
    BY <1>1, <1>3 DEF LedgerInv, MTypeOK, QueueInv
  <1>5. CallsClaimed'
    BY <1>3 DEF LedgerInv, CallsClaimed
  <1>6. LocalFree' /\ ResultsStored'
    BY <1>1 DEF LedgerInv, LocalFree, Paid, ResultsStored
  <1>7. ASSUME NEW q \in Requests, Paid(q) PROVE OneShot(q)'
    <2>1. \A v \in Workers : Busy(v, q)' => Busy(v, q) /\ ex'[v] = ex[v]
      BY <1>3 DEF Busy
    <2>2. OneShot(q)
      BY <1>7 DEF LedgerInv
    <2> QED
      BY <1>1, <2>1, <2>2, OneShotFrame
  <1> QED
    BY <1>4, <1>5, <1>6, <1>7 DEF LedgerInv, Paid

\* An untouched ledger satisfies the invariant.
LEMMA LedgerInit == MInit => LedgerInv
  <1> SUFFICES ASSUME MInit PROVE LedgerInv
    OBVIOUS
  <1>1. QueueInv
    BY QueueInvInit DEF MInit
  <1>2. NoCall \in Call /\ NoCall.pc = "none"
    BY DEF NoCall, Call
  <1>3. /\ NewLedgerRow \in LedgerRow
        /\ NewLedgerRow.state = "approved"
    BY DEF NewLedgerRow, LedgerRow, LedgerStates
  <1>4. MTypeOK
    BY <1>1, <1>2, <1>3 DEF MInit, MTypeOK, QueueInv, NoReceipt
  <1>5. CallsClaimed /\ ResultsStored /\ LocalFree
    BY <1>2, <1>3 DEF MInit, CallsClaimed, ResultsStored, LocalFree
  <1>6. ASSUME NEW r \in Requests, Paid(r) PROVE OneShot(r)
    <2>1. \A w \in Workers : ~Busy(w, r)
      BY <1>2 DEF MInit, Busy
    <2> QED
      BY <1>3, <2>1, LedgerAssumption DEF MInit, OneShot
  <1> QED
    BY <1>1, <1>4, <1>5, <1>6 DEF LedgerInv

\* Every step preserves the invariant.
LEMMA LedgerInvStep == LedgerInv /\ [MNext]_mvars => LedgerInv'
  <1> SUFFICES ASSUME LedgerInv, [MNext]_mvars PROVE LedgerInv'
    OBVIOUS
  <1>1. QueueInv'
    BY QueueSimulation, QueueInvStep DEF LedgerInv
  <1>2. CASE UNCHANGED mvars
    BY <1>1, <1>2, LedgerFrame DEF mvars, ledger
  <1> QED
    BY <1>1, <1>2, QueueStepLedger, BeginStep, TransportStep, RecordStep,
       FinishStep, CrashStep, ReconcileStep, NewDayStep DEF MNext

\* The queue with model executors implements the work queue: every theorem
\* about WorkQueue's Spec holds of it.
THEOREM ImplementsQueue == MSpec => Spec
  <1>1. MInit => Init
    BY DEF MInit
  <1>2. LedgerInv /\ [MNext]_mvars => [Next]_vars
    BY QueueSimulation
  <1> QED
    BY <1>1, <1>2, LedgerInit, LedgerInvStep, PTL DEF MSpec, Spec

\* For any number of workers, crashes, lost leases, pauses and re-claims, the
\* provider is called at most once for a paid request.
THEOREM PaidOnce == MSpec => []PaidAtMostOnce
  <1>1. LedgerInv => PaidAtMostOnce
    BY DEF LedgerInv, OneShot, PaidAtMostOnce
  <1> QED
    BY <1>1, LedgerInit, LedgerInvStep, PTL DEF MSpec

\* The reservation covers a call until its charge replaces it.
LEMMA CoveredByLedger == LedgerInv => LedgerCoversBill
  <1> SUFFICES ASSUME LedgerInv, NEW r \in Requests
               PROVE  bill[r] <= mw[r].held + mw[r].charged
    BY DEF LedgerCoversBill
  <1>1. /\ mw[r] \in LedgerRow
        /\ bill[r] \in Nat
        /\ Hold[r] \in Nat
    BY LedgerAssumption DEF LedgerInv, MTypeOK
  <1>2. /\ mw[r].held \in Nat
        /\ mw[r].charged \in Nat
        /\ mw[r].state \in {"approved", "sending", "unknown", "settled", "reconciled"}
    BY <1>1 DEF LedgerRow, LedgerStates
  <1>3. CASE ~Paid(r)
    BY <1>1, <1>2, <1>3 DEF LedgerInv, LocalFree
  <1>4. CASE Paid(r)
    BY <1>1, <1>2, <1>4 DEF LedgerInv, OneShot
  <1> QED
    BY <1>3, <1>4

\* The ledger never counts less for a request than the provider charged.
THEOREM BillCovered == MSpec => []LedgerCoversBill
  BY CoveredByLedger, LedgerInit, LedgerInvStep, PTL DEF MSpec

\* The ledger and the executors keep their types.
THEOREM LedgerTypeCorrect == MSpec => []MTypeOK
  <1>1. LedgerInv => MTypeOK
    BY DEF LedgerInv
  <1> QED
    BY <1>1, LedgerInit, LedgerInvStep, PTL DEF MSpec

-----------------------------------------------------------------------------
(* Sums over a finite set. *)

\* The element of s that the sum takes first.
Pick(s) == CHOOSE x \in s : TRUE

\* g is the table of the sums of f over the subsets of S.
SumTable(g, f, S) ==
    g = [s \in SUBSET S |-> IF s = {} THEN 0 ELSE f[Pick(s)] + g[s \ {Pick(s)}]]

\* The sum of f over S.
SumOf(f, S) == (CHOOSE g : SumTable(g, f, S))[S]

\* A non-empty set of subsets of a finite set has a smallest one.
LEMMA SmallestSubset ==
    ASSUME NEW S, IsFiniteSet(S), NEW T, T \subseteq SUBSET S, T # {}
    PROVE  \E U \in T : U \in SUBSET S /\ \A V \in T : V \subseteq U => V = U
  <1>1. T \subseteq FiniteSubsetsOf(S)
    BY FS_Subset DEF FiniteSubsetsOf
  <1>2. \E U \in T : \A V \in T : ~(<<V, U>> \in StrictSubsetOrdering(S))
    BY <1>1, FS_StrictSubsetOrderingWellFounded, WFMin
  <1> QED
    BY <1>2 DEF StrictSubsetOrdering

\* What is taken out first is an element.
LEMMA PickIn == ASSUME NEW s, s # {} PROVE Pick(s) \in s
  BY DEF Pick

\* The entries of a table.
LEMMA TableAt ==
    ASSUME NEW S, NEW f, NEW g, SumTable(g, f, S), NEW s \in SUBSET S
    PROVE  g[s] = IF s = {} THEN 0 ELSE f[Pick(s)] + g[s \ {Pick(s)}]
  BY Zenon DEF SumTable

\* There is at most one table.
LEMMA TableUnique ==
    ASSUME NEW S, IsFiniteSet(S), NEW f, NEW g, SumTable(g, f, S), NEW h, SumTable(h, f, S)
    PROVE  \A s \in SUBSET S : g[s] = h[s]
  <1> DEFINE T == {s \in SUBSET S : g[s] # h[s]}
  <1> SUFFICES ASSUME T # {} PROVE FALSE
    OBVIOUS
  <1>1. T \subseteq SUBSET S
    OBVIOUS
  <1> HIDE DEF T
  <1>2. PICK U \in T : U \in SUBSET S /\ \A V \in T : V \subseteq U => V = U
    BY <1>1, SmallestSubset
  <1>3. U \in SUBSET S /\ g[U] # h[U]
    BY <1>2 DEF T
  <1>4. U # {}
    BY <1>3, TableAt
  <1>5. U \ {Pick(U)} \in SUBSET S /\ U \ {Pick(U)} # U
    BY <1>3, <1>4, PickIn
  <1>6. g[U \ {Pick(U)}] = h[U \ {Pick(U)}]
    BY <1>2, <1>5 DEF T
  <1>7. g[U] = f[Pick(U)] + g[U \ {Pick(U)}]
    BY <1>3, <1>4, TableAt
  <1>8. h[U] = f[Pick(U)] + h[U \ {Pick(U)}]
    BY <1>3, <1>4, TableAt
  <1> QED
    BY <1>3, <1>6, <1>7, <1>8

\* The table of a set has the tables of its subsets in it.
LEMMA TableRestricts ==
    ASSUME NEW S, NEW f, NEW g, SumTable(g, f, S), NEW U \in SUBSET S
    PROVE  SumTable([s \in SUBSET U |-> g[s]], f, U)
  <1> DEFINE h == [s \in SUBSET U |-> g[s]]
  <1>1. \A s \in SUBSET U : h[s] = IF s = {} THEN 0 ELSE f[Pick(s)] + h[s \ {Pick(s)}]
    <2> TAKE s \in SUBSET U
    <2>1. s \in SUBSET S /\ s \ {Pick(s)} \in SUBSET U
      OBVIOUS
    <2>2. h[s] = g[s] /\ h[s \ {Pick(s)}] = g[s \ {Pick(s)}]
      BY <2>1
    <2> HIDE DEF h
    <2>3. CASE s = {}
      BY <2>2, <2>3, TableAt
    <2>4. CASE s # {}
      <3>1. g[s] = f[Pick(s)] + g[s \ {Pick(s)}]
        BY <2>1, <2>4, TableAt
      <3> QED
        BY <2>2, <2>4, <3>1
    <2> QED
      BY <2>3, <2>4
  <1>2. h = [s \in SUBSET U |-> h[s]]
    OBVIOUS
  <1> HIDE DEF h
  <1>3. h = [s \in SUBSET U |-> IF s = {} THEN 0 ELSE f[Pick(s)] + h[s \ {Pick(s)}]]
    BY <1>1, <1>2
  <1>4. SumTable(h, f, U)
    BY <1>3, Zenon DEF SumTable
  <1> QED
    BY <1>4 DEF h

\* Where there is a table, the sum is its entry.
LEMMA SumIsEntry ==
    ASSUME NEW S, IsFiniteSet(S), NEW f, NEW g, SumTable(g, f, S), NEW U \in SUBSET S
    PROVE  SumOf(f, U) = g[U]
  <1> DEFINE h == [s \in SUBSET U |-> g[s]]
             c == CHOOSE k : SumTable(k, f, U)
  <1>1. SumTable(h, f, U)
    BY TableRestricts
  <1>0. IsFiniteSet(U)
    BY FS_Subset
  <1>2. SumTable(c, f, U)
    BY <1>1
  <1>3. h[U] = g[U]
    OBVIOUS
  <1> HIDE DEF h, c
  <1>4. c[U] = h[U]
    BY <1>0, <1>1, <1>2, TableUnique
  <1> QED
    BY <1>3, <1>4 DEF SumOf, c

\* Every finite set has a table.
LEMMA TableExists ==
    ASSUME NEW S, IsFiniteSet(S), NEW f
    PROVE  \E g : SumTable(g, f, S)
  <1> DEFINE T == {s \in SUBSET S : ~ \E g : SumTable(g, f, s)}
  <1> SUFFICES ASSUME T # {} PROVE FALSE
    OBVIOUS
  <1>1. T \subseteq SUBSET S
    OBVIOUS
  <1> HIDE DEF T
  <1>2. PICK U \in T : U \in SUBSET S /\ \A V \in T : V \subseteq U => V = U
    BY <1>1, SmallestSubset
  <1>3. IsFiniteSet(U) /\ ~ \E g : SumTable(g, f, U)
    BY <1>2, FS_Subset DEF T
  <1>4. \A V \in SUBSET U : V # U => \E g : SumTable(g, f, V)
    BY <1>2 DEF T
  <1> DEFINE h == [s \in SUBSET U |->
                     IF s = {} THEN 0 ELSE f[Pick(s)] + SumOf(f, s \ {Pick(s)})]
  <1>5. \A V \in SUBSET U : V # U => h[V] = SumOf(f, V)
    <2> TAKE V \in SUBSET U
    <2> HAVE V # U
    <2>1. PICK g : SumTable(g, f, V)
      BY <1>4
    <2>2. IsFiniteSet(V)
      BY <1>3, FS_Subset
    <2>3. SumOf(f, V) = g[V]
      BY <2>1, <2>2, SumIsEntry
    <2>4. CASE V = {}
      BY <2>1, <2>3, <2>4, TableAt
    <2>5. CASE V # {}
      <3>1. V \ {Pick(V)} \in SUBSET V
        OBVIOUS
      <3>2. SumOf(f, V \ {Pick(V)}) = g[V \ {Pick(V)}]
        BY <2>1, <2>2, <3>1, SumIsEntry
      <3>3. g[V] = f[Pick(V)] + g[V \ {Pick(V)}]
        BY <2>1, <2>5, TableAt
      <3>4. h[V] = f[Pick(V)] + SumOf(f, V \ {Pick(V)})
        BY <2>5
      <3> HIDE DEF h
      <3> QED
        BY <2>3, <3>2, <3>3, <3>4
    <2> QED
      BY <2>4, <2>5
  <1>6. \A s \in SUBSET U : h[s] = IF s = {} THEN 0 ELSE f[Pick(s)] + h[s \ {Pick(s)}]
    <2> TAKE s \in SUBSET U
    <2>1. CASE s = {}
      BY <2>1
    <2>2. CASE s # {}
      <3>1. s \ {Pick(s)} \in SUBSET U /\ s \ {Pick(s)} # U
        BY <2>2, PickIn
      <3>2. h[s] = f[Pick(s)] + SumOf(f, s \ {Pick(s)})
        BY <2>2
      <3> HIDE DEF h
      <3> QED
        BY <1>5, <2>2, <3>1, <3>2
    <2> QED
      BY <2>1, <2>2
  <1>7. h = [s \in SUBSET U |-> h[s]]
    OBVIOUS
  <1> HIDE DEF h
  <1>8. h = [s \in SUBSET U |-> IF s = {} THEN 0 ELSE f[Pick(s)] + h[s \ {Pick(s)}]]
    BY <1>6, <1>7
  <1>9. SumTable(h, f, U)
    BY <1>8, Zenon DEF SumTable
  <1> QED
    BY <1>3, <1>9

\* The sum of nothing is 0, and a sum is its first element and the rest.
LEMMA SumSteps ==
    ASSUME NEW S, IsFiniteSet(S), NEW f, NEW s \in SUBSET S
    PROVE  SumOf(f, s) = IF s = {} THEN 0 ELSE f[Pick(s)] + SumOf(f, s \ {Pick(s)})
  <1>1. PICK g : SumTable(g, f, S)
    BY TableExists
  <1>2. s \ {Pick(s)} \in SUBSET S
    OBVIOUS
  <1>3. SumOf(f, s) = g[s] /\ SumOf(f, s \ {Pick(s)}) = g[s \ {Pick(s)}]
    BY <1>1, <1>2, SumIsEntry
  <1>4. g[s] = IF s = {} THEN 0 ELSE f[Pick(s)] + g[s \ {Pick(s)}]
    BY <1>1, TableAt
  <1> QED
    BY <1>3, <1>4

\* A sum of integers is one.
LEMMA SumIsInt ==
    ASSUME NEW S, IsFiniteSet(S), NEW f, \A x \in S : f[x] \in Int
    PROVE  \A s \in SUBSET S : SumOf(f, s) \in Int
  <1> DEFINE T == {s \in SUBSET S : SumOf(f, s) \notin Int}
  <1> SUFFICES ASSUME T # {} PROVE FALSE
    OBVIOUS
  <1>1. T \subseteq SUBSET S
    OBVIOUS
  <1> HIDE DEF T
  <1>2. PICK U \in T : U \in SUBSET S /\ \A V \in T : V \subseteq U => V = U
    BY <1>1, SmallestSubset
  <1>3. SumOf(f, U) \notin Int
    BY <1>2 DEF T
  <1>4. U # {}
    <2>1. {} \in SUBSET S
      OBVIOUS
    <2>2. SumOf(f, {}) = 0
      BY <2>1, SumSteps
    <2> QED
      BY <1>3, <2>2
  <1>5. U \ {Pick(U)} \in SUBSET S /\ U \ {Pick(U)} # U /\ Pick(U) \in S
    BY <1>2, <1>4, PickIn
  <1>6. SumOf(f, U \ {Pick(U)}) \in Int /\ f[Pick(U)] \in Int
    BY <1>2, <1>5 DEF T
  <1>7. SumOf(f, U) = f[Pick(U)] + SumOf(f, U \ {Pick(U)})
    BY <1>2, <1>4, SumSteps
  <1> QED
    BY <1>3, <1>6, <1>7

\* Any element may be taken out first.
LEMMA SumTakes ==
    ASSUME NEW S, IsFiniteSet(S), NEW f, \A x \in S : f[x] \in Int
    PROVE  \A s \in SUBSET S : \A y \in s : SumOf(f, s) = f[y] + SumOf(f, s \ {y})
  <1> DEFINE T == {s \in SUBSET S : \E y \in s : SumOf(f, s) # f[y] + SumOf(f, s \ {y})}
  <1> SUFFICES ASSUME T # {} PROVE FALSE
    OBVIOUS
  <1>1. T \subseteq SUBSET S
    OBVIOUS
  <1> HIDE DEF T
  <1>2. PICK U \in T : U \in SUBSET S /\ \A V \in T : V \subseteq U => V = U
    BY <1>1, SmallestSubset
  <1>3. PICK y \in U : SumOf(f, U) # f[y] + SumOf(f, U \ {y})
    BY <1>2 DEF T
  <1> DEFINE c == Pick(U)
             R == U \ {y, c}
  <1>4. c \in U /\ SumOf(f, U) = f[c] + SumOf(f, U \ {c})
    <2>1. U # {}
      OBVIOUS
    <2> QED
      BY <1>2, <2>1, PickIn, SumSteps
  <1>5. c # y
    BY <1>3, <1>4
  <1> HIDE DEF c
  <1>6. /\ U \ {c} \in SUBSET S /\ U \ {c} # U /\ y \in U \ {c}
        /\ U \ {y} \in SUBSET S /\ U \ {y} # U /\ c \in U \ {y}
        /\ (U \ {c}) \ {y} = R /\ (U \ {y}) \ {c} = R /\ R \in SUBSET S
    BY <1>2, <1>4, <1>5
  <1>7. SumOf(f, U \ {c}) = f[y] + SumOf(f, R)
    <2>1. U \ {c} \notin T
      BY <1>2, <1>6
    <2>2. SumOf(f, U \ {c}) = f[y] + SumOf(f, (U \ {c}) \ {y})
      BY <1>6, <2>1 DEF T
    <2> QED
      BY <1>6, <2>2
  <1>8. SumOf(f, U \ {y}) = f[c] + SumOf(f, R)
    <2>1. U \ {y} \notin T
      BY <1>2, <1>6
    <2>2. SumOf(f, U \ {y}) = f[c] + SumOf(f, (U \ {y}) \ {c})
      BY <1>6, <2>1 DEF T
    <2> QED
      BY <1>6, <2>2
  <1>9. f[y] \in Int /\ f[c] \in Int /\ SumOf(f, R) \in Int
    BY <1>2, <1>4, <1>6, SumIsInt
  <1> QED
    BY <1>3, <1>4, <1>7, <1>8, <1>9

\* A sum grows with what is summed.
LEMMA SumMonotone ==
    ASSUME NEW S, IsFiniteSet(S), NEW f, NEW h,
           \A x \in S : f[x] \in Int /\ h[x] \in Int /\ f[x] <= h[x]
    PROVE  SumOf(f, S) <= SumOf(h, S)
  <1> DEFINE T == {s \in SUBSET S : ~(SumOf(f, s) <= SumOf(h, s))}
  <1> SUFFICES ASSUME T # {} PROVE FALSE
    OBVIOUS
  <1>1. T \subseteq SUBSET S
    OBVIOUS
  <1> HIDE DEF T
  <1>2. PICK U \in T : U \in SUBSET S /\ \A V \in T : V \subseteq U => V = U
    BY <1>1, SmallestSubset, SMTT(30)
  <1>3. ~(SumOf(f, U) <= SumOf(h, U))
    BY <1>2 DEF T
  <1>4. U # {}
    <2>1. {} \in SUBSET S
      OBVIOUS
    <2>2. SumOf(f, {}) = 0 /\ SumOf(h, {}) = 0
      BY <2>1, SumSteps
    <2> QED
      BY <1>3, <2>2
  <1>5. U \ {Pick(U)} \in SUBSET S /\ U \ {Pick(U)} # U /\ Pick(U) \in S
    BY <1>2, <1>4, PickIn
  <1>6. SumOf(f, U \ {Pick(U)}) <= SumOf(h, U \ {Pick(U)})
    BY <1>2, <1>5 DEF T
  <1>7. SumOf(f, U) = f[Pick(U)] + SumOf(f, U \ {Pick(U)})
    BY <1>2, <1>4, SumSteps
  <1>8. SumOf(h, U) = h[Pick(U)] + SumOf(h, U \ {Pick(U)})
    BY <1>2, <1>4, SumSteps
  <1>9. SumOf(f, U \ {Pick(U)}) \in Int
    BY <1>5, SumIsInt
  <1>10. SumOf(h, U \ {Pick(U)}) \in Int
    BY <1>5, SumIsInt
  <1> QED
    BY <1>3, <1>5, <1>6, <1>7, <1>8, <1>9, <1>10

\* Changing what one element counts changes the sum by the difference.
LEMMA SumChanges ==
    ASSUME NEW S, IsFiniteSet(S), NEW f, NEW h, NEW y \in S,
           \A x \in S : f[x] \in Int /\ h[x] \in Int,
           \A x \in S \ {y} : h[x] = f[x]
    PROVE  SumOf(h, S) = SumOf(f, S) + h[y] - f[y]
  <1> DEFINE R == S \ {y}
  <1>1. IsFiniteSet(R) /\ R \in SUBSET S
    BY FS_Subset
  <1>2. SumOf(f, S) = f[y] + SumOf(f, R) /\ SumOf(h, S) = h[y] + SumOf(h, R)
    BY SumTakes
  <1>3. SumOf(f, R) \in Int /\ SumOf(h, R) \in Int
    BY <1>1, SumIsInt
  <1>4. \A x \in R : f[x] \in Int /\ h[x] \in Int /\ f[x] <= h[x] /\ h[x] <= f[x]
    OBVIOUS
  <1> HIDE DEF R
  <1>5. SumOf(f, R) <= SumOf(h, R) /\ SumOf(h, R) <= SumOf(f, R)
    BY <1>1, <1>4, SumMonotone
  <1> QED
    BY <1>2, <1>3, <1>5

\* What counts nothing may be left out of a sum.
LEMMA SumIgnoresZeros ==
    ASSUME NEW S, IsFiniteSet(S), NEW f, \A x \in S : f[x] \in Int,
           NEW P \in SUBSET S, \A x \in S \ P : f[x] = 0
    PROVE  SumOf(f, S) = SumOf(f, P)
  <1> DEFINE T == {s \in SUBSET S : P \subseteq s /\ SumOf(f, s) # SumOf(f, P)}
  <1> SUFFICES ASSUME T # {} PROVE FALSE
    OBVIOUS
  <1>1. T \subseteq SUBSET S
    OBVIOUS
  <1> HIDE DEF T
  <1>2. PICK U \in T : U \in SUBSET S /\ \A V \in T : V \subseteq U => V = U
    BY <1>1, SmallestSubset
  <1>3. P \subseteq U /\ SumOf(f, U) # SumOf(f, P)
    BY <1>2 DEF T
  <1>4. PICK y \in U : y \notin P
    BY <1>3
  <1>5. U \ {y} \in SUBSET S /\ U \ {y} # U /\ P \subseteq U \ {y} /\ y \in S
    BY <1>2, <1>3, <1>4
  <1>6. SumOf(f, U \ {y}) = SumOf(f, P)
    BY <1>2, <1>5 DEF T
  <1>7. SumOf(f, U) = f[y] + SumOf(f, U \ {y}) /\ SumOf(f, U \ {y}) \in Int
    BY <1>2, <1>4, <1>5, SumTakes, SumIsInt
  <1>8. f[y] = 0
    BY <1>4, <1>5
  <1> QED
    BY <1>3, <1>6, <1>7, <1>8

\* The community modules' sum over a set is this sum.
LEMMA SumIsMapThenSum ==
    ASSUME NEW S, NEW f
    PROVE  MapThenSumSet(LAMBDA q : f[q], S) = SumOf(f, S)
  BY Zenon DEF MapThenSumSet, MapThenFoldSet, SumOf, SumTable, Pick

-----------------------------------------------------------------------------
(* How a step changes the rows of the ledger. *)

\* A reservation is made: only the executor that sends the call does that.
Sent(r) == \E w \in Workers : wk[w].job = r /\ BeginSend(w)

\* The day of a row passes, and nothing else happens to it.
Kept(r) == mw'[r] = mw[r] \/ mw'[r] = Yesterday(mw[r])

\* A paid call turns out to be uncertain.
MadeUncertain(r) ==
    /\ Paid(r)
    /\ mw[r].state \in {"sending", "unknown"}
    /\ \E res \in {mw[r].result, "bad"} : mw'[r] = Unknown(mw[r], res)

\* A verified answer, of the call that w has in progress, settles a row.
Settled(r) ==
    \E w \in Workers, res \in Answers :
        /\ wk[w].job = r
        /\ FinishSettled(w)
        /\ Finishing(w)
        /\ ex[w].charge \in Nat
        /\ Paid(r) => /\ mw[r].state \in {"sending", "unknown"}
                      /\ calls[r] = 1
                      /\ ex[w].charge = bill[r]
                      /\ ex[w].pc = "recorded"
        /\ ~Paid(r) => mw[r].state # "reconciled"
        /\ mw'[r] = Accounted(mw[r], "settled", ex[w].charge, res)

\* A failed local call is forgotten.
Dropped(r) == ~Paid(r) /\ mw[r].state # "reconciled" /\ mw'[r] = Forgotten(mw[r])

RowChange(r) ==
    Kept(r) \/ MadeUncertain(r) \/ Settled(r) \/ Dropped(r) \/ Reconcile(r)

\* The row a finishing executor is about to write.
LEMMA FinishFacts ==
    ASSUME LedgerInv, NEW w \in Workers, Finishing(w), NEW r \in Requests, r = wk[w].job,
           mw[r].state # "reconciled"
    PROVE  /\ ex[w].charge \in Nat
           /\ Paid(r) => /\ mw[r].state \in {"sending", "unknown"}
                         /\ calls[r] = 1
                         /\ ex[w].out # "failed" => ex[w].charge = bill[r]
                         /\ ex[w].out # "failed" => ex[w].pc = "recorded"
  <1>1. /\ ex[w].pc \in {"answered", "recorded"}
        /\ ex[w] \in Call
        /\ mw[r] \in LedgerRow
    BY DEF Finishing, LedgerInv, MTypeOK
  <1>2. ex[w].charge \in Nat
    BY <1>1 DEF Call
  <1>3. ASSUME Paid(r)
        PROVE  /\ mw[r].state \in {"sending", "unknown"}
               /\ calls[r] = 1
               /\ ex[w].out # "failed" => ex[w].charge = bill[r]
    <2>1. OneShot(r) /\ Busy(w, r)
      BY <1>1, <1>3 DEF LedgerInv, Busy
    <2> QED
      BY <1>1, <2>1 DEF OneShot, LedgerRow, LedgerStates
  <1> QED
    BY <1>2, <1>3 DEF Finishing

\* Every step that is not the sending of a call changes each row in one of
\* these ways.
LEMMA RowChanges ==
    ASSUME LedgerInv, [MNext]_mvars, ~ \E w \in Workers : BeginSend(w),
           NEW r \in Requests
    PROVE  RowChange(r)
  <1>0. mw \in [Requests -> LedgerRow]
    BY DEF LedgerInv, MTypeOK
  <1>1. CASE mw' = mw
    BY <1>1 DEF RowChange, Kept
  <1>2. CASE NewDay
    BY <1>2 DEF RowChange, Kept, NewDay
  <1>3. ASSUME NEW q \in Requests, Reconcile(q) PROVE RowChange(r)
    <2>1. CASE q = r
      BY <1>3, <2>1 DEF RowChange
    <2>2. CASE q # r
      BY <1>0, <1>3, <2>2 DEF Reconcile, RowChange, Kept
    <2> QED
      BY <2>1, <2>2
  <1>4. ASSUME NEW w \in Workers, BeginUnknown(w) PROVE RowChange(r)
    <2>1. /\ mw' = [mw EXCEPT ![wk[w].job] = Unknown(mw[wk[w].job], mw[wk[w].job].result)]
          /\ Paid(wk[w].job)
          /\ mw[wk[w].job].state \in {"sending", "unknown"}
          /\ mw[wk[w].job].result = "none"
      BY <1>4 DEF BeginUnknown
    <2>2. CASE wk[w].job = r
      <3>1. mw'[r] = Unknown(mw[r], mw[r].result)
        BY <1>0, <2>1, <2>2
      <3> QED
        BY <2>1, <2>2, <3>1 DEF RowChange, MadeUncertain
    <2>3. CASE wk[w].job # r
      BY <1>0, <2>1, <2>3 DEF RowChange, Kept
    <2> QED
      BY <2>2, <2>3
  <1>5. ASSUME NEW w \in Workers, Finish(w), mw' # mw PROVE RowChange(r)
    <2>1. /\ Finishing(w)
          /\ mw[wk[w].job].state # "reconciled"
      BY <1>5 DEF Finish, FinishReconciled, FinishSettled, FinishLocalFailure, FinishUnknown
    <2>2. wk[w].job \in Requests
      BY <2>1 DEF Finishing, LedgerInv, CallsClaimed, QueueInv, ClaimsNameJobs
    <2>3. CASE FinishSettled(w)
      <3> DEFINE res == IF ex[w].out = "ok" THEN "ok" ELSE "bad"
      <3>1. /\ mw' = [mw EXCEPT ![wk[w].job] =
                         Accounted(mw[wk[w].job], "settled", ex[w].charge, res)]
            /\ ex[w].out \in {"ok", "refused"}
        BY <2>3 DEF FinishSettled
      <3>2. res \in Answers
        BY DEF Answers
      <3> HIDE DEF res
      <3>3. CASE wk[w].job = r
        <4>1. mw'[r] = Accounted(mw[r], "settled", ex[w].charge, res)
          BY <1>0, <3>1, <3>3
        <4>2. /\ ex[w].charge \in Nat
              /\ Paid(r) => /\ mw[r].state \in {"sending", "unknown"}
                            /\ calls[r] = 1
                            /\ ex[w].out # "failed" => ex[w].charge = bill[r]
                            /\ ex[w].out # "failed" => ex[w].pc = "recorded"
          BY <2>1, <3>3, FinishFacts
        <4>3. Settled(r)
          BY <2>1, <2>3, <3>1, <3>2, <3>3, <4>1, <4>2 DEF Settled
        <4> QED
          BY <4>3 DEF RowChange
      <3>4. CASE wk[w].job # r
        BY <1>0, <3>1, <3>4 DEF RowChange, Kept
      <3> QED
        BY <3>3, <3>4
    <2>4. CASE FinishLocalFailure(w)
      <3>1. /\ mw' = [mw EXCEPT ![wk[w].job] = Forgotten(mw[wk[w].job])]
            /\ ~Paid(wk[w].job)
        BY <2>4 DEF FinishLocalFailure
      <3> QED
        BY <1>0, <2>1, <3>1 DEF RowChange, Kept, Dropped
    <2>5. CASE FinishUnknown(w)
      <3>1. /\ mw' = [mw EXCEPT ![wk[w].job] = Unknown(mw[wk[w].job], "bad")]
            /\ Paid(wk[w].job)
        BY <2>5 DEF FinishUnknown
      <3>2. CASE wk[w].job = r
        <4>1. mw[r].state \in {"sending", "unknown"}
          BY <2>1, <3>1, <3>2, FinishFacts
        <4>2. mw'[r] = Unknown(mw[r], "bad")
          BY <1>0, <3>1, <3>2
        <4> QED
          BY <3>1, <3>2, <4>1, <4>2 DEF RowChange, MadeUncertain
      <3>3. CASE wk[w].job # r
        BY <1>0, <3>1, <3>3 DEF RowChange, Kept
      <3> QED
        BY <3>2, <3>3
    <2> QED
      BY <1>5, <2>3, <2>4, <2>5 DEF Finish, FinishReconciled
  <1>6. CASE QueueStep
    BY <1>1, <1>6 DEF QueueStep, ledger
  <1>7. CASE UNCHANGED mvars
    BY <1>1, <1>7 DEF mvars
  <1>8. ASSUME NEW w \in Workers, Begin(w) PROVE RowChange(r)
    BY <1>1, <1>4, <1>8 DEF Begin, BeginStale, BeginCached, BeginRefused, ledger
  <1>9. ASSUME NEW w \in Workers, NEW out \in Outcomes, NEW charge \in Charges,
               Transport(w, out, charge)
        PROVE  RowChange(r)
    BY <1>1, <1>9 DEF Transport
  <1>10. ASSUME NEW w \in Workers, Record(w) \/ MCrash(w) PROVE RowChange(r)
    BY <1>1, <1>10 DEF Record, MCrash
  <1>11. ASSUME NEW w \in Workers, Finish(w) PROVE RowChange(r)
    BY <1>1, <1>5, <1>11
  <1> QED
    BY <1>2, <1>3, <1>6, <1>7, <1>8, <1>9, <1>10, <1>11 DEF MNext

-----------------------------------------------------------------------------
(* The budgets. *)

\* What the ledger counts for each request against the two budgets.
TotalCounts(rows) == [q \in Requests |-> rows[q].held + rows[q].charged]
DailyCounts(rows) ==
    [q \in Requests |->
        rows[q].held + (IF rows[q].sent = "today" THEN rows[q].charged ELSE 0)]

\* A request that is not authorised, and every local one, counts nothing.
UnspentRows ==
    \A r \in Requests :
        /\ mw[r].state = "approved" \/ ~Paid(r) => mw[r].held = 0 /\ mw[r].charged = 0
        /\ ~Paid(r) => receipt[r] = NoReceipt

\* A local call in progress costs nothing.
LocalCallsFree ==
    \A w \in Workers :
        ex[w].pc # "none" /\ ~Paid(wk[w].job) => ex[w].charge = 0

\* What the ledger counts stays within the budgets.
Budgeted == TotalUse <= TotalLimit /\ DailyUse <= DailyLimit

BudgetInv == LedgerInv /\ UnspentRows /\ LocalCallsFree /\ Budgeted

\* The totals of the model are sums of these counts.
LEMMA TotalUseIs ==
    /\ TotalUse = SumOf(TotalCounts(mw), Requests)
    /\ TotalUse' = SumOf(TotalCounts(mw'), Requests)
  <1> DEFINE Sum(rows) == MapThenSumSet(LAMBDA q : rows[q].held + rows[q].charged, Requests)
  <1>1. ASSUME NEW rows PROVE Sum(rows) = SumOf(TotalCounts(rows), Requests)
    <2> DEFINE C(q) == rows[q].held + rows[q].charged
               F == TotalCounts(rows)
               P(k) == k = [s \in SUBSET Requests |->
                              IF s = {} THEN 0
                              ELSE C(CHOOSE x \in s : TRUE) + k[s \ {CHOOSE x \in s : TRUE}]]
               c == CHOOSE k : P(k)
    <2>1. \A s \in SUBSET Requests : s # {} => F[Pick(s)] = C(Pick(s))
      BY PickIn DEF TotalCounts
    <2> HIDE DEF F, C
    <2>2. ASSUME NEW k PROVE P(k) <=> SumTable(k, F, Requests)
      BY <2>1 DEF SumTable, Pick
    <2>3. PICK g : SumTable(g, F, Requests)
      BY ConstantsAssumption, TableExists
    <2> HIDE DEF P
    <2>4. SumTable(c, F, Requests)
      BY <2>2, <2>3
    <2> HIDE DEF c
    <2>5. c[Requests] = SumOf(F, Requests)
      BY <2>4, ConstantsAssumption, SumIsEntry
    <2>6. Sum(rows) = c[Requests]
      BY Zenon DEF MapThenSumSet, MapThenFoldSet, c, P, C
    <2> QED
      BY <2>5, <2>6 DEF F
  <1>2. TotalUse = Sum(mw)
    BY Zenon DEF TotalUse, MapThenSumSet, MapThenFoldSet
  <1>3. TotalUse' = Sum(mw')
    BY Zenon DEF TotalUse, MapThenSumSet, MapThenFoldSet
  <1> HIDE DEF Sum
  <1> QED
    BY <1>1, <1>2, <1>3

LEMMA DailyUseIs ==
    /\ DailyUse = SumOf(DailyCounts(mw), Requests)
    /\ DailyUse' = SumOf(DailyCounts(mw'), Requests)
  <1> DEFINE Sum(rows) ==
        MapThenSumSet(LAMBDA q : rows[q].held + (IF rows[q].sent = "today"
                                                 THEN rows[q].charged ELSE 0), Requests)
  <1>1. ASSUME NEW rows PROVE Sum(rows) = SumOf(DailyCounts(rows), Requests)
    <2> DEFINE C(q) == rows[q].held + (IF rows[q].sent = "today" THEN rows[q].charged ELSE 0)
               F == DailyCounts(rows)
               P(k) == k = [s \in SUBSET Requests |->
                              IF s = {} THEN 0
                              ELSE C(CHOOSE x \in s : TRUE) + k[s \ {CHOOSE x \in s : TRUE}]]
               c == CHOOSE k : P(k)
    <2>1. \A s \in SUBSET Requests : s # {} => F[Pick(s)] = C(Pick(s))
      BY PickIn DEF DailyCounts
    <2> HIDE DEF F, C
    <2>2. ASSUME NEW k PROVE P(k) <=> SumTable(k, F, Requests)
      BY <2>1 DEF SumTable, Pick
    <2>3. PICK g : SumTable(g, F, Requests)
      BY ConstantsAssumption, TableExists
    <2> HIDE DEF P
    <2>4. SumTable(c, F, Requests)
      BY <2>2, <2>3
    <2> HIDE DEF c
    <2>5. c[Requests] = SumOf(F, Requests)
      BY <2>4, ConstantsAssumption, SumIsEntry
    <2>6. Sum(rows) = c[Requests]
      BY Zenon DEF MapThenSumSet, MapThenFoldSet, c, P, C
    <2> QED
      BY <2>5, <2>6 DEF F
  <1>2. DailyUse = Sum(mw)
    BY Zenon DEF DailyUse, MapThenSumSet, MapThenFoldSet
  <1>3. DailyUse' = Sum(mw')
    BY Zenon DEF DailyUse, MapThenSumSet, MapThenFoldSet
  <1> HIDE DEF Sum
  <1> QED
    BY <1>1, <1>2, <1>3

\* Counts are natural numbers.
LEMMA CountsAreInts ==
    ASSUME NEW rows \in [Requests -> LedgerRow]
    PROVE  /\ \A q \in Requests :
                 /\ TotalCounts(rows)[q] = rows[q].held + rows[q].charged
                 /\ DailyCounts(rows)[q] =
                      rows[q].held + (IF rows[q].sent = "today" THEN rows[q].charged ELSE 0)
                 /\ rows[q].held \in Nat
                 /\ rows[q].charged \in Nat
                 /\ TotalCounts(rows)[q] \in Int
                 /\ DailyCounts(rows)[q] \in Int
           /\ SumOf(TotalCounts(rows), Requests) \in Int
           /\ SumOf(DailyCounts(rows), Requests) \in Int
  <1>1. \A q \in Requests : rows[q].held \in Nat /\ rows[q].charged \in Nat
    BY DEF LedgerRow
  <1>2. \A q \in Requests :
           /\ TotalCounts(rows)[q] = rows[q].held + rows[q].charged
           /\ DailyCounts(rows)[q] =
                rows[q].held + (IF rows[q].sent = "today" THEN rows[q].charged ELSE 0)
    BY DEF TotalCounts, DailyCounts
  <1>3. \A q \in Requests : TotalCounts(rows)[q] \in Int /\ DailyCounts(rows)[q] \in Int
    BY <1>1, <1>2
  <1>4. Requests \in SUBSET Requests /\ IsFiniteSet(Requests)
    BY ConstantsAssumption
  <1>5. /\ SumOf(TotalCounts(rows), Requests) \in Int
        /\ SumOf(DailyCounts(rows), Requests) \in Int
    BY <1>3, <1>4, SumIsInt
  <1> QED
    BY <1>1, <1>2, <1>3, <1>5

\* A step that sends no call, and does not break what it knows of unspent rows
\* and free calls, spends no budget: no row counts more after it.
LEMMA NoRowGrows ==
    ASSUME BudgetInv, LedgerInv', NEW r \in Requests, RowChange(r)
    PROVE  /\ mw'[r].held + mw'[r].charged <= mw[r].held + mw[r].charged
           /\ DailyCounts(mw')[r] <= DailyCounts(mw)[r]
           /\ mw'[r].state = "approved" \/ ~Paid(r) => mw'[r].held = 0 /\ mw'[r].charged = 0
  <1>0. /\ mw \in [Requests -> LedgerRow] /\ mw' \in [Requests -> LedgerRow]
        /\ mw[r] \in LedgerRow /\ mw'[r] \in LedgerRow
        /\ mw[r].state = "approved" \/ ~Paid(r) => mw[r].held = 0 /\ mw[r].charged = 0
        /\ Hold[r] \in Nat /\ bill[r] \in Nat
    BY LedgerAssumption DEF BudgetInv, LedgerInv, MTypeOK, UnspentRows
  <1>1. /\ mw[r].held \in Nat /\ mw[r].charged \in Nat
        /\ mw'[r].held \in Nat /\ mw'[r].charged \in Nat
    BY <1>0 DEF LedgerRow
  <1>2. /\ DailyCounts(mw)[r] = mw[r].held + (IF mw[r].sent = "today" THEN mw[r].charged ELSE 0)
        /\ DailyCounts(mw')[r] = mw'[r].held + (IF mw'[r].sent = "today" THEN mw'[r].charged ELSE 0)
    BY DEF DailyCounts
  <1>3. CASE Kept(r)
    BY <1>0, <1>1, <1>2, <1>3, YesterdayRow DEF Kept
  <1>4. CASE MadeUncertain(r)
    <2>1. PICK res \in {mw[r].result, "bad"} : mw'[r] = Unknown(mw[r], res)
      BY <1>4 DEF MadeUncertain
    <2>2. res \in Answers \cup {"none"}
      BY <1>0 DEF LedgerRow, Answers
    <2>3. /\ mw'[r].state = "unknown"
          /\ mw'[r].held = mw[r].held
          /\ mw'[r].charged = mw[r].charged
          /\ mw'[r].sent = mw[r].sent
      BY <1>0, <2>1, <2>2, UnknownRow
    <2> QED
      BY <1>0, <1>1, <1>2, <1>4, <2>3 DEF MadeUncertain
  <1>5. CASE Settled(r)
    <2>1. PICK w \in Workers, res \in Answers :
            /\ wk[w].job = r
            /\ Finishing(w)
            /\ ex[w].charge \in Nat
            /\ Paid(r) => mw[r].state \in {"sending", "unknown"} /\ ex[w].charge = bill[r]
            /\ mw'[r] = Accounted(mw[r], "settled", ex[w].charge, res)
      BY <1>5 DEF Settled
    <2>2. /\ mw'[r].state = "settled"
          /\ mw'[r].held = 0
          /\ mw'[r].charged = ex[w].charge
          /\ mw'[r].sent = mw[r].sent
      <3>1. "settled" \in LedgerStates
        BY DEF LedgerStates
      <3> QED
        BY <1>0, <2>1, <3>1, AccountedRow
    <2>3. CASE Paid(r)
      <3>1. mw[r].held = Hold[r] /\ bill[r] <= Hold[r]
        BY <2>1, <2>3 DEF BudgetInv, LedgerInv, OneShot
      <3> QED
        BY <1>0, <1>1, <1>2, <2>1, <2>2, <2>3, <3>1
    <2>4. CASE ~Paid(r)
      <3>1. ex[w].pc # "none"
        BY <2>1 DEF Finishing
      <3>2. ex[w].charge = 0
        BY <2>1, <2>4, <3>1 DEF BudgetInv, LocalCallsFree
      <3> QED
        BY <1>0, <1>1, <1>2, <2>2, <2>4, <3>2
    <2> QED
      BY <2>3, <2>4
  <1>6. CASE Dropped(r)
    <2>1. /\ mw'[r].held = 0 /\ mw'[r].charged = mw[r].charged
          /\ mw'[r].sent = mw[r].sent /\ ~Paid(r)
      BY <1>0, <1>6, ForgottenRow DEF Dropped
    <2> QED
      BY <1>0, <1>1, <1>2, <2>1
  <1>7. CASE Reconcile(r)
    <2>1. /\ mw[r].state = "unknown"
          /\ receipt[r] # NoReceipt
          /\ receipt[r] <= mw[r].held
          /\ mw' = [mw EXCEPT ![r] = Accounted(mw[r], "reconciled", receipt[r], "bad")]
      BY <1>7 DEF Reconcile
    <2>2. receipt[r] \in Nat
      BY <2>1 DEF BudgetInv, LedgerInv, MTypeOK
    <2>3. /\ mw'[r].state = "reconciled"
          /\ mw'[r].held = 0
          /\ mw'[r].charged = receipt[r]
          /\ mw'[r].sent = mw[r].sent
      <3>1. "reconciled" \in LedgerStates /\ "bad" \in Answers
        BY DEF LedgerStates, Answers
      <3>2. mw'[r] = Accounted(mw[r], "reconciled", receipt[r], "bad")
        BY <1>0, <2>1
      <3> QED
        BY <1>0, <2>2, <3>1, <3>2, AccountedRow
    <2>4. Paid(r)
      BY <2>1 DEF BudgetInv, UnspentRows
    <2> QED
      BY <1>0, <1>1, <1>2, <2>1, <2>2, <2>3, <2>4, SMTT(30)
  <1> QED
    BY <1>3, <1>4, <1>5, <1>6, <1>7 DEF RowChange

\* Sending a call reserves what the budgets have left room for.
LEMMA SendWithinBudgets ==
    ASSUME BudgetInv, LedgerInv', NEW w \in Workers, BeginSend(w)
    PROVE  /\ Budgeted'
           /\ \A r \in Requests :
                 mw'[r].state = "approved" \/ ~Paid(r) => mw'[r].held = 0 /\ mw'[r].charged = 0
  <1> DEFINE r == wk[w].job
             n == Reservation(r)
  <1>1. /\ Undecided(r)
        /\ Permitted(r)
        /\ mw' = [mw EXCEPT ![r] = Sending(mw[r], n)]
        /\ wk[w].pc = "claimed"
    BY DEF BeginSend, Beginning
  <1>2. /\ r \in Requests
        /\ mw \in [Requests -> LedgerRow] /\ mw' \in [Requests -> LedgerRow]
        /\ mw[r] \in LedgerRow
        /\ TotalLimit \in Nat /\ DailyLimit \in Nat
    BY <1>1, LedgerAssumption DEF BudgetInv, LedgerInv, MTypeOK, QueueInv, ClaimsNameJobs
  <1>3. n \in Nat
    BY <1>2, LedgerAssumption DEF Reservation
  <1>4. mw[r].held = 0 /\ mw[r].charged = 0
    <2>1. Paid(r) => mw[r].state = "approved"
      BY <1>1, <1>2 DEF Undecided, BudgetInv, LedgerInv, ResultsStored, LedgerRow, LedgerStates
    <2> QED
      BY <1>2, <2>1 DEF BudgetInv, UnspentRows
  <1> HIDE DEF r, n
  <1>5. /\ mw'[r].held = n
        /\ mw'[r].charged = 0
        /\ mw'[r].state = "sending"
        /\ \A q \in Requests \ {r} : mw'[q] = mw[q]
    <2>1. mw'[r] = Sending(mw[r], n)
      BY <1>1, <1>2
    <2>2. \A q \in Requests \ {r} : mw'[q] = mw[q]
      BY <1>1, <1>2
    <2> QED
      BY <1>2, <1>3, <1>4, <2>1, <2>2, SendingRow
  <1>6. /\ \A q \in Requests : TotalCounts(mw)[q] \in Int /\ TotalCounts(mw')[q] \in Int
        /\ \A q \in Requests : DailyCounts(mw)[q] \in Int /\ DailyCounts(mw')[q] \in Int
        /\ TotalCounts(mw)[r] = 0 /\ TotalCounts(mw')[r] = n
        /\ DailyCounts(mw)[r] = 0 /\ DailyCounts(mw')[r] = n
        /\ SumOf(TotalCounts(mw), Requests) \in Int
        /\ SumOf(DailyCounts(mw), Requests) \in Int
    BY <1>2, <1>3, <1>4, <1>5, CountsAreInts
  <1>7. /\ \A q \in Requests \ {r} : TotalCounts(mw')[q] = TotalCounts(mw)[q]
        /\ \A q \in Requests \ {r} : DailyCounts(mw')[q] = DailyCounts(mw)[q]
    BY <1>2, <1>5, CountsAreInts
  <1>8. IsFiniteSet(Requests)
    BY ConstantsAssumption
  <1>9. TotalUse' = TotalUse + n
    <2> DEFINE f == TotalCounts(mw)
               h == TotalCounts(mw')
    <2>0. /\ \A q \in Requests : f[q] \in Int /\ h[q] \in Int
          /\ \A q \in Requests \ {r} : h[q] = f[q]
      BY <1>6, <1>7
    <2> HIDE DEF f, h
    <2>2. SumOf(h, Requests) = SumOf(f, Requests) + h[r] - f[r]
      BY <1>2, <1>8, <2>0, SumChanges
    <2>1. SumOf(TotalCounts(mw'), Requests) =
            SumOf(TotalCounts(mw), Requests) + TotalCounts(mw')[r] - TotalCounts(mw)[r]
      BY <2>2 DEF f, h
    <2> QED
      BY <1>3, <1>6, <2>1, TotalUseIs
  <1>10. DailyUse' = DailyUse + n
    <2> DEFINE f == DailyCounts(mw)
               h == DailyCounts(mw')
    <2>0. /\ \A q \in Requests : f[q] \in Int /\ h[q] \in Int
          /\ \A q \in Requests \ {r} : h[q] = f[q]
      BY <1>6, <1>7
    <2> HIDE DEF f, h
    <2>2. SumOf(h, Requests) = SumOf(f, Requests) + h[r] - f[r]
      BY <1>2, <1>8, <2>0, SumChanges
    <2>1. SumOf(DailyCounts(mw'), Requests) =
            SumOf(DailyCounts(mw), Requests) + DailyCounts(mw')[r] - DailyCounts(mw)[r]
      BY <2>2 DEF f, h
    <2> QED
      BY <1>3, <1>6, <2>1, DailyUseIs
  <1>11. Budgeted'
    <2>1. CASE Paid(r)
      BY <1>1, <1>9, <1>10, <2>1 DEF Permitted, Budgeted, n
    <2>2. CASE ~Paid(r)
      <3>1. n = 0
        BY <2>2 DEF n, Reservation
      <3>2. TotalUse \in Int /\ DailyUse \in Int
        BY <1>6, TotalUseIs, DailyUseIs
      <3> QED
        BY <1>9, <1>10, <3>1, <3>2 DEF BudgetInv, Budgeted
    <2> QED
      BY <2>1, <2>2
  <1>12. ASSUME NEW q \in Requests, mw'[q].state = "approved" \/ ~Paid(q)
         PROVE  mw'[q].held = 0 /\ mw'[q].charged = 0
    <2>1. CASE q = r
      BY <1>5, <1>12, <2>1 DEF n, Reservation
    <2>2. CASE q # r
      BY <1>5, <1>12, <2>2 DEF BudgetInv, UnspentRows
    <2> QED
      BY <2>1, <2>2
  <1> QED
    BY <1>11, <1>12

\* A step that sends nothing leaves the budgets as well off as they were.
LEMMA OtherStepsWithinBudgets ==
    ASSUME BudgetInv, LedgerInv', \A r \in Requests : RowChange(r)
    PROVE  Budgeted'
  <1>1. /\ mw \in [Requests -> LedgerRow] /\ mw' \in [Requests -> LedgerRow]
        /\ TotalLimit \in Nat /\ DailyLimit \in Nat
        /\ IsFiniteSet(Requests)
    BY LedgerAssumption, ConstantsAssumption DEF BudgetInv, LedgerInv, MTypeOK
  <1>2. ASSUME NEW r \in Requests
        PROVE  /\ TotalCounts(mw')[r] <= TotalCounts(mw)[r]
               /\ DailyCounts(mw')[r] <= DailyCounts(mw)[r]
               /\ TotalCounts(mw')[r] \in Int /\ TotalCounts(mw)[r] \in Int
               /\ DailyCounts(mw')[r] \in Int /\ DailyCounts(mw)[r] \in Int
    BY <1>1, NoRowGrows, CountsAreInts
  <1>3. SumOf(TotalCounts(mw'), Requests) <= SumOf(TotalCounts(mw), Requests)
    BY <1>1, <1>2, SumMonotone
  <1>4. SumOf(DailyCounts(mw'), Requests) <= SumOf(DailyCounts(mw), Requests)
    BY <1>1, <1>2, SumMonotone
  <1>5. /\ SumOf(TotalCounts(mw), Requests) \in Int /\ SumOf(TotalCounts(mw'), Requests) \in Int
        /\ SumOf(DailyCounts(mw), Requests) \in Int /\ SumOf(DailyCounts(mw'), Requests) \in Int
    BY <1>1, CountsAreInts
  <1> QED
    BY <1>1, <1>3, <1>4, <1>5, TotalUseIs, DailyUseIs DEF BudgetInv, Budgeted

\* How a step changes the call that executor w has in progress: not at all, and
\* then its claim stays; or the call ends; or w takes the next step of it.
CallChange(w) ==
    \/ ex'[w] = ex[w] /\ (ex[w].pc # "none" => wk'[w] = wk[w])
    \/ ex'[w].pc = "none" /\ wk'[w].pc # "claimed"
    \/ BeginSend(w)
    \/ \E out \in Outcomes, charge \in Charges : Transport(w, out, charge)
    \/ Record(w)

\* Every step changes every executor in one of these ways.
LEMMA CallChanges ==
    ASSUME LedgerInv, [MNext]_mvars, NEW w \in Workers
    PROVE  CallChange(w)
  <1>0. /\ ex \in [Workers -> Call]
        /\ wk \in [Workers -> Claims]
        /\ NoCall.pc = "none"
        /\ QueueInv
    BY DEF LedgerInv, MTypeOK, TypeOK, NoCall
  <1>1. CASE ex' = ex /\ wk' = wk
    BY <1>1 DEF CallChange
  <1>2. CASE UNCHANGED mvars \/ NewDay \/ \E r \in Requests : Reconcile(r)
    BY <1>1, <1>2 DEF mvars, NewDay, Reconcile
  <1>3. CASE QueueStep
    <2>1. ex' = ex
      BY <1>3 DEF QueueStep, ledger
    <2>2. ASSUME ex[w].pc # "none" PROVE wk'[w] = wk[w]
      BY <1>3, <2>2, ClaimKept
    <2> QED
      BY <2>1, <2>2 DEF CallChange
  <1>4. ASSUME NEW v \in Workers, Begin(v) PROVE CallChange(w)
    <2>1. CASE BeginSend(v)
      <3>1. /\ ex' = [ex EXCEPT ![v] = [pc |-> "authorised", out |-> "none", charge |-> 0]]
            /\ wk' = wk
        BY <2>1 DEF BeginSend, ExtendLease, vars
      <3> QED
        BY <1>0, <2>1, <3>1 DEF CallChange
    <2>2. CASE ~BeginSend(v)
      <3>1. ex' = ex /\ ex[v].pc = "none" /\ \E res : Execute(v, res)
        BY <1>4, <2>2 DEF Begin, BeginStale, BeginCached, BeginUnknown, BeginRefused,
                          Beginning, ledger
      <3>2. \A u \in Workers \ {v} : wk'[u] = wk[u]
        BY <1>0, <3>1, ExecuteFacts
      <3> QED
        BY <3>1, <3>2 DEF CallChange
    <2> QED
      BY <2>1, <2>2
  <1>5. ASSUME NEW v \in Workers, NEW out \in Outcomes, NEW charge \in Charges,
               Transport(v, out, charge)
        PROVE  CallChange(w)
    <2>1. \E c : ex' = [ex EXCEPT ![v] = c]
      BY <1>5 DEF Transport
    <2>2. wk' = wk
      BY <1>5 DEF Transport
    <2> QED
      BY <1>0, <1>5, <2>1, <2>2 DEF CallChange
  <1>6. ASSUME NEW v \in Workers, Record(v) PROVE CallChange(w)
    <2>1. \E c : ex' = [ex EXCEPT ![v] = c]
      BY <1>6 DEF Record
    <2>2. wk' = wk
      BY <1>6 DEF Record
    <2> QED
      BY <1>0, <1>6, <2>1, <2>2 DEF CallChange
  <1>7. ASSUME NEW v \in Workers, Finish(v) PROVE CallChange(w)
    <2>1. ex' = [ex EXCEPT ![v] = NoCall] /\ \E res : Execute(v, res)
      BY <1>7 DEF Finish, FinishReconciled, FinishSettled, FinishLocalFailure, FinishUnknown
    <2>2. \A u \in Workers \ {v} : wk'[u] = wk[u]
      BY <1>0, <2>1, ExecuteFacts
    <2>3. wk'[v].pc = "result"
      BY <1>0, <2>1, ExecuteFacts
    <2> QED
      BY <1>0, <2>1, <2>2, <2>3 DEF CallChange
  <1>8. ASSUME NEW v \in Workers, MCrash(v) PROVE CallChange(w)
    <2>1. ex' = [ex EXCEPT ![v] = NoCall] /\ wk' = [wk EXCEPT ![v] = Idle]
      BY <1>8 DEF MCrash, Crash
    <2> QED
      BY <1>0, <2>1 DEF CallChange, Idle
  <1> QED
    BY <1>2, <1>3, <1>4, <1>5, <1>6, <1>7, <1>8 DEF MNext

\* Only recording a paid call writes a receipt, and only a first one.
LEMMA ReceiptChanges ==
    ASSUME LedgerInv, [MNext]_mvars, NEW r \in Requests, receipt'[r] # receipt[r]
    PROVE  Paid(r) /\ receipt[r] = NoReceipt
  <1>1. receipt \in [Requests -> Nat \cup {NoReceipt}]
    BY DEF LedgerInv, MTypeOK
  <1>2. \E w \in Workers : Record(w)
    BY DEF MNext, mvars, QueueStep, ledger, Begin, BeginStale, BeginCached, BeginUnknown,
           BeginRefused, BeginSend, Transport, Finish, FinishReconciled, FinishSettled,
           FinishLocalFailure, FinishUnknown, MCrash, Reconcile, NewDay
  <1>3. PICK w \in Workers : Record(w)
    BY <1>2
  <1>4. /\ receipt' = [receipt EXCEPT ![wk[w].job] =
                          IF @ = NoReceipt THEN ex[w].charge ELSE @]
        /\ Paid(wk[w].job)
    BY <1>3 DEF Record
  <1>5. wk[w].job = r
    BY <1>1, <1>4
  <1> QED
    BY <1>1, <1>4, <1>5

\* Every step preserves the budgets and what they rest on.
LEMMA BudgetStep == BudgetInv /\ [MNext]_mvars => BudgetInv'
  <1> SUFFICES ASSUME BudgetInv, [MNext]_mvars PROVE BudgetInv'
    OBVIOUS
  <1>1. LedgerInv /\ LedgerInv'
    BY LedgerInvStep DEF BudgetInv
  <1>2. /\ Budgeted'
        /\ \A r \in Requests :
              mw'[r].state = "approved" \/ ~Paid(r) => mw'[r].held = 0 /\ mw'[r].charged = 0
    <2>1. CASE \E w \in Workers : BeginSend(w)
      BY <1>1, <2>1, SendWithinBudgets
    <2>2. CASE ~ \E w \in Workers : BeginSend(w)
      <3>1. \A r \in Requests : RowChange(r)
        BY <1>1, <2>2, RowChanges
      <3> QED
        BY <1>1, <3>1, NoRowGrows, OtherStepsWithinBudgets
    <2> QED
      BY <2>1, <2>2
  <1>3. UnspentRows'
    <2>1. \A r \in Requests : ~Paid(r) => receipt'[r] = NoReceipt
      BY <1>1, ReceiptChanges DEF BudgetInv, UnspentRows
    <2> QED
      BY <1>2, <2>1 DEF UnspentRows, Paid
  <1>4. LocalCallsFree'
    <2> SUFFICES ASSUME NEW w \in Workers, ex'[w].pc # "none", ~Paid(wk'[w].job)
                 PROVE  ex'[w].charge = 0
      BY DEF LocalCallsFree, Paid
    <2>0. ex \in [Workers -> Call]
      BY <1>1 DEF LedgerInv, MTypeOK
    <2>1. CASE ex'[w] = ex[w] /\ (ex[w].pc # "none" => wk'[w] = wk[w])
      BY <2>1 DEF BudgetInv, LocalCallsFree
    <2>2. CASE BeginSend(w)
      BY <2>0, <2>2 DEF BeginSend
    <2>3. ASSUME NEW out \in Outcomes, NEW charge \in Charges, Transport(w, out, charge)
          PROVE  ex'[w].charge = 0
      <3>1. /\ charge <= Reservation(wk[w].job)
            /\ ex' = [ex EXCEPT ![w] = [pc |-> "answered", out |-> out,
                                        charge |-> IF out = "failed" THEN 0 ELSE charge]]
            /\ wk' = wk
        BY <2>3 DEF Transport
      <3>2. charge \in Nat
        BY LedgerAssumption DEF Charges
      <3>3. charge = 0
        BY <3>1, <3>2 DEF Reservation
      <3> QED
        BY <2>0, <3>1, <3>3
    <2>4. CASE Record(w)
      BY <2>4 DEF Record
    <2> QED
      BY <1>1, <2>1, <2>2, <2>3, <2>4, CallChanges DEF CallChange
  <1> QED
    BY <1>1, <1>2, <1>3, <1>4 DEF BudgetInv

\* An untouched ledger is within any budget.
LEMMA BudgetInit == MInit => BudgetInv
  <1> SUFFICES ASSUME MInit PROVE BudgetInv
    OBVIOUS
  <1>1. LedgerInv
    BY LedgerInit
  <1>2. UnspentRows /\ LocalCallsFree
    BY DEF MInit, UnspentRows, LocalCallsFree, NewLedgerRow, NoCall
  <1>3. Budgeted
    <2> DEFINE f == TotalCounts(mw)
               h == DailyCounts(mw)
    <2>1. \A q \in Requests : f[q] = 0 /\ h[q] = 0
      BY DEF MInit, NewLedgerRow, TotalCounts, DailyCounts
    <2> HIDE DEF f, h
    <2>2. \A q \in Requests : f[q] \in Int /\ h[q] \in Int
      BY <2>1
    <2>3. /\ {} \in SUBSET Requests
          /\ \A q \in Requests \ {} : f[q] = 0
          /\ \A q \in Requests \ {} : h[q] = 0
          /\ IsFiniteSet(Requests)
          /\ IsFiniteSet({})
      BY <2>1, ConstantsAssumption, FS_EmptySet
    <2>4. SumOf(f, Requests) = SumOf(f, {})
      BY <2>2, <2>3, SumIgnoresZeros
    <2>5. SumOf(h, Requests) = SumOf(h, {})
      BY <2>2, <2>3, SumIgnoresZeros
    <2>6. SumOf(f, {}) = 0 /\ SumOf(h, {}) = 0
      BY <2>3, SumSteps
    <2>7. TotalUse = 0 /\ DailyUse = 0
      BY <2>4, <2>5, <2>6, TotalUseIs, DailyUseIs DEF f, h
    <2> QED
      BY <2>7, LedgerAssumption DEF Budgeted
  <1> QED
    BY <1>1, <1>2, <1>3 DEF BudgetInv

\* The day's budget of the property is a sum of the day's bills.
LEMMA DailyBillIs ==
    MapThenSumSet(LAMBDA r : IF mw[r].sent = "today" THEN bill[r] ELSE 0, Requests)
      = SumOf([q \in Requests |-> IF mw[q].sent = "today" THEN bill[q] ELSE 0], Requests)
  <1> DEFINE C(q) == IF mw[q].sent = "today" THEN bill[q] ELSE 0
             F == [q \in Requests |-> C(q)]
             P(k) == k = [s \in SUBSET Requests |->
                            IF s = {} THEN 0
                            ELSE C(CHOOSE x \in s : TRUE) + k[s \ {CHOOSE x \in s : TRUE}]]
             c == CHOOSE k : P(k)
  <1>1. \A s \in SUBSET Requests : s # {} => F[Pick(s)] = C(Pick(s))
    BY PickIn
  <1>2. ASSUME NEW k PROVE P(k) <=> SumTable(k, F, Requests)
    <2> HIDE DEF F, C
    <2> QED
      BY <1>1 DEF SumTable, Pick
  <1>3. PICK g : SumTable(g, F, Requests)
    BY ConstantsAssumption, TableExists
  <1> HIDE DEF P
  <1>4. SumTable(c, F, Requests)
    BY <1>2, <1>3
  <1>5. c[Requests] = SumOf(F, Requests)
    <2> HIDE DEF c, F
    <2> QED
      BY <1>4, ConstantsAssumption, SumIsEntry
  <1>6. MapThenSumSet(LAMBDA r : IF mw[r].sent = "today" THEN bill[r] ELSE 0, Requests)
          = c[Requests]
    BY Zenon DEF MapThenSumSet, MapThenFoldSet, P
  <1> QED
    BY <1>5, <1>6

\* Neither budget is ever exceeded by what the provider really charged, for any
\* number of requests, workers, crashes and midnights.
THEOREM BudgetsHold == MSpec => []WithinBudgets
  <1>1. BudgetInv => WithinBudgets
    <2> SUFFICES ASSUME BudgetInv PROVE WithinBudgets
      OBVIOUS
    <2> DEFINE f == TotalCounts(mw)
               h == DailyCounts(mw)
               d == [q \in Requests |-> IF mw[q].sent = "today" THEN bill[q] ELSE 0]
    <2>1. /\ mw \in [Requests -> LedgerRow]
          /\ IsFiniteSet(Requests)
          /\ Requests \in SUBSET Requests
          /\ TotalLimit \in Nat /\ DailyLimit \in Nat
          /\ \A q \in Requests : bill[q] \in Nat
      BY LedgerAssumption, ConstantsAssumption DEF BudgetInv, LedgerInv, MTypeOK
    <2>2. \A q \in Requests : bill[q] <= mw[q].held + mw[q].charged
      BY CoveredByLedger DEF BudgetInv, LedgerCoversBill
    <2>3. ASSUME NEW q \in Requests
          PROVE  /\ bill[q] \in Int /\ f[q] \in Int /\ h[q] \in Int /\ d[q] \in Int
                 /\ bill[q] <= f[q]
                 /\ d[q] <= h[q]
      <3>1. /\ f[q] = mw[q].held + mw[q].charged
            /\ h[q] = mw[q].held + (IF mw[q].sent = "today" THEN mw[q].charged ELSE 0)
            /\ mw[q].held \in Nat /\ mw[q].charged \in Nat
        BY <2>1, CountsAreInts
      <3>2. d[q] = IF mw[q].sent = "today" THEN bill[q] ELSE 0
        OBVIOUS
      <3> HIDE DEF f, h, d
      <3> QED
        BY <2>1, <2>2, <3>1, <3>2
    <2> HIDE DEF d, f, h
    <2>4. SumOf(bill, Requests) <= SumOf(f, Requests)
      BY <2>1, <2>3, SumMonotone
    <2>5. SumOf(d, Requests) <= SumOf(h, Requests)
      BY <2>1, <2>3, SumMonotone
    <2>6. /\ SumOf(bill, Requests) \in Int /\ SumOf(f, Requests) \in Int
          /\ SumOf(d, Requests) \in Int /\ SumOf(h, Requests) \in Int
      BY <2>1, <2>3, SumIsInt
    <2>7. SumOf(f, Requests) <= TotalLimit /\ SumOf(h, Requests) <= DailyLimit
      BY TotalUseIs, DailyUseIs DEF BudgetInv, Budgeted, f, h
    <2>8. TotalBudget
      <3>1. MapThenSumSet(LAMBDA r : bill[r], Requests) = SumOf(bill, Requests)
        BY Zenon DEF MapThenSumSet, MapThenFoldSet, SumOf, SumTable, Pick
      <3>2. SumOf(bill, Requests) <= TotalLimit
        BY <2>1, <2>4, <2>6, <2>7
      <3> QED
        BY <3>1, <3>2, Zenon DEF TotalBudget
    <2>9. DailyBudget
      <3>1. SumOf(d, Requests) <= DailyLimit
        BY <2>1, <2>5, <2>6, <2>7
      <3> QED
        BY <3>1, DailyBillIs, Zenon DEF DailyBudget, d
    <2> QED
      BY <2>8, <2>9 DEF WithinBudgets
  <1> QED
    BY <1>1, BudgetInit, BudgetStep, PTL DEF MSpec

-----------------------------------------------------------------------------
(* The ledger and the job. *)

\* An answer of a paid call is recorded with its usage, stays settled at that
\* usage, and is what a worker hands to checkpoint and what a job succeeds by.
AnswersPaidFor ==
    /\ \A w \in Workers :
          ex[w].pc = "recorded" => Paid(wk[w].job) /\ receipt[wk[w].job] # NoReceipt
    /\ \A w \in Workers :
          wk[w].pc = "result" /\ wk[w].res = "ok" /\ Paid(wk[w].job)
              => mw[wk[w].job].result = "ok"
    /\ \A r \in Requests : Paid(r) =>
          /\ jobs[r].status = "succeeded" => mw[r].result = "ok"
          /\ mw[r].result = "ok" =>
                mw[r].state = "settled" /\ mw[r].charged = receipt[r]

\* Model work has one step: it is done exactly when the job has succeeded.
OneStep ==
    \A r \in Requests :
        jobs[r].step = IF jobs[r].status = "succeeded" THEN 1 ELSE 0

\* The claims of r that may still make their one call.
Uncalled(r) ==
    {w \in Workers : /\ wk[w].pc = "claimed"
                     /\ wk[w].job = r
                     /\ ex[w].pc \in {"none", "authorised"}}

\* Every call was made under a claim of its own.
CallsCounted ==
    \A r \in Requests :
        /\ IsFiniteSet(Uncalled(r))
        /\ calls[r] + Cardinality(Uncalled(r)) <= issued[r]

SuccessInv == LedgerInv /\ ProgressInv /\ AnswersPaidFor /\ OneStep /\ CallsCounted

\* What a worker hands to checkpoint it had already, or it is the result of the
\* ledger row that the same step read or wrote.
LEMMA ResultComes ==
    ASSUME LedgerInv, [MNext]_mvars, NEW w \in Workers, wk'[w].pc = "result",
           wk'[w].res = "ok"
    PROVE  \/ wk'[w] = wk[w]
           \/ /\ wk'[w].job = wk[w].job
              /\ wk[w].pc = "claimed"
              /\ mw'[wk[w].job].result = "ok"
  <1> DEFINE Comes == \/ wk'[w] = wk[w]
                      \/ /\ wk'[w].job = wk[w].job
                         /\ wk[w].pc = "claimed"
                         /\ mw'[wk[w].job].result = "ok"
  <1>0. /\ wk \in [Workers -> Claims]
        /\ mw \in [Requests -> LedgerRow]
        /\ QueueInv
    BY DEF LedgerInv, MTypeOK, TypeOK
  <1>1. CASE wk' = wk
    BY <1>1
  <1>e. ASSUME NEW v \in Workers, NEW res, Execute(v, res),
               v = w /\ res = "ok" => mw'[wk[w].job].result = "ok"
        PROVE  Comes
    <2>1. /\ wk[v].pc = "claimed" /\ wk'[v].job = wk[v].job /\ wk'[v].res = res
          /\ \A u \in Workers \ {v} : wk'[u] = wk[u]
      BY <1>0, <1>e, ExecuteFacts
    <2> QED
      BY <1>e, <2>1
  <1>2. CASE UNCHANGED mvars \/ NewDay \/ \E r \in Requests : Reconcile(r)
    BY <1>1, <1>2 DEF mvars, NewDay, Reconcile
  <1>3. CASE QueueStep
    <2>1. ASSUME NEW v \in Workers, NEW ready \in BOOLEAN, Claim(v, ready) PROVE Comes
      BY <1>0, <2>1 DEF Claim, ClaimPause, ClaimExhausted, ClaimRun
    <2>2. ASSUME NEW v \in Workers, Checkpoint(v) PROVE Comes
      BY <1>0, <2>2 DEF Checkpoint, CheckpointStale, CheckpointPause, CheckpointRetry,
                        CheckpointCommit, Idle
    <2>3. ASSUME NEW q \in Requests, Operator(q) PROVE wk' = wk
      BY <2>3 DEF Operator, Enqueue, BindChat, Pause, Resume, Cancel
    <2>4. ASSUME NEW t \in Tasks, TaskChange(t) PROVE wk' = wk
      BY <2>4 DEF TaskChange
    <2>5. CASE Tick
      BY <2>5 DEF Tick
    <2> QED
      BY <1>3, <2>1, <2>2, <2>3, <2>4, <2>5 DEF QueueStep
  <1>4. ASSUME NEW v \in Workers, Begin(v) PROVE Comes
    <2>1. CASE BeginStale(v) \/ BeginUnknown(v) \/ BeginRefused(v)
      <3>1. Execute(v, "bad")
        BY <2>1 DEF BeginStale, BeginUnknown, BeginRefused
      <3> QED
        BY <1>e, <3>1
    <2>2. CASE BeginCached(v)
      <3>1. Execute(v, mw[wk[v].job].result) /\ mw' = mw
        BY <2>2 DEF BeginCached, ledger
      <3> QED
        BY <1>e, <3>1
    <2>3. CASE BeginSend(v)
      BY <1>1, <2>3 DEF BeginSend, ExtendLease, vars
    <2> QED
      BY <1>4, <2>1, <2>2, <2>3 DEF Begin
  <1>5. ASSUME NEW v \in Workers, NEW out \in Outcomes, NEW charge \in Charges,
               Transport(v, out, charge)
        PROVE  Comes
    BY <1>1, <1>5 DEF Transport
  <1>6. ASSUME NEW v \in Workers, Record(v) PROVE Comes
    BY <1>1, <1>6 DEF Record
  <1>7. ASSUME NEW v \in Workers, Finish(v) PROVE Comes
    <2>0. wk[v].job \in Requests
      BY <1>7 DEF Finish, FinishReconciled, FinishSettled, FinishLocalFailure, FinishUnknown,
                  Finishing, LedgerInv, CallsClaimed, QueueInv, ClaimsNameJobs
    <2>1. CASE FinishReconciled(v)
      <3>1. Execute(v, mw[wk[v].job].result) /\ mw' = mw
        BY <2>1 DEF FinishReconciled
      <3> QED
        BY <1>e, <3>1
    <2>2. CASE FinishSettled(v)
      <3> DEFINE res == IF ex[v].out = "ok" THEN "ok" ELSE "bad"
      <3>1. /\ Execute(v, res)
            /\ Finishing(v)
            /\ mw' = [mw EXCEPT ![wk[v].job] =
                         Accounted(mw[wk[v].job], "settled", ex[v].charge, res)]
        BY <2>2 DEF FinishSettled
      <3>2. /\ res \in Answers
            /\ mw[wk[v].job] \in LedgerRow
            /\ ex[v].charge \in Nat
            /\ "settled" \in LedgerStates
        BY <1>0, <2>0 DEF Answers, LedgerStates, LedgerInv, MTypeOK, Call
      <3> HIDE DEF res
      <3>3. mw'[wk[v].job].result = res
        <4>1. mw'[wk[v].job] = Accounted(mw[wk[v].job], "settled", ex[v].charge, res)
          BY <1>0, <2>0, <3>1
        <4> QED
          BY <3>2, <4>1, AccountedRow
      <3> QED
        BY <1>e, <3>1, <3>3
    <2>3. CASE FinishLocalFailure(v) \/ FinishUnknown(v)
      <3>1. Execute(v, "retry") \/ Execute(v, "bad")
        BY <2>3 DEF FinishLocalFailure, FinishUnknown
      <3> QED
        BY <1>e, <3>1
    <2> QED
      BY <1>7, <2>1, <2>2, <2>3 DEF Finish
  <1>8. ASSUME NEW v \in Workers, MCrash(v) PROVE Comes
    BY <1>0, <1>8 DEF MCrash, Crash, Idle
  <1> QED
    BY <1>2, <1>3, <1>4, <1>5, <1>6, <1>7, <1>8 DEF MNext

\* A request that has its answer keeps it, and gets it only with its usage.
LEMMA AnswerRow ==
    ASSUME LedgerInv, LedgerInv', AnswersPaidFor, [MNext]_mvars,
           NEW r \in Requests, Paid(r)
    PROVE  /\ mw[r].result = "ok" => mw'[r].result = "ok"
           /\ mw'[r].result = "ok" => mw'[r].state = "settled" /\ mw'[r].charged = receipt'[r]
  <1>0. /\ mw[r] \in LedgerRow /\ mw \in [Requests -> LedgerRow]
        /\ mw[r].charged \in Nat
        /\ bill[r] \in Nat
        /\ OneShot(r)
        /\ receipt[r] \in Nat \cup {NoReceipt}
    BY DEF LedgerInv, MTypeOK, LedgerRow
  <1>1. mw[r].result = "ok" => /\ mw[r].state = "settled" /\ mw[r].charged = receipt[r]
                               /\ receipt[r] # NoReceipt
    BY <1>0 DEF AnswersPaidFor, NoReceipt
  <1>2. receipt[r] # NoReceipt => receipt'[r] = receipt[r]
    BY ReceiptChanges
  <1>3. ASSUME NEW w \in Workers, BeginSend(w)
        PROVE  mw'[r] = mw[r] \/ (mw[r].result # "ok" /\ mw'[r].result # "ok")
    <2> DEFINE q == wk[w].job
    <2>1. /\ mw' = [mw EXCEPT ![q] = Sending(mw[q], Reservation(q))]
          /\ mw[q].result = "none"
      BY <1>3 DEF BeginSend, Undecided
    <2>2. CASE q # r
      BY <1>0, <2>1, <2>2
    <2>3. CASE q = r
      <3>1. Reservation(r) \in Nat
        BY LedgerAssumption DEF Reservation
      <3>2. mw'[r] = Sending(mw[r], Reservation(r))
        BY <1>0, <2>1, <2>3
      <3> DEFINE n == Reservation(r)
      <3> HIDE DEF n
      <3>4. Sending(mw[r], n).result = mw[r].result
        BY <1>0, <3>1, SendingRow DEF n
      <3>3. mw'[r].result = mw[r].result
        BY <3>2, <3>4 DEF n
      <3> QED
        BY <2>1, <2>3, <3>3
    <2> QED
      BY <2>2, <2>3
  <1>4. CASE \E w \in Workers : BeginSend(w)
    BY <1>1, <1>2, <1>3, <1>4
  <1>5. CASE Kept(r)
    BY <1>0, <1>1, <1>2, <1>5, YesterdayRow DEF Kept
  <1>6. CASE MadeUncertain(r)
    <2>1. PICK res \in {mw[r].result, "bad"} : mw'[r] = Unknown(mw[r], res)
      BY <1>6 DEF MadeUncertain
    <2>2. mw[r].result # "ok"
      BY <1>1, <1>6 DEF MadeUncertain
    <2>3. res \in Answers \cup {"none"}
      BY <1>0 DEF LedgerRow, Answers
    <2>4. mw'[r].result = res
      BY <1>0, <2>1, <2>3, UnknownRow
    <2> QED
      BY <2>2, <2>4
  <1>7. CASE Settled(r)
    <2>1. PICK w \in Workers, res \in Answers :
            /\ wk[w].job = r
            /\ ex[w].charge \in Nat
            /\ mw[r].state \in {"sending", "unknown"}
            /\ ex[w].charge = bill[r]
            /\ ex[w].pc = "recorded"
            /\ mw'[r] = Accounted(mw[r], "settled", ex[w].charge, res)
      BY <1>7 DEF Settled
    <2>2. receipt[r] # NoReceipt
      BY <2>1 DEF AnswersPaidFor
    <2>3. receipt[r] = bill[r]
      BY <1>0, <2>2 DEF OneShot
    <2>4. mw'[r].state = "settled" /\ mw'[r].charged = ex[w].charge
      <3>1. "settled" \in LedgerStates
        BY DEF LedgerStates
      <3> QED
        BY <1>0, <2>1, <3>1, AccountedRow
    <2> QED
      BY <1>1, <1>2, <2>1, <2>2, <2>3, <2>4
  <1>8. CASE Reconcile(r)
    <2>1. /\ mw[r].state = "unknown"
          /\ receipt[r] # NoReceipt
          /\ mw' = [mw EXCEPT ![r] = Accounted(mw[r], "reconciled", receipt[r], "bad")]
      BY <1>8 DEF Reconcile
    <2>2. receipt[r] \in Nat /\ "reconciled" \in LedgerStates /\ "bad" \in Answers
      BY <1>0, <2>1 DEF LedgerStates, Answers
    <2>3. mw'[r].result = "bad"
      <3>1. mw'[r] = Accounted(mw[r], "reconciled", receipt[r], "bad")
        BY <1>0, <2>1
      <3> QED
        BY <1>0, <2>2, <3>1, AccountedRow
    <2> QED
      BY <1>1, <2>1, <2>3
  <1> QED
    BY <1>4, <1>5, <1>6, <1>7, <1>8, RowChanges DEF RowChange, Dropped

\* A claim in memory is the one that was there, or the one just handed out.
LEMMA ClaimComes ==
    ASSUME QueueInv, [Next]_vars, NEW w \in Workers, wk'[w].pc = "claimed"
    PROVE  \/ wk'[w] = wk[w]
           \/ \E ready \in BOOLEAN : ClaimRun(w, wk'[w].job, ready)
  <1> DEFINE Comes == \/ wk'[w] = wk[w]
                      \/ \E ready \in BOOLEAN : ClaimRun(w, wk'[w].job, ready)
  <1>0. wk \in [Workers -> Claims]
    BY DEF QueueInv, TypeOK
  <1>1. wk' = wk => Comes
    OBVIOUS
  <1>2. ASSUME NEW v \in Workers, NEW ready \in BOOLEAN, NEW q \in Requests,
               ClaimRun(v, q, ready)
        PROVE  Comes
    <2>1. wk' = [wk EXCEPT ![v] = [pc |-> "claimed", job |-> q, step |-> jobs[q].step,
                                   token |-> issued[q] + 1, res |-> "none"]]
      BY <1>2 DEF ClaimRun
    <2>2. CASE v = w
      <3>1. wk'[w].job = q
        BY <1>0, <2>1, <2>2
      <3> QED
        BY <1>2, <2>2, <3>1
    <2>3. CASE v # w
      BY <1>0, <2>1, <2>3
    <2> QED
      BY <2>2, <2>3
  <1>3. ASSUME NEW v \in Workers, NEW res, Execute(v, res) PROVE Comes
    <2>1. wk'[v].pc = "result" /\ \A u \in Workers \ {v} : wk'[u] = wk[u]
      BY <1>3, ExecuteFacts
    <2> QED
      BY <2>1
  <1>4. ASSUME NEW v \in Workers, Checkpoint(v) \/ Crash(v) PROVE Comes
    BY <1>0, <1>4 DEF Checkpoint, CheckpointStale, CheckpointPause, CheckpointRetry,
                      CheckpointCommit, Crash, Idle
  <1>5. ASSUME NEW v \in Workers, NEW ready \in BOOLEAN, Claim(v, ready)
        PROVE  Comes
    BY <1>1, <1>2, <1>5 DEF Claim, ClaimPause, ClaimExhausted
  <1>6. ASSUME \/ UNCHANGED vars
               \/ \E q \in Requests : Operator(q)
               \/ \E t \in Tasks : TaskChange(t)
               \/ \E v \in Workers : ExtendLease(v)
               \/ Tick
        PROVE  Comes
    BY <1>1, <1>6 DEF vars, Operator, Enqueue, BindChat, Pause, Resume, Cancel, TaskChange,
                      ExtendLease, Tick
  <1>7. Comes
    <2> HIDE DEF Comes
    <2> QED
      BY <1>3, <1>4, <1>5, <1>6 DEF Next
  <1> QED
    BY <1>7

\* A job succeeds only by the passed result of the worker that owns it.
LEMMA SucceedsByResult ==
    ASSUME QueueInv, [Next]_vars, NEW r \in Requests,
           jobs[r].status # "succeeded", jobs'[r].status = "succeeded"
    PROVE  \E w \in Workers : wk[w].pc = "result" /\ wk[w].res = "ok" /\ wk[w].job = r
  <1>0. /\ jobs \in [Requests -> Job]
        /\ jobs[r] \in Job
    BY DEF QueueInv, TypeOK
  <1>1. ASSUME NEW q, NEW row, jobs' = [jobs EXCEPT ![q] = row], row.status # "succeeded"
        PROVE  FALSE
    BY <1>0, <1>1
  <1>2. ASSUME NEW q \in Requests, NEW s \in {"paused", "queued", "cancelled", "failed"},
               jobs' = [jobs EXCEPT ![q] = Unleased(jobs[q], s)]
        PROVE  FALSE
    <2>1. s \in Statuses /\ jobs[q] \in Job
      BY <1>0 DEF Statuses, Live, Terminal
    <2>2. Unleased(jobs[q], s).status # "succeeded"
      BY <2>1, UnleasedType
    <2> QED
      BY <1>1, <1>2, <2>2
  <1>3. ASSUME NEW q \in Requests, Operator(q) PROVE FALSE
    <2>1. CASE Enqueue(q)
      BY <1>1, <2>1, RowsCount, QueuedType DEF Enqueue
    <2>2. CASE BindChat(q)
      <3>1. jobs' = [jobs EXCEPT ![q] = Bound(jobs[q])]
        BY <2>2 DEF BindChat
      <3>2. Bound(jobs[q]).status = jobs[q].status
        BY <1>0, BoundType
      <3> QED
        BY <1>0, <3>1, <3>2
    <2>3. CASE Pause(q) \/ Resume(q) \/ Cancel(q)
      BY <1>2, <2>3 DEF Pause, Resume, Cancel
    <2> QED
      BY <1>3, <2>1, <2>2, <2>3 DEF Operator
  <1>4. ASSUME NEW w \in Workers, NEW ready \in BOOLEAN, Claim(w, ready) PROVE FALSE
    <2>1. PICK q \in Requests : \/ ClaimPause(w, q, ready) \/ ClaimExhausted(w, q, ready)
                                \/ ClaimRun(w, q, ready)
      BY <1>4 DEF Claim
    <2>2. CASE ClaimPause(w, q, ready) \/ ClaimExhausted(w, q, ready)
      BY <1>2, <2>2 DEF ClaimPause, ClaimExhausted
    <2>3. CASE ClaimRun(w, q, ready)
      <3> DEFINE n == jobs[q].attempts + 1
                 t == issued[q] + 1
      <3>1. /\ jobs' = [jobs EXCEPT ![q] = Leased(jobs[q], n, t)]
            /\ jobs[q].attempts < MaxAttempts
        BY <2>3 DEF ClaimRun
      <3>2. /\ jobs[q] \in Job
            /\ n \in 0..MaxAttempts
            /\ t \in Nat
        BY <3>1, ConstantsAssumption DEF QueueInv, TypeOK, Job
      <3> HIDE DEF n, t
      <3>3. Leased(jobs[q], n, t).status = "running"
        BY <3>2, LeasedType
      <3> QED
        BY <1>1, <3>1, <3>3
    <2> QED
      BY <2>1, <2>2, <2>3
  <1>5. ASSUME NEW w \in Workers, ExtendLease(w) PROVE FALSE
    <2>1. /\ jobs' = [jobs EXCEPT ![wk[w].job] = Extended(jobs[wk[w].job], LocalTicks)]
          /\ wk[w].job \in Requests
      BY <1>5 DEF ExtendLease, QueueInv, ClaimsNameJobs
    <2>2. Extended(jobs[wk[w].job], LocalTicks).status = jobs[wk[w].job].status
      BY <1>0, <2>1, ConstantsAssumption, ExtendedType
    <2> QED
      BY <1>0, <2>1, <2>2
  <1>6. CASE Tick
    <2>1. jobs'[r] = IF jobs[r].status \in Live THEN Ticked(jobs[r]) ELSE jobs[r]
      BY <1>6 DEF Tick
    <2> QED
      BY <1>0, <2>1, TickedType
  <1>7. ASSUME NEW w \in Workers, Checkpoint(w)
        PROVE  wk[w].pc = "result" /\ wk[w].res = "ok" /\ wk[w].job = r
    <2>0. wk[w].pc = "result" /\ wk[w].job \in Requests
      BY <1>7 DEF Checkpoint, CheckpointStale, CheckpointPause, CheckpointRetry,
                  CheckpointCommit, QueueInv, ClaimsNameJobs
    <2>1. ~(CheckpointPause(w) \/ CheckpointRetry(w))
      BY <1>2, <2>0 DEF CheckpointPause, CheckpointRetry
    <2>2. ~CheckpointStale(w)
      BY DEF CheckpointStale
    <2>3. CheckpointCommit(w)
      BY <1>7, <2>1, <2>2 DEF Checkpoint
    <2> DEFINE q    == wk[w].job
               next == IF wk[w].res = "ok" THEN jobs[q].step + 1 ELSE jobs[q].step
               to   == IF wk[w].res # "ok" THEN "failed"
                       ELSE IF next = Steps(q) THEN "succeeded" ELSE "queued"
    <2>4. jobs' = [jobs EXCEPT ![q] = Advanced(jobs[q], to, next)]
      BY <2>3 DEF CheckpointCommit
    <2>5. wk[w].res # "ok" => to = "failed"
      OBVIOUS
    <2> HIDE DEF to, next
    <2>6. Advanced(jobs[q], to, next).status = to
      BY <1>0, <2>0, AdvancedFields
    <2>7. q = r /\ jobs'[r].status = to
      BY <1>0, <2>0, <2>4, <2>6
    <2> QED
      BY <2>0, <2>5, <2>7
  <1>8. CASE \/ UNCHANGED vars \/ \E t \in Tasks : TaskChange(t)
             \/ \E w \in Workers : (\E res \in Results : Execute(w, res)) \/ Crash(w)
    BY <1>8 DEF vars, TaskChange, Execute, Crash
  <1> QED
    BY <1>3, <1>4, <1>5, <1>6, <1>7, <1>8 DEF Next

\* Only the call itself counts as one.
LEMMA CallsChange ==
    ASSUME LedgerInv, [MNext]_mvars, NEW r \in Requests, calls'[r] # calls[r]
    PROVE  \E w \in Workers, out \in Outcomes, charge \in Charges :
              wk[w].job = r /\ Transport(w, out, charge)
  <1>1. calls \in [Requests -> Nat]
    BY DEF LedgerInv, MTypeOK
  <1>2. PICK w \in Workers, out \in Outcomes, charge \in Charges : Transport(w, out, charge)
    BY DEF MNext, mvars, QueueStep, ledger, Begin, BeginStale, BeginCached, BeginUnknown,
           BeginRefused, BeginSend, Record, Finish, FinishReconciled, FinishSettled,
           FinishLocalFailure, FinishUnknown, MCrash, Reconcile, NewDay
  <1>3. calls' = [calls EXCEPT ![wk[w].job] = @ + 1]
    BY <1>2 DEF Transport
  <1> QED
    BY <1>1, <1>2, <1>3

\* A claim that may still call is an old one, or just handed out.
LEMMA UncalledComes ==
    ASSUME LedgerInv, [MNext]_mvars, NEW r \in Requests, NEW w \in Uncalled(r)'
    PROVE  \/ w \in Uncalled(r)
           \/ \E ready \in BOOLEAN : ClaimRun(w, r, ready)
  <1>1. /\ w \in Workers
        /\ wk'[w].pc = "claimed" /\ wk'[w].job = r
        /\ ex'[w].pc \in {"none", "authorised"}
    BY DEF Uncalled
  <1>2. QueueInv /\ [Next]_vars /\ ex \in [Workers -> Call]
    BY QueueSimulation DEF LedgerInv, MTypeOK
  <1>3. \/ wk'[w] = wk[w]
        \/ \E ready \in BOOLEAN : ClaimRun(w, r, ready)
    BY <1>1, <1>2, ClaimComes
  <1>4. ASSUME wk'[w] = wk[w] PROVE ex[w].pc \in {"none", "authorised"}
    <2>1. CASE ex'[w] = ex[w]
      BY <1>1, <2>1
    <2>2. CASE BeginSend(w)
      BY <2>2 DEF BeginSend, Beginning
    <2>3. ASSUME NEW out \in Outcomes, NEW charge \in Charges, Transport(w, out, charge)
          PROVE  FALSE
      BY <1>1, <1>2, <2>3 DEF Transport
    <2>4. CASE Record(w)
      BY <1>1, <1>2, <2>4 DEF Record
    <2> QED
      BY <1>1, <2>1, <2>2, <2>3, <2>4, CallChanges DEF CallChange
  <1> QED
    BY <1>1, <1>3, <1>4 DEF Uncalled

\* Every step keeps one claim for every call.
LEMMA CountStep ==
    ASSUME LedgerInv, CallsCounted, [MNext]_mvars
    PROVE  CallsCounted'
  <1> SUFFICES ASSUME NEW r \in Requests
               PROVE  /\ IsFiniteSet(Uncalled(r)')
                      /\ calls'[r] + Cardinality(Uncalled(r)') <= issued'[r]
    BY DEF CallsCounted
  <1> DEFINE n == Cardinality(Uncalled(r))
             m == Cardinality(Uncalled(r)')
  <1>1. /\ QueueInv /\ [Next]_vars
        /\ calls \in [Requests -> Nat] /\ calls[r] \in Nat
        /\ issued \in [Requests -> Nat] /\ issued[r] \in Nat
        /\ IsFiniteSet(Uncalled(r))
        /\ calls[r] + n <= issued[r]
    BY QueueSimulation DEF LedgerInv, MTypeOK, QueueInv, TypeOK, CallsCounted
  <1>2. n \in Nat
    BY <1>1, FS_CardinalityType
  <1>3. issued'[r] = issued[r] \/ issued'[r] = issued[r] + 1
    BY <1>1, RowSteps DEF RowStep, Untouched, Inserted, Stopped, HandedOut, StepRecorded
  <1>4. CASE \E w \in Workers, ready \in BOOLEAN : ClaimRun(w, r, ready)
    <2>1. PICK w \in Workers, ready \in BOOLEAN : ClaimRun(w, r, ready)
      BY <1>4
    <2>2. /\ issued'[r] = issued[r] + 1
          /\ \A v \in Workers \ {w} : wk'[v] = wk[v]
          /\ wk[w].pc = "idle"
      BY <1>1, <2>1 DEF ClaimRun, QueueInv, TypeOK
    <2>3. calls'[r] = calls[r]
      <3>1. ASSUME NEW v \in Workers, NEW out \in Outcomes, NEW charge \in Charges,
                   Transport(v, out, charge)
            PROVE  FALSE
        BY <1>1, <2>2, <3>1 DEF Transport
      <3> QED
        BY <3>1, CallsChange
    <2>4. Uncalled(r)' \in SUBSET (Uncalled(r) \cup {w})
      <3> SUFFICES ASSUME NEW v \in Uncalled(r)', v # w PROVE v \in Uncalled(r)
        OBVIOUS
      <3>1. ASSUME NEW other \in BOOLEAN, ClaimRun(v, r, other) PROVE FALSE
        <4>1. v \in Workers /\ wk'[v] = wk[v] /\ wk'[v].pc = "claimed"
          BY <2>2 DEF Uncalled
        <4> QED
          BY <3>1, <4>1 DEF ClaimRun
      <3> QED
        BY <3>1, UncalledComes
    <2>5. /\ IsFiniteSet(Uncalled(r) \cup {w})
          /\ Cardinality(Uncalled(r) \cup {w}) = IF w \in Uncalled(r) THEN n ELSE n + 1
      BY <1>1, FS_AddElement, Zenon
    <2>6. /\ IsFiniteSet(Uncalled(r)')
          /\ m <= Cardinality(Uncalled(r) \cup {w})
          /\ m \in Nat
      BY <2>4, <2>5, FS_Subset, FS_CardinalityType
    <2> HIDE DEF n, m
    <2>7. m <= n + 1
      BY <1>2, <2>5, <2>6
    <2> QED
      BY <1>1, <1>2, <2>2, <2>3, <2>6, <2>7 DEF m
  <1>5. CASE ~ \E w \in Workers, ready \in BOOLEAN : ClaimRun(w, r, ready)
    <2>1. Uncalled(r)' \in SUBSET Uncalled(r)
      BY <1>5, UncalledComes DEF Uncalled
    <2>2. CASE calls'[r] = calls[r]
      <3>1. /\ IsFiniteSet(Uncalled(r)')
            /\ m <= n
            /\ m \in Nat
        BY <1>1, <2>1, FS_Subset, FS_CardinalityType
      <3> HIDE DEF n, m
      <3> QED
        BY <1>1, <1>2, <1>3, <2>2, <3>1 DEF m
    <2>3. CASE calls'[r] # calls[r]
      <3>1. PICK w \in Workers, out \in Outcomes, charge \in Charges :
               wk[w].job = r /\ Transport(w, out, charge)
        BY <2>3, CallsChange
      <3>2. /\ calls'[r] = calls[r] + 1
            /\ ex[w].pc = "authorised"
            /\ ex'[w].pc = "answered"
            /\ wk[w].pc = "claimed"
        BY <1>1, <3>1 DEF Transport, LedgerInv, MTypeOK, CallsClaimed
      <3>3. w \in Uncalled(r) /\ w \notin Uncalled(r)'
        BY <3>1, <3>2 DEF Uncalled
      <3>4. /\ IsFiniteSet(Uncalled(r) \ {w})
            /\ Cardinality(Uncalled(r) \ {w}) = n - 1
        BY <1>1, <3>3, FS_RemoveElement
      <3>5. Uncalled(r)' \in SUBSET (Uncalled(r) \ {w})
        BY <2>1, <3>3
      <3>6. /\ IsFiniteSet(Uncalled(r)')
            /\ m <= n - 1
            /\ m \in Nat
        BY <3>4, <3>5, FS_Subset, FS_CardinalityType
      <3> HIDE DEF n, m
      <3> QED
        BY <1>1, <1>2, <1>3, <3>2, <3>6 DEF m
    <2> QED
      BY <2>2, <2>3
  <1> QED
    BY <1>4, <1>5

\* Every step keeps a paid success paid for, and local calls counted.
LEMMA SuccessStep == SuccessInv /\ [MNext]_mvars => SuccessInv'
  <1> SUFFICES ASSUME SuccessInv, [MNext]_mvars PROVE SuccessInv'
    OBVIOUS
  <1>1. /\ LedgerInv /\ LedgerInv' /\ ProgressInv /\ ProgressInv'
        /\ QueueInv /\ QueueInv' /\ [Next]_vars
        /\ AnswersPaidFor
    BY LedgerInvStep, QueueSimulation, ProgressStep DEF SuccessInv, LedgerInv
  <1>2. ASSUME NEW w \in Workers, ex'[w].pc = "recorded"
        PROVE  Paid(wk'[w].job) /\ receipt'[wk'[w].job] # NoReceipt
    <2>0. ex \in [Workers -> Call] /\ receipt \in [Requests -> Nat \cup {NoReceipt}]
      BY <1>1 DEF LedgerInv, MTypeOK
    <2>1. CASE ex'[w] = ex[w] /\ wk'[w] = wk[w]
      <3>1. /\ Paid(wk[w].job) /\ receipt[wk[w].job] # NoReceipt
            /\ wk[w].job \in Requests
        BY <1>1, <1>2, <2>1 DEF AnswersPaidFor, LedgerInv, CallsClaimed, QueueInv, ClaimsNameJobs
      <3> QED
        BY <1>1, <2>1, <3>1, ReceiptChanges
    <2>2. CASE Record(w)
      <3>1. /\ Paid(wk[w].job)
            /\ receipt' = [receipt EXCEPT ![wk[w].job] =
                              IF @ = NoReceipt THEN ex[w].charge ELSE @]
            /\ wk' = wk
            /\ ex[w].pc = "answered"
        BY <2>2 DEF Record
      <3>2. ex[w].charge \in Nat /\ wk[w].job \in Requests
        BY <1>1, <2>0, <3>1 DEF Call, LedgerInv, CallsClaimed, QueueInv, ClaimsNameJobs
      <3> QED
        BY <2>0, <3>1, <3>2 DEF NoReceipt
    <2>3. CASE BeginSend(w)
      BY <1>2, <2>0, <2>3 DEF BeginSend
    <2>4. ASSUME NEW out \in Outcomes, NEW charge \in Charges, Transport(w, out, charge)
          PROVE  FALSE
      BY <1>2, <2>0, <2>4 DEF Transport
    <2> QED
      BY <1>1, <1>2, <2>1, <2>2, <2>3, <2>4, CallChanges DEF CallChange
  <1>3. ASSUME NEW w \in Workers, wk'[w].pc = "result", wk'[w].res = "ok", Paid(wk'[w].job)
        PROVE  mw'[wk'[w].job].result = "ok"
    <2>1. CASE wk'[w] = wk[w]
      <3>1. mw[wk[w].job].result = "ok" /\ wk[w].job \in Requests
        BY <1>1, <1>3, <2>1 DEF AnswersPaidFor, QueueInv, ClaimsNameJobs
      <3> QED
        BY <1>1, <1>3, <2>1, <3>1, AnswerRow
    <2> QED
      BY <1>1, <1>3, <2>1, ResultComes
  <1>4. ASSUME NEW r \in Requests, Paid(r)
        PROVE  /\ jobs'[r].status = "succeeded" => mw'[r].result = "ok"
               /\ mw'[r].result = "ok" =>
                     mw'[r].state = "settled" /\ mw'[r].charged = receipt'[r]
    <2>1. /\ mw[r].result = "ok" => mw'[r].result = "ok"
          /\ mw'[r].result = "ok" => mw'[r].state = "settled" /\ mw'[r].charged = receipt'[r]
      BY <1>1, <1>4, AnswerRow
    <2>2. ASSUME jobs'[r].status = "succeeded" PROVE mw[r].result = "ok"
      <3>1. CASE jobs[r].status = "succeeded"
        BY <1>1, <1>4, <3>1 DEF AnswersPaidFor
      <3>2. CASE jobs[r].status # "succeeded"
        BY <1>1, <1>4, <2>2, <3>2, SucceedsByResult DEF AnswersPaidFor
      <3> QED
        BY <3>1, <3>2
    <2> QED
      BY <2>1, <2>2
  <1>5. AnswersPaidFor'
    BY <1>2, <1>3, <1>4 DEF AnswersPaidFor, Paid
  <1>6. OneStep'
    <2> SUFFICES ASSUME NEW r \in Requests
                 PROVE  jobs'[r].step = IF jobs'[r].status = "succeeded" THEN 1 ELSE 0
      BY DEF OneStep
    <2>1. /\ jobs[r].step = IF jobs[r].status = "succeeded" THEN 1 ELSE 0
          /\ jobs'[r].status \in Live => jobs'[r].step < 1
      BY <1>1, LedgerAssumption DEF SuccessInv, OneStep, QueueInv, ClaimsNameJobs, Steps
    <2>2. RowStep(r)
      BY <1>1, RowSteps
    <2> QED
      BY <2>1, <2>2 DEF RowStep, Untouched, Inserted, Stopped, HandedOut, StepRecorded, Live
  <1>7. CallsCounted'
    BY CountStep DEF SuccessInv
  <1> QED
    BY <1>1, <1>5, <1>6, <1>7 DEF SuccessInv

\* Nothing is called or succeeded at first.
LEMMA SuccessInit == MInit => SuccessInv
  <1> SUFFICES ASSUME MInit PROVE SuccessInv
    OBVIOUS
  <1>1. LedgerInv /\ ProgressInv /\ Init
    BY LedgerInit, ProgressInit DEF MInit
  <1>2. AnswersPaidFor /\ OneStep
    BY <1>1 DEF MInit, Init, AnswersPaidFor, OneStep, NewLedgerRow, NoCall, Idle, NoRow
  <1>3. CallsCounted
    <2> SUFFICES ASSUME NEW r \in Requests
                 PROVE  IsFiniteSet(Uncalled(r)) /\ calls[r] + Cardinality(Uncalled(r)) <= issued[r]
      BY DEF CallsCounted
    <2>1. Uncalled(r) = {}
      BY <1>1 DEF Uncalled, Init, Idle
    <2>2. IsFiniteSet({}) /\ Cardinality({}) = 0
      BY FS_EmptySet
    <2>3. calls[r] = 0 /\ issued[r] = 0
      BY <1>1 DEF MInit, Init
    <2> QED
      BY <2>1, <2>2, <2>3
  <1> QED
    BY <1>1, <1>2, <1>3 DEF SuccessInv

\* A paid job that succeeded is settled at its observed usage, and a local job
\* calls the model at most MAX_ATTEMPTS times, for any number of workers,
\* crashes, lost leases and retries.
THEOREM LedgerIsSound == MSpec => []LedgerSound
  <1>1. SuccessInv => LedgerSound
    <2> SUFFICES ASSUME SuccessInv PROVE LedgerSound
      OBVIOUS
    <2>1. MTypeOK /\ SuccessIsPaidFor
      BY DEF SuccessInv, LedgerInv, AnswersPaidFor, SuccessIsPaidFor
    <2>2. ASSUME NEW r \in Requests PROVE calls[r] <= MaxAttempts
      <3>1. /\ issued[r] \in Nat /\ calls[r] \in Nat
            /\ Cardinality(Uncalled(r)) \in Nat
            /\ calls[r] + Cardinality(Uncalled(r)) <= issued[r]
            /\ MaxAttempts \in Nat
        BY ConstantsAssumption, FS_CardinalityType
        DEF SuccessInv, CallsCounted, LedgerInv, MTypeOK, TypeOK
      <3>2. issued[r] <= MaxAttempts *
               (IF jobs[r].status = "succeeded" THEN jobs[r].step ELSE jobs[r].step + 1)
        BY ClaimsFollow DEF SuccessInv, ClaimsBounded
      <3>3. (IF jobs[r].status = "succeeded" THEN jobs[r].step ELSE jobs[r].step + 1) = 1
        BY DEF SuccessInv, OneStep
      <3>4. issued[r] <= MaxAttempts
        BY <3>1, <3>2, <3>3
      <3> QED
        BY <3>1, <3>4
    <2> QED
      BY <2>1, <2>2 DEF LedgerSound, LocalCallsBounded
  <1> QED
    BY <1>1, SuccessInit, SuccessStep, PTL DEF MSpec

-----------------------------------------------------------------------------
(* The purchase contract. *)

\* The contract's total over the paid requests is what the ledger counts: local
\* rows count nothing.
LEMMA PurchaseTotal ==
    ASSUME BudgetInv
    PROVE  Purchase!Total([r \in PaidRequests |-> mw[r].held + mw[r].charged]) = TotalUse
  <1> DEFINE e == [r \in PaidRequests |-> mw[r].held + mw[r].charged]
             f == TotalCounts(mw)
  <1>1. /\ PaidRequests \in SUBSET Requests
        /\ IsFiniteSet(Requests)
        /\ IsFiniteSet(PaidRequests)
        /\ mw \in [Requests -> LedgerRow]
    <2>1. PaidRequests \in SUBSET Requests
      BY DEF PaidRequests
    <2> QED
      BY <2>1, ConstantsAssumption, FS_Subset DEF BudgetInv, LedgerInv, MTypeOK
  <1>2. \A q \in Requests : f[q] \in Int
    BY <1>1, CountsAreInts
  <1>3. \A q \in Requests \ PaidRequests : f[q] = 0
    BY <1>1, CountsAreInts DEF BudgetInv, UnspentRows, PaidRequests
  <1>4. \A q \in PaidRequests : e[q] = f[q]
    BY <1>1, CountsAreInts
  <1>5. \A q \in PaidRequests : e[q] \in Int /\ f[q] \in Int
    BY <1>1, <1>2, <1>4
  <1>6. Purchase!Total(e) = SumOf(e, PaidRequests)
    BY Zenon DEF Purchase!Total, Purchase!MapThenSumSet, Purchase!MapThenFoldSet,
                 SumOf, SumTable, Pick
  <1> HIDE DEF e, f
  <1>7. SumOf(f, Requests) = SumOf(f, PaidRequests)
    BY <1>1, <1>2, <1>3, SumIgnoresZeros
  <1>8. SumOf(e, PaidRequests) = SumOf(f, PaidRequests)
    <2>1. \A q \in PaidRequests : /\ e[q] \in Int /\ f[q] \in Int
                                  /\ e[q] <= f[q] /\ f[q] <= e[q]
      BY <1>4, <1>5
    <2>2. SumOf(e, PaidRequests) <= SumOf(f, PaidRequests)
      BY <1>1, <2>1, SumMonotone
    <2>3. SumOf(f, PaidRequests) <= SumOf(e, PaidRequests)
      BY <1>1, <2>1, SumMonotone
    <2>4. PaidRequests \in SUBSET PaidRequests
      OBVIOUS
    <2>5. SumOf(e, PaidRequests) \in Int /\ SumOf(f, PaidRequests) \in Int
      BY <1>1, <2>1, <2>4, SumIsInt
    <2> QED
      BY <2>2, <2>3, <2>5
  <1> QED
    BY <1>6, <1>7, <1>8, TotalUseIs DEF e, f

\* What the contract sees of a request does not change.
SameForContract(q) ==
    /\ Stage(q)' = Stage(q)
    /\ mw'[q].held + mw'[q].charged = mw[q].held + mw[q].charged
    /\ calls'[q] = calls[q]
    /\ bill'[q] = bill[q]

\* If it does not change for any paid request, the contract stutters.
LEMMA PurchaseStutters ==
    ASSUME \A q \in PaidRequests : SameForContract(q)
    PROVE  UNCHANGED Purchase!vars
  <1>1. PaidRequests' = PaidRequests
    BY DEF PaidRequests, Paid
  <1>2. [q \in PaidRequests |-> Stage(q)]' = [q \in PaidRequests |-> Stage(q)]
    BY <1>1 DEF SameForContract
  <1>3. [q \in PaidRequests |-> mw[q].held + mw[q].charged]'
           = [q \in PaidRequests |-> mw[q].held + mw[q].charged]
    BY <1>1 DEF SameForContract
  <1>4. [q \in PaidRequests |-> calls[q]]' = [q \in PaidRequests |-> calls[q]]
    BY <1>1 DEF SameForContract
  <1>5. [q \in PaidRequests |-> bill[q]]' = [q \in PaidRequests |-> bill[q]]
    BY <1>1 DEF SameForContract
  <1> QED
    BY <1>2, <1>3, <1>4, <1>5 DEF Purchase!vars

\* If it changes for one paid request, the contract's state changes there.
LEMMA PurchaseChanges ==
    ASSUME NEW r \in PaidRequests,
           \A q \in PaidRequests \ {r} : SameForContract(q)
    PROVE  /\ [q \in PaidRequests |-> Stage(q)]'
                = [[q \in PaidRequests |-> Stage(q)] EXCEPT ![r] = Stage(r)']
           /\ [q \in PaidRequests |-> mw[q].held + mw[q].charged]'
                = [[q \in PaidRequests |-> mw[q].held + mw[q].charged]
                     EXCEPT ![r] = mw'[r].held + mw'[r].charged]
           /\ [q \in PaidRequests |-> calls[q]]'
                = [[q \in PaidRequests |-> calls[q]] EXCEPT ![r] = calls'[r]]
           /\ [q \in PaidRequests |-> bill[q]]'
                = [[q \in PaidRequests |-> bill[q]] EXCEPT ![r] = bill'[r]]
  <1>1. PaidRequests' = PaidRequests
    BY DEF PaidRequests, Paid
  <1>2. [q \in PaidRequests |-> Stage(q)]'
           = [[q \in PaidRequests |-> Stage(q)] EXCEPT ![r] = Stage(r)']
    BY <1>1 DEF SameForContract
  <1>3. [q \in PaidRequests |-> mw[q].held + mw[q].charged]'
           = [[q \in PaidRequests |-> mw[q].held + mw[q].charged]
                EXCEPT ![r] = mw'[r].held + mw'[r].charged]
    BY <1>1 DEF SameForContract
  <1>4. [q \in PaidRequests |-> calls[q]]'
           = [[q \in PaidRequests |-> calls[q]] EXCEPT ![r] = calls'[r]]
    BY <1>1 DEF SameForContract
  <1>5. [q \in PaidRequests |-> bill[q]]'
           = [[q \in PaidRequests |-> bill[q]] EXCEPT ![r] = bill'[r]]
    BY <1>1 DEF SameForContract
  <1> QED
    BY <1>2, <1>3, <1>4, <1>5

\* A row whose state keeps its stage and whose count stays is the same for the
\* contract.
LEMMA SameRow ==
    ASSUME NEW q \in Requests, calls'[q] = calls[q], bill'[q] = bill[q],
           \/ mw'[q] = mw[q]
           \/ /\ mw'[q].held = mw[q].held
              /\ mw'[q].charged = mw[q].charged
              /\ \/ mw'[q].state = mw[q].state
                 \/ /\ mw[q].state \in {"sending", "unknown"}
                    /\ mw'[q].state \in {"sending", "unknown"}
    PROVE  SameForContract(q)
  BY DEF SameForContract, Stage

\* Sending a paid call is the contract's reservation.
LEMMA SendReserves ==
    ASSUME BudgetInv, NEW w \in Workers, BeginSend(w)
    PROVE  Purchase!Next \/ UNCHANGED Purchase!vars
  <1>p. PICK r \in Requests : r = wk[w].job
    BY DEF BeginSend, Beginning, BudgetInv, LedgerInv, QueueInv, ClaimsNameJobs
  <1> DEFINE n == Reservation(r)
  <1>1. /\ Undecided(r)
        /\ Permitted(r)
        /\ mw' = [mw EXCEPT ![r] = Sending(mw[r], n)]
        /\ calls' = calls /\ bill' = bill
    BY <1>p DEF BeginSend
  <1>2. /\ mw \in [Requests -> LedgerRow]
        /\ mw[r] \in LedgerRow
        /\ n \in Nat
    BY LedgerAssumption DEF BudgetInv, LedgerInv, MTypeOK, Reservation
  <1>3. \A q \in Requests \ {r} : SameForContract(q)
    BY <1>1, <1>2, SameRow
  <1>4. CASE ~Paid(r)
    <2>1. \A q \in PaidRequests : SameForContract(q)
      BY <1>3, <1>4 DEF PaidRequests
    <2> QED
      BY <2>1, PurchaseStutters
  <1>5. CASE Paid(r)
    <2>1. r \in PaidRequests /\ n = Hold[r]
      BY <1>2, <1>5 DEF PaidRequests, Reservation
    <2>2. mw[r].state = "approved" /\ mw[r].charged = 0
      BY <1>1, <1>2, <1>5
      DEF Undecided, BudgetInv, LedgerInv, ResultsStored, LedgerRow, LedgerStates, UnspentRows
    <2> HIDE DEF n
    <2>3. mw'[r].state = "sending" /\ mw'[r].held + mw'[r].charged = Hold[r]
      <3>1. mw'[r] = Sending(mw[r], n)
        BY <1>1, <1>2
      <3>2. /\ Sending(mw[r], n).state = "sending"
            /\ Sending(mw[r], n).held = n
            /\ Sending(mw[r], n).charged = mw[r].charged
        BY <1>2, SendingRow
      <3> QED
        BY <1>2, <2>1, <2>2, <3>1, <3>2
    <2>4. Stage(r) = "open" /\ Stage(r)' = "reserved"
      BY <2>2, <2>3 DEF Stage
    <2>5. Purchase!Total([q \in PaidRequests |-> mw[q].held + mw[q].charged]) + Hold[r]
            <= TotalLimit
      BY <1>1, <1>5, <2>1, PurchaseTotal DEF Permitted, n
    <2>6. \A q \in PaidRequests \ {r} : SameForContract(q)
      BY <1>3 DEF PaidRequests
    <2>7. Purchase!Reserve(r)
      <3>1. UNCHANGED <<[q \in PaidRequests |-> calls[q]], [q \in PaidRequests |-> bill[q]]>>
        BY <1>1 DEF PaidRequests, Paid
      <3>2. [q \in PaidRequests |-> Stage(q)][r] = "open"
        BY <2>1, <2>4
      <3>3. /\ [q \in PaidRequests |-> Stage(q)]'
                 = [[q \in PaidRequests |-> Stage(q)] EXCEPT ![r] = "reserved"]
            /\ [q \in PaidRequests |-> mw[q].held + mw[q].charged]'
                 = [[q \in PaidRequests |-> mw[q].held + mw[q].charged] EXCEPT ![r] = Hold[r]]
        BY <2>1, <2>3, <2>4, <2>6, PurchaseChanges
      <3> QED
        BY <2>5, <3>1, <3>2, <3>3 DEF Purchase!Reserve
    <2> QED
      BY <2>1, <2>7 DEF Purchase!Next
  <1> QED
    BY <1>4, <1>5

\* The provider call is the contract's purchase.
LEMMA TransportBuys ==
    ASSUME BudgetInv, NEW w \in Workers, NEW out \in Outcomes, NEW charge \in Charges,
           Transport(w, out, charge)
    PROVE  Purchase!Next \/ UNCHANGED Purchase!vars
  <1>p. PICK r \in Requests : r = wk[w].job
    BY DEF Transport, BudgetInv, LedgerInv, CallsClaimed, QueueInv, ClaimsNameJobs
  <1>1. /\ ex[w].pc = "authorised"
        /\ charge <= Reservation(r)
        /\ calls' = [calls EXCEPT ![r] = @ + 1]
        /\ bill' = [bill EXCEPT ![r] = @ + charge]
        /\ mw' = mw
    BY <1>p DEF Transport
  <1>2. /\ calls \in [Requests -> Nat]
        /\ bill \in [Requests -> Nat]
        /\ mw[r] \in LedgerRow
        /\ charge \in Nat
    BY LedgerAssumption DEF BudgetInv, LedgerInv, MTypeOK, Charges
  <1>3. \A q \in Requests \ {r} : SameForContract(q)
    BY <1>1, <1>2, SameRow
  <1>4. CASE ~Paid(r)
    <2>1. \A q \in PaidRequests : SameForContract(q)
      BY <1>3, <1>4 DEF PaidRequests
    <2> QED
      BY <2>1, PurchaseStutters
  <1>5. CASE Paid(r)
    <2>1. r \in PaidRequests
      BY <1>2, <1>5 DEF PaidRequests
    <2>2. OneShot(r) /\ Busy(w, r)
      BY <1>p, <1>1, <1>5 DEF BudgetInv, LedgerInv, Busy
    <2>3. /\ calls[r] = 0 /\ bill[r] = 0
          /\ mw[r].state \in {"sending", "unknown"}
      BY <1>1, <1>2, <2>2 DEF OneShot, LedgerRow, LedgerStates
    <2>4. calls'[r] = 1 /\ bill'[r] = charge /\ charge \in 0..Hold[r]
      BY <1>1, <1>2, <1>5, <2>3, LedgerAssumption DEF Reservation
    <2>5. \A q \in PaidRequests \ {r} : SameForContract(q)
      BY <1>3 DEF PaidRequests
    <2>6. Purchase!Buy(r)
      <3>1. /\ [q \in PaidRequests |-> Stage(q)][r] = "reserved"
            /\ [q \in PaidRequests |-> calls[q]][r] = 0
        BY <2>1, <2>3 DEF Stage
      <3>2. UNCHANGED <<[q \in PaidRequests |-> Stage(q)],
                        [q \in PaidRequests |-> mw[q].held + mw[q].charged]>>
        BY <1>1 DEF PaidRequests, Paid, Stage
      <3>3. /\ [q \in PaidRequests |-> calls[q]]'
                 = [[q \in PaidRequests |-> calls[q]] EXCEPT ![r] = 1]
            /\ [q \in PaidRequests |-> bill[q]]'
                 = [[q \in PaidRequests |-> bill[q]] EXCEPT ![r] = charge]
        BY <2>1, <2>4, <2>5, PurchaseChanges
      <3> QED
        BY <2>4, <3>1, <3>2, <3>3 DEF Purchase!Buy
    <2> QED
      BY <2>1, <2>6 DEF Purchase!Next
  <1> QED
    BY <1>4, <1>5

\* A row that is accounted at what its request cost is the contract's account.
LEMMA AccountsRow ==
    ASSUME BudgetInv, NEW r \in Requests, Paid(r),
           mw[r].state \in {"sending", "unknown"},
           calls[r] = 1,
           NEW s \in {"settled", "reconciled"}, NEW res \in Answers,
           mw' = [mw EXCEPT ![r] = Accounted(mw[r], s, bill[r], res)],
           calls' = calls, bill' = bill
    PROVE  Purchase!Next
  <1>1. /\ mw \in [Requests -> LedgerRow] /\ mw[r] \in LedgerRow
        /\ bill[r] \in Nat
        /\ s \in LedgerStates
        /\ r \in PaidRequests
    BY DEF BudgetInv, LedgerInv, MTypeOK, LedgerStates, PaidRequests
  <1>2. mw'[r].state = s /\ mw'[r].held + mw'[r].charged = bill[r]
    <2>1. mw'[r] = Accounted(mw[r], s, bill[r], res)
      BY <1>1
    <2>2. /\ Accounted(mw[r], s, bill[r], res).state = s
          /\ Accounted(mw[r], s, bill[r], res).held = 0
          /\ Accounted(mw[r], s, bill[r], res).charged = bill[r]
      BY <1>1, AccountedRow
    <2> QED
      BY <1>1, <2>1, <2>2
  <1>3. Stage(r)' = "accounted"
    BY <1>2 DEF Stage
  <1>4. \A q \in PaidRequests \ {r} : SameForContract(q)
    BY <1>1, SameRow DEF PaidRequests
  <1>5. /\ [q \in PaidRequests |-> Stage(q)][r] = "reserved"
        /\ [q \in PaidRequests |-> calls[q]][r] = 1
        /\ [q \in PaidRequests |-> bill[q]][r] = bill[r]
    BY <1>1 DEF Stage
  <1>6. UNCHANGED <<[q \in PaidRequests |-> calls[q]], [q \in PaidRequests |-> bill[q]]>>
    BY DEF PaidRequests, Paid
  <1>7. /\ [q \in PaidRequests |-> Stage(q)]'
             = [[q \in PaidRequests |-> Stage(q)] EXCEPT ![r] = "accounted"]
        /\ [q \in PaidRequests |-> mw[q].held + mw[q].charged]'
             = [[q \in PaidRequests |-> mw[q].held + mw[q].charged] EXCEPT ![r] = bill[r]]
    BY <1>1, <1>2, <1>3, <1>4, PurchaseChanges
  <1>8. Purchase!Account(r)
    BY <1>5, <1>6, <1>7 DEF Purchase!Account
  <1> QED
    BY <1>1, <1>8 DEF Purchase!Next

\* Every step of the ledger is a step of the contract or not seen by it.
LEMMA PurchaseStep ==
    ASSUME BudgetInv, [MNext]_mvars
    PROVE  Purchase!Next \/ UNCHANGED Purchase!vars
  <1>0. /\ mw \in [Requests -> LedgerRow]
        /\ LedgerInv
    BY DEF BudgetInv, LedgerInv, MTypeOK
  <1>1. CASE \E w \in Workers : BeginSend(w)
    BY <1>1, SendReserves
  <1>2. CASE \E w \in Workers, out \in Outcomes, charge \in Charges : Transport(w, out, charge)
    BY <1>2, TransportBuys
  <1>3. ASSUME ~ \E w \in Workers : BeginSend(w),
               ~ \E w \in Workers, out \in Outcomes, charge \in Charges :
                    Transport(w, out, charge)
        PROVE  calls' = calls /\ bill' = bill
    BY <1>3 DEF MNext, mvars, QueueStep, ledger, Begin, BeginStale, BeginCached, BeginUnknown,
           BeginRefused, Record, Finish, FinishReconciled, FinishSettled,
           FinishLocalFailure, FinishUnknown, MCrash, Reconcile, NewDay
  <1>4. ASSUME NEW w \in Workers, FinishSettled(w), Paid(wk[w].job)
        PROVE  Purchase!Next
    <2> DEFINE r   == wk[w].job
               res == IF ex[w].out = "ok" THEN "ok" ELSE "bad"
    <2>1. /\ Finishing(w)
          /\ mw[r].state # "reconciled"
          /\ ex[w].out \in {"ok", "refused"}
          /\ mw' = [mw EXCEPT ![r] = Accounted(mw[r], "settled", ex[w].charge, res)]
          /\ calls' = calls /\ bill' = bill
      BY <1>4 DEF FinishSettled
    <2>2. r \in Requests
      BY <1>0, <2>1 DEF Finishing, LedgerInv, CallsClaimed, QueueInv, ClaimsNameJobs
    <2>3. res \in Answers
      BY DEF Answers
    <2> HIDE DEF res
    <2>4. /\ mw[r].state \in {"sending", "unknown"}
          /\ calls[r] = 1
          /\ ex[w].charge = bill[r]
      BY <1>0, <1>4, <2>1, <2>2, FinishFacts
    <2> HIDE DEF r
    <2>5. mw' = [mw EXCEPT ![r] = Accounted(mw[r], "settled", bill[r], res)]
      BY <2>1, <2>4
    <2>6. Paid(r)
      BY <1>4 DEF r
    <2> QED
      BY <2>1, <2>2, <2>3, <2>4, <2>5, <2>6, AccountsRow
  <1>5. ASSUME NEW r \in Requests, Reconcile(r)
        PROVE  Purchase!Next
    <2>1. /\ mw[r].state = "unknown"
          /\ receipt[r] # NoReceipt
          /\ mw' = [mw EXCEPT ![r] = Accounted(mw[r], "reconciled", receipt[r], "bad")]
          /\ calls' = calls /\ bill' = bill
      BY <1>5 DEF Reconcile
    <2>2. Paid(r)
      BY <2>1 DEF BudgetInv, UnspentRows
    <2>3. calls[r] = 1 /\ receipt[r] = bill[r]
      BY <1>0, <2>1, <2>2 DEF LedgerInv, OneShot
    <2>4. mw' = [mw EXCEPT ![r] = Accounted(mw[r], "reconciled", bill[r], "bad")]
      BY <2>1, <2>3
    <2>5. "bad" \in Answers
      BY DEF Answers
    <2> QED
      BY <2>1, <2>2, <2>3, <2>4, <2>5, AccountsRow
  <1>6. ASSUME ~ \E w \in Workers : BeginSend(w),
               ~ \E w \in Workers, out \in Outcomes, charge \in Charges :
                    Transport(w, out, charge),
               ~ \E w \in Workers : FinishSettled(w) /\ Paid(wk[w].job),
               ~ \E r \in Requests : Reconcile(r)
        PROVE  UNCHANGED Purchase!vars
    <2> SUFFICES ASSUME NEW q \in PaidRequests PROVE SameForContract(q)
      BY PurchaseStutters
    <2>1. q \in Requests /\ Paid(q) /\ mw[q] \in LedgerRow
      BY <1>0 DEF PaidRequests
    <2>2. calls'[q] = calls[q] /\ bill'[q] = bill[q]
      BY <1>3, <1>6
    <2>3. CASE Kept(q)
      <3>1. \/ mw'[q] = mw[q]
            \/ /\ mw'[q].held = mw[q].held
               /\ mw'[q].charged = mw[q].charged
               /\ mw'[q].state = mw[q].state
        BY <2>1, <2>3, YesterdayRow DEF Kept
      <3> QED
        BY <2>1, <2>2, <3>1, SameRow
    <2>4. CASE MadeUncertain(q)
      <3>1. PICK res \in {mw[q].result, "bad"} : mw'[q] = Unknown(mw[q], res)
        BY <2>4 DEF MadeUncertain
      <3>2. res \in Answers \cup {"none"}
        BY <2>1 DEF LedgerRow, Answers
      <3>3. /\ mw'[q].state = "unknown"
            /\ mw'[q].held = mw[q].held
            /\ mw'[q].charged = mw[q].charged
            /\ mw[q].state \in {"sending", "unknown"}
        BY <2>1, <2>4, <3>1, <3>2, UnknownRow DEF MadeUncertain
      <3> QED
        BY <2>1, <2>2, <3>3, SameRow
    <2>5. CASE mw'[q] = mw[q]
      BY <2>1, <2>2, <2>5, SameRow
    <2>6. ~Settled(q)
      BY <1>6, <2>1 DEF Settled
    <2> QED
      BY <1>0, <1>6, <2>1, <2>3, <2>4, <2>5, <2>6, RowChanges DEF RowChange, Dropped
  <1> QED
    BY <1>1, <1>2, <1>4, <1>5, <1>6

\* A row the user reconciled is not written again.
LEMMA ReconciledRow ==
    ASSUME LedgerInv, [MNext]_mvars, NEW r \in Requests, mw[r].state = "reconciled"
    PROVE  /\ mw'[r].state = "reconciled"
           /\ mw'[r].charged = mw[r].charged
           /\ mw'[r].result = mw[r].result
  <1>1. mw \in [Requests -> LedgerRow] /\ mw[r] \in LedgerRow /\ mw[r].result # "none"
    BY DEF LedgerInv, MTypeOK, ResultsStored
  <1>2. ASSUME NEW w \in Workers, BeginSend(w) PROVE mw'[r] = mw[r]
    <2>1. /\ mw[wk[w].job].result = "none"
          /\ mw' = [mw EXCEPT ![wk[w].job] = Sending(mw[wk[w].job], Reservation(wk[w].job))]
      BY <1>2 DEF BeginSend, Undecided
    <2> QED
      BY <1>1, <2>1
  <1>3. CASE RowChange(r)
    <2>1. Kept(r)
      BY <1>3 DEF RowChange, MadeUncertain, Settled, Dropped, Reconcile
    <2> QED
      BY <1>1, <2>1, YesterdayRow DEF Kept
  <1> QED
    BY <1>2, <1>3, RowChanges

\* The ledger and the executors implement the purchase contract: a paid request
\* is reserved within the budget, bought at most once and accounted at what it
\* cost, in this order; and no late worker rewrites a reconciled cost.
THEOREM PurchasesAreKept == MSpec => PurchasesKept
  <1>1. MInit => Purchase!Init
    <2> SUFFICES ASSUME MInit PROVE Purchase!Init
      OBVIOUS
    <2>1. ASSUME NEW r \in PaidRequests
          PROVE  Stage(r) = "open" /\ mw[r].held + mw[r].charged = 0 /\ calls[r] = 0 /\ bill[r] = 0
      BY DEF MInit, PaidRequests, Stage, NewLedgerRow
    <2> QED
      BY <2>1 DEF Purchase!Init
  <1>2. BudgetInv /\ [MNext]_mvars => [Purchase!Next]_Purchase!vars
    BY PurchaseStep
  <1>3. BudgetInv /\ [MNext]_mvars =>
          [\A r \in Requests :
             mw[r].state = "reconciled" =>
                /\ mw'[r].state = "reconciled"
                /\ mw'[r].charged = mw[r].charged
                /\ mw'[r].result = mw[r].result]_mvars
    BY ReconciledRow DEF BudgetInv
  <1>4. MSpec => ImplementsPurchase
    BY <1>1, <1>2, BudgetInit, BudgetStep, PTL DEF MSpec, ImplementsPurchase, Purchase!Spec
  <1>5. MSpec => ReconciledStable
    BY <1>3, BudgetInit, BudgetStep, PTL DEF MSpec, ReconciledStable
  <1> QED
    BY <1>4, <1>5 DEF PurchasesKept
=============================================================================
