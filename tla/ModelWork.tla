----------------------------- MODULE ModelWork -----------------------------
(***************************************************************************)
(* Approved model calls beside the work queue (model_work.py,              *)
(* model_receipts.py).  A job of the queue whose kind is a model provider  *)
(* has a row in the ledger model_work; the executor of a worker            *)
(*                                                                         *)
(*   1. authorises the call in one transaction (_begin): fence, reuse of a *)
(*      stored result, budgets, the "sending" marker and the reservation;  *)
(*   2. calls the provider, outside any transaction;                       *)
(*   3. for the paid provider stores the observed usage (record);          *)
(*   4. records the outcome in the ledger (the end of execute), whether or *)
(*      not the worker still owns the lease;                               *)
(*                                                                         *)
(* and hands the result to WorkQueue's checkpoint.  A crash may fall       *)
(* between any two of these.  Every step is a step of WorkQueue or leaves  *)
(* its variables alone, so what holds of the queue holds here.             *)
(***************************************************************************)
EXTENDS WorkQueue, FiniteSetsExt

CONSTANTS
    Hold,        \* the reservation of a paid request, in micro-USD
    TotalLimit,  \* LEON_OPENAI_TOTAL_MICROUSD
    DailyLimit   \* LEON_OPENAI_DAILY_MICROUSD

ASSUME LedgerAssumption ==
    /\ Hold \in [Requests -> Nat]
    /\ TotalLimit \in Nat
    /\ DailyLimit \in Nat
    /\ \A r \in Requests : KindOf[r] \in {"openai", "ollama"}

VARIABLES
    mw,       \* model_work, one row per job
    receipt,  \* model_usage_receipts: the observed charge, or NoReceipt
    ex,       \* the call each worker's executor has in progress
    calls,    \* provider calls made for a job
    bill      \* what the paid provider really charged for a job

ledger == <<mw, receipt, ex, calls, bill>>
mvars == <<jobs, ckpt, issued, eligible, wk, mw, receipt, ex, calls, bill>>

NoReceipt == -1

Paid(r) == KindOf[r] = "openai"

\* The reservation of a request: local calls cost nothing.
Reservation(r) == IF Paid(r) THEN Hold[r] ELSE 0

\* Outcomes of a call: an answer, a refused or incomplete answer, an answer
\* whose usage is valid but whose content is not, and no usable response.
Outcomes == {"ok", "refused", "unparsed", "failed"}

LedgerStates == {"approved", "sending", "unknown", "settled", "reconciled"}
Answers == {"ok", "bad"}

LedgerRow == [state   : LedgerStates,
              held    : Nat,
              charged : Nat,
              sent    : {"never", "today", "earlier"},
              result  : Answers \cup {"none"}]

NewLedgerRow == [state |-> "approved", held |-> 0, charged |-> 0,
                 sent |-> "never", result |-> "none"]

Call == [pc : {"none", "authorised", "answered", "recorded"},
         out : Outcomes \cup {"none"},
         charge : Nat]

NoCall == [pc |-> "none", out |-> "none", charge |-> 0]

MTypeOK ==
    /\ TypeOK
    /\ mw \in [Requests -> LedgerRow]
    /\ receipt \in [Requests -> Nat \cup {NoReceipt}]
    /\ ex \in [Workers -> Call]
    /\ calls \in [Requests -> Nat]
    /\ bill \in [Requests -> Nat]

MInit ==
    /\ Init
    /\ mw = [r \in Requests |-> NewLedgerRow]
    /\ receipt = [r \in Requests |-> NoReceipt]
    /\ ex = [w \in Workers |-> NoCall]
    /\ calls = [r \in Requests |-> 0]
    /\ bill = [r \in Requests |-> 0]

-----------------------------------------------------------------------------
(* What the UPDATE statements make of a ledger row. *)

\* The marker that commits before the call.
Sending(row, hold) ==
    [row EXCEPT !.state = "sending", !.held = hold, !.sent = "today"]

\* A charge replaces the reservation, with the answer that goes with it.
Accounted(row, state, charge, result) ==
    [row EXCEPT !.state = state, !.held = 0, !.charged = charge, !.result = result]

\* The outcome is not known; the reservation stays.
Unknown(row, result) == [row EXCEPT !.state = "unknown", !.result = result]

\* A failed local call leaves the request as approved.
Forgotten(row) ==
    [row EXCEPT !.state = "approved", !.held = 0, !.result = "none"]

\* The row seen from the next UTC day.
Yesterday(row) ==
    [row EXCEPT !.sent = IF row.sent = "today" THEN "earlier" ELSE row.sent]

-----------------------------------------------------------------------------
(* _begin: one transaction that decides whether a call may be sent. *)

\* Mutant: the reservations of calls still out are not counted.
DailyUseToday == MapThenSumSet(
    LAMBDA q : IF mw[q].sent = "today" THEN mw[q].charged ELSE 0, Requests)

\* What the ledger counts against the total and the daily budget.
TotalUse == MapThenSumSet(LAMBDA q : mw[q].held + mw[q].charged, Requests)
DailyUse == MapThenSumSet(
    LAMBDA q : mw[q].held + (IF mw[q].sent = "today" THEN mw[q].charged ELSE 0),
    Requests)

\* The executor of w is about to run _begin for a job it still owns.
Beginning(w) ==
    /\ wk[w].pc = "claimed"
    /\ ex[w].pc = "none"
    /\ OwnsLease(w)

\* Lease lost between claim and execution: execution_error, nothing written.
BeginStale(w) ==
    /\ wk[w].pc = "claimed"
    /\ ex[w].pc = "none"
    /\ ~OwnsLease(w)
    /\ Execute(w, "bad")
    /\ UNCHANGED ledger

\* A stored result is returned without a call.
BeginCached(w) ==
    /\ Beginning(w)
    /\ mw[wk[w].job].result # "none"
    /\ Execute(w, mw[wk[w].job].result)
    /\ UNCHANGED ledger

\* A paid call was authorised before and its outcome was never recorded: it is
\* marked unknown and never sent again.
BeginUnknown(w) ==
    LET r == wk[w].job IN
    /\ Beginning(w)
    /\ Paid(r)
    /\ mw[r].result = "none"
    /\ mw[r].state \in {"sending", "unknown"}
    /\ mw' = [mw EXCEPT ![r] = Unknown(mw[r], mw[r].result)]
    /\ Execute(w, "bad")
    /\ UNCHANGED <<receipt, ex, calls, bill>>

\* Mutant: the sending marker of an earlier claim is ignored.
UndecidedSending(r) ==
    /\ mw[r].result = "none"
    /\ Paid(r) => mw[r].state # "unknown"

\* A call that the stored ledger does not settle already.
Undecided(r) ==
    /\ mw[r].result = "none"
    /\ Paid(r) => mw[r].state \notin {"sending", "unknown"}

\* What the preflight asks of the task, the other calls and the budgets.
Permitted(r) ==
    /\ eligible[TaskOf[r]] /\ TaskOf[r] \in LowRisk
    /\ Paid(r) => /\ \A q \in Requests : mw[q].state # "unknown"
                  /\ TotalUse + Reservation(r) <= TotalLimit
                  /\ DailyUse + Reservation(r) <= DailyLimit

\* Provider disabled, request no longer matching the execution contract, task
\* not eligible, reconciliation due or budget exhausted: the transaction rolls
\* back.  The first two can happen to any call.
BeginRefused(w) ==
    /\ Beginning(w)
    /\ Undecided(wk[w].job)
    /\ Execute(w, "bad")
    /\ UNCHANGED ledger

\* The sending marker, the reservation and the longer lease of a local call
\* commit before the call.
BeginSend(w) ==
    LET r == wk[w].job IN
    /\ Beginning(w)
    /\ Undecided(r)
    /\ Permitted(r)
    /\ mw' = [mw EXCEPT ![r] = Sending(mw[r], Reservation(r))]
    /\ ex' = [ex EXCEPT ![w] = [pc |-> "authorised", out |-> "none", charge |-> 0]]
    /\ IF Paid(r) THEN UNCHANGED vars ELSE ExtendLease(w)
    /\ UNCHANGED <<receipt, calls, bill>>

Begin(w) ==
    \/ BeginStale(w)
    \/ BeginCached(w)
    \/ BeginUnknown(w)
    \/ BeginRefused(w)
    \/ BeginSend(w)

-----------------------------------------------------------------------------
(* The call and what is recorded of it. *)

\* The transport: whatever it returns or raises, a call was made, and a paid
\* one may have been charged.  Assumption: the provider keeps to the envelope of
\* the reservation (the request limits its output; parse_usage takes an answer
\* that reports more for one without verified usage).
Transport(w, out, charge) ==
    LET r == wk[w].job IN
    /\ ex[w].pc = "authorised"
    /\ charge <= Reservation(r)
    /\ ex' = [ex EXCEPT ![w] =
                [pc |-> "answered", out |-> out,
                 charge |-> IF out = "failed" THEN 0 ELSE charge]]
    /\ calls' = [calls EXCEPT ![r] = @ + 1]
    /\ bill' = [bill EXCEPT ![r] = @ + charge]
    /\ UNCHANGED <<jobs, ckpt, issued, eligible, wk, mw, receipt>>

\* record: the usage of a paid call is stored before its answer is parsed.  A
\* second, different usage for the job makes the outcome a failure.
Record(w) ==
    LET r == wk[w].job IN
    /\ ex[w].pc = "answered"
    /\ Paid(r)
    /\ ex[w].out # "failed"
    /\ receipt' = [receipt EXCEPT ![r] = IF @ = NoReceipt THEN ex[w].charge ELSE @]
    /\ ex' = [ex EXCEPT ![w] =
                [pc |-> "recorded",
                 out |-> IF receipt[r] \in {NoReceipt, ex[w].charge}
                         THEN ex[w].out ELSE "failed",
                 charge |-> ex[w].charge]]
    /\ UNCHANGED <<jobs, ckpt, issued, eligible, wk, mw, calls, bill>>

\* The worker has what execute's last transaction needs.
Finishing(w) ==
    \/ ex[w].pc = "recorded"
    \/ ex[w].pc = "answered" /\ (ex[w].out = "failed" \/ ~Paid(wk[w].job))

\* A late worker does not undo an approved reconciliation.
FinishReconciled(w) ==
    LET r == wk[w].job IN
    /\ Finishing(w)
    /\ mw[r].state = "reconciled"
    /\ Execute(w, mw[r].result)
    /\ ex' = [ex EXCEPT ![w] = NoCall]
    /\ UNCHANGED <<mw, receipt, calls, bill>>

\* Mutants: the reservation is released without the charge; a late worker
\* settles what was reconciled.
FinishSettledFree(w) ==
    LET r   == wk[w].job
        res == IF ex[w].out = "ok" THEN "ok" ELSE "bad"
    IN
    /\ Finishing(w)
    /\ mw[r].state # "reconciled"
    /\ ex[w].out \in {"ok", "refused"}
    /\ mw' = [mw EXCEPT ![r] = Accounted(mw[r], "settled", 0, res)]
    /\ Execute(w, res)
    /\ ex' = [ex EXCEPT ![w] = NoCall]
    /\ UNCHANGED <<receipt, calls, bill>>

FinishSettledLate(w) ==
    LET r   == wk[w].job
        res == IF ex[w].out = "ok" THEN "ok" ELSE "bad"
    IN
    /\ Finishing(w)
    /\ ex[w].out \in {"ok", "refused"}
    /\ mw' = [mw EXCEPT ![r] = Accounted(mw[r], "settled", ex[w].charge, res)]
    /\ Execute(w, res)
    /\ ex' = [ex EXCEPT ![w] = NoCall]
    /\ UNCHANGED <<receipt, calls, bill>>

\* A verified answer settles the ledger.
FinishSettled(w) ==
    LET r   == wk[w].job
        res == IF ex[w].out = "ok" THEN "ok" ELSE "bad"
    IN
    /\ Finishing(w)
    /\ mw[r].state # "reconciled"
    /\ ex[w].out \in {"ok", "refused"}
    /\ mw' = [mw EXCEPT ![r] = Accounted(mw[r], "settled", ex[w].charge, res)]
    /\ Execute(w, res)
    /\ ex' = [ex EXCEPT ![w] = NoCall]
    /\ UNCHANGED <<receipt, calls, bill>>

\* A failed local call is forgotten, to be retried.
FinishLocalFailure(w) ==
    LET r == wk[w].job IN
    /\ Finishing(w)
    /\ mw[r].state # "reconciled"
    /\ ex[w].out \in {"unparsed", "failed"}
    /\ ~Paid(r)
    /\ mw' = [mw EXCEPT ![r] = Forgotten(mw[r])]
    /\ Execute(w, "retry")
    /\ ex' = [ex EXCEPT ![w] = NoCall]
    /\ UNCHANGED <<receipt, calls, bill>>

\* Mutant: a call without a verified answer gives its reservation back.
FinishUnknownReleased(w) ==
    LET r == wk[w].job IN
    /\ Finishing(w)
    /\ mw[r].state # "reconciled"
    /\ ex[w].out \in {"unparsed", "failed"}
    /\ Paid(r)
    /\ mw' = [mw EXCEPT ![r] = Accounted(mw[r], "unknown", 0, "bad")]
    /\ Execute(w, "bad")
    /\ ex' = [ex EXCEPT ![w] = NoCall]
    /\ UNCHANGED <<receipt, calls, bill>>

\* A paid call without a verified answer: the reservation stays.
FinishUnknown(w) ==
    LET r == wk[w].job IN
    /\ Finishing(w)
    /\ mw[r].state # "reconciled"
    /\ ex[w].out \in {"unparsed", "failed"}
    /\ Paid(r)
    /\ mw' = [mw EXCEPT ![r] = Unknown(mw[r], "bad")]
    /\ Execute(w, "bad")
    /\ ex' = [ex EXCEPT ![w] = NoCall]
    /\ UNCHANGED <<receipt, calls, bill>>

Finish(w) ==
    \/ FinishReconciled(w)
    \/ FinishSettled(w)
    \/ FinishLocalFailure(w)
    \/ FinishUnknown(w)

-----------------------------------------------------------------------------
(* The operator, the calendar and crashes. *)

\* reconcile: the user approves the charge of the stored receipt.
Reconcile(r) ==
    /\ mw[r].state = "unknown"
    /\ receipt[r] # NoReceipt
    /\ receipt[r] <= mw[r].held
    /\ mw' = [mw EXCEPT ![r] = Accounted(mw[r], "reconciled", receipt[r], "bad")]
    /\ UNCHANGED <<jobs, ckpt, issued, eligible, wk, receipt, ex, calls, bill>>

\* A UTC day begins; charges sent before it no longer count for the day.
NewDay ==
    /\ mw' = [r \in Requests |-> Yesterday(mw[r])]
    /\ UNCHANGED <<jobs, ckpt, issued, eligible, wk, receipt, ex, calls, bill>>

\* The process dies with its call.
MCrash(w) ==
    /\ Crash(w)
    /\ ex' = [ex EXCEPT ![w] = NoCall]
    /\ UNCHANGED <<mw, receipt, calls, bill>>

\* The steps of the queue that do not touch the ledger.
QueueStep ==
    /\ \/ \E r \in Requests : Operator(r)
       \/ \E t \in Tasks : TaskChange(t)
       \/ \E w \in Workers : \/ \E ready \in BOOLEAN : Claim(w, ready)
                             \/ Checkpoint(w)
       \/ Tick
    /\ UNCHANGED ledger

\* The charges the provider may make for any request.
Charges == UNION {0..Hold[r] : r \in Requests}

MNext ==
    \/ QueueStep
    \/ \E w \in Workers :
          \/ Begin(w)
          \/ \E out \in Outcomes, charge \in Charges : Transport(w, out, charge)
          \/ Record(w)
          \/ Finish(w)
          \/ MCrash(w)
    \/ \E r \in Requests : Reconcile(r)
    \/ NewDay

MSpec == MInit /\ [][MNext]_mvars
-----------------------------------------------------------------------------
(* Properties. *)

\* No automatic paid repeat: whatever crashes, expires, is paused, resumed or
\* re-claimed, at most one call is ever made for a paid request.
PaidAtMostOnce == \A r \in Requests : Paid(r) => calls[r] <= 1

\* What the provider has really charged never exceeds what the ledger holds or
\* has charged, for every request, also in the gap between the call and its
\* recording and after a crash in it.
LedgerCoversBill ==
    \A r \in Requests : bill[r] <= mw[r].held + mw[r].charged

\* The charges really made never exceed the total budget.
TotalBudget == MapThenSumSet(LAMBDA r : bill[r], Requests) <= TotalLimit

\* The charges of the calls authorised today never exceed the daily budget.
DailyBudget ==
    MapThenSumSet(LAMBDA r : IF mw[r].sent = "today" THEN bill[r] ELSE 0, Requests)
        <= DailyLimit

\* A cost reconciliation the user approved is final, whatever late worker
\* still records its outcome.
ReconciledStable ==
    [][\A r \in Requests :
         mw[r].state = "reconciled" =>
            /\ mw'[r].state = "reconciled"
            /\ mw'[r].charged = mw[r].charged
            /\ mw'[r].result = mw[r].result]_mvars

\* A succeeded paid job has a settled ledger row with its answer, and its
\* charge is the observed usage.
SuccessIsPaidFor ==
    \A r \in Requests :
        Paid(r) /\ jobs[r].status = "succeeded" =>
            /\ mw[r].state = "settled"
            /\ mw[r].result = "ok"
            /\ mw[r].charged = receipt[r]

\* Local calls are free but not unbounded: lost leases, failures and late
\* workers included, a local job calls the model at most MAX_ATTEMPTS times.
LocalCallsBounded ==
    \A r \in Requests : ~Paid(r) => calls[r] <= MaxAttempts

\* The ledger and the executors implement the purchase contract of PaidCall.
Stage(r) ==
    CASE mw[r].state = "approved"               -> "open"
      [] mw[r].state \in {"sending", "unknown"} -> "reserved"
      [] OTHER                                  -> "accounted"

PaidRequests == {r \in Requests : Paid(r)}

Purchase == INSTANCE PaidCall WITH
    Items    <- PaidRequests,
    Price    <- Hold,
    Limit    <- TotalLimit,
    stage    <- [r \in PaidRequests |-> Stage(r)],
    exposure <- [r \in PaidRequests |-> mw[r].held + mw[r].charged],
    bought   <- [r \in PaidRequests |-> calls[r]],
    bill     <- [r \in PaidRequests |-> bill[r]]

\* Every paid request is reserved within the budget, bought at most once and
\* accounted at what it cost, in this order.
ImplementsPurchase == Purchase!Spec

\* A paid call whose outcome will never be recorded: its job has ended and no
\* executor is working on it.
Abandoned(r) ==
    /\ Paid(r)
    /\ mw[r].state \in {"sending", "unknown"}
    /\ jobs[r].status \in Terminal
    /\ \A w \in Workers : wk[w].job # r

\* docs/model-work.md: an uncertain outcome blocks following calls until it is
\* reconciled.
UncertainBlocksCalls ==
    [][\A r \in Requests :
         Paid(r) /\ mw'[r].state = "sending" /\ mw[r].state # "sending" =>
            ~ \E q \in Requests : Abandoned(q)]_mvars

\* Neither budget is exceeded by what is really charged, however many workers
\* pass the check at once and whenever midnight falls.
WithinBudgets == TotalBudget /\ DailyBudget

\* The ledger and the job agree: a paid success is settled at its observed
\* usage, and a local job calls the model no more often than it may be claimed.
LedgerSound == MTypeOK /\ SuccessIsPaidFor /\ LocalCallsBounded

\* A purchase keeps its contract, and a cost the user reconciled stays as it is.
PurchasesKept == ImplementsPurchase /\ ReconciledStable
=============================================================================
