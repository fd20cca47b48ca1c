------------------------------ MODULE Research ------------------------------
(***************************************************************************)
(* The research executor (research_executor.py): a web search is previewed *)
(* first, and a run may spend the credits of its preview once.  Requests   *)
(* run in parallel threads of the server; one may die at any point, and    *)
(* the owner may change the settings or let the preview expire meanwhile.  *)
(*                                                                         *)
(* A query stands for the whole normalised request, and so for its         *)
(* fingerprint.                                                            *)
(***************************************************************************)
EXTENDS Integers, FiniteSetsExt

CONSTANTS
    ResPreviews,   \* ids of recorded permission checks
    ResQueries,    \* requests, by fingerprint
    ResThreads,    \* threads that serve /api/research/run
    ResLimits,     \* values the owner gives RESEARCH_DAILY_CREDIT_LIMIT
    ResHard,       \* the most the limit can be (10)
    ResCredits,    \* SEARCH_CREDITS
    ResDays,       \* bound: days
    ResNone

ASSUME ResAssumption ==
    /\ ResLimits \subseteq Int /\ ResHard \in Nat /\ ResCredits \in Nat \ {0}
    /\ ResDays \in Nat \ {0}
    /\ ResNone \notin ResPreviews \cup ResQueries

VARIABLES
    resCheck,   \* connector_permission_checks made by preview
    resClaim,   \* research_credit_reservations: the day of a claim, or 0
    resDay,
    resConf,    \* the executor's settings
    resTh,      \* the request each thread serves
    resSent,    \* searches posted to the provider under a preview
    resAsked,   \* the request that was posted
    resGood,    \* did the provider answer a search
    resOutcome  \* what the last permission check of the run says

resVars == <<resCheck, resClaim, resDay, resConf, resTh, resSent, resAsked,
             resGood, resOutcome>>

ResConf == [ready : BOOLEAN, limit : ResLimits]
ResIdle == [pc |-> "idle", id |-> ResNone, q |-> ResNone, limit |-> 0]

ResTypeOK ==
    /\ resCheck \in [ResPreviews ->
          [q : ResQueries \cup {ResNone}, allowed : BOOLEAN, fresh : BOOLEAN]]
    /\ resClaim \in [ResPreviews -> 0..ResDays]
    /\ resDay \in 1..ResDays
    /\ resConf \in ResConf
    /\ resTh \in [ResThreads -> {ResIdle} \cup
          [pc : {"reserve", "search", "good", "bad"}, id : ResPreviews,
           q : ResQueries, limit : ResLimits]]
    /\ resSent \in [ResPreviews -> 0..2]
    /\ resAsked \in [ResPreviews -> ResQueries \cup {ResNone}]
    /\ resGood \in [ResPreviews -> BOOLEAN]
    /\ resOutcome \in [ResPreviews -> {"none", "failed", "completed"}]

ResInit ==
    /\ resCheck = [p \in ResPreviews |-> [q |-> ResNone, allowed |-> FALSE, fresh |-> FALSE]]
    /\ resClaim = [p \in ResPreviews |-> 0]
    /\ resDay = 1
    /\ resConf \in ResConf
    /\ resTh = [t \in ResThreads |-> ResIdle]
    /\ resSent = [p \in ResPreviews |-> 0]
    /\ resAsked = [p \in ResPreviews |-> ResNone]
    /\ resGood = [p \in ResPreviews |-> FALSE]
    /\ resOutcome = [p \in ResPreviews |-> "none"]

\* preview: the decision is recorded whether or not the executor is ready
\* (enabled and with a key).
ResPreview(p, q) ==
    /\ resCheck[p].q = ResNone
    /\ resCheck' = [resCheck EXCEPT ![p] = [q |-> q, allowed |-> resConf.ready, fresh |-> TRUE]]
    /\ UNCHANGED <<resClaim, resDay, resConf, resTh, resSent, resAsked, resGood, resOutcome>>

\* 900 seconds pass, or 100 younger checks hide this one from get_state.
ResExpire(p) ==
    /\ resCheck[p].fresh
    /\ resCheck' = [resCheck EXCEPT ![p].fresh = FALSE]
    /\ UNCHANGED <<resClaim, resDay, resConf, resTh, resSent, resAsked, resGood, resOutcome>>

ResConfigure(conf) ==
    /\ resConf' = conf /\ conf # resConf
    /\ UNCHANGED <<resCheck, resClaim, resDay, resTh, resSent, resAsked, resGood, resOutcome>>

ResMidnight ==
    /\ resDay < ResDays /\ resDay' = resDay + 1
    /\ UNCHANGED <<resCheck, resClaim, resConf, resTh, resSent, resAsked, resGood, resOutcome>>

\* _require_preview
ResPreviewed(p, q) == resCheck[p].allowed /\ resCheck[p].fresh /\ resCheck[p].q = q

\* run: the preview is found and the permission still holds under the values
\* the request was given.
ResRun(t, p, q) ==
    /\ resTh[t] = ResIdle
    /\ ResPreviewed(p, q) /\ resConf.ready
    /\ resTh' = [resTh EXCEPT ![t] =
          [pc |-> "reserve", id |-> p, q |-> q, limit |-> resConf.limit]]
    /\ UNCHANGED <<resCheck, resClaim, resDay, resConf, resSent, resAsked, resGood, resOutcome>>

ResCap(limit) == Min({ResHard, Max({0, limit})})

ResUsed(day) == ResCredits * Cardinality({p \in ResPreviews : resClaim[p] = day})

\* Mutant: a preview may be claimed again once its run has failed.
ResClaimedDone(p) == resClaim[p] # 0 /\ resOutcome[p] # "failed"

ResClaimed(p) == resClaim[p] # 0

\* _budget with a claim: one immediate transaction.
ResReserve(t) ==
    LET p == resTh[t].id IN
    /\ resTh[t].pc = "reserve"
    /\ \/ /\ ~ResClaimed(p) /\ ResUsed(resDay) + ResCredits <= ResCap(resTh[t].limit)
          /\ resClaim' = [resClaim EXCEPT ![p] = resDay]
          /\ resTh' = [resTh EXCEPT ![t].pc = "search"]
       \/ /\ ResClaimed(p) \/ ResUsed(resDay) + ResCredits > ResCap(resTh[t].limit)
          /\ resTh' = [resTh EXCEPT ![t] = ResIdle]
          /\ UNCHANGED resClaim
    /\ UNCHANGED <<resCheck, resDay, resConf, resSent, resAsked, resGood, resOutcome>>

\* The balance cannot be read or is too low: nothing is posted.
ResNoBalance(t) ==
    /\ resTh[t].pc = "search"
    /\ resTh' = [resTh EXCEPT ![t].pc = "bad"]
    /\ UNCHANGED <<resCheck, resClaim, resDay, resConf, resSent, resAsked, resGood, resOutcome>>

\* The search is posted; the answer is usable or not.
ResPost(t) ==
    LET p == resTh[t].id IN
    /\ resTh[t].pc = "search"
    /\ resSent' = [resSent EXCEPT ![p] = @ + 1]
    /\ resAsked' = [resAsked EXCEPT ![p] = resTh[t].q]
    /\ \/ /\ resGood' = [resGood EXCEPT ![p] = TRUE]
          /\ resTh' = [resTh EXCEPT ![t].pc = "good"]
       \/ /\ resTh' = [resTh EXCEPT ![t].pc = "bad"]
          /\ UNCHANGED resGood
    /\ UNCHANGED <<resCheck, resClaim, resDay, resConf, resOutcome>>

\* The run's own permission check records how it ended.
ResRecord(t) ==
    /\ resTh[t].pc \in {"good", "bad"}
    /\ resOutcome' = [resOutcome EXCEPT ![resTh[t].id] =
          IF resTh[t].pc = "good" THEN "completed" ELSE "failed"]
    /\ resTh' = [resTh EXCEPT ![t] = ResIdle]
    /\ UNCHANGED <<resCheck, resClaim, resDay, resConf, resSent, resAsked, resGood>>

ResCrash(t) ==
    /\ resTh[t] # ResIdle
    /\ resTh' = [resTh EXCEPT ![t] = ResIdle]
    /\ UNCHANGED <<resCheck, resClaim, resDay, resConf, resSent, resAsked, resGood, resOutcome>>

ResNext ==
    \/ \E p \in ResPreviews, q \in ResQueries : ResPreview(p, q)
    \/ \E p \in ResPreviews : ResExpire(p)
    \/ \E conf \in ResConf : ResConfigure(conf)
    \/ ResMidnight
    \/ \E t \in ResThreads, p \in ResPreviews, q \in ResQueries : ResRun(t, p, q)
    \/ \E t \in ResThreads :
          \/ ResReserve(t) \/ ResNoBalance(t) \/ ResPost(t)
          \/ ResRecord(t) \/ ResCrash(t)

ResSpec == ResInit /\ [][ResNext]_resVars

-----------------------------------------------------------------------------
\* A run is a durable operation with an outside effect: the reservation is the
\* claim, the posted search is the effect.
ResEffect == INSTANCE OneShot WITH
    Items <- ResPreviews,
    stage <- [p \in ResPreviews |->
                 IF resClaim[p] = 0 THEN "open"
                 ELSE IF resOutcome[p] = "completed" THEN "confirmed" ELSE "claimed"],
    sent <- resSent,
    world <- resGood

\* Over parallel runs of one preview, crashes and failures, run posts at most
\* one search per preview, only after its credits are reserved, and reports
\* completed only what the provider answered.
ResOneShot == ResEffect!Spec

\* Whatever the owner sets and however many runs fail, the credits reserved on
\* one day stay within the executor's hard limit.
ResWithinCap ==
    \A d \in 1..ResDays :
        ResCredits * Cardinality({p \in ResPreviews : resClaim[p] = d}) <= ResHard

\* What is posted is what an allowed preview showed.
ResAsPreviewed ==
    \A p \in ResPreviews :
        resSent[p] > 0 => resCheck[p].allowed /\ resAsked[p] = resCheck[p].q

\* A search is bought once, as previewed, and within the credits of its day.
ResSafe == [](ResTypeOK /\ ResWithinCap /\ ResAsPreviewed) /\ ResOneShot
=============================================================================
