------------------------------- MODULE Skills -------------------------------
(***************************************************************************)
(* What becomes of a skill the owner asked for (skill_discovery.py and     *)
(* skill_development.py).  The nightly service searches a catalogue for    *)
(* it, lets a model decide and queues a build or names what is missing;    *)
(* reconcile, called by the nightly service and by the coding worker,      *)
(* closes the skill's task when the build can be used.  Each write is a    *)
(* transaction of its own, a task is moved through several, either process *)
(* may die between two, and the owner moves tasks as well.  Skills are     *)
(* numbered in the order they were learned.  Of the owner's moves only     *)
(* "done" is left out, so that done means closed by reconcile.             *)
(***************************************************************************)
EXTENDS Naturals, SequencesExt

CONSTANTS
    SkMax,       \* bound: skills
    SkReused,    \* those whose message already started a build from chat
    SkExternal,  \* those that ask for an account, a connector or a purchase
    SkTries,     \* searches and decisions of one night
    SkFaults     \* bound: crashes, failed searches and decisions, moves of the owner

SkSkills == 1..SkMax
SkProcs == {"night", "worker"}

ASSUME SkAssumption ==
    /\ SkMax \in Nat /\ SkTries \in Nat \ {0} /\ SkFaults \in Nat
    /\ SkReused \subseteq SkSkills /\ SkExternal \subseteq SkSkills \ SkReused

VARIABLES
    skTask,    \* the status of the skill's task
    skMade,    \* how many search tasks and builds were created
    skSearch,  \* skill_discoveries: status
    skPlan,    \* skill_developments: status, decision, and whether a build is bound
    skBuild,   \* the build: its status, and what came of it
    skListed,  \* builds whose functions are in the catalogue
    skWarm,    \* rows attempted less than a day ago
    skTold,    \* owner_updates: a search is reported, a skill is available
    skAt,      \* the two processes and their locals
    skFault
skVars == <<skTask, skMade, skSearch, skPlan, skBuild, skListed, skWarm, skTold, skAt, skFault>>
skOutside == <<skBuild, skListed, skFault>>
-----------------------------------------------------------------------------
SkIdle == [at |-> "idle", s |-> 0, path |-> <<>>, next |-> "",
           loop |-> "", left |-> {}, saw |-> [s \in SkSkills |-> ""], n |-> 0, lock |-> ""]

SkInit ==
    /\ skTask = [s \in SkSkills |-> "absent"]
    /\ skMade = [s \in SkSkills |-> [search |-> 0, build |-> 0]]
    /\ skSearch = [s \in SkSkills |-> "absent"]
    /\ skPlan = [s \in SkSkills |-> [st |-> "absent", kind |-> "none", bound |-> FALSE]]
    /\ skBuild = [s \in SkSkills |-> IF s \in SkReused THEN "queued" ELSE "absent"]
    /\ skListed = {} /\ skWarm = {} /\ skTold = {}
    /\ skAt = [p \in SkProcs |-> SkIdle]
    /\ skFault = SkFaults

SkGo(p, at) == skAt' = [skAt EXCEPT ![p].at = at]
SkStop(p) == skAt' = [skAt EXCEPT ![p] = SkIdle]
-----------------------------------------------------------------------------
(* Moving a task *)

\* update_task_status takes these steps and refuses the others; waiting is for
\* an approval.
SkValid == {<<"new", "planned">>, <<"planned", "active">>, <<"planned", "waiting">>,
            <<"active", "waiting">>, <<"active", "blocked">>, <<"active", "review">>,
            <<"review", "done">>, <<"review", "rejected">>, <<"blocked", "active">>,
            <<"waiting", "active">>, <<"waiting", "blocked">>}

\* A plausible slip: a blocked task is not taken up again.
SkOpeningFew == [new |-> <<"planned", "active">>, planned |-> <<"active">>,
                 active |-> <<>>, review |-> <<>>, done |-> <<>>]

\* transition: first to where every target can be reached; no way from a task
\* that waits for the owner or was rejected.
SkOpening == [new |-> <<"planned", "active">>, planned |-> <<"active">>, blocked |-> <<"active">>,
              active |-> <<>>, review |-> <<>>, done |-> <<>>]

\* The way from there to the target.
SkClosing(from, to) ==
    IF to = "done" /\ from \notin {"review", "done"} THEN <<"review", "done">> ELSE <<to>>

SkTransition(p, s, to, next) ==
    skAt' = IF skTask[s] \in DOMAIN SkOpening
            THEN [skAt EXCEPT ![p].at = "walk", ![p].s = s, ![p].next = next,
                              ![p].path = SkOpening[skTask[s]] \o SkClosing(skTask[s], to)]
            ELSE [skAt EXCEPT ![p] = SkIdle]

\* The status is read before each step, and one that is refused ends the process.
SkStep(p) ==
    LET w == skAt[p]
        to == Head(w.path)
        last == Tail(w.path) = <<>> IN
    /\ w.at = "walk"
    /\ IF skTask[w.s] = to \/ <<skTask[w.s], to>> \in SkValid
       THEN /\ skTask' = [skTask EXCEPT ![w.s] = to]
            /\ skAt' = [skAt EXCEPT ![p] = [w EXCEPT !.path = Tail(@), !.at = IF last THEN w.next ELSE @,
                                                    !.next = IF last THEN "" ELSE @]]
       ELSE SkStop(p) /\ UNCHANGED skTask
    /\ UNCHANGED <<skMade, skSearch, skPlan, skWarm, skTold, skOutside>>
-----------------------------------------------------------------------------
(* discover; what becomes of the search's own task is left out *)

\* Answers that were found but not reported come first.
SkNight ==
    /\ skAt["night"] = SkIdle
    /\ skAt' = [skAt EXCEPT !["night"] = [@ EXCEPT !.at = "ready", !.loop = "ready",
                                                   !.left = {s \in SkSkills : skSearch[s] = "ready"}]]
    /\ UNCHANGED <<skTask, skMade, skSearch, skPlan, skWarm, skTold, skOutside>>

SkReady ==
    LET w == skAt["night"]
        open == {s \in SkSkills : skTask[s] \in {"new", "planned"} /\ skSearch[s] # "done"} IN
    /\ w.at = "ready"
    /\ skAt' = [skAt EXCEPT !["night"] =
         IF w.left # {} THEN [w EXCEPT !.at = "report", !.s = Min(w.left)]
         ELSE [w EXCEPT !.at = "searches", !.loop = "searches", !.left = open]]
    /\ UNCHANGED <<skTask, skMade, skSearch, skPlan, skWarm, skTold, skOutside>>

\* A search is tried again after a day, or at once by hand if it failed.
SkMaySearch(s, byHand) ==
    /\ s \notin SkReused
    /\ skSearch[s] = "absent" \/ <<"search", s>> \notin skWarm \/ (byHand /\ skSearch[s] = "retry")

SkPickSearch(byHand) ==
    LET w == skAt["night"]
        may == {s \in w.left : SkMaySearch(s, byHand)} IN
    /\ w.at = "searches"
    /\ skAt' = [skAt EXCEPT !["night"] =
         IF may = {} \/ w.n = SkTries THEN [SkIdle EXCEPT !.at = "reconcile", !.next = "pending"]
         ELSE [w EXCEPT !.at = "child", !.s = Min(may), !.n = @ + 1, !.left = {s \in @ : s > Min(may)}]]
    /\ UNCHANGED <<skTask, skMade, skSearch, skPlan, skWarm, skTold, skOutside>>

\* A plausible slip: the task of an interrupted search is not looked for.
SkHasChildNever(s) == skSearch[s] # "absent"

\* Named by the row, or found by its source reference.
SkHasChild(s) == skMade[s].search > 0

SkChild ==
    LET s == skAt["night"].s IN
    /\ skAt["night"].at = "child"
    /\ skMade' = IF SkHasChild(s) THEN skMade ELSE [skMade EXCEPT ![s].search = @ + 1]
    /\ SkGo("night", "row")
    /\ UNCHANGED <<skTask, skSearch, skPlan, skWarm, skTold, skOutside>>

SkRow ==
    LET s == skAt["night"].s IN
    /\ skAt["night"].at = "row"
    /\ skSearch' = [skSearch EXCEPT ![s] = "searching"]
    /\ skWarm' = skWarm \cup {<<"search", s>>}
    /\ SkGo("night", "catalog")
    /\ UNCHANGED <<skTask, skMade, skPlan, skTold, skOutside>>

\* The catalogue answers, and the answer is stored before it is reported; or it fails.
SkCatalog(found) ==
    /\ skAt["night"].at = "catalog" /\ (found \/ skFault > 0)
    /\ skSearch' = [skSearch EXCEPT ![skAt["night"].s] = IF found THEN "ready" ELSE "retry"]
    /\ skFault' = IF found THEN skFault ELSE skFault - 1
    /\ SkGo("night", IF found THEN "report" ELSE "searches")
    /\ UNCHANGED <<skTask, skMade, skPlan, skWarm, skTold, skBuild, skListed>>

SkReport ==
    /\ skAt["night"].at = "report"
    /\ skTold' = skTold \cup {<<"found", skAt["night"].s>>}
    /\ SkGo("night", "found")
    /\ UNCHANGED <<skTask, skMade, skSearch, skPlan, skWarm, skOutside>>

SkSearched ==
    LET w == skAt["night"] IN
    /\ w.at = "found"
    /\ skSearch' = [skSearch EXCEPT ![w.s] = "done"]
    /\ skAt' = [skAt EXCEPT !["night"] = [w EXCEPT !.at = w.loop, !.left = @ \ {w.s}]]
    /\ UNCHANGED <<skTask, skMade, skPlan, skWarm, skTold, skOutside>>
-----------------------------------------------------------------------------
(* reconcile *)

\* A plausible slip: what was built counts as ready without its tests.
SkVerdictBuilt(s) == IF skBuild[s] # "queued" THEN "ready" ELSE "skip"

\* A build that ended is ready if its tests passed, its task is done and its
\* functions are in the catalogue.  Only a row that still builds is told more.
SkVerdict(s) ==
    IF skBuild[s] = "good" /\ s \in skListed THEN "ready"
    ELSE IF skBuild[s] # "queued" /\ skPlan[s].st = "building" THEN "open" ELSE "skip"

\* Rows and catalogue are read once, under a lock that is not waited for.
SkReconcile(p) ==
    LET w == skAt[p]
        rows == {s \in SkSkills : /\ skPlan[s].bound
                                  /\ \/ skPlan[s].st = "building"
                                     \/ skPlan[s].st = "waiting" /\ skBuild[s] \in {"good", "bad"}} IN
    /\ IF p = "worker" THEN w = SkIdle ELSE w.at = "reconcile"
    /\ p = "worker" => rows # {}    \* without one it only takes the lock and lets it go
    /\ \A q \in SkProcs : skAt[q].lock = ""
    /\ skAt' = [skAt EXCEPT ![p] = [w EXCEPT !.at = "rows", !.left = rows,
                  !.lock = IF p = "worker" THEN "idle" ELSE w.next,
                  !.saw = [s \in SkSkills |-> IF s \in rows THEN SkVerdict(s) ELSE ""]]]
    /\ UNCHANGED <<skTask, skMade, skSearch, skPlan, skWarm, skTold, skOutside>>

\* A rejected skill is dropped; the task of another one is moved and the owner
\* told (what he is told of a blocked one is left out).
SkEach(p) ==
    LET w == skAt[p] IN
    /\ w.at = "rows"
    /\ \E s \in w.left :
         IF skTask[s] = "rejected" \/ w.saw[s] = "skip"
         THEN /\ skAt' = [skAt EXCEPT ![p].left = @ \ {s}]
              /\ IF skTask[s] = "rejected" THEN skPlan' = [skPlan EXCEPT ![s].st = "superseded"]
                 ELSE UNCHANGED skPlan
         ELSE /\ IF w.saw[s] = "ready" THEN SkTransition(p, s, "done", "available")
                 ELSE SkTransition(p, s, "blocked", "close")
              /\ UNCHANGED skPlan
    /\ UNCHANGED <<skTask, skMade, skSearch, skWarm, skTold, skOutside>>

SkTell(p) ==
    /\ skAt[p].at = "available"
    /\ skTold' = skTold \cup {<<"available", skAt[p].s>>}
    /\ SkGo(p, "close")
    /\ UNCHANGED <<skTask, skMade, skSearch, skPlan, skWarm, skOutside>>

\* The row follows the task.
SkSettle(p) ==
    LET w == skAt[p]
        st == IF w.at = "bind" THEN "building" ELSE IF w.saw[w.s] = "ready" THEN "done" ELSE "waiting" IN
    /\ w.at \in {"close", "bind", "wait"}
    /\ skPlan' = [skPlan EXCEPT ![w.s].st = st, ![w.s].bound = @ \/ w.at = "bind"]
    /\ skAt' = [skAt EXCEPT ![p] = [w EXCEPT !.at = IF @ = "close" THEN "rows" ELSE w.loop, !.left = @ \ {w.s}]]
    /\ UNCHANGED <<skTask, skMade, skSearch, skWarm, skTold, skOutside>>

\* The night goes on to what an earlier one prepared, or is over.
SkRelease(p) ==
    LET w == skAt[p] IN
    /\ w.at = "rows" /\ w.left = {}
    /\ skAt' = [skAt EXCEPT ![p] =
         IF w.lock = "idle" THEN SkIdle
         ELSE [SkIdle EXCEPT !.at = "pending", !.loop = "pending",
                             !.left = {s \in SkSkills : skPlan[s].st = "prepared"}]]
    /\ UNCHANGED <<skTask, skMade, skSearch, skPlan, skWarm, skTold, skOutside>>
-----------------------------------------------------------------------------
(* develop *)

\* Plans an earlier night did not carry out.
SkPending ==
    LET w == skAt["night"] IN
    /\ w.at = "pending"
    /\ IF w.left # {}
       THEN \E s \in w.left : skAt' = [skAt EXCEPT !["night"] = [w EXCEPT !.at = "apply", !.s = s, !.left = @ \ {s}]]
       ELSE skAt' = [skAt EXCEPT !["night"].at = "plans", !["night"].loop = "plans", !["night"].left =
                       {s \in SkSkills : skTask[s] \in {"new", "planned", "active", "blocked"}}]
    /\ UNCHANGED <<skTask, skMade, skSearch, skPlan, skWarm, skTold, skOutside>>

\* A plan is made once its search is reported, and again after a day unless it
\* builds, is done or was dropped.
SkMayPlan(s) ==
    /\ \/ skPlan[s].st = "absent"
       \/ skPlan[s].st \notin {"done", "building", "superseded"} /\ <<"plan", s>> \notin skWarm
    /\ skSearch[s] = "done" \/ s \in SkReused

SkPickPlan ==
    LET w == skAt["night"]
        may == {s \in w.left : SkMayPlan(s)} IN
    /\ w.at = "plans"
    /\ IF may = {} \/ w.n = SkTries
       THEN skAt' = [skAt EXCEPT !["night"] = [SkIdle EXCEPT !.at = "reconcile", !.next = "idle"]]
       ELSE skAt' = [skAt EXCEPT !["night"] = [w EXCEPT !.at = "decide", !.s = Min(may), !.n = @ + 1,
                                                        !.left = {s \in @ : s > Min(may)}]]
    /\ UNCHANGED <<skTask, skMade, skSearch, skPlan, skWarm, skTold, skOutside>>

\* A build from chat is used, what needs an account is not built, and of the
\* rest the model decides.
SkChoices(s) ==
    IF s \in SkReused THEN {"reuse"} ELSE IF s \in SkExternal THEN {"other"} ELSE {"local", "other"}

\* The decision is stored before it is applied; or there is none.
SkDecide(made) ==
    LET s == skAt["night"].s IN
    /\ skAt["night"].at = "decide" /\ (made \/ skFault > 0)
    /\ \E kind \in SkChoices(s) :
         skPlan' = [skPlan EXCEPT ![s].st = IF made THEN "prepared" ELSE "retry",
                                  ![s].kind = IF made THEN kind ELSE "none"]
    /\ skWarm' = skWarm \cup {<<"plan", s>>}
    /\ skFault' = IF made THEN skFault ELSE skFault - 1
    /\ SkGo("night", IF made THEN "apply" ELSE "plans")
    /\ UNCHANGED <<skTask, skMade, skSearch, skTold, skBuild, skListed>>

\* A plausible slip: a build gets a fresh id.
SkHasBuildNever(s) == FALSE

\* The id of a build is made of the id of its row.
SkHasBuild(s) == skBuild[s] # "absent"

\* apply_plan: the build is queued before the task moves and the row names it.
SkApply ==
    LET s == skAt["night"].s
        kind == skPlan[s].kind
        dropped == skTask[s] \in {"done", "rejected"} IN
    /\ skAt["night"].at = "apply"
    /\ skPlan' = IF dropped THEN [skPlan EXCEPT ![s].st = "superseded"] ELSE skPlan
    /\ IF ~dropped /\ kind = "local" /\ ~SkHasBuild(s)
       THEN skBuild' = [skBuild EXCEPT ![s] = "queued"] /\ skMade' = [skMade EXCEPT ![s].build = @ + 1]
       ELSE UNCHANGED <<skBuild, skMade>>
    /\ IF dropped THEN SkGo("night", skAt["night"].loop)
       ELSE IF kind = "other" THEN SkTransition("night", s, "blocked", "wait")
       ELSE SkTransition("night", s, "active", "bind")
    /\ UNCHANGED <<skTask, skSearch, skWarm, skTold, skListed, skFault>>

-----------------------------------------------------------------------------
(* Around the two processes *)

SkLearn ==
    \E s \in SkSkills :
      /\ skTask[s] = "absent" /\ \A r \in 1..(s - 1) : skTask[r] # "absent"
      /\ skTask' = [skTask EXCEPT ![s] = "new"]
      /\ UNCHANGED <<skMade, skSearch, skPlan, skWarm, skTold, skAt, skOutside>>

\* The coding worker ends a build: its functions are tested and listed, or it
\* failed or shows no more than source code.
SkBuilds ==
    \E s \in SkSkills, end \in {"bad", "good"} :
      /\ skBuild[s] = "queued"
      /\ skBuild' = [skBuild EXCEPT ![s] = end]
      /\ skListed' = IF end = "good" THEN skListed \cup {s} ELSE skListed
      /\ UNCHANGED <<skTask, skMade, skSearch, skPlan, skWarm, skTold, skAt, skFault>>

\* The catalogue holds a few functions: newer ones push old ones out.
SkCrowd ==
    \E s \in skListed :
      /\ skFault > 0 /\ skFault' = skFault - 1
      /\ skListed' = skListed \ {s}
      /\ UNCHANGED <<skTask, skMade, skSearch, skPlan, skBuild, skWarm, skTold, skAt>>

SkDay ==
    /\ skWarm # {} /\ skWarm' = {}
    /\ UNCHANGED <<skTask, skMade, skSearch, skPlan, skTold, skAt, skOutside>>

\* A process dies, or the night meets the lock of the worker and ends there.
SkCrash(p) ==
    /\ skAt[p] # SkIdle /\ skFault > 0
    /\ skFault' = skFault - 1
    /\ SkStop(p)
    /\ UNCHANGED <<skTask, skMade, skSearch, skPlan, skWarm, skTold, skBuild, skListed>>

SkOwner ==
    \E s \in SkSkills, to \in {"planned", "active", "review", "blocked", "waiting", "rejected"} :
      /\ skFault > 0 /\ skFault' = skFault - 1
      /\ \/ <<skTask[s], to>> \in SkValid
         \/ skTask[s] \in {"done", "rejected"} /\ to = "planned"
      /\ skTask' = [skTask EXCEPT ![s] = to]
      /\ UNCHANGED <<skMade, skSearch, skPlan, skWarm, skTold, skAt, skBuild, skListed>>
-----------------------------------------------------------------------------
SkTurn(p) ==
    SkStep(p) \/ SkReconcile(p) \/ SkEach(p) \/ SkTell(p) \/ SkSettle(p) \/ SkRelease(p)
SkNightly ==
    \/ SkNight \/ SkReady \/ SkPickSearch(FALSE) \/ SkPickSearch(TRUE) \/ SkChild \/ SkRow
    \/ SkCatalog(TRUE) \/ SkReport \/ SkSearched \/ SkPending \/ SkPickPlan \/ SkDecide(TRUE) \/ SkApply

SkNext ==
    \/ SkNightly \/ SkCatalog(FALSE) \/ SkDecide(FALSE)
    \/ \E p \in SkProcs : SkTurn(p) \/ SkCrash(p)
    \/ SkLearn \/ SkBuilds \/ SkCrowd \/ SkDay \/ SkOwner

\* Timers start a night every day and the worker every minute, which then holds
\* the lock for a moment: a night does not meet it for ever.
SkFairness ==
    /\ WF_skVars(SkNightly \/ SkTurn("night")) /\ WF_skVars(SkTurn("worker"))
    /\ SF_skVars(SkReconcile("night"))
    /\ WF_skVars(SkBuilds) /\ WF_skVars(SkDay)

SkSpec == SkInit /\ [][SkNext]_skVars /\ SkFairness
-----------------------------------------------------------------------------
SkTypeOK ==
    /\ \A s \in SkSkills :
         /\ skPlan[s].st \in {"absent", "retry", "prepared", "building", "waiting", "done", "superseded"}
         /\ skPlan[s].kind \in {"none", "local", "other", "reuse"} /\ skPlan[s].bound \in BOOLEAN
         /\ skSearch[s] \in {"absent", "searching", "retry", "ready", "done"}
         /\ skBuild[s] \in {"absent", "queued", "bad", "good"}
    /\ skListed \subseteq SkSkills /\ skTold \subseteq {"found", "available"} \X SkSkills
    /\ \A p \in SkProcs : skAt[p].left \subseteq SkSkills /\ skAt[p].lock \in {"", "pending", "idle"}
    /\ skFault \in 0..SkFaults

\* Over crashes, retries and nights that meet the worker, a skill gets one search
\* task and one build, and neither if a message already started a build.
SkOnce ==
    \A s \in SkSkills :
      /\ skMade[s].search <= 1 /\ skMade[s].build <= 1
      /\ s \in SkReused => skMade[s] = [search |-> 0, build |-> 0]

\* A skill is closed, and called available, only over a build that works, and a
\* row is finished only after the owner was told.
SkHonest ==
    \A s \in SkSkills :
      /\ skTask[s] = "done" \/ <<"available", s>> \in skTold => skBuild[s] = "good"
      /\ skPlan[s].st = "done" => <<"available", s>> \in skTold
      /\ <<"found", s>> \in skTold => skSearch[s] \in {"ready", "done"}

\* A skill gets one search and one build, and is closed and called available only
\* over a build that works.
SkSafe == SkTypeOK /\ SkOnce /\ SkHonest

\* transition has no way from a task that waits for the owner, refuses one in
\* review that must not end, and stops the process at it, night after night.
SkHeld == \E s \in SkSkills : skTask[s] \in {"waiting", "review"}

\* Rows that wait are decided again every day, in the order the skills were
\* learned, and use up the decisions of a night.
SkCrowded == Cardinality({s \in SkSkills : skPlan[s].st \in {"waiting", "retry"}}) >= SkTries

\* Unless a task is held, every skill is decided on if older ones leave a decision
\* for it, what was decided is carried out, and a build that works and is in the
\* catalogue closes its skill.
SkSettles ==
    []<>(\/ SkHeld
         \/ \A s \in SkSkills :
              /\ skTask[s] \in {"new", "planned"} => skPlan[s].st # "absent" \/ SkCrowded
              /\ skPlan[s].st # "prepared"
              /\ skPlan[s].bound /\ skBuild[s] = "good" /\ s \in skListed =>
                   skPlan[s].st \in {"done", "superseded"})
=============================================================================
