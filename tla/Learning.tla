------------------------------ MODULE Learning ------------------------------
(***************************************************************************)
(* Nightly learning from conversations (conversation_learning.py).  The    *)
(* owner's new messages go to the local model in groups; what it finds is  *)
(* journalled as a batch before anything is made of it, then each item     *)
(* becomes a memory or a task, the owner is told and the messages are      *)
(* closed.  A run may die after any write and the next one resumes the     *)
(* journal.  Meanwhile the owner writes on, says things twice, and erases  *)
(* what was learned.  The runs exclude each other by a file lock, so there *)
(* is one process.  Messages are numbered in the order they were sent.     *)
(***************************************************************************)
EXTENDS Naturals, Sequences, FiniteSetsExt

CONSTANTS
    LrnMax,      \* bound: messages
    LrnItems,    \* what may be learned: kind and quote, whose digest is the source
    LrnPrefs,    \* those that are preferences; the others become tasks
    LrnSays,     \* the items each message states
    LrnPrivate,  \* messages with credentials
    LrnTake,     \* messages of one run
    LrnGroup,    \* messages of one question to the model
    LrnFaults,   \* bound: crashes, unusable answers, moves of the owner, weeks
    LrnNone      \* no item, and no counts yet

LrnMessages == 1..LrnMax

ASSUME LrnAssumption ==
    /\ LrnMax \in Nat /\ LrnTake \in Nat \ {0} /\ LrnGroup \in Nat \ {0}
    /\ LrnPrefs \subseteq LrnItems
    /\ LrnSays \in [LrnMessages -> SUBSET LrnItems]
    /\ LrnPrivate \subseteq LrnMessages
    /\ LrnFaults \in Nat /\ LrnNone \notin LrnItems \cup Nat

VARIABLES
    lrnSent,   \* how many messages the owner has sent
    lrnOld,    \* how many of them are older than seven days
    lrnSeen,   \* conversation_learning_messages
    lrnBatch,  \* conversation_learning_batches, in order
    lrnMade,   \* how often an item was made a memory or a task
    lrnLive,   \* learned memories that are not deleted
    lrnOwn,    \* memories of the same words that the owner made himself
    lrnTold,   \* batches whose update was published
    lrnRun,    \* the run: where it is and its locals
    lrnFault
lrnVars == <<lrnSent, lrnOld, lrnSeen, lrnBatch, lrnMade, lrnLive, lrnOwn, lrnTold,
             lrnRun, lrnFault>>
lrnEvents == <<lrnSent, lrnOld, lrnFault>>
lrnFacts == <<lrnMade, lrnLive, lrnOwn>>
-----------------------------------------------------------------------------
LrnIdle == [at |-> "idle", b |-> 0, item |-> LrnNone, left |-> {}, created |-> 0,
            todo |-> {}]

LrnInit ==
    /\ lrnSent = 0 /\ lrnOld = 0
    /\ lrnSeen = {}
    /\ lrnBatch = <<>>
    /\ lrnMade = [i \in LrnItems |-> 0]
    /\ lrnLive = {}
    /\ lrnOwn = [i \in LrnItems |-> "never"]
    /\ lrnTold = {}
    /\ lrnRun = LrnIdle
    /\ lrnFault = LrnFaults

\* applied_summary is not in the payload yet.
LrnUncounted == LrnNone

\* A plausible slip: a batch is looked for again only once its counts are stored.
LrnPendingCounted ==
    {b \in DOMAIN lrnBatch : lrnBatch[b].status = "pending" /\ lrnBatch[b].summary # LrnUncounted}

LrnPending == {b \in DOMAIN lrnBatch : lrnBatch[b].status = "pending"}
-----------------------------------------------------------------------------
(* reflect: what an earlier run left is finished before new messages are read *)

\* apply begins with the items of the batch and empty counts.
LrnBegin(b, items, todo) ==
    lrnRun' = [LrnIdle EXCEPT !.at = "item", !.b = b, !.left = items, !.todo = todo]

LrnResume ==
    LET b == Min(LrnPending) IN
    /\ lrnRun = LrnIdle /\ LrnPending # {}
    /\ LrnBegin(b, lrnBatch[b].items, {})
    /\ UNCHANGED <<lrnEvents, lrnFacts, lrnSeen, lrnBatch, lrnTold>>

LrnNew == {m \in 1..lrnSent : m > lrnOld /\ m \notin lrnSeen}

\* The oldest n messages of a set.
LrnFirst(msgs, n) == {m \in msgs : Cardinality({k \in msgs : k <= m}) <= n}

LrnRows == LrnFirst(LrnNew, LrnTake)

\* The oldest messages of the week; those with credentials are closed at once.
LrnSelect ==
    LET ask == LrnRows \ LrnPrivate IN
    /\ lrnRun = LrnIdle /\ LrnPending = {} /\ LrnRows # {}
    /\ lrnSeen' = lrnSeen \cup (LrnRows \cap LrnPrivate)
    /\ lrnRun' = IF ask = {} THEN LrnIdle
                 ELSE [LrnIdle EXCEPT !.at = "ask", !.todo = ask]
    /\ UNCHANGED <<lrnEvents, lrnFacts, lrnBatch, lrnTold>>

\* The model quotes some of what a group says; the answer is journalled, under
\* a key that is made of the group.
LrnAnswer ==
    LET group == LrnFirst(lrnRun.todo, LrnGroup) IN
    /\ lrnRun.at = "ask"
    /\ \A b \in DOMAIN lrnBatch : lrnBatch[b].msgs # group
    /\ \E items \in SUBSET UNION {LrnSays[m] : m \in group} :
         /\ lrnBatch' = Append(lrnBatch, [msgs |-> group, items |-> items,
                                         status |-> "pending", summary |-> LrnUncounted])
         /\ LrnBegin(Len(lrnBatch) + 1, items, lrnRun.todo \ group)
    /\ UNCHANGED <<lrnEvents, lrnFacts, lrnSeen, lrnTold>>
-----------------------------------------------------------------------------
(* apply *)

\* A plausible slip: erased memories do not count as learned.
LrnIsNewLive(i) ==
    IF i \in LrnPrefs THEN i \notin lrnLive /\ lrnOwn[i] # "live" ELSE lrnMade[i] = 0

\* A source that was ever learned is not learned again, erased or not; a
\* preference is not either while the owner has it in the same words.
LrnIsNew(i) == lrnMade[i] = 0 /\ ~(i \in LrnPrefs /\ lrnOwn[i] = "live")

LrnSkip(i) ==
    /\ lrnRun.at = "item" /\ i \in lrnRun.left /\ ~LrnIsNew(i)
    /\ lrnRun' = [lrnRun EXCEPT !.left = @ \ {i}]
    /\ UNCHANGED <<lrnEvents, lrnFacts, lrnSeen, lrnBatch, lrnTold>>

\* What was looked for in one transaction is made in the next ones.
LrnLook(i) ==
    /\ lrnRun.at = "item" /\ i \in lrnRun.left /\ LrnIsNew(i)
    /\ lrnRun' = [lrnRun EXCEPT !.at = "make", !.left = @ \ {i}, !.item = i]
    /\ UNCHANGED <<lrnEvents, lrnFacts, lrnSeen, lrnBatch, lrnTold>>

LrnMake ==
    LET i == lrnRun.item IN
    /\ lrnRun.at = "make"
    /\ lrnMade' = [lrnMade EXCEPT ![i] = @ + 1]
    /\ lrnLive' = IF i \in LrnPrefs THEN lrnLive \cup {i} ELSE lrnLive
    /\ lrnRun' = [lrnRun EXCEPT !.at = "item", !.created = @ + 1, !.item = LrnNone]
    /\ UNCHANGED <<lrnEvents, lrnSeen, lrnBatch, lrnOwn, lrnTold>>

\* A plausible slip: every try tells its own counts.
LrnSummaryOwn(b) == lrnRun.created

\* The counts of the first try that comes this far are the ones that are told.
LrnSummary(b) == IF lrnBatch[b].summary = LrnUncounted THEN lrnRun.created ELSE lrnBatch[b].summary

LrnCount ==
    /\ lrnRun.at = "item" /\ lrnRun.left = {}
    /\ lrnBatch' = [lrnBatch EXCEPT ![lrnRun.b].summary = LrnSummary(lrnRun.b)]
    /\ lrnRun' = [lrnRun EXCEPT !.at = "tell"]
    /\ UNCHANGED <<lrnEvents, lrnFacts, lrnSeen, lrnTold>>

LrnTell ==
    /\ lrnRun.at = "tell"
    /\ lrnTold' = IF lrnBatch[lrnRun.b].summary > 0 THEN lrnTold \cup {lrnRun.b} ELSE lrnTold
    /\ lrnRun' = [lrnRun EXCEPT !.at = "close"]
    /\ UNCHANGED <<lrnEvents, lrnFacts, lrnSeen, lrnBatch>>

\* The messages and the batch are closed in one transaction.
LrnClose ==
    LET b == lrnRun.b IN
    /\ lrnRun.at = "close"
    /\ lrnSeen' = lrnSeen \cup lrnBatch[b].msgs
    /\ lrnBatch' = [lrnBatch EXCEPT ![b].status = "done"]
    /\ lrnRun' = IF lrnRun.todo = {} THEN LrnIdle
                 ELSE [LrnIdle EXCEPT !.at = "ask", !.todo = lrnRun.todo]
    /\ UNCHANGED <<lrnEvents, lrnFacts, lrnTold>>
-----------------------------------------------------------------------------
(* Around the run *)

\* It dies, or the model's answer is unusable and ends it.
LrnCrash ==
    /\ lrnRun # LrnIdle /\ lrnFault > 0
    /\ lrnRun' = LrnIdle /\ lrnFault' = lrnFault - 1
    /\ UNCHANGED <<lrnFacts, lrnSent, lrnOld, lrnSeen, lrnBatch, lrnTold>>

LrnSend ==
    /\ lrnSent < LrnMax /\ lrnSent' = lrnSent + 1
    /\ UNCHANGED <<lrnFacts, lrnOld, lrnSeen, lrnBatch, lrnTold, lrnRun, lrnFault>>

LrnAge ==
    /\ lrnOld < lrnSent /\ lrnFault > 0
    /\ lrnOld' = lrnOld + 1 /\ lrnFault' = lrnFault - 1
    /\ UNCHANGED <<lrnFacts, lrnSent, lrnSeen, lrnBatch, lrnTold, lrnRun>>

\* The owner erases a learned memory, or makes or erases one of his own.
LrnOwner(i) ==
    /\ i \in LrnPrefs /\ lrnFault > 0
    /\ lrnFault' = lrnFault - 1
    /\ \/ i \in lrnLive /\ lrnLive' = lrnLive \ {i} /\ UNCHANGED lrnOwn
       \/ lrnOwn[i] # "live" /\ lrnOwn' = [lrnOwn EXCEPT ![i] = "live"] /\ UNCHANGED lrnLive
       \/ lrnOwn[i] = "live" /\ lrnOwn' = [lrnOwn EXCEPT ![i] = "gone"] /\ UNCHANGED lrnLive
    /\ UNCHANGED <<lrnSent, lrnOld, lrnSeen, lrnBatch, lrnMade, lrnTold, lrnRun>>
-----------------------------------------------------------------------------
LrnRuns ==
    \/ LrnResume \/ LrnSelect \/ LrnAnswer \/ LrnMake \/ LrnCount \/ LrnTell \/ LrnClose
    \/ \E i \in LrnItems : LrnSkip(i) \/ LrnLook(i)

LrnNext == LrnRuns \/ LrnCrash \/ LrnSend \/ LrnAge \/ \E i \in LrnItems : LrnOwner(i)

\* The timer starts a run every night.
LrnSpec == LrnInit /\ [][LrnNext]_lrnVars /\ WF_lrnVars(LrnRuns)
-----------------------------------------------------------------------------
LrnTypeOK ==
    /\ lrnOld \in 0..lrnSent /\ lrnSent \in 0..LrnMax
    /\ lrnSeen \subseteq 1..lrnSent
    /\ lrnBatch \in Seq([msgs : SUBSET (1..lrnSent), items : SUBSET LrnItems,
                         status : {"pending", "done"}, summary : Nat \cup {LrnUncounted}])
    /\ lrnLive \subseteq {i \in LrnPrefs : lrnMade[i] > 0}
    /\ lrnRun.b \in {0} \cup DOMAIN lrnBatch

\* However often a batch is resumed, a thing is said or the owner erases what
\* was learned, an item becomes a memory or a task at most once: what the owner
\* erased does not come back.
LrnOnce == \A i \in LrnItems : lrnMade[i] <= 1

\* An answer that was journalled is final: no message is given to the model
\* again, and none with credentials ever is.
LrnAskedOnce ==
    /\ \A b, c \in DOMAIN lrnBatch : lrnBatch[b].msgs \cap lrnBatch[c].msgs # {} => b = c
    /\ \A b \in DOMAIN lrnBatch : lrnBatch[b].msgs \cap LrnPrivate = {}

\* A message is closed only with its batch; by then everything learned from it
\* exists or existed, and if the batch counted anything the owner was told.
LrnClosedIsDone ==
    /\ \A m \in lrnSeen \ LrnPrivate :
         \E b \in DOMAIN lrnBatch : m \in lrnBatch[b].msgs /\ lrnBatch[b].status = "done"
    /\ \A b \in DOMAIN lrnBatch \ LrnPending :
         /\ \A i \in lrnBatch[b].items :
              lrnMade[i] > 0 \/ (i \in LrnPrefs /\ lrnOwn[i] # "never")
         /\ lrnBatch[b].summary # 0 <=> b \in lrnTold

LrnSafe == LrnTypeOK /\ LrnOnce /\ LrnAskedOnce /\ LrnClosedIsDone

\* Again and again every message is closed or more than a week old.
LrnSettles == []<>(\A m \in 1..lrnSent : m \in lrnSeen \/ m <= lrnOld)
=============================================================================
