-------------------------------- MODULE Chat --------------------------------
(***************************************************************************)
(* One chat conversation (chat_api.py) and the owner commands given in it  *)
(* (ActionRunner of chat_actions.py).  A message that may be a command is  *)
(* routed and applied by a thread of the server; any other becomes a model *)
(* job of the work queue.  Every request of the page first recovers the    *)
(* messages that a crash left without job or thread.                       *)
(*                                                                         *)
(* The context of a prompt is the set of turns it includes: what was asked *)
(* and what was answered.                                                  *)
(***************************************************************************)
EXTENDS Integers

CONSTANTS
    ChatRequests,  \* messages of the owner, one request UUID each
    ChatCommands,  \* those for which may_be_action holds
    ChatClients,   \* requests of the page that preview and submit
    ChatPage,      \* the page's own poll
    ChatFaults     \* bound: crashes and full queues

ASSUME ChatAssumption ==
    /\ ChatCommands \subseteq ChatRequests /\ ChatPage \notin ChatClients
    /\ ChatFaults \in Nat

VARIABLES
    chatMsg,      \* the assistant rows of chat_messages
    chatShown,    \* the context the owner's last preview of a message showed
    chatJob,      \* the work job of a message
    chatAct,      \* chat_actions, with the age of the row
    chatRun,      \* the thread that executes a command
    chatApplied,  \* how often a command was applied
    chatCall,     \* the requests of the page
    chatFaults

chatVars == <<chatMsg, chatShown, chatJob, chatAct, chatRun, chatApplied, chatCall, chatFaults>>

ChatCallers == ChatClients \cup {ChatPage}
ChatContext == [asked : SUBSET ChatRequests, answered : SUBSET ChatRequests]
ChatNothing == [asked |-> {}, answered |-> {}]
ChatUnsent == [st |-> "none", job |-> FALSE, prompt |-> ChatNothing, approved |-> ChatNothing]

\* A request of the page: what it is for, which rows it still has to recover,
\* the row it has just enqueued, and the context the owner approved.
ChatCalls(pc, goal, r, todo, approved) ==
    [pc |-> pc, goal |-> goal, r |-> r, todo |-> todo, at |-> {}, approved |-> approved]
ChatFree == ChatCalls("idle", "poll", {}, {}, ChatNothing)

ChatTypeOK ==
    /\ chatMsg \in [ChatRequests ->
          [st : {"none", "pending", "complete", "unknown", "error"}, job : BOOLEAN,
           prompt : ChatContext, approved : ChatContext]]
    /\ chatShown \in [ChatRequests -> ChatContext]
    /\ chatJob \in [ChatRequests -> {"none", "queued", "succeeded", "failed", "unknown"}]
    /\ chatAct \in [ChatRequests ->
          [st : {"none", "routing", "applying", "complete", "error", "unknown"}, old : BOOLEAN]]
    /\ chatRun \in [ChatRequests -> {"none", "route", "apply", "complete", "error"}]
    /\ chatApplied \in [ChatRequests -> 0..2]
    /\ chatCall \in [ChatCallers ->
          [pc : {"idle", "orphans", "recover", "bind", "insert"},
           goal : {"poll", "preview", "submit", "replay"},
           r : SUBSET ChatRequests, todo : SUBSET ChatRequests, at : SUBSET ChatRequests,
           approved : ChatContext]]
    /\ chatFaults \in 0..ChatFaults

ChatInit ==
    /\ chatMsg = [r \in ChatRequests |-> ChatUnsent]
    /\ chatShown = [r \in ChatRequests |-> ChatNothing]
    /\ chatJob = [r \in ChatRequests |-> "none"]
    /\ chatAct = [r \in ChatRequests |-> [st |-> "none", old |-> FALSE]]
    /\ chatRun = [r \in ChatRequests |-> "none"]
    /\ chatApplied = [r \in ChatRequests |-> 0]
    /\ chatCall = [c \in ChatCallers |-> ChatFree]
    /\ chatFaults = 0

ChatSent == {r \in ChatRequests : chatMsg[r].st # "none"}

\* _included: the turns a prompt for a next message would hold.
ChatTurns(msg) ==
    [asked |-> {r \in ChatRequests : msg[r].st # "none"},
     answered |-> {r \in ChatRequests : msg[r].st = "complete"}]

\* _refresh: the status of a message with a job follows the job.
ChatRefreshed ==
    [r \in ChatRequests |->
        IF chatMsg[r].job
        THEN [chatMsg[r] EXCEPT !.st = CASE chatJob[r] = "succeeded" -> "complete"
                                         [] chatJob[r] = "unknown"   -> "unknown"
                                         [] chatJob[r] = "failed"    -> "error"
                                         [] OTHER                    -> "pending"]
        ELSE chatMsg[r]]

\* Mutant: a command whose thread died is not looked at again.
ChatOrphanRowsJobs == {r \in ChatSent \ ChatCommands : ~chatMsg[r].job}

\* _recover_orphans: the rows without a job; of the commands only those that
\* are pending are started.
ChatOrphanRows ==
    {r \in ChatSent : IF r \in ChatCommands THEN chatMsg[r].st = "pending" ELSE ~chatMsg[r].job}

ChatStep(c, pc, todo) == chatCall' = [chatCall EXCEPT ![c].pc = pc, ![c].todo = todo]
ChatEnd(c) == chatCall' = [chatCall EXCEPT ![c] = ChatFree]
ChatFault == chatFaults < ChatFaults /\ chatFaults' = chatFaults + 1

-----------------------------------------------------------------------------
(* The requests of the page. *)

ChatPolls ==
    /\ chatCall[ChatPage].pc = "idle"
    /\ chatCall' = [chatCall EXCEPT ![ChatPage].pc = "orphans"]
    /\ UNCHANGED <<chatMsg, chatShown, chatJob, chatAct, chatRun, chatApplied, chatFaults>>

ChatAsks(c, r) ==
    /\ chatCall[c].pc = "idle" /\ r \notin ChatSent
    /\ chatCall' = [chatCall EXCEPT ![c] =
          ChatCalls("orphans", "preview", {r}, {}, ChatNothing)]
    /\ UNCHANGED <<chatMsg, chatShown, chatJob, chatAct, chatRun, chatApplied, chatFaults>>

\* submit, perhaps again: a message that exists is only recovered.
ChatSubmits(c, r) ==
    /\ chatCall[c].pc = "idle"
    /\ chatCall' = [chatCall EXCEPT ![c] =
          IF r \in ChatSent
          THEN ChatCalls("recover", "replay", {r}, {r} \cap ChatOrphanRows, ChatNothing)
          ELSE ChatCalls("orphans", "submit", {r}, {}, chatShown[r])]
    /\ UNCHANGED <<chatMsg, chatShown, chatJob, chatAct, chatRun, chatApplied, chatFaults>>

ChatOrphans(c) ==
    /\ chatCall[c].pc = "orphans"
    /\ ChatStep(c, "recover", ChatOrphanRows)
    /\ UNCHANGED <<chatMsg, chatShown, chatJob, chatAct, chatRun, chatApplied, chatFaults>>

\* Mutant: every start of a command starts a thread.
ChatStartableAny(r) == TRUE

\* The row is queued by the first start only.
ChatStartable(r) == chatAct[r].st = "none"

\* ActionRunner.start: the first call starts the thread; a later one that
\* finds the row silent for five minutes calls the outcome unknown.
ChatStart(c, r) ==
    /\ chatCall[c].pc = "recover" /\ r \in chatCall[c].todo \cap ChatCommands
    /\ \/ /\ ChatStartable(r) /\ chatRun[r] = "none"
          /\ chatAct' = [chatAct EXCEPT ![r] = [st |-> "routing", old |-> FALSE]]
          /\ chatRun' = [chatRun EXCEPT ![r] = "route"]
          /\ UNCHANGED chatMsg
       \/ /\ chatAct[r].st \in {"routing", "applying"} /\ chatAct[r].old
          /\ chatAct' = [chatAct EXCEPT ![r].st = "unknown"]
          /\ chatMsg' = [chatMsg EXCEPT ![r].st = "unknown"]
          /\ UNCHANGED chatRun
       \/ /\ ~ChatStartable(r)
          /\ ~(chatAct[r].st \in {"routing", "applying"} /\ chatAct[r].old)
          /\ UNCHANGED <<chatAct, chatRun, chatMsg>>
    /\ ChatStep(c, "recover", chatCall[c].todo \ {r})
    /\ UNCHANGED <<chatShown, chatJob, chatApplied, chatFaults>>

\* enqueue is idempotent by the request id.
ChatEnqueue(c, r) ==
    /\ chatCall[c].pc = "recover" /\ r \in chatCall[c].todo \ ChatCommands
    /\ chatJob' = [chatJob EXCEPT ![r] = IF @ = "none" THEN "queued" ELSE @]
    /\ chatCall' = [chatCall EXCEPT ![c].pc = "bind", ![c].at = {r}]
    /\ UNCHANGED <<chatMsg, chatShown, chatAct, chatRun, chatApplied, chatFaults>>

\* The queue is full: the whole request fails.
ChatQueueFull(c) ==
    /\ chatCall[c].pc = "recover" /\ chatCall[c].todo \ ChatCommands # {}
    /\ ChatFault /\ ChatEnd(c)
    /\ UNCHANGED <<chatMsg, chatShown, chatJob, chatAct, chatRun, chatApplied>>

\* The job is bound; a status that was refreshed meanwhile is overwritten.
ChatBind(c, r) ==
    /\ chatCall[c].pc = "bind" /\ r \in chatCall[c].at
    /\ chatMsg' = [chatMsg EXCEPT ![r].job = TRUE, ![r].st = "pending"]
    /\ chatCall' = [chatCall EXCEPT ![c].pc = "recover", ![c].at = {}, ![c].todo = @ \ {r}]
    /\ UNCHANGED <<chatShown, chatJob, chatAct, chatRun, chatApplied, chatFaults>>

\* Nothing is left to recover: the rows are refreshed, and the request does
\* what it came for.
ChatRefresh(c) ==
    /\ chatCall[c].pc = "recover" /\ chatCall[c].todo = {}
    /\ chatMsg' = IF chatCall[c].goal = "replay" THEN chatMsg ELSE ChatRefreshed
    /\ chatShown' = [r \in ChatRequests |->
          IF chatCall[c].goal = "preview" /\ r \in chatCall[c].r
          THEN ChatTurns(ChatRefreshed) ELSE chatShown[r]]
    /\ IF chatCall[c].goal = "submit" THEN ChatStep(c, "insert", {}) ELSE ChatEnd(c)
    /\ UNCHANGED <<chatJob, chatAct, chatRun, chatApplied, chatFaults>>

\* The prompt built now is the approved one.
ChatUnchanged(c) == ChatTurns(chatMsg) = chatCall[c].approved

\* submit's immediate transaction: the message may exist by now, or the
\* preview may be stale.
ChatInsert(c) ==
    \E r \in chatCall[c].r :
        /\ chatCall[c].pc = "insert"
        /\ \/ /\ r \notin ChatSent /\ ChatUnchanged(c)
              /\ chatMsg' = [chatMsg EXCEPT ![r] =
                    [st |-> "pending", job |-> FALSE, prompt |-> ChatTurns(chatMsg),
                     approved |-> chatCall[c].approved]]
              /\ chatCall' = [chatCall EXCEPT ![c].pc = "recover", ![c].goal = "replay", ![c].todo = {r}]
           \/ /\ r \in ChatSent
              /\ chatCall' = [chatCall EXCEPT ![c].pc = "recover", ![c].goal = "replay",
                                              ![c].todo = {r} \cap ChatOrphanRows]
              /\ UNCHANGED chatMsg
           \/ /\ r \notin ChatSent /\ ~ChatUnchanged(c)
              /\ ChatEnd(c)
              /\ UNCHANGED chatMsg
        /\ UNCHANGED <<chatShown, chatJob, chatAct, chatRun, chatApplied, chatFaults>>

-----------------------------------------------------------------------------
(* ActionRunner.execute, and the world. *)

\* The command is routed and its authority checked; the row is written whatever
\* it says by now.
ChatRoute(r) ==
    /\ chatRun[r] = "route"
    /\ \/ /\ chatRun' = [chatRun EXCEPT ![r] = "apply"]
          /\ chatAct' = [chatAct EXCEPT ![r] = [st |-> "applying", old |-> FALSE]]
       \/ /\ chatRun' = [chatRun EXCEPT ![r] = "error"]
          /\ UNCHANGED chatAct
    /\ UNCHANGED <<chatMsg, chatShown, chatJob, chatApplied, chatCall, chatFaults>>

\* apply does it, or fails before or after it had an effect.
ChatApply(r) ==
    /\ chatRun[r] = "apply"
    /\ \/ /\ chatApplied' = [chatApplied EXCEPT ![r] = @ + 1]
          /\ chatRun' \in {[chatRun EXCEPT ![r] = st] : st \in {"complete", "error"}}
       \/ /\ chatRun' = [chatRun EXCEPT ![r] = "error"]
          /\ UNCHANGED chatApplied
    /\ UNCHANGED <<chatMsg, chatShown, chatJob, chatAct, chatCall, chatFaults>>

ChatReport(r) ==
    /\ chatRun[r] \in {"complete", "error"}
    /\ chatAct' = [chatAct EXCEPT ![r] = [st |-> chatRun[r], old |-> FALSE]]
    /\ chatMsg' = [chatMsg EXCEPT ![r].st = chatRun[r]]
    /\ chatRun' = [chatRun EXCEPT ![r] = "none"]
    /\ UNCHANGED <<chatShown, chatJob, chatApplied, chatCall, chatFaults>>

\* Five minutes pass without an update of the row.
ChatAges(r) ==
    /\ chatAct[r].st \in {"routing", "applying"} /\ ~chatAct[r].old
    /\ chatAct' = [chatAct EXCEPT ![r].old = TRUE]
    /\ UNCHANGED <<chatMsg, chatShown, chatJob, chatRun, chatApplied, chatCall, chatFaults>>

ChatJobEnds(r) ==
    /\ chatJob[r] = "queued"
    /\ \E st \in {"succeeded", "failed", "unknown"} : chatJob' = [chatJob EXCEPT ![r] = st]
    /\ UNCHANGED <<chatMsg, chatShown, chatAct, chatRun, chatApplied, chatCall, chatFaults>>

\* The server dies with all its threads.
ChatCrash ==
    /\ ChatFault
    /\ chatRun' = [r \in ChatRequests |-> "none"]
    /\ chatCall' = [c \in ChatCallers |-> ChatFree]
    /\ UNCHANGED <<chatMsg, chatShown, chatJob, chatAct, chatApplied>>

ChatHandles(c) ==
    \/ ChatOrphans(c) \/ ChatQueueFull(c) \/ ChatRefresh(c) \/ ChatInsert(c)
    \/ \E r \in ChatRequests : ChatStart(c, r) \/ ChatEnqueue(c, r) \/ ChatBind(c, r)

ChatNext ==
    \/ ChatPolls \/ ChatCrash
    \/ \E c \in ChatClients, r \in ChatRequests : ChatAsks(c, r) \/ ChatSubmits(c, r)
    \/ \E c \in ChatCallers : ChatHandles(c)
    \/ \E r \in ChatRequests :
          ChatRoute(r) \/ ChatApply(r) \/ ChatReport(r) \/ ChatAges(r) \/ ChatJobEnds(r)

ChatSpec == ChatInit /\ [][ChatNext]_chatVars

-----------------------------------------------------------------------------
\* A command of the owner is applied at most once, whoever starts it again:
\* a repeated submit, a poll, a recovery after a crash, or two at a time.
ChatAppliedOnce == \A r \in ChatRequests : chatApplied[r] <= 1

\* What a message's job will send is the context the owner approved, though
\* other messages were sent and answered since the preview.
ChatAsApproved == \A r \in ChatSent : chatMsg[r].prompt = chatMsg[r].approved

\* Every message that was sent is settled for good in the end: a crash, a full
\* queue and a late binding leave none pending while the page polls.
ChatSettles ==
    <>[](\A r \in ChatRequests : chatMsg[r].st # "pending")

\* A message does what the owner saw and no more: a command is applied at most
\* once, and a prompt holds the context that was approved.
ChatSafe == ChatTypeOK /\ ChatAppliedOnce /\ ChatAsApproved
=============================================================================
