----------------------------- MODULE MCServices -----------------------------
(***************************************************************************)
(* The background services, one instance for TLC: the GPU lease, the       *)
(* thermal guard, the calendar writer, chat, the coding worker, the calls  *)
(* of generated functions, personal tasks, the learning from conversations *)
(* and what becomes of a learned skill.  They share no state that their    *)
(* properties speak of, so a behaviour follows one of them, chosen in the  *)
(* initial state, and leaves the others at rest.                           *)
(***************************************************************************)
EXTENDS GpuLease, ThermalGuard, CalendarWriter, Chat, CodeBuild, ToolCalls, PersonalTasks,
        Learning, Skills

VARIABLE focus

MCPriority == [p \in GpuProcs |-> IF p = "chat" THEN 0 ELSE 2]
MCSays == [m \in 1..LrnMax |-> IF m = 1 THEN LrnItems ELSE LrnPrefs]

MCServices == {"gpu", "therm", "cal", "chat", "build", "call", "task", "learn", "skill"}

MCRest(s) ==
    /\ IF s = "gpu" THEN TRUE ELSE UNCHANGED gpuVars
    /\ IF s = "therm" THEN TRUE ELSE UNCHANGED thermVars
    /\ IF s = "cal" THEN TRUE ELSE UNCHANGED calVars
    /\ IF s = "chat" THEN TRUE ELSE UNCHANGED chatVars
    /\ IF s = "build" THEN TRUE ELSE UNCHANGED cbVars
    /\ IF s = "call" THEN TRUE ELSE UNCHANGED tcVars
    /\ IF s = "task" THEN TRUE ELSE UNCHANGED ptVars
    /\ IF s = "learn" THEN TRUE ELSE UNCHANGED lrnVars
    /\ IF s = "skill" THEN TRUE ELSE UNCHANGED skVars

MCInit ==
    /\ focus \in MCServices
    /\ GpuInit /\ ThermInit /\ CalInit /\ ChatInit /\ CbInit /\ TcInit /\ PtInit /\ LrnInit /\ SkInit
    /\ focus # "therm" => thermUp      \* a service at rest has one initial state
    /\ focus # "cal" => calWritable

MCNext ==
    /\ UNCHANGED focus
    /\ \/ focus = "gpu" /\ GpuNext /\ MCRest("gpu")
       \/ focus = "therm" /\ ThermNext /\ MCRest("therm")
       \/ focus = "cal" /\ CalNext /\ MCRest("cal")
       \/ focus = "chat" /\ ChatNext /\ MCRest("chat")
       \/ focus = "build" /\ CbNext /\ MCRest("build")
       \/ focus = "call" /\ TcNext /\ MCRest("call")
       \/ focus = "task" /\ PtNext /\ MCRest("task")
       \/ focus = "learn" /\ LrnNext /\ MCRest("learn")
       \/ focus = "skill" /\ SkNext /\ MCRest("skill")

\* Each service is fair when the behaviour follows it.
MCFairness ==
    /\ \A p \in GpuProcs : WF_gpuVars(focus = "gpu" /\ GpuProgress(p))
    /\ \A p \in GpuUsers : WF_gpuVars(focus = "gpu" /\ GpuRelease(p))
    /\ \A c \in GpuCoders : WF_gpuVars(focus = "gpu" /\ GpuCoderCheck(c))
    /\ \A q \in GpuProbers : WF_gpuVars(focus = "gpu" /\ GpuProbed(q))
    /\ WF_gpuVars(focus = "gpu" /\ GpuTick)
    /\ WF_thermVars(focus = "therm" /\ ThermRuns)
    /\ WF_calVars(focus = "cal" /\ CalReconcile)
    /\ SF_calVars(focus = "cal" /\ \E r \in CalRequests : CalPickWaiting(r))
    /\ \A p \in CalThreads : WF_calVars(focus = "cal" /\ CalWithin(p))
    /\ WF_chatVars(focus = "chat" /\ ChatPolls)
    /\ \A c \in ChatCallers : WF_chatVars(focus = "chat" /\ ChatHandles(c))
    /\ \A r \in ChatRequests :
         /\ WF_chatVars(focus = "chat" /\ ChatRoute(r))
         /\ WF_chatVars(focus = "chat" /\ ChatApply(r))
         /\ WF_chatVars(focus = "chat" /\ ChatReport(r))
         /\ WF_chatVars(focus = "chat" /\ ChatAges(r))
         /\ WF_chatVars(focus = "chat" /\ ChatJobEnds(r))
    /\ WF_cbVars(focus = "build" /\ CbWorker)
    /\ WF_tcVars(focus = "call" /\ TcWorker)
    /\ WF_ptVars(focus = "task" /\ PtReconcile)
    /\ WF_lrnVars(focus = "learn" /\ LrnRuns)
    /\ WF_skVars(focus = "skill" /\ (SkNightly \/ SkTurn("night")))
    /\ WF_skVars(focus = "skill" /\ SkTurn("worker"))
    /\ SF_skVars(focus = "skill" /\ SkReconcile("night"))
    /\ WF_skVars(focus = "skill" /\ SkBuilds)
    /\ WF_skVars(focus = "skill" /\ SkDay)

MCSpec ==
    /\ MCInit
    /\ [][MCNext]_<<focus, gpuVars, thermVars, calVars, chatVars, cbVars, tcVars, ptVars,
                   lrnVars, skVars>>
    /\ MCFairness

\* What is asked of a service comes to an end and is reported: incidents of the
\* guard, calendar commands, messages of the chat, builds, function calls,
\* personal tasks, what was learned in a night and the skills among it, over
\* crashes, full queues, lost answers and GPU yields.
ServicesSettle ==
    ThermReported /\ CalDelivers /\ ChatSettles /\ CbSettles /\ TcSettles /\ PtDelivers
    /\ LrnSettles /\ SkSettles
=============================================================================
