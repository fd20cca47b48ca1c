---------------------------- MODULE ThermalGuard ----------------------------
(***************************************************************************)
(* The thermal guard of the GPU (thermal_guard.py).  A single process      *)
(* samples the temperature, stops the local model service when the card is *)
(* hot or unreadable, starts it again after a sustained cool period if the *)
(* guard was the one that stopped it, publishes its state in a file that   *)
(* the workers read, and tells the owner what happened.                    *)
(*                                                                         *)
(* A step issues its service commands first and replaces the file last: a  *)
(* crash in between loses what the step decided.  Notifying takes several  *)
(* transactions and may fail after any of them; the event then stays       *)
(* pending, in memory and in the file, and is tried again.                 *)
(***************************************************************************)
EXTENDS Integers, FiniteSets

CONSTANTS
    ThermCool,       \* the 30 s of cool samples before the restart, in ticks
    ThermIncidents,  \* bound: incidents of a behaviour
    ThermFaults      \* bound: crashes, failed commands, failed notifications

ASSUME ThermAssumption ==
    ThermCool \in Nat \ {0} /\ ThermIncidents \in Nat \ {0} /\ ThermFaults \in Nat

VARIABLES
    thermMem,      \* the Guard object
    thermFile,     \* the state file
    thermPc,       \* where the guard is; "down": not running
    thermUp,       \* is the model service active
    thermIncident, \* uuids drawn for incidents
    thermTask,     \* thermal_incidents and the status of the task
    thermSaid,     \* events published to the owner (owner_updates)
    thermCalm,     \* ticks since the last sample that was not cool
    thermStopped,  \* did the guard stop the service in this incident
    thermFaults    \* faults so far

thermVars == <<thermMem, thermFile, thermPc, thermUp, thermIncident, thermTask,
               thermSaid, thermCalm, thermStopped, thermFaults>>

\* A sample: at the limit or above, between, 9 degrees below, or unreadable.
ThermSamples == {"hot", "warm", "cool", "none"}
ThermIds     == 1..ThermIncidents
ThermEvents  == [phase : {"trip", "recovered"}, incident : ThermIds]
ThermQuiet   == [phase |-> "none", incident |-> 0]

ThermMem == [cooling : BOOLEAN, owed : BOOLEAN, incident : 0..ThermIncidents,
             event : ThermEvents \cup {ThermQuiet}, since : (-1)..ThermCool]
ThermFile == [status : {"ready", "cooling"}, owed : BOOLEAN,
              incident : 0..ThermIncidents,
              event : ThermEvents \cup {ThermQuiet}]

ThermTypeOK ==
    /\ thermMem \in ThermMem /\ thermFile \in ThermFile
    /\ thermPc \in {"down", "sample", "write", "notify", "tell"}
    /\ thermUp \in BOOLEAN /\ thermStopped \in BOOLEAN
    /\ thermIncident \in 0..ThermIncidents
    /\ thermTask \in [ThermIds -> {"none", "active", "blocked", "done"}]
    /\ thermSaid \subseteq ThermEvents
    /\ thermCalm \in 0..ThermCool
    /\ thermFaults \in 0..ThermFaults

\* Guard.__init__: only an unfinished incident is taken over.
ThermLoaded(file) ==
    [cooling |-> file.status = "cooling",
     owed |-> file.status = "cooling" /\ file.owed,
     incident |-> IF file.status = "cooling" THEN file.incident ELSE 0,
     event |-> file.event, since |-> -1]

ThermFirst == [status |-> "ready", owed |-> FALSE, incident |-> 0,
               event |-> ThermQuiet]

ThermInit ==
    /\ thermFile = ThermFirst
    /\ thermMem = ThermLoaded(ThermFirst)
    /\ thermPc = "sample" /\ thermUp \in BOOLEAN
    /\ thermIncident = 0 /\ thermTask = [i \in ThermIds |-> "none"]
    /\ thermSaid = {} /\ thermCalm = 0
    /\ thermStopped = FALSE /\ thermFaults = 0

ThermFault == thermFaults < ThermFaults /\ thermFaults' = thermFaults + 1

\* systemctl stop of an active service.  It may also time out, whether or
\* not the service stops; and is-active may time out and read as inactive.
ThermStop(confirmed) ==
    \/ thermUp /\ thermUp' = FALSE /\ confirmed /\ UNCHANGED thermFaults
    \/ ~thermUp /\ thermUp' = FALSE /\ ~confirmed /\ UNCHANGED thermFaults
    \/ thermUp /\ thermUp' \in BOOLEAN /\ ~confirmed /\ ThermFault

\* Mutant: a warm sample does not interrupt the cool period.
ThermSinceKept(since, temp) == IF since = -1 /\ temp = "cool" THEN 0 ELSE since

\* cool_since after a sample of a cooling card (-1: None).
ThermSince(since, temp) ==
    IF temp = "warm" THEN -1 ELSE IF since = -1 THEN 0 ELSE since

ThermRecovered(mem) ==
    [mem EXCEPT !.cooling = FALSE, !.owed = FALSE,
                !.event = [phase |-> "recovered", incident |-> mem.incident]]

\* step with a hot or unreadable card.
ThermTrip(temp) ==
    LET new == ~thermMem.cooling
        id  == IF new THEN thermIncident + 1 ELSE thermMem.incident
    IN
    /\ thermPc = "sample" /\ temp \in {"hot", "none"}
    /\ new => thermIncident < ThermIncidents
    /\ \E confirmed \in BOOLEAN :
        /\ ThermStop(confirmed)
        /\ thermStopped' = (confirmed \/ (thermStopped /\ ~new))
        /\ thermMem' = [cooling |-> TRUE, owed |-> thermMem.owed \/ confirmed,
                        incident |-> id, since |-> -1,
                        event |-> IF new THEN [phase |-> "trip", incident |-> id]
                                  ELSE thermMem.event]
    /\ thermIncident' = IF new THEN id ELSE thermIncident
    /\ thermCalm' = 0 /\ thermPc' = "write"
    /\ UNCHANGED <<thermFile, thermTask, thermSaid>>

\* step with a card that is not hot, unless the cool period is over.
ThermWait(temp) ==
    /\ thermPc = "sample" /\ temp \in {"warm", "cool"}
    /\ ~(thermMem.cooling /\ temp = "cool" /\ thermMem.since = ThermCool)
    /\ thermMem' = IF thermMem.cooling
                   THEN [thermMem EXCEPT !.since = ThermSince(@, temp)]
                   ELSE thermMem
    /\ thermCalm' = IF temp = "warm" THEN 0 ELSE thermCalm
    /\ thermPc' = "write"
    /\ UNCHANGED <<thermFile, thermUp, thermIncident, thermTask, thermSaid,
                   thermStopped, thermFaults>>

\* The cool period is over: an owed restart is done and confirmed; or it is
\* not confirmed, and the guard stays cooling and tries again.
ThermRecover ==
    /\ thermPc = "sample" /\ thermMem.cooling /\ thermMem.since = ThermCool
    /\ \/ /\ thermMem' = ThermRecovered(thermMem)
          /\ thermUp' = (thermUp \/ thermMem.owed)
          /\ UNCHANGED thermFaults
       \/ /\ thermMem.owed /\ ThermFault
          /\ thermUp' \in {thermUp, TRUE}
          /\ UNCHANGED thermMem
    /\ thermPc' = "write"
    /\ UNCHANGED <<thermFile, thermIncident, thermTask, thermSaid, thermCalm,
                   thermStopped>>

\* The file is replaced.
ThermWrite ==
    /\ thermPc = "write"
    /\ thermFile' = [status |-> IF thermMem.cooling THEN "cooling" ELSE "ready",
                     owed |-> thermMem.owed, incident |-> thermMem.incident,
                     event |-> thermMem.event]
    /\ thermPc' = IF thermMem.event = ThermQuiet THEN "sample" ELSE "notify"
    /\ UNCHANGED <<thermMem, thermUp, thermIncident, thermTask, thermSaid,
                   thermCalm, thermStopped, thermFaults>>

\* notify finds or makes the task of the incident and moves it: a trip blocks
\* an active task, a recovery finishes it whatever step it had reached.
ThermNotify ==
    LET event == thermMem.event
        old   == thermTask[event.incident]
    IN
    /\ thermPc = "notify"
    /\ thermTask' = [thermTask EXCEPT ![event.incident] =
          CASE event.phase = "recovered"                          -> "done"
            [] event.phase = "trip" /\ old \in {"none", "active"} -> "blocked"
            [] OTHER                                              -> old]
    /\ thermPc' = "tell"
    /\ UNCHANGED <<thermMem, thermFile, thermUp, thermIncident, thermSaid,
                   thermCalm, thermStopped, thermFaults>>

\* publish, which says an event once, and the event is no longer pending.
ThermTell ==
    /\ thermPc = "tell"
    /\ thermSaid' = thermSaid \cup {thermMem.event}
    /\ thermMem' = [thermMem EXCEPT !.event = ThermQuiet]
    /\ thermPc' = "sample"
    /\ UNCHANGED <<thermFile, thermUp, thermIncident, thermTask, thermCalm,
                   thermStopped, thermFaults>>

\* The notification fails, before or after the task was moved; perhaps the
\* task exists and is active, but was not moved.
ThermNotifyFails ==
    /\ thermPc \in {"notify", "tell"}
    /\ ThermFault
    /\ \/ UNCHANGED thermTask
       \/ /\ thermPc = "notify"
          /\ thermTask[thermMem.event.incident] \in
                IF thermMem.event.phase = "trip" THEN {"none"} ELSE {"none", "blocked"}
          /\ thermTask' = [thermTask EXCEPT ![thermMem.event.incident] = "active"]
    /\ thermPc' = "sample"
    /\ UNCHANGED <<thermMem, thermFile, thermUp, thermIncident, thermSaid,
                   thermCalm, thermStopped>>

\* The guard dies; systemd starts it again.
ThermCrash ==
    /\ thermPc # "down" /\ ThermFault
    /\ thermPc' = "down"
    /\ UNCHANGED <<thermMem, thermFile, thermUp, thermIncident, thermTask,
                   thermSaid, thermCalm, thermStopped>>

ThermStart ==
    /\ thermPc = "down"
    /\ thermMem' = ThermLoaded(thermFile)
    /\ thermPc' = "sample"
    /\ UNCHANGED <<thermFile, thermUp, thermIncident, thermTask, thermSaid,
                   thermCalm, thermStopped, thermFaults>>

\* The operator starts or stops the service.
ThermOperator ==
    /\ thermPc = "sample"
    /\ thermUp' = ~thermUp
    /\ UNCHANGED <<thermMem, thermFile, thermPc, thermIncident, thermTask,
                   thermSaid, thermCalm, thermStopped, thermFaults>>

ThermTick ==
    /\ thermPc = "sample"
    /\ thermCalm' = IF thermCalm < ThermCool THEN thermCalm + 1 ELSE thermCalm
    /\ thermMem' = [thermMem EXCEPT !.since =
                       IF @ \in 0..(ThermCool - 1) THEN @ + 1 ELSE @]
    /\ UNCHANGED <<thermFile, thermPc, thermUp, thermIncident, thermTask,
                   thermSaid, thermStopped, thermFaults>>

ThermStep ==
    \/ \E temp \in ThermSamples : ThermTrip(temp) \/ ThermWait(temp)
    \/ ThermRecover

ThermNext ==
    \/ ThermStep \/ ThermWrite \/ ThermNotify \/ ThermTell \/ ThermNotifyFails
    \/ ThermCrash \/ ThermStart \/ ThermOperator \/ ThermTick

ThermSpec == ThermInit /\ [][ThermNext]_thermVars

\* The loop of main runs on, and systemd restarts the guard.
ThermRuns == ThermStep \/ ThermWrite \/ ThermNotify \/ ThermTell \/ ThermStart

-----------------------------------------------------------------------------
\* After a trip the workers only see "ready" again when the card was cool for
\* the whole cool period, even if the guard was restarted in between.
ThermHysteresis ==
    [][thermFile.status = "cooling" /\ thermFile'.status = "ready"
          => thermCalm >= ThermCool]_thermVars

\* The guard starts the service only if it stopped it in this same incident:
\* a service the operator had stopped before the trip stays down.
ThermOwnRestart ==
    [][(thermPc = "sample" /\ thermPc' = "write" /\ ~thermUp /\ thermUp')
          => thermStopped]_thermVars

\* What happened last is reported, over crashes and failed notifications: an
\* event in the file is published, or a later event takes its place.
ThermReported ==
    \A i \in ThermIds : \A phase \in {"trip", "recovered"} :
        LET event == [phase |-> phase, incident |-> i]
        IN (thermFile.event = event)
              ~> (event \in thermSaid \/ thermFile.event \notin {event, ThermQuiet})

\* Cooling is real and the service is the operator's: over restarts of the
\* guard the card stays out of use for a whole cool period, and the guard
\* starts only what it stopped itself.
ThermSafe == []ThermTypeOK /\ ThermHysteresis /\ ThermOwnRestart
=============================================================================
