------------------------- MODULE ConnectionMonitor -------------------------
(***************************************************************************)
(* The connection monitor of one managed daemon (connection_monitor.go)    *)
(* with everybody who steps it: the ping of its connection timer, its      *)
(* restart timers, a boot (startBitcoindOnly), a Stop, and the reaper that *)
(* reports an exit after the exit channel closed.  m.mu is held for the    *)
(* state only, never for the ping, the start or the stop, so what a        *)
(* goroutine read may be gone when it acts.                                *)
(***************************************************************************)
EXTENDS Naturals, FiniteSets

CONSTANTS
    MaxRuns,      \* bound on OS processes
    MaxElsewhere, \* bound on the runs that may be started by somebody else
    MaxBoots,     \* bound on boots; boot b opens restart timer b
    MaxRestarts   \* restarts before the timer gives up (10 in the code)

ASSUME MonitorAssumption ==
    /\ {MaxRuns, MaxElsewhere, MaxBoots, MaxRestarts} \subseteq Nat
    /\ MaxElsewhere <= MaxRuns

Runs   == 1 .. MaxRuns
Timers == 1 .. MaxBoots
None   == 0             \* no run, no timer, a nil process

VARIABLES
    mon,                \* the fields of ConnectionMonitor
    ping,               \* the ping in flight, and what it read before
    restartStop, boots, timerAt, \* the open restart timer, boots so far, where each timer is
    run, alive, tracked, adopted, lastExit, \* the newest OS process and its table slot
    reaper, exitCode, exitClosed, \* who waits for each run, and what it saw
    bootAt, bootOn, stopAt, stopOn, \* a boot, a Stop and the runs they wait on
    answered            \* history: something answered a ping since the last stop

procVars  == <<run, alive, tracked, adopted, lastExit, reaper, exitCode, exitClosed>>
timerVars == <<restartStop, boots, timerAt>>
userVars  == <<bootAt, bootOn, stopAt, stopOn>>
monitorVars == <<mon, ping, timerVars, procVars, userVars, answered>>

MonitorTypeOK ==
    /\ mon \in [connected : BOOLEAN, connectionError : {"none", "ping", "exit"},
                startupError : BOOLEAN, connectModeOnly : BOOLEAN,
                completedStartup : BOOLEAN, initializing : BOOLEAN, stopping : BOOLEAN,
                hasCrashError : BOOLEAN, restartCount : 0 .. MaxRestarts + MaxBoots,
                backoff : BOOLEAN]
    /\ ping \in [at : {"idle", "checking", "answered"}, stale : BOOLEAN,
                 modeOnly : BOOLEAN, answer : {"none", "ok", "warmup", "refused", "error"}]
    /\ restartStop \in 0 .. boots /\ boots \in 0 .. MaxBoots
    /\ timerAt \in [Timers -> {"none", "ticking", "ticked", "gated", "exited", "claimed",
                               "starting", "ended"}]
    /\ run \in 0 .. MaxRuns /\ lastExit \in 0 .. run
    /\ alive \in BOOLEAN /\ tracked \in BOOLEAN /\ adopted \in BOOLEAN
    /\ answered \in BOOLEAN
    /\ reaper \in [Runs -> {"none", "waiting", "untracked", "closed", "done"}]
    /\ exitCode \in [Runs -> {"none", "clean", "crash"}]
    /\ exitClosed \subseteq 1 .. run
    /\ bootAt \in {"out", "pinging", "pinged", "booting", "starting", "waiting", "failing"}
    /\ stopAt \in {"out", "asked", "waiting", "marking"}
    /\ bootOn \in 0 .. run /\ stopOn \in 0 .. run

NoPing == [at |-> "idle", stale |-> FALSE, modeOnly |-> FALSE, answer |-> "none"]

MonitorInit ==
    /\ mon = [connected |-> FALSE, connectionError |-> "none", startupError |-> FALSE,
              connectModeOnly |-> FALSE, completedStartup |-> FALSE,
              initializing |-> FALSE, stopping |-> FALSE, hasCrashError |-> FALSE,
              restartCount |-> 0, backoff |-> FALSE]
    /\ ping = NoPing
    /\ restartStop = None /\ boots = 0 /\ timerAt = [t \in Timers |-> "none"]
    /\ run = None /\ alive = FALSE /\ tracked = FALSE /\ adopted = FALSE /\ lastExit = None
    /\ reaper = [r \in Runs |-> "none"] /\ exitCode = [r \in Runs |-> "none"]
    /\ exitClosed = {}
    /\ bootAt = "out" /\ bootOn = None /\ stopAt = "out" /\ stopOn = None
    /\ answered = FALSE

\* A ping in flight sees the epoch move; what it answers no longer matters.
Bumped == IF ping.at = "idle" THEN ping ELSE [NoPing EXCEPT !.at = "answered", !.stale = TRUE]

keepsWarmup(m) ==
    [m EXCEPT !.connected = FALSE, !.connectionError = "exit", !.hasCrashError = TRUE]

\* SetConnectionError
withError(m) ==
    [m EXCEPT !.connected = FALSE, !.connectionError = "exit", !.startupError = FALSE,
              !.hasCrashError = TRUE]

-----------------------------------------------------------------------------
(* testConnection, one at a time.                                          *)

PingRead == [at |-> "checking", stale |-> FALSE, modeOnly |-> mon.connectModeOnly,
             answer |-> "none"]

\* The connection timer, started by the first boot, ticks for good.
PingStarts ==
    /\ boots > 0
    /\ ping.at = "idle"
    /\ ping' = PingRead
    /\ UNCHANGED <<mon, timerVars, procVars, userVars, answered>>

PingAnswers ==
    /\ ping.at = "checking"
    /\ \E a \in {"ok", "warmup", "refused", "error"} :
         /\ alive \/ a = "refused"
         /\ ping' = [ping EXCEPT !.at = "answered", !.answer = a]
         /\ answered' = (answered \/ a = "ok")
    /\ UNCHANGED <<mon, timerVars, procVars, userVars>>

mutedByStopOnly == mon.stopping
muted == mon.hasCrashError \/ mon.stopping

staysConnected == mon
lost == [mon EXCEPT !.connected = FALSE]

afterPing ==
    CASE ping.answer = "ok" ->
           [mon EXCEPT !.connectModeOnly = FALSE, !.connected = TRUE,
                       !.connectionError = "none", !.startupError = FALSE,
                       !.completedStartup = TRUE, !.restartCount = 0, !.backoff = FALSE,
                       !.hasCrashError = FALSE, !.initializing = FALSE]
      [] ping.answer = "warmup" /\ ~ping.modeOnly /\ ~muted ->
           [lost EXCEPT !.startupError = TRUE]
      [] ping.answer = "error" /\ ~ping.modeOnly /\ ~muted ->
           [lost EXCEPT !.connectionError = "ping"]
      [] OTHER -> lost

\* The result lands, unless the epoch moved, and whoever joined the ping goes on.
PingApplies ==
    /\ ping.at = "answered"
    /\ mon' = IF ping.stale THEN mon ELSE afterPing
    /\ ping' = NoPing
    /\ bootAt' = IF bootAt = "pinging" THEN "pinged" ELSE bootAt
    /\ UNCHANGED <<timerVars, procVars, bootOn, stopAt, stopOn, answered>>

-----------------------------------------------------------------------------
(* The process: forked by Start, reaped in steps, or started elsewhere.    *)

Starting == bootAt = "starting" \/ \E t \in Timers : timerAt[t] = "starting"
slotFree == ~tracked /\ ~Starting

forks ==
    /\ slotFree /\ ~alive /\ run < MaxRuns
    /\ run' = run + 1 /\ alive' = TRUE /\ tracked' = TRUE /\ adopted' = FALSE
    /\ lastExit' = None
    /\ reaper' = [reaper EXCEPT ![run + 1] = "waiting"]
    /\ UNCHANGED <<exitCode, exitClosed>>

\* adoptCore and AdoptProcess: nothing happens when a process is tracked.
adopts ==
    IF tracked \/ ~alive
      THEN UNCHANGED procVars
      ELSE /\ tracked' = TRUE /\ adopted' = TRUE /\ lastExit' = None
           /\ reaper' = [reaper EXCEPT ![run] = "waiting"]
           /\ UNCHANGED <<run, alive, exitCode, exitClosed>>

StartedElsewhere ==
    /\ ~alive /\ ~tracked /\ ~Starting /\ run < MaxElsewhere
    /\ run' = run + 1 /\ alive' = TRUE /\ adopted' = FALSE
    /\ UNCHANGED <<mon, ping, timerVars, tracked, lastExit, reaper, exitCode, exitClosed,
                   userVars, answered>>

\* Only a parent learns an exit code: an adopted process reads as a clean exit.
Dies ==
    /\ alive
    /\ alive' = FALSE
    /\ \E c \in {"clean", "crash"} :
         /\ adopted => c = "clean"
         /\ exitCode' = [exitCode EXCEPT ![run] = c]
    /\ UNCHANGED <<mon, ping, timerVars, run, tracked, adopted, lastExit, reaper,
                   exitClosed, userVars, answered>>

Untrack(r) ==
    /\ reaper[r] = "waiting" /\ exitCode[r] # "none"
    /\ tracked' = FALSE /\ lastExit' = r
    /\ reaper' = [reaper EXCEPT ![r] = "untracked"]
    /\ UNCHANGED <<mon, ping, timerVars, run, alive, adopted, exitCode, exitClosed,
                   userVars, answered>>

closeExit(r) ==
    /\ reaper[r] = "untracked"
    /\ exitClosed' = exitClosed \cup {r}
    /\ reaper' = [reaper EXCEPT ![r] = "closed"]
    /\ UNCHANGED <<mon, ping, timerVars, run, alive, tracked, adopted, lastExit, exitCode,
                   userVars, answered>>

\* OnExit, after whoever waited for the exit channel went on.
OnExit(r) ==
    /\ reaper[r] = "closed"
    /\ mon' = IF exitCode[r] = "crash" THEN withError(mon) ELSE mon
    /\ reaper' = [reaper EXCEPT ![r] = "done"]
    /\ UNCHANGED <<ping, timerVars, run, alive, tracked, adopted, lastExit, exitCode,
                   exitClosed, userVars, answered>>

-----------------------------------------------------------------------------
(* checkAndRestart.                                                        *)

Move(t, from, to) ==
    /\ timerAt[t] = from
    /\ timerAt' = [timerAt EXCEPT ![t] = to]
    /\ UNCHANGED <<restartStop, boots>>

\* The select takes a tick that is ready also when the channel was closed.
TimerTicks(t) ==
    /\ Move(t, "ticking", "ticked")
    /\ UNCHANGED <<mon, ping, procVars, userVars, answered>>

TimerEnds(t) ==
    /\ restartStop # t /\ Move(t, "ticking", "ended")
    /\ UNCHANGED <<mon, ping, procVars, userVars, answered>>

restartsForever ==
    /\ mon.completedStartup /\ ~mon.initializing /\ ~mon.stopping
    /\ ~mon.startupError /\ ~mon.backoff /\ ~mon.connected

gate ==
    /\ mon.completedStartup /\ ~mon.initializing /\ ~mon.stopping
    /\ ~mon.startupError /\ mon.restartCount <= MaxRestarts /\ ~mon.backoff
    /\ ~mon.connected

Gate(t) ==
    /\ Move(t, "ticked", IF gate THEN "gated" ELSE "ticking")
    /\ UNCHANGED <<mon, ping, procVars, userVars, answered>>

crashed == lastExit # None /\ exitCode[lastExit] = "crash"

ReadsExit(t) ==
    /\ Move(t, "gated", IF crashed THEN "exited" ELSE "ticking")
    /\ UNCHANGED <<mon, ping, procVars, userVars, answered>>

Claims(t) ==
    /\ Move(t, "exited", "claimed")
    /\ mon' = [mon EXCEPT !.restartCount = @ + 1, !.backoff = TRUE, !.initializing = TRUE]
    /\ UNCHANGED <<ping, procVars, userVars, answered>>

\* startOrAdoptCore, up to the fork.
RestartForks(t) ==
    /\ Move(t, "claimed", "starting") /\ forks
    /\ UNCHANGED <<mon, ping, userVars, answered>>

staysInitializing(m) == m
startFailed(m) == [m EXCEPT !.initializing = FALSE]

\* It adopts what runs, or the start fails.
RestartAdopts(t) ==
    /\ Move(t, "claimed", "ticking") /\ adopts
    /\ mon' = startFailed(mon)
    /\ UNCHANGED <<ping, userVars, answered>>

BackToTicking(m) ==
    [m EXCEPT !.initializing = FALSE,
              !.restartCount = IF m.connected THEN 0 ELSE @,
              !.backoff = @ /\ ~m.connected]

RestartReturns(t) ==
    /\ Move(t, "starting", "ticking")
    /\ mon' = IF run \in exitClosed THEN startFailed(mon)
                                    ELSE BackToTicking(mon)
    /\ UNCHANGED <<ping, procVars, userVars, answered>>

BackoffElapses ==
    /\ mon.backoff
    /\ mon' = [mon EXCEPT !.backoff = FALSE]
    /\ UNCHANGED <<ping, timerVars, procVars, userVars, answered>>

-----------------------------------------------------------------------------
(* startBitcoindOnly.                                                      *)

\* SetChecker, then StartConnectionTimer: a ping, or the one in flight.
BootBegins ==
    /\ bootAt = "out" /\ boots < MaxBoots
    /\ bootAt' = "pinging" /\ boots' = boots + 1
    /\ ping' = IF ping.at = "idle" THEN PingRead ELSE Bumped
    /\ UNCHANGED <<mon, restartStop, timerAt, procVars, bootOn, stopAt, stopOn, answered>>

BootFindsItUp ==
    /\ bootAt = "pinged" /\ mon.connected
    /\ bootAt' = "out" /\ adopts
    /\ UNCHANGED <<mon, ping, timerVars, bootOn, stopAt, stopOn, answered>>

\* SetInitializing(true) and StartRestartTimer.
BootPrepares ==
    /\ bootAt = "pinged" /\ ~mon.connected
    /\ bootAt' = "booting"
    /\ mon' = [mon EXCEPT !.initializing = TRUE]
    /\ restartStop' = boots
    /\ timerAt' = [timerAt EXCEPT ![boots] = "ticking"]
    /\ UNCHANGED <<boots, ping, procVars, bootOn, stopAt, stopOn, answered>>

BootForks ==
    /\ bootAt = "booting" /\ forks
    /\ bootAt' = "starting"
    /\ UNCHANGED <<mon, ping, timerVars, bootOn, stopAt, stopOn, answered>>

\* The process is tracked already, or the datadir names a live one.
BootJoins ==
    /\ bootAt = "booting" /\ (tracked \/ alive) /\ adopts
    /\ bootAt' = "waiting" /\ bootOn' = IF alive \/ tracked THEN run ELSE None
    /\ UNCHANGED <<mon, ping, timerVars, stopAt, stopOn, answered>>

\* A failed download, a slot that another start reserved, a failed fork.
BootFails ==
    /\ bootAt = "booting"
    /\ bootAt' = "failing"
    /\ mon' = [mon EXCEPT !.initializing = FALSE]
    /\ UNCHANGED <<ping, timerVars, procVars, bootOn, stopAt, stopOn, answered>>

\* The start returns after 500 ms; then the boot looks the process up.
BootStarted ==
    /\ bootAt = "starting" /\ run \notin exitClosed
    /\ bootAt' = "waiting" /\ bootOn' = IF tracked THEN run ELSE None
    /\ UNCHANGED <<mon, ping, timerVars, procVars, stopAt, stopOn, answered>>

exitSeen ==
    \/ bootAt = "starting" /\ run \in exitClosed
    \/ bootAt = "waiting" /\ bootOn \in exitClosed

BootSees ==
    /\ exitSeen
    /\ bootAt' = "failing" /\ bootOn' = None
    /\ mon' = [mon EXCEPT !.initializing = FALSE]
    /\ UNCHANGED <<ping, timerVars, procVars, stopAt, stopOn, answered>>

BootCancelled ==
    /\ bootAt = "waiting"
    /\ bootAt' = "failing" /\ bootOn' = None
    /\ mon' = [mon EXCEPT !.initializing = FALSE]
    /\ UNCHANGED <<ping, timerVars, procVars, stopAt, stopOn, answered>>

\* The second half of failBoot.
BootReports ==
    /\ bootAt = "failing"
    /\ bootAt' = "out" /\ mon' = withError(mon)
    /\ UNCHANGED <<ping, timerVars, procVars, bootOn, stopAt, stopOn, answered>>

BootConnects ==
    /\ bootAt = "waiting" /\ mon.connected
    /\ bootAt' = "out" /\ bootOn' = None
    /\ UNCHANGED <<mon, ping, timerVars, procVars, stopAt, stopOn, answered>>

-----------------------------------------------------------------------------
(* Stop, and the removal of an adopted process by a drain.                 *)

StopAsks ==
    /\ stopAt = "out" /\ boots > 0
    /\ stopAt' = "asked"
    /\ mon' = [mon EXCEPT !.stopping = TRUE]
    /\ UNCHANGED <<ping, timerVars, procVars, bootAt, bootOn, stopOn, answered>>

StopSignals ==
    /\ stopAt = "asked"
    /\ stopAt' = IF tracked THEN "waiting" ELSE "marking"
    /\ stopOn' = IF tracked THEN run ELSE None
    /\ UNCHANGED <<mon, ping, timerVars, procVars, bootAt, bootOn, answered>>

\* The process exits, or it is killed when the graceful timeout runs out.
StopWaits ==
    /\ stopAt = "waiting"
    /\ \/ stopOn \in exitClosed /\ UNCHANGED procVars
       \/ /\ alive /\ run = stopOn
          /\ alive' = FALSE
          /\ exitCode' = [exitCode EXCEPT ![run] = IF adopted THEN "clean" ELSE "crash"]
          /\ UNCHANGED <<run, tracked, adopted, lastExit, reaper, exitClosed>>
    /\ stopAt' = "marking" /\ stopOn' = None
    /\ UNCHANGED <<mon, ping, timerVars, bootAt, bootOn, answered>>

keepsPing == ping
dropsPing == Bumped

MarkStopped ==
    /\ stopAt = "marking"
    /\ stopAt' = "out"
    /\ ping' = dropsPing
    /\ mon' = [mon EXCEPT !.connectModeOnly = TRUE, !.stopping = FALSE,
                          !.connected = FALSE, !.initializing = FALSE,
                          !.connectionError = "none", !.startupError = FALSE,
                          !.hasCrashError = FALSE]
    /\ restartStop' = None
    /\ answered' = FALSE
    /\ UNCHANGED <<boots, timerAt, procVars, bootAt, bootOn, stopOn>>

\* Remove and MarkDisconnected.  The process stays up, and a ping in flight lands.
MarkDisconnected ==
    /\ tracked /\ adopted /\ stopAt = "out"
    /\ tracked' = FALSE
    /\ reaper' = [reaper EXCEPT ![run] = "done"]
    /\ mon' = [mon EXCEPT !.connectModeOnly = TRUE, !.stopping = FALSE,
                          !.connected = FALSE, !.connectionError = "none",
                          !.startupError = FALSE, !.hasCrashError = FALSE]
    /\ restartStop' = None
    /\ UNCHANGED <<ping, boots, timerAt, run, alive, adopted, lastExit, exitCode,
                   exitClosed, userVars, answered>>

Ping  == PingStarts \/ PingAnswers \/ PingApplies
Reap(r) == Untrack(r) \/ closeExit(r) \/ OnExit(r)
checkAndRestart(t) ==
    \/ TimerTicks(t) \/ TimerEnds(t) \/ Gate(t) \/ ReadsExit(t) \/ Claims(t)
    \/ RestartForks(t) \/ RestartAdopts(t) \/ RestartReturns(t)
Boot  == \/ BootFindsItUp \/ BootPrepares \/ BootForks \/ BootJoins \/ BootFails
         \/ BootStarted \/ BootSees \/ BootReports \/ BootConnects
Stop  == StopSignals \/ StopWaits \/ MarkStopped

MonitorNext ==
    \/ Ping \/ Boot \/ Stop \/ BackoffElapses
    \/ \E r \in Runs : Reap(r)
    \/ \E t \in Timers : checkAndRestart(t)
    \/ BootBegins \/ BootCancelled \/ StopAsks \/ MarkDisconnected
    \/ StartedElsewhere \/ Dies

\* Goroutines run and time passes; callers and processes do as they like.
MonitorFairness ==
    /\ WF_ping(Ping) /\ WF_bootAt(Boot) /\ WF_stopAt(Stop) /\ WF_mon(BackoffElapses)
    /\ \A r \in Runs : WF_reaper(Reap(r))
    /\ \A t \in Timers : WF_timerAt(checkAndRestart(t))

MonitorSpec == MonitorInit /\ [][MonitorNext]_monitorVars
MonitorFairSpec == MonitorSpec /\ MonitorFairness

-----------------------------------------------------------------------------

\* A stopped daemon reads as connected only when something answered after the
\* stop: the answer of a ping that was in flight is dropped.
ConnectedMeansAnswered == mon.connected => answered

\* The reason of a crash stays until a reconnect or a stop: a failing ping does
\* not put "connection refused" in its place.
CrashReasonStays ==
    [][mon.connectionError = "exit" /\ mon.hasCrashError => mon'.connectionError # "ping"]_monitorVars

\* A daemon that is gone does not read as connected for good.
GoneIsShown == (~alive /\ mon.connected) ~> (alive \/ ~mon.connected)

\* A boot that waits for a process it did not find in the table.
WaitsOnNil == bootAt = "waiting" /\ bootOn = None

\* The budget of restarts is spent, and the start that the last one of them
\* claimed has returned.
UsedUp ==
    /\ mon.restartCount > MaxRestarts
    /\ \A t \in Timers : timerAt[t] \notin {"claimed", "starting"}

\* A daemon that came up once and crashed is started again while its restart
\* timer is open: a start that fails is tried again after the backoff, until
\* one succeeds or every restart of the budget was carried out.
GivesUp == UsedUp \/ restartStop = None \/ WaitsOnNil
CrashRestarts ==
    (crashed /\ mon.completedStartup) ~> (alive \/ ~crashed \/ GivesUp \/ run = MaxRuns)

\* A Stop closed the restart timer, and no boot came after it.
Stopped == boots > 0 /\ restartStop = None /\ bootAt = "out"

\* Once Stop returned, nothing brings the daemon back but a boot.
StopStays == [][Stopped => ~(\E t \in Timers : RestartForks(t))]_monitorVars

\* A boot that waits for a process learns that it exited.
BootSeesExit == (bootAt = "waiting" /\ ~alive) ~> (bootAt # "waiting" \/ alive)
=============================================================================
