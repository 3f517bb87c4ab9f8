--------------------------- MODULE MonitorProofs ---------------------------
(***************************************************************************)
(* Proofs about the connection monitor, for every number of runs, boots    *)
(* and restarts.  Two facts carry them: an answer that is still to be      *)
(* applied was given since the last stop, and the timers that passed the   *)
(* gate are counted against the restarts before they claim one.            *)
(***************************************************************************)
EXTENDS ConnectionMonitor, FiniteSetTheorems, TLAPS

Mon == [connected : BOOLEAN, connectionError : {"none", "ping", "exit"},
        startupError : BOOLEAN, connectModeOnly : BOOLEAN,
        completedStartup : BOOLEAN, initializing : BOOLEAN, stopping : BOOLEAN,
        hasCrashError : BOOLEAN, restartCount : Nat, backoff : BOOLEAN]

pingTypes ==
    ping \in [at : {"idle", "checking", "answered"}, stale : BOOLEAN,
              modeOnly : BOOLEAN, answer : {"none", "ok", "warmup", "refused", "error"}]

timerTypes ==
    /\ boots \in 0 .. MaxBoots /\ restartStop \in 0 .. boots
    /\ timerAt \in [Timers -> {"none", "ticking", "ticked", "gated", "exited", "claimed",
                               "starting", "ended"}]

processTypes ==
    /\ run \in 0 .. MaxRuns /\ lastExit \in 0 .. run
    /\ reaper \in [Runs -> {"none", "waiting", "untracked", "closed", "done"}]
    /\ exitCode \in [Runs -> {"none", "clean", "crash"}]
    /\ exitClosed \subseteq 1 .. run

flagTypes ==
    /\ alive \in BOOLEAN /\ tracked \in BOOLEAN /\ adopted \in BOOLEAN
    /\ answered \in BOOLEAN

userTypes ==
    /\ bootAt \in {"out", "pinging", "pinged", "booting", "starting", "waiting", "failing"}
    /\ stopAt \in {"out", "asked", "waiting", "marking"}
    /\ bootOn \in 0 .. run /\ stopOn \in 0 .. run

\* A run that was not forked yet has no goroutine.
UnbornUnreaped == \A r \in Runs : r > run => reaper[r] = "none"

\* An answer that will be applied was given since the last stop.
AnswerIsNew ==
    ping.at = "answered" /\ ~ping.stale /\ ping.answer = "ok" => answered

\* A timer past the gate claims a restart later: it is counted already.
pastGate == {t \in Timers : timerAt[t] \in {"gated", "exited"}}
RestartBudget == mon.restartCount + Cardinality(pastGate) <= MaxRestarts + MaxBoots

types == /\ mon \in Mon /\ pingTypes /\ timerTypes /\ processTypes /\ flagTypes
         /\ userTypes

MonitorInv ==
    /\ types
    /\ UnbornUnreaped /\ AnswerIsNew /\ ConnectedMeansAnswered /\ RestartBudget

-----------------------------------------------------------------------------

\* What the helpers do to the monitor's fields.
LEMMA MonFacts ==
  ASSUME mon \in Mon
  PROVE  /\ withError(mon) \in Mon /\ ~withError(mon).connected
         /\ withError(mon).restartCount = mon.restartCount
         /\ BackToTicking(mon) \in Mon /\ BackToTicking(mon).connected = mon.connected
         /\ BackToTicking(mon).restartCount \in {0, mon.restartCount}
  <1>1. withError(mon) \in Mon /\ ~withError(mon).connected
        /\ withError(mon).restartCount = mon.restartCount
    BY DEF withError, Mon
  <1>2. (mon.backoff /\ ~mon.connected) \in BOOLEAN
    BY Zenon
  <1>3. BackToTicking(mon) \in Mon /\ BackToTicking(mon).connected = mon.connected
        /\ BackToTicking(mon).restartCount \in {0, mon.restartCount}
    BY <1>2 DEF BackToTicking, Mon
  <1> QED
    BY <1>1, <1>3

\* What the answer of a ping does to them.
LEMMA PingMonFacts ==
  ASSUME mon \in Mon, pingTypes
  PROVE  /\ afterPing \in Mon
         /\ afterPing.connected => ping.answer = "ok"
         /\ afterPing.restartCount \in {0, mon.restartCount}
  <1> DEFINE up     == [mon EXCEPT !.connectModeOnly = FALSE, !.connected = TRUE,
                                   !.connectionError = "none", !.startupError = FALSE,
                                   !.completedStartup = TRUE, !.restartCount = 0,
                                   !.backoff = FALSE, !.hasCrashError = FALSE,
                                   !.initializing = FALSE]
             warm   == [lost EXCEPT !.startupError = TRUE]
             failed == [lost EXCEPT !.connectionError = "ping"]
  <1>1. /\ lost \in Mon /\ ~lost.connected /\ lost.restartCount = mon.restartCount
    BY DEF lost, Mon
  <1>2. up \in Mon /\ up.restartCount = 0
    BY DEF Mon
  <1>3. /\ warm \in Mon /\ ~warm.connected /\ warm.restartCount = mon.restartCount
        /\ failed \in Mon /\ ~failed.connected /\ failed.restartCount = mon.restartCount
    BY <1>1 DEF Mon
  <1>4. \/ ping.answer = "ok" /\ afterPing = up
        \/ afterPing \in {warm, failed, lost}
    BY DEF afterPing
  <1> HIDE DEF up, warm, failed
  <1> QED
    BY <1>1, <1>2, <1>3, <1>4

\* What a step does to the monitor's fields.
LEMMA MonStep ==
  ASSUME types, [MonitorNext]_monitorVars
  PROVE  /\ mon' \in Mon
         /\ mon'.connected => \/ mon.connected /\ (answered => answered')
                              \/ ping.at = "answered" /\ ~ping.stale /\ ping.answer = "ok"
                                   /\ answered' = answered
         /\ \/ mon'.restartCount = 0
            \/ mon'.restartCount = mon.restartCount
            \/ mon'.restartCount = mon.restartCount + 1 /\ \E t \in Timers : Claims(t)
  <1> DEFINE Goal ==
        /\ mon' \in Mon
        /\ mon'.connected => \/ mon.connected /\ (answered => answered')
                             \/ ping.at = "answered" /\ ~ping.stale /\ ping.answer = "ok"
                                  /\ answered' = answered
        /\ \/ mon'.restartCount = 0
           \/ mon'.restartCount = mon.restartCount
           \/ mon'.restartCount = mon.restartCount + 1 /\ \E t \in Timers : Claims(t)
  <1> USE DEF types
  <1>1. ASSUME mon' = mon, answered' = answered PROVE Goal
    BY <1>1
  <1>2. ASSUME PingAnswers PROVE Goal
    BY <1>2 DEF PingAnswers
  <1>3. ASSUME PingApplies PROVE Goal
    BY <1>3, PingMonFacts DEF PingApplies
  <1>4. ASSUME NEW r \in Runs, OnExit(r) PROVE Goal
    BY <1>4, MonFacts DEF OnExit
  <1>5. ASSUME NEW t \in Timers, Claims(t) PROVE Goal
    <2>1. \E c \in Timers : Claims(c)
      BY <1>5
    <2> QED
      <3>1. mon' \in Mon /\ mon'.connected = mon.connected /\ answered' = answered
            /\ mon'.restartCount = mon.restartCount + 1
        <4>1. mon' = [mon EXCEPT !.restartCount = @ + 1, !.backoff = TRUE, !.initializing = TRUE]
              /\ answered' = answered
          BY <1>5 DEF Claims
        <4>2. mon.restartCount + 1 \in Nat
          BY DEF Mon
        <4> QED
          BY <4>1, <4>2 DEF Mon
      <3> QED
        BY <2>1, <3>1
  <1>6. ASSUME NEW t \in Timers, RestartAdopts(t) \/ RestartReturns(t) PROVE Goal
    <2>1. mon' \in Mon /\ mon'.connected = mon.connected /\ answered' = answered
          /\ mon'.restartCount \in {0, mon.restartCount}
      BY <1>6, MonFacts DEF RestartAdopts, RestartReturns, startFailed, Mon
    <2> QED
      BY <2>1
  <1>7. ASSUME BackoffElapses PROVE Goal
    BY <1>7 DEF BackoffElapses, Mon
  <1>8. ASSUME BootPrepares \/ BootFails \/ BootSees \/ BootCancelled \/ StopAsks PROVE Goal
    <2>1. mon' \in Mon /\ mon'.connected = mon.connected /\ answered' = answered
          /\ mon'.restartCount = mon.restartCount
      BY <1>8 DEF BootPrepares, BootFails, BootSees, BootCancelled, StopAsks, Mon
    <2> QED
      BY <2>1
  <1>9. ASSUME BootReports PROVE Goal
    BY <1>9, MonFacts DEF BootReports
  <1>10. ASSUME MarkStopped \/ MarkDisconnected PROVE Goal
    <2>1. CASE MarkStopped
      <3>1. mon' \in Mon /\ ~mon'.connected /\ mon'.restartCount = mon.restartCount
        BY <2>1 DEF MarkStopped, Mon
      <3> QED
        BY <3>1
    <2>2. CASE MarkDisconnected
      <3>1. mon' \in Mon /\ ~mon'.connected /\ mon'.restartCount = mon.restartCount
        BY <2>2 DEF MarkDisconnected, Mon
      <3> QED
        BY <3>1
    <2> QED
      BY <1>10, <2>1, <2>2
  <1>11. \/ mon' = mon /\ answered' = answered
         \/ PingAnswers \/ PingApplies \/ (\E r \in Runs : OnExit(r))
         \/ \E t \in Timers : Claims(t) \/ RestartAdopts(t) \/ RestartReturns(t)
         \/ BackoffElapses \/ BootPrepares \/ BootFails \/ BootSees \/ BootCancelled \/ StopAsks
         \/ BootReports \/ MarkStopped \/ MarkDisconnected
    BY DEF MonitorNext, monitorVars, Ping, PingStarts, Boot, BootFindsItUp, BootForks, BootJoins,
       BootStarted, BootConnects, Stop, StopSignals, StopWaits, Reap, Untrack, closeExit,
       checkAndRestart, TimerTicks, TimerEnds, Gate, ReadsExit, RestartForks, BootBegins,
       StartedElsewhere, Dies
  <1> HIDE DEF types, Goal
  <1>12. Goal
    BY <1>1, <1>2, <1>3, <1>4, <1>5, <1>6, <1>7, <1>8, <1>9, <1>10, <1>11
  <1> QED
    BY <1>12 DEF Goal

\* The ping: it is dropped by what moves the epoch, and answered by what answers.
LEMMA PingStep ==
  ASSUME types, AnswerIsNew, [MonitorNext]_monitorVars
  PROVE  pingTypes' /\ AnswerIsNew'
  <1> USE DEF types
  <1>1. CASE ping' = ping /\ answered' = answered
    BY <1>1 DEF pingTypes, AnswerIsNew
  <1>2. CASE PingStarts \/ BootBegins
    <2>1. mon.connectModeOnly \in BOOLEAN
      BY DEF Mon
    <2>2. /\ ping' = PingRead \/ (ping.at # "idle" /\ ping' = Bumped)
          /\ answered' = answered
      BY <1>2 DEF PingStarts, BootBegins
    <2>3. CASE ping' = PingRead
      BY <2>1, <2>2, <2>3 DEF PingRead, pingTypes, AnswerIsNew
    <2>4. CASE ping.at # "idle" /\ ping' = Bumped
      BY <2>2, <2>4 DEF Bumped, NoPing, pingTypes, AnswerIsNew
    <2> QED
      BY <2>2, <2>3, <2>4
  <1>3. CASE PingAnswers
    BY <1>3 DEF PingAnswers, pingTypes, AnswerIsNew
  <1>4. CASE PingApplies
    BY <1>4 DEF PingApplies, NoPing, pingTypes, AnswerIsNew
  <1>5. CASE MarkStopped
    BY <1>5 DEF MarkStopped, dropsPing, Bumped, NoPing, pingTypes, AnswerIsNew
  <1>6. \/ ping' = ping /\ answered' = answered
        \/ PingStarts \/ BootBegins \/ PingAnswers \/ PingApplies \/ MarkStopped
    BY DEF MonitorNext, monitorVars, Ping, Boot, BootFindsItUp, BootPrepares, BootForks, BootJoins,
       BootFails, BootStarted, BootSees, BootReports, BootConnects, BootCancelled,
       Stop, StopAsks, StopSignals, StopWaits, MarkDisconnected,
       Reap, Untrack, closeExit, OnExit, BackoffElapses,
       checkAndRestart, TimerTicks, TimerEnds, Gate, ReadsExit, Claims, RestartForks,
       RestartAdopts, RestartReturns, StartedElsewhere, Dies
  <1> QED
    BY <1>1, <1>2, <1>3, <1>4, <1>5, <1>6

\* The timers: only the gate lets one past, while restarts are left.
LEMMA TimerStep ==
  ASSUME types, RestartBudget, [MonitorNext]_monitorVars
  PROVE  timerTypes' /\ RestartBudget'
  <1> USE MonitorAssumption DEF types
  <1>1. IsFiniteSet(Timers) /\ Cardinality(Timers) = MaxBoots
    BY FS_Interval DEF Timers
  <1>2. IsFiniteSet(pastGate) /\ Cardinality(pastGate) \in Nat
    BY <1>1, FS_Subset, FS_CardinalityType DEF pastGate
  <1>3. mon.restartCount \in Nat /\ mon'.restartCount \in Nat
    BY MonStep DEF Mon
  <1>4. ASSUME UNCHANGED timerVars PROVE timerTypes' /\ pastGate' = pastGate
    BY <1>4 DEF timerVars, timerTypes, pastGate
  <1>5. ASSUME NEW t \in Timers, NEW from, NEW to, Move(t, from, to),
               to \in {"ticking", "ticked", "claimed", "starting", "ended"}
        PROVE  timerTypes' /\ pastGate' \subseteq pastGate
    BY <1>5 DEF Move, timerTypes, pastGate
  <1>6. ASSUME pastGate' \subseteq pastGate PROVE Cardinality(pastGate') \in Nat
               /\ Cardinality(pastGate') <= Cardinality(pastGate)
    BY <1>2, <1>6, FS_Subset, FS_CardinalityType
  <1>7. ASSUME NEW t \in Timers, Gate(t) PROVE timerTypes' /\ RestartBudget'
    <2>1. CASE gate
      <3>1. Move(t, "ticked", "gated") /\ mon' = mon /\ mon.restartCount <= MaxRestarts
        BY <1>7, <2>1 DEF Gate, gate
      <3>2. timerTypes' /\ pastGate' \subseteq Timers
        BY <3>1 DEF Move, timerTypes, pastGate
      <3>3. Cardinality(pastGate') <= MaxBoots /\ Cardinality(pastGate') \in Nat
        BY <1>1, <3>2, FS_Subset, FS_CardinalityType
      <3> QED
        BY <1>3, <3>1, <3>2, <3>3 DEF RestartBudget
    <2>2. CASE ~gate
      <3>1. Move(t, "ticked", "ticking") /\ mon' = mon
        BY <1>7, <2>2 DEF Gate
      <3>2. timerTypes' /\ pastGate' \subseteq pastGate
        BY <3>1, <1>5
      <3> QED
        BY <1>2, <1>3, <1>6, <3>1, <3>2 DEF RestartBudget
    <2> QED
      BY <2>1, <2>2
  <1>8. ASSUME NEW t \in Timers, ReadsExit(t) PROVE timerTypes' /\ RestartBudget'
    <2>1. timerAt[t] = "gated" /\ mon' = mon /\ timerTypes' /\ pastGate' \subseteq pastGate
      BY <1>8 DEF ReadsExit, Move, timerTypes, pastGate
    <2> QED
      BY <1>2, <1>3, <1>6, <2>1 DEF RestartBudget
  <1>9. ASSUME NEW t \in Timers, Claims(t) PROVE timerTypes' /\ RestartBudget'
    <2>1. t \in pastGate /\ pastGate' = pastGate \ {t} /\ timerTypes'
      BY <1>9 DEF Claims, Move, timerTypes, pastGate
    <2>2. mon'.restartCount = mon.restartCount + 1
      BY <1>9 DEF Claims, Mon
    <2>3. Cardinality(pastGate') = Cardinality(pastGate) - 1
      BY <1>2, <2>1, FS_RemoveElement
    <2> QED
      BY <1>2, <1>3, <2>1, <2>2, <2>3 DEF RestartBudget
  <1>10. ASSUME ~\E t \in Timers : Gate(t) \/ ReadsExit(t) \/ Claims(t)
         PROVE  timerTypes' /\ pastGate' \subseteq pastGate
    <2>1. ASSUME NEW t \in Timers, checkAndRestart(t)
          PROVE  timerTypes' /\ pastGate' \subseteq pastGate
      BY <1>5, <1>10, <2>1 DEF checkAndRestart, TimerTicks, TimerEnds, RestartForks,
         RestartAdopts, RestartReturns
    <2>2. CASE BootBegins \/ BootPrepares \/ MarkStopped \/ MarkDisconnected
      BY <2>2 DEF BootBegins, BootPrepares, MarkStopped, MarkDisconnected, timerTypes, pastGate,
         None
    <2>3. \/ UNCHANGED timerVars
          \/ \E t \in Timers : checkAndRestart(t)
          \/ BootBegins \/ BootPrepares \/ MarkStopped \/ MarkDisconnected
      BY DEF MonitorNext, monitorVars, timerVars, Ping, PingStarts, PingAnswers, PingApplies,
         Boot, BootFindsItUp, BootForks, BootJoins,
         BootFails, BootStarted, BootSees, BootReports, BootConnects, BootCancelled,
         Stop, StopAsks, StopSignals, StopWaits,
         Reap, Untrack, closeExit, OnExit, BackoffElapses, StartedElsewhere, Dies
    <2> QED
      BY <1>4, <2>1, <2>2, <2>3
  <1>11. ASSUME ~\E t \in Timers : Gate(t) \/ ReadsExit(t) \/ Claims(t)
         PROVE  timerTypes' /\ RestartBudget'
    <2>1. mon'.restartCount <= mon.restartCount
      BY <1>3, <1>11, MonStep
    <2> QED
      BY <1>2, <1>3, <1>6, <1>10, <1>11, <2>1 DEF RestartBudget
  <1> QED
    BY <1>7, <1>8, <1>9, <1>11

\* The process and who waits for it: a run gets its goroutine when it is forked.
LEMMA ProcessStep ==
  ASSUME types, UnbornUnreaped, [MonitorNext]_monitorVars
  PROVE  processTypes' /\ userTypes' /\ UnbornUnreaped'
  <1> USE MonitorAssumption DEF types, None, Runs
  <1> DEFINE Kept == /\ run' \in 0 .. MaxRuns /\ run <= run'
                     /\ processTypes' /\ UnbornUnreaped'
  <1>1. ASSUME UNCHANGED procVars PROVE Kept
    BY <1>1 DEF procVars, processTypes, UnbornUnreaped
  <1>2. ASSUME forks PROVE Kept
    BY <1>2 DEF forks, slotFree, processTypes, UnbornUnreaped
  <1>3. ASSUME adopts PROVE Kept
    <2>1. CASE tracked \/ ~alive
      BY <1>1, <1>3, <2>1 DEF adopts
    <2>2. CASE ~(tracked \/ ~alive)
      <3>1. /\ lastExit' = None /\ reaper' = [reaper EXCEPT ![run] = "waiting"]
            /\ UNCHANGED <<run, exitCode, exitClosed>>
        BY <1>3, <2>2 DEF adopts
      <3> QED
        <4>1. reaper' \in [Runs -> {"none", "waiting", "untracked", "closed", "done"}]
          BY <3>1 DEF processTypes
        <4>2. UnbornUnreaped'
          BY <3>1 DEF processTypes, UnbornUnreaped
        <4>3. processTypes'
          BY <3>1, <4>1 DEF processTypes
        <4> QED
          BY <3>1, <4>2, <4>3 DEF processTypes
    <2> QED
      BY <2>1, <2>2
  <1>4. ASSUME StartedElsewhere \/ Dies PROVE Kept
    <2>1. CASE StartedElsewhere
      BY <2>1 DEF StartedElsewhere, processTypes, UnbornUnreaped
    <2>2. CASE Dies
      <3>1. PICK c \in {"clean", "crash"} : exitCode' = [exitCode EXCEPT ![run] = c]
        BY <2>2 DEF Dies
      <3>2. UNCHANGED <<run, lastExit, reaper, exitClosed>>
        BY <2>2 DEF Dies
      <3> QED
        <4>1. exitCode' \in [Runs -> {"none", "clean", "crash"}]
          BY <3>1 DEF processTypes
        <4> QED
          BY <3>2, <4>1 DEF processTypes, UnbornUnreaped
    <2> QED
      BY <1>4, <2>1, <2>2
  <1>5. ASSUME NEW r \in Runs, Reap(r) PROVE Kept
    <2>1. reaper[r] # "none" /\ r <= run /\ run' = run /\ UNCHANGED exitCode
      BY <1>5 DEF Reap, Untrack, closeExit, OnExit, processTypes, UnbornUnreaped
    <2>2. \E to \in {"untracked", "closed", "done"} : reaper' = [reaper EXCEPT ![r] = to]
      BY <1>5 DEF Reap, Untrack, closeExit, OnExit
    <2>3. lastExit' \in {lastExit, r} /\ exitClosed' \in {exitClosed, exitClosed \cup {r}}
      BY <1>5 DEF Reap, Untrack, closeExit, OnExit
    <2> QED
      BY <2>1, <2>2, <2>3 DEF processTypes, UnbornUnreaped
  <1>6. ASSUME StopWaits \/ MarkDisconnected PROVE Kept
    <2>1. CASE StopWaits /\ ~UNCHANGED procVars
      <3>1. \E c \in {"clean", "crash"} : exitCode' = [exitCode EXCEPT ![run] = c]
        BY <2>1 DEF StopWaits
      <3>2. UNCHANGED <<run, lastExit, reaper, exitClosed>>
        BY <2>1 DEF StopWaits
      <3>3. exitCode' \in [Runs -> {"none", "clean", "crash"}]
        BY <3>1 DEF processTypes
      <3> QED
        BY <3>2, <3>3 DEF processTypes, UnbornUnreaped
    <2>2. CASE MarkDisconnected
      <3>1. reaper' = [reaper EXCEPT ![run] = "done"]
            /\ UNCHANGED <<run, lastExit, exitCode, exitClosed>>
        BY <2>2 DEF MarkDisconnected
      <3>2. reaper' \in [Runs -> {"none", "waiting", "untracked", "closed", "done"}]
        BY <3>1 DEF processTypes
      <3>3. ASSUME NEW r \in Runs, r > run PROVE reaper'[r] = "none"
        <4>1. r # run /\ reaper[r] = "none"
          BY <3>3 DEF processTypes, UnbornUnreaped
        <4> QED
          BY <3>1, <4>1 DEF processTypes
      <3>4. UnbornUnreaped'
        BY <3>1, <3>3 DEF UnbornUnreaped
      <3> QED
        BY <3>1, <3>2, <3>4 DEF processTypes
    <2> QED
      BY <1>1, <1>6, <2>1, <2>2
  <1>7. \/ UNCHANGED procVars \/ forks \/ adopts \/ StartedElsewhere \/ Dies
        \/ (\E r \in Runs : Reap(r)) \/ StopWaits \/ MarkDisconnected
    <2>1. CASE Ping \/ BackoffElapses \/ BootBegins \/ BootCancelled \/ StopAsks
               \/ UNCHANGED monitorVars
      BY <2>1 DEF monitorVars, Ping, PingStarts, PingAnswers, PingApplies, BackoffElapses,
                  BootBegins, BootCancelled, StopAsks
    <2>2. CASE Boot
      BY <2>2 DEF Boot, BootFindsItUp, BootPrepares, BootForks, BootJoins,
                  BootFails, BootStarted, BootSees, BootReports, BootConnects
    <2>3. CASE Stop \/ MarkDisconnected
      BY <2>3 DEF Stop, StopSignals, MarkStopped
    <2>4. ASSUME NEW t \in Timers, checkAndRestart(t)
          PROVE  UNCHANGED procVars \/ forks \/ adopts
      BY <2>4 DEF checkAndRestart, TimerTicks, TimerEnds, Gate, ReadsExit, Claims,
                  RestartForks, RestartAdopts, RestartReturns
    <2> QED
      BY <2>1, <2>2, <2>3, <2>4 DEF MonitorNext
  <1>8. Kept
    BY <1>1, <1>2, <1>3, <1>4, <1>5, <1>6, <1>7
  <1>9. /\ bootAt' \in {"out", "pinging", "pinged", "booting", "starting", "waiting", "failing"}
        /\ stopAt' \in {"out", "asked", "waiting", "marking"}
        /\ bootOn' \in {bootOn, None, run} /\ stopOn' \in {stopOn, None, run}
    BY DEF MonitorNext, monitorVars, userVars, userTypes, Ping, PingStarts, PingAnswers, PingApplies,
       Boot, BootBegins, BootFindsItUp, BootPrepares, BootForks, BootJoins,
       BootFails, BootStarted, BootSees, BootReports, BootConnects, BootCancelled,
       Stop, StopAsks, StopSignals, StopWaits, MarkStopped, MarkDisconnected, BackoffElapses,
       Reap, Untrack, closeExit, OnExit, checkAndRestart, TimerTicks, TimerEnds, Gate, ReadsExit,
       Claims, RestartForks, RestartAdopts, RestartReturns, StartedElsewhere, Dies
  <1> QED
    BY <1>8, <1>9 DEF userTypes, processTypes

\* The flags are Booleans throughout.
LEMMA FlagStep ==
  ASSUME types, [MonitorNext]_monitorVars
  PROVE  flagTypes'
  <1>1. /\ alive' = alive \/ alive' = TRUE \/ alive' = FALSE
        /\ tracked' = tracked \/ tracked' = TRUE \/ tracked' = FALSE
        /\ adopted' = adopted \/ adopted' = TRUE \/ adopted' = FALSE
    BY DEF MonitorNext, monitorVars, procVars, forks, adopts, Ping, PingStarts, PingAnswers,
       PingApplies, Boot, BootBegins, BootFindsItUp, BootPrepares, BootForks, BootJoins,
       BootFails, BootStarted, BootSees, BootReports, BootConnects, BootCancelled,
       Stop, StopAsks, StopSignals, StopWaits, MarkStopped, MarkDisconnected, BackoffElapses,
       Reap, Untrack, closeExit, OnExit, checkAndRestart, TimerTicks, TimerEnds, Gate, ReadsExit,
       Claims, RestartForks, RestartAdopts, RestartReturns, StartedElsewhere, Dies
  <1>2. \/ answered' = answered \/ answered' = FALSE
        \/ \E a \in {"ok", "warmup", "refused", "error"} : answered' = (answered \/ a = "ok")
    BY DEF MonitorNext, monitorVars, Ping, PingStarts, PingAnswers,
       PingApplies, Boot, BootBegins, BootFindsItUp, BootPrepares, BootForks, BootJoins,
       BootFails, BootStarted, BootSees, BootReports, BootConnects, BootCancelled,
       Stop, StopAsks, StopSignals, StopWaits, MarkStopped, MarkDisconnected, BackoffElapses,
       Reap, Untrack, closeExit, OnExit, checkAndRestart, TimerTicks, TimerEnds, Gate, ReadsExit,
       Claims, RestartForks, RestartAdopts, RestartReturns, StartedElsewhere, Dies
  <1>3. answered' \in BOOLEAN
    BY <1>2, Zenon DEF types, flagTypes
  <1> QED
    BY <1>1, <1>3, Zenon DEF types, flagTypes

\* It holds at the start.
LEMMA MonitorInitInv == MonitorInit => MonitorInv
  <1> SUFFICES ASSUME MonitorInit PROVE MonitorInv
    OBVIOUS
  <1> USE MonitorAssumption DEF MonitorInit, None
  <1>1. mon \in Mon /\ ~mon.connected /\ mon.restartCount = 0
    BY DEF Mon
  <1>2. pingTypes /\ ping.at = "idle"
    BY DEF pingTypes, NoPing
  <1>3. timerTypes /\ processTypes /\ userTypes
    BY DEF timerTypes, processTypes, userTypes
  <1>4. flagTypes
    BY Zenon DEF flagTypes
  <1>5. pastGate = {}
    BY DEF pastGate
  <1>6. RestartBudget
    BY <1>1, <1>5, FS_EmptySet DEF RestartBudget
  <1>7. UnbornUnreaped
    BY DEF UnbornUnreaped
  <1> QED
    BY <1>1, <1>2, <1>3, <1>4, <1>6, <1>7 DEF MonitorInv, types, AnswerIsNew,
       ConnectedMeansAnswered

\* Every step keeps the invariant.
LEMMA MonitorStepInv ==
  ASSUME MonitorInv, [MonitorNext]_monitorVars
  PROVE  MonitorInv'
  <1> USE DEF MonitorInv
  <1>1. types' /\ UnbornUnreaped' /\ AnswerIsNew' /\ RestartBudget'
    BY MonStep, PingStep, TimerStep, ProcessStep, FlagStep DEF types
  <1>2. ConnectedMeansAnswered'
    BY MonStep DEF ConnectedMeansAnswered, AnswerIsNew
  <1> QED
    BY <1>1, <1>2

\* Only a ping writes "ping", and a crash error mutes it.
LEMMA ReasonStep ==
  ASSUME types, [MonitorNext]_monitorVars,
         mon.connectionError = "exit", mon.hasCrashError
  PROVE  mon'.connectionError # "ping"
  <1> USE DEF types
  <1>1. ASSUME mon' = mon PROVE mon'.connectionError # "ping"
    BY <1>1
  <1>2. ASSUME PingApplies PROVE mon'.connectionError # "ping"
    <2>1. afterPing.connectionError # "ping"
      BY DEF afterPing, lost, muted, Mon, pingTypes
    <2> QED
      BY <1>2, <2>1 DEF PingApplies
  <1>3. ASSUME NEW r \in Runs, OnExit(r) PROVE mon'.connectionError # "ping"
    BY <1>3 DEF OnExit, withError, Mon
  <1>4. ASSUME NEW t \in Timers, Claims(t) \/ RestartAdopts(t) \/ RestartReturns(t)
        PROVE mon'.connectionError # "ping"
    BY <1>4 DEF Claims, RestartAdopts, RestartReturns, BackToTicking, startFailed, Mon
  <1>5. ASSUME BootPrepares \/ BootFails \/ BootSees \/ BootCancelled \/ StopAsks
               \/ BackoffElapses
        PROVE mon'.connectionError # "ping"
    BY <1>5 DEF BootPrepares, BootFails, BootSees, BootCancelled, StopAsks, BackoffElapses, Mon
  <1>6. ASSUME BootReports \/ MarkStopped \/ MarkDisconnected
        PROVE mon'.connectionError # "ping"
    BY <1>6 DEF BootReports, withError, MarkStopped, MarkDisconnected, Mon
  <1>7. \/ mon' = mon
        \/ PingApplies \/ (\E r \in Runs : OnExit(r))
        \/ \E t \in Timers : Claims(t) \/ RestartAdopts(t) \/ RestartReturns(t)
        \/ BackoffElapses \/ BootPrepares \/ BootFails \/ BootSees \/ BootCancelled \/ StopAsks
        \/ BootReports \/ MarkStopped \/ MarkDisconnected
    BY DEF MonitorNext, monitorVars, Ping, PingStarts, PingAnswers, Boot, BootFindsItUp, BootForks,
       BootJoins, BootStarted, BootConnects, Stop, StopSignals, StopWaits, Reap, Untrack, closeExit,
       checkAndRestart, TimerTicks, TimerEnds, Gate, ReadsExit, RestartForks, BootBegins,
       StartedElsewhere, Dies
  <1> HIDE DEF types
  <1> QED
    BY <1>1, <1>2, <1>3, <1>4, <1>5, <1>6, <1>7

-----------------------------------------------------------------------------

\* The inductive invariant holds in every run.
THEOREM MonitorInvariant == MonitorSpec => []MonitorInv
  BY MonitorInitInv, MonitorStepInv, PTL DEF MonitorSpec

\* The types hold in every run: the restarts stop at their limit, which only a
\* boot's own timer can still pass, once each.
THEOREM MonitorTypes == MonitorSpec => []MonitorTypeOK
  <1>1. MonitorInv => MonitorTypeOK
    <2> SUFFICES ASSUME MonitorInv PROVE MonitorTypeOK
      OBVIOUS
    <2>1. mon.restartCount \in 0 .. MaxRestarts + MaxBoots
      <3>1. IsFiniteSet(Timers)
        BY FS_Interval, MonitorAssumption DEF Timers
      <3>2. Cardinality(pastGate) \in Nat
        BY <3>1, FS_Subset, FS_CardinalityType DEF pastGate
      <3> QED
        BY <3>2, MonitorAssumption DEF MonitorInv, types, Mon, RestartBudget
    <2> QED
      BY <2>1 DEF MonitorInv, types, Mon, pingTypes, timerTypes, processTypes, flagTypes,
         userTypes, MonitorTypeOK
  <1> QED
    BY <1>1, MonitorInvariant, PTL

\* After a stop the daemon reads as connected only when something answered since,
\* whichever ping was in flight and whatever landed late.
THEOREM ConnectedAnswered == MonitorSpec => []ConnectedMeansAnswered
  <1>1. MonitorInv => ConnectedMeansAnswered
    BY DEF MonitorInv
  <1> QED
    BY <1>1, MonitorInvariant, PTL

\* The reason of a crash is not overwritten by the ping that fails because of it.
THEOREM CrashReasonKept == MonitorSpec => CrashReasonStays
  <1>1. MonitorInv /\ [MonitorNext]_monitorVars =>
          [mon.connectionError = "exit" /\ mon.hasCrashError =>
             mon'.connectionError # "ping"]_monitorVars
    BY ReasonStep DEF MonitorInv
  <1> QED
    BY <1>1, MonitorInvariant, PTL DEF MonitorSpec, CrashReasonStays
=============================================================================
