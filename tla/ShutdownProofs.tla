-------------------------- MODULE ShutdownProofs --------------------------
(***************************************************************************)
(* Proofs about the shutdown state machine, for every set of boots and     *)
(* every bound on the drains: the safety properties from one inductive     *)
(* invariant, and from it that the machine implements DaemonLifecycle.     *)
(***************************************************************************)
EXTENDS Shutdown, TLAPS

\* The last drain of the bound is kept for the signal.
RoomForSignal == mainAt = "serving" => drains < MaxDrains

\* The drain in flight owns the idle channel, until it retires.
IdleChannel ==
    InFlight # {} => \/ shutdownIdle = drains /\ runner[drains] # "retired"
                     \/ shutdownIdle = NoChannel /\ runner[drains] = "retired"

\* A drain that has not started has no goroutine.
NotYetStarted == \A d \in Drains : d > drains => runner[d] = "none"

\* A channel closes at the end of its drain.
ClosedAtEnd == \A d \in closed : runner[d] \notin {"none", "draining", "drained", "retiring"}

\* A boot waits on the drain it saw, or on none when that drain retired.
WaitsOnSeen ==
    \A b \in Boots :
        /\ bootSaw[b] <= drains /\ bootOn[b] <= drains
        /\ bootAt[b] = "waiting" => bootOn[b] = bootSaw[b] \/ bootOn[b] = NoChannel

\* No exit is due while a keep stands.
KeepStands == shutdownState = "exit" => keptDrain = 0

MachineInv ==
    OneDrain /\ IdleChannel /\ NotYetStarted /\ ClosedAtEnd /\ KeepStands /\ KeptStaysUp
WaiterInv  == RoomForSignal /\ WaitsOnSeen /\ NoLostWakeup /\ BootsAfterDrain

ShutdownInv == ShutdownTypeOK /\ MachineInv /\ WaiterInv

-----------------------------------------------------------------------------

LEMMA InitInv == ShutdownInit => ShutdownInv
  <1> SUFFICES ASSUME ShutdownInit PROVE ShutdownInv
    OBVIOUS
  <1> USE ShutdownAssumption DEF ShutdownInit, Drains, NoChannel
  <1>1. ShutdownTypeOK
    <2>1. drains \in 0 .. MaxDrains /\ shutdownIdle \in 0 .. drains /\ keptDrain \in 0 .. MaxDrains
      OBVIOUS
    <2>2. bootOn \in [Boots -> 0 .. MaxDrains] /\ bootSaw \in [Boots -> 0 .. MaxDrains]
      OBVIOUS
    <2>3. daemonUp \in BOOLEAN /\ retireAsked \in BOOLEAN
      BY Zenon
    <2>4. mainOn \in 0 .. MaxDrains /\ closed \subseteq 1 .. drains
      OBVIOUS
    <2> QED
      BY <2>1, <2>2, <2>3, <2>4 DEF ShutdownTypeOK
  <1>2. InFlight = {}
    BY DEF InFlight
  <1>3. MachineInv
    BY <1>2 DEF MachineInv, OneDrain, IdleChannel, NotYetStarted, ClosedAtEnd,
       KeepStands, KeptStaysUp
  <1>4. WaiterInv
    BY DEF WaiterInv, RoomForSignal, WaitsOnSeen, NoLostWakeup, BootsAfterDrain
  <1> QED
    BY <1>1, <1>3, <1>4 DEF ShutdownInv

\* A drain starts when none is in flight: it is the newest one, its channel is
\* the idle channel, and no drain that anybody waits on changes.
LEMMA StartsDrain ==
  ASSUME ShutdownInv, shutdownState = "running", drains < MaxDrains,
         NEW start \in {"draining", "retiring"}, startDrainLocked(start),
         UNCHANGED <<closed, bootAt, bootOn, bootSaw, mainOn>>,
         mainAt' \in {mainAt, "signalled"}, daemonUp' \in BOOLEAN, retireAsked' \in BOOLEAN,
         mainAt' = "serving" => drains + 1 < MaxDrains
  PROVE  ShutdownInv'
  <1> USE ShutdownAssumption DEF ShutdownInv, MachineInv, WaiterInv, Drains, NoChannel
  <1>1. ShutdownTypeOK'
    BY DEF ShutdownTypeOK, startDrainLocked
  <1>2. InFlight = {} /\ InFlight' = {drains + 1}
    BY DEF ShutdownTypeOK, OneDrain, InFlight, startDrainLocked
  <1>3. MachineInv'
    BY <1>2 DEF ShutdownTypeOK, startDrainLocked, OneDrain, IdleChannel,
       NotYetStarted, ClosedAtEnd, KeepStands, KeptStaysUp
  <1>4. NoLostWakeup'
    BY <1>2 DEF ShutdownTypeOK, startDrainLocked, NoLostWakeup
  <1>5. RoomForSignal' /\ WaitsOnSeen' /\ BootsAfterDrain'
    BY DEF ShutdownTypeOK, startDrainLocked, RoomForSignal, WaitsOnSeen, BootsAfterDrain
  <1> QED
    BY <1>1, <1>3, <1>4, <1>5

\* Every step keeps the invariant.
LEMMA StepInv ==
  ASSUME ShutdownInv, [ShutdownNext]_shutdownVars
  PROVE  ShutdownInv'
  <1> USE ShutdownAssumption DEF ShutdownInv, ShutdownTypeOK, MachineInv, WaiterInv,
        OneDrain, IdleChannel, NotYetStarted, ClosedAtEnd, KeepStands, KeptStaysUp,
        RoomForSignal, WaitsOnSeen, NoLostWakeup, BootsAfterDrain,
        machine, others, Drains, NoChannel, InFlight
  <1>1. ASSUME NEW d \in Drains, StopChildren(d) PROVE ShutdownInv'
    <2>1. ShutdownTypeOK'
      BY <1>1 DEF StopChildren
    <2>2. MachineInv'
      BY <1>1 DEF StopChildren
    <2>3. WaiterInv'
      BY <1>1 DEF StopChildren
    <2> QED
      BY <2>1, <2>2, <2>3
  <1>2. ASSUME NEW d \in Drains, FinishDrain(d) PROVE ShutdownInv'
    <2>1. ShutdownTypeOK'
      BY <1>2 DEF FinishDrain, closesIdle, finalExits
    <2>2. MachineInv'
      <3>1. d = drains /\ InFlight' = {}
        <4>1. d = drains
          BY <1>2 DEF FinishDrain
        <4>2. \A e \in Drains : e # d => runner'[e] = runner[e] /\ e \notin InFlight
          BY <1>2, <4>1 DEF FinishDrain
        <4>3. runner'[d] \in {"exiting", "kept"}
          BY <1>2 DEF FinishDrain
        <4> QED
          BY <4>1, <4>2, <4>3
      <3>2. OneDrain' /\ IdleChannel' /\ NotYetStarted' /\ ClosedAtEnd'
        BY <1>2, <3>1 DEF FinishDrain, closesIdle
      <3>3. KeepStands' /\ KeptStaysUp'
        BY <1>2, <3>1 DEF FinishDrain, finalExits
      <3> QED
        BY <3>2, <3>3
    <2>3. WaiterInv'
      BY <1>2 DEF FinishDrain, closesIdle, finalExits
    <2> QED
      BY <2>1, <2>2, <2>3
  <1>3. ASSUME NEW d \in Drains, Retire(d) PROVE ShutdownInv'
    <2>1. ShutdownTypeOK'
      <3>1. d = drains
        BY <1>3 DEF Retire
      <3>2. closed' \subseteq 1 .. drains
        BY <1>3, <3>1 DEF Retire, closesIdle
      <3> QED
        BY <1>3, <3>2 DEF Retire
    <2>2. d = drains /\ InFlight' = {drains}
      BY <1>3 DEF Retire
    <2>3. MachineInv'
      BY <1>3, <2>2 DEF Retire, closesIdle
    <2>4. WaiterInv'
      BY <1>3 DEF Retire, closesIdle
    <2> QED
      BY <2>1, <2>3, <2>4
  <1>4. ASSUME NEW d \in Drains, exitProcess(d) PROVE ShutdownInv'
    <2>1. ShutdownTypeOK'
      BY <1>4 DEF exitProcess
    <2>2. MachineInv'
      BY <1>4 DEF exitProcess
    <2>3. WaiterInv'
      BY <1>4 DEF exitProcess
    <2> QED
      BY <2>1, <2>2, <2>3
  <1>5. ASSUME NEW b \in Boots, AwaitDrain(b) PROVE ShutdownInv'
    <2>1. ShutdownTypeOK'
      <3>1. bootSaw' \in [Boots -> 0 .. MaxDrains]
        BY <1>5 DEF AwaitDrain
      <3>2. CASE drainInFlight
        <4>1. /\ UNCHANGED <<shutdownIdle, drains, closed, runner, mainAt, mainOn, daemonUp, retireAsked>>
              /\ bootAt' = [bootAt EXCEPT ![b] = "waiting"]
              /\ bootOn' = [bootOn EXCEPT ![b] = shutdownIdle]
          BY <1>5, <3>2 DEF AwaitDrain, CancelShutdownExit
        <4>2. shutdownState' \in {"running", "exit", "keep"} /\ keptDrain' \in 0 .. MaxDrains
          BY <1>5, <3>2 DEF AwaitDrain, CancelShutdownExit
        <4>3. bootOn' \in [Boots -> 0 .. MaxDrains]
          BY <4>1
        <4> QED
          BY <3>1, <4>1, <4>2, <4>3
      <3>3. CASE ~drainInFlight
        BY <1>5, <3>1, <3>3 DEF AwaitDrain
      <3> QED
        BY <3>2, <3>3
    <2>2. MachineInv'
      <3>1. CASE drainInFlight
        <4>1. UNCHANGED <<shutdownIdle, drains, closed, runner, daemonUp, mainAt, mainOn,
                          retireAsked>>
              /\ shutdownState' = (IF cancels THEN "keep" ELSE shutdownState)
              /\ keptDrain' = (IF cancels THEN drains ELSE keptDrain)
          BY <1>5, <3>1 DEF AwaitDrain, CancelShutdownExit
        <4> QED
          BY <1>5, <4>1 DEF cancels
      <3>2. CASE ~drainInFlight
        BY <1>5, <3>2 DEF AwaitDrain
      <3> QED
        BY <3>1, <3>2
    <2>3. WaiterInv'
      <3>1. /\ UNCHANGED <<shutdownIdle, drains, closed, runner, daemonUp, mainAt, mainOn>>
            /\ bootSaw' = [bootSaw EXCEPT ![b] = IF InFlight = {} THEN 0 ELSE drains]
        BY <1>5 DEF AwaitDrain, CancelShutdownExit
      <3>2. CASE drainInFlight
        <4>1. /\ bootAt' = [bootAt EXCEPT ![b] = "waiting"]
              /\ bootOn' = [bootOn EXCEPT ![b] = shutdownIdle]
          BY <1>5, <3>2 DEF AwaitDrain
        <4>2. bootOn'[b] = shutdownIdle /\ bootAt'[b] = "waiting"
          BY <4>1
        <4>3. RoomForSignal' /\ BootsAfterDrain'
          BY <3>1, <4>1
        <4>4. WaitsOnSeen'
          BY <3>1, <3>2, <4>1, <4>2 DEF drainInFlight
        <4>5. NoLostWakeup'
          BY <3>1, <3>2, <4>1, <4>2 DEF drainInFlight
        <4> QED
          BY <4>3, <4>4, <4>5
      <3>3. CASE ~drainInFlight
        <4>1. bootAt' = [bootAt EXCEPT ![b] = "booting"] /\ bootOn' = bootOn
          BY <1>5, <3>3 DEF AwaitDrain
        <4>2. RoomForSignal' /\ WaitsOnSeen' /\ NoLostWakeup'
          BY <3>1, <4>1
        <4>3. BootsAfterDrain'
          BY <3>1, <3>3, <4>1 DEF drainInFlight
        <4> QED
          BY <4>2, <4>3
      <3> QED
        BY <3>2, <3>3
    <2> QED
      BY <2>1, <2>2, <2>3
  <1>6. ASSUME NEW b \in Boots, BootWakes(b) PROVE ShutdownInv'
    <2>1. ShutdownTypeOK'
      BY <1>6 DEF BootWakes
    <2>2. MachineInv'
      BY <1>6 DEF BootWakes
    <2>3. WaiterInv'
      BY <1>6 DEF BootWakes
    <2> QED
      BY <2>1, <2>2, <2>3
  <1>7. ASSUME NEW b \in Boots, BootCancelled(b) PROVE ShutdownInv'
    <2>1. ShutdownTypeOK'
      BY <1>7 DEF BootCancelled
    <2>2. MachineInv'
      BY <1>7 DEF BootCancelled
    <2>3. WaiterInv'
      BY <1>7 DEF BootCancelled
    <2> QED
      BY <2>1, <2>2, <2>3
  <1>8. ASSUME NEW b \in Boots, BootStarts(b) PROVE ShutdownInv'
    <2>1. ShutdownTypeOK'
      BY <1>8 DEF BootStarts
    <2>2. MachineInv'
      BY <1>8 DEF BootStarts
    <2>3. WaiterInv'
      BY <1>8 DEF BootStarts
    <2> QED
      BY <2>1, <2>2, <2>3
  <1>9. ASSUME Signal PROVE ShutdownInv'
    <2>1. CASE shutdownState = "running"
      BY <1>9, <2>1, StartsDrain DEF Signal, BeginShutdown
    <2>2. CASE shutdownState # "running"
      BY <1>9, <2>2 DEF Signal, BeginShutdown
    <2> QED
      BY <2>1, <2>2
  <1>10. ASSUME AwaitShutdownIdle PROVE ShutdownInv'
    <2>1. ShutdownTypeOK'
      BY <1>10 DEF AwaitShutdownIdle
    <2>2. MachineInv'
      BY <1>10 DEF AwaitShutdownIdle
    <2>3. WaiterInv'
      BY <1>10 DEF AwaitShutdownIdle
    <2> QED
      BY <2>1, <2>2, <2>3
  <1>11. ASSUME MainWakes PROVE ShutdownInv'
    <2>1. ShutdownTypeOK'
      BY <1>11 DEF MainWakes
    <2>2. MachineInv'
      BY <1>11 DEF MainWakes
    <2>3. WaiterInv'
      BY <1>11 DEF MainWakes
    <2> QED
      BY <2>1, <2>2, <2>3
  <1>12. ASSUME MainExits PROVE ShutdownInv'
    <2>1. ShutdownTypeOK'
      BY <1>12 DEF MainExits
    <2>2. MachineInv'
      BY <1>12 DEF MainExits
    <2>3. WaiterInv'
      BY <1>12 DEF MainExits
    <2> QED
      BY <2>1, <2>2, <2>3
  <1>13. ASSUME NEW k \in BOOLEAN, ShutdownRPC(k) PROVE ShutdownInv'
    <2>0. retireAsked' \in BOOLEAN
      BY <1>13, Zenon DEF ShutdownRPC
    <2>1. CASE shutdownState = "running"
      <3>1. startDrainLocked(IF k THEN "retiring" ELSE "draining") /\ UNCHANGED <<closed, others, daemonUp>>
        BY <1>13, <2>1 DEF ShutdownRPC, BeginShutdown
      <3>2. drains + 1 < MaxDrains
        BY <1>13 DEF ShutdownRPC
      <3>3. (IF k THEN "retiring" ELSE "draining") \in {"draining", "retiring"}
        OBVIOUS
      <3>4. UNCHANGED <<closed, bootAt, bootOn, bootSaw, mainAt, mainOn, daemonUp>>
        BY <3>1
      <3>5. drains < MaxDrains /\ daemonUp' \in BOOLEAN
        BY <3>2, <3>4
      <3>6. ShutdownInv
        OBVIOUS
      <3> HIDE DEF ShutdownInv
      <3> QED
        BY <2>0, <2>1, <3>1, <3>2, <3>3, <3>4, <3>5, <3>6, StartsDrain, Zenon
    <2>2. CASE shutdownState # "running"
      <3>1. UNCHANGED <<machine, others, daemonUp, keptDrain>>
        BY <1>13, <2>2 DEF ShutdownRPC, BeginShutdown
      <3> QED
        BY <2>0, <3>1
    <2> QED
      BY <2>1, <2>2
  <1>14. ASSUME LeaseExit PROVE ShutdownInv'
    <2>1. CASE shutdownState = "running"
      <3>1. startDrainLocked("draining") /\ UNCHANGED <<closed, others, daemonUp, retireAsked>>
        BY <1>14, <2>1 DEF LeaseExit, RequestExit
      <3>2. drains + 1 < MaxDrains
        BY <1>14 DEF LeaseExit
      <3>3. UNCHANGED <<closed, bootAt, bootOn, bootSaw, mainAt, mainOn, daemonUp>>
        BY <3>1
      <3>4. drains < MaxDrains /\ daemonUp' \in BOOLEAN /\ retireAsked' \in BOOLEAN
        BY <3>1, <3>2
      <3>5. ShutdownInv
        OBVIOUS
      <3> HIDE DEF ShutdownInv
      <3> QED
        BY <2>1, <3>1, <3>2, <3>3, <3>4, <3>5, StartsDrain, Zenon
    <2>2. CASE shutdownState = "keep"
      <3>1. /\ shutdownState' = "exit" /\ keptDrain' = 0
            /\ UNCHANGED <<drains, shutdownIdle, runner, closed, others, daemonUp, retireAsked>>
        BY <1>14, <2>2 DEF LeaseExit, RequestExit
      <3> QED
        BY <2>2, <3>1
    <2>3. CASE shutdownState = "exit"
      <3>1. UNCHANGED shutdownVars
        BY <1>14, <2>3 DEF LeaseExit, RequestExit, shutdownVars
      <3> QED
        BY <3>1 DEF shutdownVars
    <2> QED
      BY <2>1, <2>2, <2>3
  <1>15. ASSUME Claim PROVE ShutdownInv'
    <2>1. ShutdownTypeOK'
      BY <1>15 DEF Claim, CancelShutdownExit, cancels
    <2>2. MachineInv'
      BY <1>15 DEF Claim, CancelShutdownExit, cancels
    <2>3. WaiterInv'
      BY <1>15 DEF Claim, CancelShutdownExit, cancels
    <2> QED
      BY <2>1, <2>2, <2>3
  <1>16. CASE UNCHANGED shutdownVars
    BY <1>16 DEF shutdownVars
  <1> QED
    BY <1>1, <1>2, <1>3, <1>4, <1>5, <1>6, <1>7, <1>8, <1>9, <1>10, <1>11, <1>12, <1>13,
       <1>14, <1>15, <1>16 DEF ShutdownNext, Drain, Boot, Main

-----------------------------------------------------------------------------
(* The theorems.                                                           *)

\* The inductive invariant holds in every reachable state of the machine.
THEOREM ShutdownInvariant == ShutdownSpec => []ShutdownInv
  BY InitInv, StepInv, PTL DEF ShutdownSpec

\* Type correctness: a drain in flight has a number within the bound.
THEOREM ShutdownTypes == ShutdownSpec => []ShutdownTypeOK
  BY ShutdownInvariant, PTL DEF ShutdownInv

\* shutdownState is RUNNING exactly while no drain runs, and two never do.
THEOREM DrainsOne == ShutdownSpec => []OneDrain
  BY ShutdownInvariant, PTL DEF ShutdownInv, MachineInv

\* However many drains, boots and claims interleave, a waiter of
\* awaitDrainForBoot or of AwaitShutdownIdle holds a channel that is closed, or
\* that the drain in flight will close, or the daemon is retiring.
THEOREM WaitersCovered == ShutdownSpec => []NoLostWakeup
  BY ShutdownInvariant, PTL DEF ShutdownInv, WaiterInv

\* A drain that a claim or a boot turned into a KEEP does not exit the daemon.
THEOREM KeptStays == ShutdownSpec => []KeptStaysUp
  BY ShutdownInvariant, PTL DEF ShutdownInv, MachineInv

\* A boot that met a drain starts its children after that drain's ShutdownAll.
THEOREM BootsWaitDrains == ShutdownSpec => []BootsAfterDrain
  BY ShutdownInvariant, PTL DEF ShutdownInv, WaiterInv

-----------------------------------------------------------------------------
(* The refinement.                                                         *)

\* A step of the machine that changes nothing a client sees.
LEMMA Unseen ==
  ASSUME daemonUp' <=> daemonUp, Leaving' <=> Leaving,
         ~Leaving => (InFlight' # {} <=> InFlight # {}),
         Draining => (shutdownState' = "exit" \/ Retiring' <=> shutdownState = "exit" \/ Retiring),
         mainAt' # "serving" <=> mainAt # "serving"
  PROVE  UNCHANGED Lifecycle!lifecycleVars
  <1>1. (Draining' <=> Draining) /\ (lifecycleExits' <=> lifecycleExits)
    BY Zenon DEF Draining, lifecycleExits
  <1>2. lifecyclePhase' = lifecyclePhase
    BY <1>1, Zenon DEF lifecyclePhase
  <1> QED
    BY <1>1, <1>2, Zenon DEF Lifecycle!lifecycleVars, lifecycleExits, Draining

LEMMA InitMaps == ShutdownInit => Lifecycle!LifecycleInit
  <1> SUFFICES ASSUME ShutdownInit PROVE Lifecycle!LifecycleInit
    OBVIOUS
  <1>1. InFlight = {} /\ ~Leaving /\ daemonUp
    BY DEF ShutdownInit, InFlight, Leaving
  <1>2. mainAt = "serving"
    BY DEF ShutdownInit
  <1> QED
    BY <1>1, <1>2, Zenon DEF Lifecycle!LifecycleInit, lifecyclePhase, lifecycleExits, Draining

\* What the mapping reads of a state.
LEMMA Shape ==
  ASSUME ShutdownInv
  PROVE  /\ InFlight # {} <=> shutdownState # "running"
         /\ Retiring <=> InFlight # {} /\ runner[drains] = "retiring"
         /\ Leaving <=> mainAt = "exiting" \/ \E d \in Drains : runner[d] \in {"exiting", "retired"}
  BY DEF ShutdownInv, MachineInv, OneDrain, InFlight, Retiring, Leaving

\* A drain that starts is a Drains step, or a Signals step when main asked for
\* it; a daemon that is already leaving does not show it.
LEMMA StartMaps ==
  ASSUME ShutdownInv, ShutdownInv', shutdownState = "running", drains < MaxDrains,
         NEW start \in {"draining", "retiring"}, startDrainLocked(start),
         daemonUp, daemonUp',
         mainAt' = mainAt \/ (mainAt = "serving" /\ mainAt' = "signalled")
  PROVE  [Lifecycle!LifecycleNext]_(Lifecycle!lifecycleVars)
  <1>1. InFlight = {} /\ InFlight' # {} /\ shutdownState' = "exit"
    BY Shape DEF ShutdownInv, MachineInv, OneDrain, startDrainLocked
  <1>2. Leaving' <=> Leaving
    <2>1. drains + 1 \in Drains /\ drains + 1 > drains
      BY ShutdownAssumption DEF ShutdownInv, ShutdownTypeOK, Drains
    <2>2. runner[drains + 1] = "none"
      BY <2>1 DEF ShutdownInv, MachineInv, NotYetStarted
    <2>3. runner'[drains + 1] = start /\ \A d \in Drains \ {drains + 1} : runner'[d] = runner[d]
      BY <2>1 DEF startDrainLocked, ShutdownInv, ShutdownTypeOK
    <2>4. mainAt' = "exiting" <=> mainAt = "exiting"
      OBVIOUS
    <2> QED
      BY <2>1, <2>2, <2>3, <2>4 DEF Leaving
  <1>3. (mainAt' # "serving" <=> mainAt # "serving") \/ (mainAt = "serving" /\ mainAt' = "signalled")
    OBVIOUS
  <1> QED
    BY <1>1, <1>2, <1>3, Zenon DEF Lifecycle!LifecycleNext, Lifecycle!lifecycleVars, Lifecycle!Drains,
       Lifecycle!Signals, lifecyclePhase, lifecycleExits, Draining

\* Every step of the machine maps to a step of DaemonLifecycle or to a stutter.
LEMMA StepMaps ==
  ASSUME ShutdownInv, ShutdownInv', [ShutdownNext]_shutdownVars
  PROVE  [Lifecycle!LifecycleNext]_(Lifecycle!lifecycleVars)
  <1> USE DEF others, machine
  <1>1. ASSUME NEW d \in Drains, StopChildren(d)
        PROVE  UNCHANGED Lifecycle!lifecycleVars
    <2>1. /\ runner[d] = "draining" /\ runner'[d] = "drained"
          /\ \A e \in Drains : e # d => runner'[e] = runner[e]
      BY <1>1 DEF StopChildren, ShutdownInv, ShutdownTypeOK
    <2>2. (Leaving' <=> Leaving) /\ (Retiring' <=> Retiring) /\ InFlight' = InFlight
      BY <1>1, <2>1 DEF StopChildren, Leaving, Retiring, InFlight
    <2> QED
      BY <1>1, <2>2, Unseen, Zenon DEF StopChildren
  <1>2. ASSUME NEW d \in Drains, FinishDrain(d)
        PROVE  [Lifecycle!LifecycleNext]_(Lifecycle!lifecycleVars)
    <2>1. d = drains /\ InFlight # {} /\ ~Retiring /\ daemonUp /\ daemonUp'
      BY <1>2 DEF FinishDrain, InFlight, Retiring, ShutdownInv, MachineInv, OneDrain
    <2>2. InFlight' = {} /\ mainAt' = mainAt
      BY <1>2, Shape, ShutdownInv' DEF FinishDrain, ShutdownInv, MachineInv, OneDrain
    <2>3. CASE finalExits
      <3>1. Leaving' /\ shutdownState = "exit"
        BY <1>2, <2>3 DEF FinishDrain, finalExits, Leaving, ShutdownInv, ShutdownTypeOK
      <3> QED
        BY <2>1, <2>2, <3>1, Zenon DEF Lifecycle!LifecycleNext, Lifecycle!Leaves,
           Lifecycle!lifecycleVars, lifecyclePhase, lifecycleExits, Draining
    <2>4. CASE ~finalExits
      <3>1. (Leaving' <=> Leaving) /\ shutdownState # "exit"
        BY <1>2, <2>4 DEF FinishDrain, finalExits, Leaving, ShutdownInv, ShutdownTypeOK
      <3> QED
        BY <2>1, <2>2, <3>1, Zenon DEF Lifecycle!LifecycleNext, Lifecycle!Serves,
           Lifecycle!lifecycleVars, lifecyclePhase, lifecycleExits, Draining
    <2> QED
      BY <2>3, <2>4
  <1>3. ASSUME NEW d \in Drains, Retire(d)
        PROVE  [Lifecycle!LifecycleNext]_(Lifecycle!lifecycleVars)
    <2>1. InFlight # {} /\ Retiring /\ daemonUp /\ daemonUp' /\ mainAt' = mainAt
      BY <1>3 DEF Retire, InFlight, Retiring
    <2>2. Leaving'
      BY <1>3 DEF Retire, Leaving, ShutdownInv, ShutdownTypeOK
    <2> QED
      BY <2>1, <2>2, Zenon DEF Lifecycle!LifecycleNext, Lifecycle!Leaves,
         Lifecycle!lifecycleVars, lifecyclePhase, lifecycleExits, Draining
  <1>4. ASSUME Leaving, daemonUp, ~daemonUp', mainAt' = mainAt
        PROVE  Lifecycle!LifecycleNext
    BY <1>4, Zenon DEF Lifecycle!LifecycleNext, Lifecycle!Ends, lifecyclePhase,
       lifecycleExits, Draining
  <1>5. ASSUME NEW d \in Drains, exitProcess(d) PROVE Lifecycle!LifecycleNext
    <2>1. Leaving
      BY <1>5 DEF exitProcess, Leaving
    <2> QED
      BY <1>4, <1>5, <2>1, Zenon DEF exitProcess
  <1>6. ASSUME CancelShutdownExit, daemonUp, daemonUp', mainAt' = mainAt
        PROVE  [Lifecycle!LifecycleNext]_(Lifecycle!lifecycleVars)
    <2>1. (Leaving' <=> Leaving) /\ (Retiring' <=> Retiring) /\ InFlight' = InFlight
      BY <1>6 DEF CancelShutdownExit, Leaving, Retiring, InFlight
    <2>2. CASE cancels
      <3>1. shutdownState = "exit" /\ shutdownState' # "exit"
        BY <1>6, <2>2 DEF CancelShutdownExit, cancels
      <3> QED
        BY <1>6, <2>1, <3>1, Zenon DEF Lifecycle!LifecycleNext, Lifecycle!Keeps,
           Lifecycle!lifecycleVars, lifecyclePhase, lifecycleExits, Draining
    <2>3. CASE ~cancels
      <3>1. shutdownState' = shutdownState
        BY <1>6, <2>3 DEF CancelShutdownExit
      <3> QED
        BY <1>6, <2>1, <3>1, Unseen, Zenon
    <2> QED
      BY <2>2, <2>3
  <1>7. ASSUME UNCHANGED <<shutdownState, runner, mainAt, daemonUp>>
        PROVE  UNCHANGED Lifecycle!lifecycleVars
    <2>1. (Leaving' <=> Leaving) /\ (Retiring' <=> Retiring) /\ InFlight' = InFlight
      BY <1>7 DEF Leaving, Retiring, InFlight
    <2> QED
      BY <1>7, <2>1, Unseen, Zenon
  <1>8. ASSUME NEW b \in Boots, AwaitDrain(b)
        PROVE  [Lifecycle!LifecycleNext]_(Lifecycle!lifecycleVars)
    <2>1. daemonUp /\ daemonUp' /\ mainAt' = mainAt
      BY <1>8, Zenon DEF AwaitDrain
    <2>2. CASE drainInFlight
      <3>1. CancelShutdownExit
        BY <1>8, <2>2, Zenon DEF AwaitDrain
      <3> QED
        BY <1>6, <2>1, <3>1
    <2>3. CASE ~drainInFlight
      <3>1. UNCHANGED <<shutdownState, runner, mainAt, daemonUp>>
        BY <1>8, <2>3 DEF AwaitDrain
      <3> QED
        BY <1>7, <3>1
    <2> QED
      BY <2>2, <2>3
  <1>9. ASSUME NEW b \in Boots, BootWakes(b) \/ BootCancelled(b) \/ BootStarts(b)
        PROVE  UNCHANGED Lifecycle!lifecycleVars
    <2>1. UNCHANGED <<shutdownState, runner, mainAt, daemonUp>>
      BY <1>9 DEF BootWakes, BootCancelled, BootStarts
    <2> QED
      BY <1>7, <2>1
  <1>10. ASSUME Signal PROVE [Lifecycle!LifecycleNext]_(Lifecycle!lifecycleVars)
    <2>1. daemonUp /\ daemonUp' /\ mainAt = "serving" /\ mainAt' = "signalled"
      BY <1>10, Zenon DEF Signal
    <2>2. CASE shutdownState = "running"
      <3>1. startDrainLocked("draining") /\ drains < MaxDrains
        BY <1>10, <2>1, <2>2 DEF Signal, BeginShutdown, ShutdownInv, WaiterInv, RoomForSignal
      <3> QED
        BY <2>1, <2>2, <3>1, StartMaps, Zenon
    <2>3. CASE shutdownState # "running"
      <3>1. /\ shutdownState' = shutdownState /\ runner' = runner
        BY <1>10, <2>3 DEF Signal, BeginShutdown
      <3>2. (Leaving' <=> Leaving) /\ (Retiring' <=> Retiring) /\ InFlight' = InFlight
        BY <2>1, <3>1 DEF Leaving, Retiring, InFlight
      <3>3. InFlight # {}
        BY <2>3, Shape
      <3> QED
        BY <2>1, <3>1, <3>2, <3>3, Zenon DEF Lifecycle!LifecycleNext, Lifecycle!Signals,
           Lifecycle!lifecycleVars, lifecyclePhase, lifecycleExits, Draining
    <2> QED
      BY <2>2, <2>3
  <1>11. ASSUME daemonUp, daemonUp', mainAt # "serving", mainAt' = "exiting",
                UNCHANGED <<shutdownState, runner>>
         PROVE  [Lifecycle!LifecycleNext]_(Lifecycle!lifecycleVars)
    <2>1. Leaving' /\ mainAt' # "serving"
      BY <1>11 DEF Leaving
    <2> QED
      BY <1>11, <2>1, Zenon DEF Lifecycle!LifecycleNext, Lifecycle!Leaves,
         Lifecycle!lifecycleVars, lifecyclePhase, lifecycleExits, Draining
  <1>12. ASSUME AwaitShutdownIdle PROVE [Lifecycle!LifecycleNext]_(Lifecycle!lifecycleVars)
    <2>1. /\ daemonUp /\ daemonUp' /\ mainAt # "serving" /\ mainAt' # "serving"
          /\ UNCHANGED <<shutdownState, runner>>
      BY <1>12 DEF AwaitShutdownIdle
    <2>2. CASE shutdownState = "running"
      BY <1>11, <1>12, <2>1, <2>2 DEF AwaitShutdownIdle
    <2>3. CASE shutdownState # "running"
      <3>1. mainAt # "exiting" /\ mainAt' # "exiting"
        BY <1>12, <2>3 DEF AwaitShutdownIdle
      <3>2. (Leaving' <=> Leaving) /\ (Retiring' <=> Retiring) /\ InFlight' = InFlight
        BY <2>1, <3>1 DEF Leaving, Retiring, InFlight
      <3> QED
        BY <2>1, <3>2, Unseen, Zenon
    <2> QED
      BY <2>2, <2>3
  <1>13. ASSUME MainWakes PROVE [Lifecycle!LifecycleNext]_(Lifecycle!lifecycleVars)
    BY <1>11, <1>13 DEF MainWakes
  <1>14. ASSUME MainExits PROVE Lifecycle!LifecycleNext
    <2>1. Leaving /\ daemonUp /\ ~daemonUp' /\ mainAt' = mainAt
      BY <1>14, Zenon DEF MainExits, Leaving
    <2> QED
      BY <1>4, <2>1
  <1>15. ASSUME NEW k \in BOOLEAN, ShutdownRPC(k)
         PROVE  [Lifecycle!LifecycleNext]_(Lifecycle!lifecycleVars)
    <2>1. daemonUp /\ daemonUp' /\ mainAt' = mainAt
      BY <1>15, Zenon DEF ShutdownRPC
    <2>2. CASE shutdownState = "running"
      <3>1. /\ startDrainLocked(IF k THEN "retiring" ELSE "draining") /\ drains < MaxDrains
            /\ (IF k THEN "retiring" ELSE "draining") \in {"draining", "retiring"}
        BY <1>15, <2>2, ShutdownAssumption
           DEF ShutdownRPC, BeginShutdown, ShutdownInv, ShutdownTypeOK
      <3> QED
        BY <2>1, <2>2, <3>1, StartMaps, Zenon
    <2>3. CASE shutdownState # "running"
      <3>1. UNCHANGED <<shutdownState, runner, mainAt, daemonUp>>
        BY <1>15, <2>3 DEF ShutdownRPC, BeginShutdown
      <3> QED
        BY <1>7, <3>1
    <2> QED
      BY <2>2, <2>3
  <1>16. ASSUME LeaseExit PROVE [Lifecycle!LifecycleNext]_(Lifecycle!lifecycleVars)
    <2>1. daemonUp /\ daemonUp' /\ mainAt' = mainAt
      BY <1>16, Zenon DEF LeaseExit
    <2>2. CASE shutdownState = "running"
      <3>1. startDrainLocked("draining") /\ drains < MaxDrains
        BY <1>16, <2>2, ShutdownAssumption
           DEF LeaseExit, RequestExit, ShutdownInv, ShutdownTypeOK
      <3> QED
        BY <2>1, <2>2, <3>1, StartMaps, Zenon
    <2>3. CASE shutdownState = "keep"
      <3>1. shutdownState' = "exit" /\ runner' = runner
        BY <1>16, <2>3 DEF LeaseExit, RequestExit
      <3>2. (Leaving' <=> Leaving) /\ (Retiring' <=> Retiring) /\ InFlight' = InFlight
        BY <2>1, <3>1 DEF Leaving, Retiring, InFlight
      <3>3. shutdownState # "exit"
        BY <2>3
      <3> QED
        BY <2>1, <3>1, <3>2, <3>3, Zenon DEF Lifecycle!LifecycleNext, Lifecycle!AsksAgain,
           Lifecycle!lifecycleVars, lifecyclePhase, lifecycleExits, Draining
    <2>4. CASE shutdownState = "exit"
      <3>1. UNCHANGED <<shutdownState, runner, mainAt, daemonUp>>
        BY <1>16, <2>4 DEF LeaseExit, RequestExit
      <3> QED
        BY <1>7, <3>1
    <2> QED
      BY <2>2, <2>3, <2>4 DEF ShutdownInv, ShutdownTypeOK
  <1>17. ASSUME Claim PROVE [Lifecycle!LifecycleNext]_(Lifecycle!lifecycleVars)
    <2>1. CancelShutdownExit /\ daemonUp /\ daemonUp' /\ mainAt' = mainAt
      BY <1>17, Zenon DEF Claim
    <2> QED
      BY <1>6, <2>1
  <1>18. CASE UNCHANGED shutdownVars
    BY <1>7, <1>18 DEF shutdownVars
  <1> QED
    <2>1. CASE \E d \in Drains : Drain(d)
      BY <1>1, <1>2, <1>3, <1>5, <2>1, Zenon DEF Drain
    <2>2. CASE \E b \in Boots : Boot(b)
      BY <1>8, <1>9, <2>2, Zenon DEF Boot
    <2>3. CASE Signal \/ Main
      BY <1>10, <1>12, <1>13, <1>14, <2>3, Zenon DEF Main
    <2>4. CASE ShutdownRPC(FALSE) \/ ShutdownRPC(TRUE) \/ LeaseExit \/ Claim
      BY <1>15, <1>16, <1>17, <2>4, Zenon
    <2> QED
      BY <1>18, <2>1, <2>2, <2>3, <2>4, Zenon DEF ShutdownNext

\* The shutdown machine implements DaemonLifecycle: the daemon leaves at the end
\* of a drain that nobody kept, of a retire or after a signal, never otherwise.
THEOREM Implements == ShutdownSpec => ImplementsLifecycle
  <1>1. ShutdownInv /\ ShutdownInv' /\ [ShutdownNext]_shutdownVars
          => [Lifecycle!LifecycleNext]_(Lifecycle!lifecycleVars)
    BY StepMaps
  <1> QED
    BY <1>1, InitMaps, ShutdownInvariant, PTL
       DEF ShutdownSpec, ImplementsLifecycle, Lifecycle!LifecycleSpec
=============================================================================
