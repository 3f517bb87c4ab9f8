----------------------------- MODULE Shutdown -----------------------------
(***************************************************************************)
(* The shutdown state machine of drivechaind (shutdown.go and the end of   *)
(* main).  A drain is a goroutine (runShutdown) with its own idle channel; *)
(* boots (StartWithL1) and main wait on the channel of the drain they saw. *)
(* Every critical section of shutdownMu is one action, so a boot, a claim  *)
(* or a signal may land between any two steps of a drain.                  *)
(***************************************************************************)
EXTENDS Naturals, FiniteSets

CONSTANTS
    Boots,      \* StartWithL1 calls
    MaxDrains   \* bound on drains; the last one is reserved for the signal

ASSUME ShutdownAssumption == MaxDrains \in Nat /\ MaxDrains >= 2

Drains == 1 .. MaxDrains
NoChannel == 0                  \* a nil idle channel: a receive blocks for good

VARIABLES
    shutdownState,  \* RUNNING, DRAINING_EXIT or DRAINING_KEEP
    shutdownIdle,   \* the idle channel of the drain in flight
    drains,         \* drains started so far; drain d owns channel d
    closed,         \* closed idle channels
    runner,         \* the runShutdown goroutine of each drain
    bootAt, bootOn, \* a boot and the channel it waits on
    mainAt, mainOn, \* the goroutine of main and the channel it waits on
    daemonUp,       \* the daemon process has not exited
    bootSaw,        \* history: the drain in flight when a boot arrived
    keptDrain,      \* history: the drain whose exit a claim or a boot cancelled
    retireAsked     \* history: some client asked for a keep-L1 exit

machine == <<shutdownState, shutdownIdle, drains, closed, runner>>
others  == <<bootAt, bootOn, bootSaw, mainAt, mainOn>>
shutdownVars == <<machine, others, daemonUp, keptDrain, retireAsked>>

ShutdownTypeOK ==
    /\ shutdownState \in {"running", "exit", "keep"}
    /\ drains \in 0 .. MaxDrains
    /\ shutdownIdle \in 0 .. drains
    /\ closed \subseteq 1 .. drains
    /\ runner \in [Drains -> {"none", "draining", "drained", "exiting", "kept",
                              "retiring", "retired"}]
    /\ bootAt \in [Boots -> {"idle", "waiting", "booting"}]
    /\ bootOn \in [Boots -> 0 .. MaxDrains] /\ bootSaw \in [Boots -> 0 .. MaxDrains]
    /\ mainAt \in {"serving", "signalled", "waiting", "exiting"}
    /\ mainOn \in 0 .. MaxDrains
    /\ daemonUp \in BOOLEAN /\ retireAsked \in BOOLEAN
    /\ keptDrain \in 0 .. MaxDrains

ShutdownInit ==
    /\ shutdownState = "running" /\ shutdownIdle = NoChannel
    /\ drains = 0 /\ closed = {}
    /\ runner = [d \in Drains |-> "none"]
    /\ bootAt = [b \in Boots |-> "idle"] /\ bootOn = [b \in Boots |-> NoChannel]
    /\ bootSaw = [b \in Boots |-> 0]
    /\ mainAt = "serving" /\ mainOn = NoChannel
    /\ daemonUp = TRUE
    /\ keptDrain = 0 /\ retireAsked = FALSE

-----------------------------------------------------------------------------
(* The calls under shutdownMu.                                             *)

startsUncounted(start) ==
    /\ shutdownState' = "exit" /\ shutdownIdle' = drains + 1 /\ keptDrain' = 0
    /\ runner' = [runner EXCEPT ![drains + 1] = start]
    /\ UNCHANGED drains

startDrainLocked(start) ==
    /\ shutdownState' = "exit"
    /\ drains' = drains + 1
    /\ shutdownIdle' = drains + 1
    /\ runner' = [runner EXCEPT ![drains + 1] = start]
    /\ keptDrain' = 0

beginsAnyway(keepL1) ==
    /\ startDrainLocked(IF keepL1 THEN "retiring" ELSE "draining")
    /\ UNCHANGED closed

\* BeginShutdown is a no-op while a drain is in flight, whatever it asks for.
BeginShutdown(keepL1) ==
    /\ IF shutdownState = "running"
         THEN startDrainLocked(IF keepL1 THEN "retiring" ELSE "draining")
         ELSE UNCHANGED <<shutdownState, drains, shutdownIdle, runner, keptDrain>>
    /\ UNCHANGED closed

exitForgetsKeep ==
    /\ IF shutdownState = "running"
         THEN startDrainLocked("draining")
         ELSE UNCHANGED <<shutdownState, drains, shutdownIdle, runner, keptDrain>>
    /\ UNCHANGED closed

RequestExit ==
    /\ CASE shutdownState = "running" -> startDrainLocked("draining")
         [] shutdownState = "keep" ->
              /\ shutdownState' = "exit" /\ keptDrain' = 0
              /\ UNCHANGED <<drains, shutdownIdle, runner>>
         [] shutdownState = "exit" ->
              UNCHANGED <<shutdownState, drains, shutdownIdle, runner, keptDrain>>
    /\ UNCHANGED closed

\* What CancelShutdownExit returns, and what it does.
cancels == shutdownState = "exit"

CancelShutdownExit ==
    /\ shutdownState' = IF cancels THEN "keep" ELSE shutdownState
    /\ keptDrain' = IF cancels THEN drains ELSE keptDrain
    /\ UNCHANGED <<shutdownIdle, drains, closed, runner>>

-----------------------------------------------------------------------------
(* The goroutine of a drain.                                               *)

\* ShutdownAll stops every child that runs when it looks.
StopChildren(d) ==
    /\ daemonUp /\ runner[d] = "draining"
    /\ runner' = [runner EXCEPT ![d] = "drained"]
    /\ UNCHANGED <<shutdownState, shutdownIdle, drains, closed, others, daemonUp,
                   keptDrain, retireAsked>>

neverCloses(d) == closed
closesIdle(d) == closed \cup {d}

exitDecidedAtStart == TRUE
finalExits == shutdownState = "exit"

FinishDrain(d) ==
    /\ daemonUp /\ runner[d] = "drained"
    /\ runner' = [runner EXCEPT ![d] = IF finalExits THEN "exiting" ELSE "kept"]
    /\ shutdownState' = "running"
    /\ shutdownIdle' = NoChannel
    /\ closed' = closesIdle(d)
    /\ UNCHANGED <<drains, others, daemonUp, keptDrain, retireAsked>>

\* With keepL1 nothing stops and the state stays DRAINING_EXIT until the exit.
Retire(d) ==
    /\ daemonUp /\ runner[d] = "retiring"
    /\ runner' = [runner EXCEPT ![d] = "retired"]
    /\ shutdownIdle' = NoChannel
    /\ closed' = closesIdle(d)
    /\ UNCHANGED <<shutdownState, drains, others, daemonUp, keptDrain,
                   retireAsked>>

exitProcess(d) ==
    /\ daemonUp /\ runner[d] \in {"exiting", "retired"}
    /\ daemonUp' = FALSE
    /\ UNCHANGED <<machine, others, keptDrain, retireAsked>>

InFlight == {d \in Drains : runner[d] \in {"draining", "drained", "retiring", "retired"}}

-----------------------------------------------------------------------------
(* StartWithL1 waits a drain out before it starts children.                *)

waitsForExitOnly == shutdownState = "exit"
drainInFlight == shutdownState # "running"

\* awaitDrainForBoot up to its select.
AwaitDrain(b) ==
    /\ daemonUp /\ bootAt[b] = "idle"
    /\ bootSaw' = [bootSaw EXCEPT ![b] = IF InFlight = {} THEN 0 ELSE drains]
    /\ IF ~drainInFlight
         THEN /\ bootAt' = [bootAt EXCEPT ![b] = "booting"]
              /\ UNCHANGED <<machine, bootOn, keptDrain>>
         ELSE /\ bootAt' = [bootAt EXCEPT ![b] = "waiting"]
              /\ bootOn' = [bootOn EXCEPT ![b] = shutdownIdle]
              /\ CancelShutdownExit
    /\ UNCHANGED <<mainAt, mainOn, daemonUp, retireAsked>>

BootWakes(b) ==
    /\ daemonUp /\ bootAt[b] = "waiting" /\ bootOn[b] \in closed
    /\ bootAt' = [bootAt EXCEPT ![b] = "booting"]
    /\ bootOn' = [bootOn EXCEPT ![b] = NoChannel]
    /\ UNCHANGED <<machine, bootSaw, mainAt, mainOn, daemonUp, keptDrain, retireAsked>>

\* ctx.Done() wins: every later start fails on the cancelled context.
BootCancelled(b) ==
    /\ daemonUp /\ bootAt[b] = "waiting"
    /\ bootAt' = [bootAt EXCEPT ![b] = "idle"]
    /\ bootOn' = [bootOn EXCEPT ![b] = NoChannel]
    /\ bootSaw' = [bootSaw EXCEPT ![b] = 0]
    /\ UNCHANGED <<machine, mainAt, mainOn, daemonUp, keptDrain, retireAsked>>

BootStarts(b) ==
    /\ daemonUp /\ bootAt[b] = "booting"
    /\ bootAt' = [bootAt EXCEPT ![b] = "idle"]
    /\ bootSaw' = [bootSaw EXCEPT ![b] = 0]
    /\ UNCHANGED <<machine, bootOn, mainAt, mainOn, daemonUp, keptDrain, retireAsked>>

-----------------------------------------------------------------------------
(* main, from the signal to its os.Exit.                                   *)

Signal ==
    /\ daemonUp /\ mainAt = "serving"
    /\ mainAt' = "signalled"
    /\ BeginShutdown(FALSE)
    /\ UNCHANGED <<bootAt, bootOn, bootSaw, mainOn, daemonUp, retireAsked>>

AwaitShutdownIdle ==
    /\ daemonUp /\ mainAt = "signalled"
    /\ IF shutdownState = "running"
         THEN mainAt' = "exiting" /\ UNCHANGED mainOn
         ELSE mainAt' = "waiting" /\ mainOn' = shutdownIdle
    /\ UNCHANGED <<machine, bootAt, bootOn, bootSaw, daemonUp, keptDrain, retireAsked>>

MainWakes ==
    /\ daemonUp /\ mainAt = "waiting" /\ mainOn \in closed
    /\ mainAt' = "exiting"
    /\ UNCHANGED <<machine, bootAt, bootOn, bootSaw, mainOn, daemonUp, keptDrain,
                   retireAsked>>

MainExits ==
    /\ daemonUp /\ mainAt = "exiting"
    /\ daemonUp' = FALSE
    /\ UNCHANGED <<machine, others, keptDrain, retireAsked>>

-----------------------------------------------------------------------------
(* The RPCs, and the machine on its own.                                   *)

\* The Shutdown RPC without only_if_last.
ShutdownRPC(keepL1) ==
    /\ daemonUp /\ drains < MaxDrains - 1
    /\ BeginShutdown(keepL1)
    /\ retireAsked' = (retireAsked \/ keepL1)
    /\ UNCHANGED <<others, daemonUp>>

LeaseExit ==
    /\ daemonUp /\ drains < MaxDrains - 1
    /\ RequestExit
    /\ UNCHANGED <<others, daemonUp, retireAsked>>

Claim ==
    /\ daemonUp
    /\ CancelShutdownExit
    /\ UNCHANGED <<others, daemonUp, retireAsked>>

Drain(d) == StopChildren(d) \/ FinishDrain(d) \/ Retire(d) \/ exitProcess(d)
Boot(b)  == AwaitDrain(b) \/ BootWakes(b) \/ BootCancelled(b) \/ BootStarts(b)
Main     == AwaitShutdownIdle \/ MainWakes \/ MainExits

ShutdownNext ==
    \/ \E d \in Drains : Drain(d)
    \/ \E b \in Boots : Boot(b)
    \/ Signal \/ Main
    \/ ShutdownRPC(FALSE) \/ ShutdownRPC(TRUE)
    \/ LeaseExit \/ Claim

\* Goroutines run; nobody has to call an RPC, to send a signal or to cancel.
ShutdownFairness ==
    /\ \A d \in Drains : WF_shutdownVars(Drain(d))
    /\ \A b \in Boots : WF_shutdownVars(BootWakes(b)) /\ WF_shutdownVars(BootStarts(b))
    /\ WF_shutdownVars(Main)

ShutdownSpec == ShutdownInit /\ [][ShutdownNext]_shutdownVars
ShutdownFairSpec == ShutdownSpec /\ ShutdownFairness

-----------------------------------------------------------------------------

\* At most one drain is in flight, it is the newest one, and the state says so.
OneDrain ==
    /\ InFlight \subseteq {drains}
    /\ shutdownState # "running" <=> InFlight # {}

\* Nobody waits on a channel that will not be closed: a waiter's channel is
\* closed, or belongs to the drain in flight, or the daemon is retiring.
NoLostWakeup ==
    LET Covered(ch) == \/ ch \in closed
                       \/ ch \in InFlight
                       \/ \E d \in InFlight : runner[d] = "retired"
    IN  /\ \A b \in Boots : bootAt[b] = "waiting" => Covered(bootOn[b])
        /\ mainAt = "waiting" => Covered(mainOn)

\* A boot starts children only after the drain it met has stopped its own: that
\* drain cannot take what the boot starts.
BootsAfterDrain ==
    \A b \in Boots : bootAt[b] = "booting" /\ bootSaw[b] # 0 =>
        runner[bootSaw[b]] \notin {"draining", "drained", "retiring"}

\* A drain whose exit was cancelled, and not asked for again, does not exit.
KeptStaysUp == keptDrain # 0 => runner[keptDrain] # "exiting"

\* A boot waits for the drain it found, then goes on or the daemon is gone.
BootsResume == \A b \in Boots : bootAt[b] = "waiting" ~> (bootAt[b] # "waiting" \/ ~daemonUp)

\* A signal ends the daemon, even when a boot turned the drain into a KEEP.
SignalEnds == mainAt = "signalled" ~> ~daemonUp

\* A retire is an order: once asked for, the daemon frees its port.
RetireHappens == retireAsked ~> ~daemonUp

-----------------------------------------------------------------------------
(* The state machine implements DaemonLifecycle.                           *)

Leaving == mainAt = "exiting" \/ \E d \in Drains : runner[d] \in {"exiting", "retired"}
Draining == daemonUp /\ ~Leaving /\ InFlight # {}

lifecyclePhase ==
    IF ~daemonUp THEN "gone" ELSE IF Leaving THEN "leaving"
    ELSE IF Draining THEN "draining" ELSE "serving"

Retiring == \E d \in Drains : runner[d] = "retiring"
lifecycleExits == Draining /\ (shutdownState = "exit" \/ Retiring)

Lifecycle == INSTANCE DaemonLifecycle WITH
    phase <- lifecyclePhase, exits <- lifecycleExits, signalled <- mainAt # "serving"

\* The daemon leaves at the end of a drain that nobody kept, of a retire, or
\* after a signal, and for no other reason.
ImplementsLifecycle == Lifecycle!LifecycleSpec
=============================================================================
