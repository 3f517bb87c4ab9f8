---------------------------- MODULE DaemonProofs ----------------------------
(***************************************************************************)
(* Proofs about the composition.  Each of its steps is a step of the lease *)
(* or a stutter, and a step of the shutdown machine or a stutter, so the   *)
(* invariants of both parts carry over; what AdoptOwner promises needs one *)
(* more, that ties the lease's firing to the drain it caused.              *)
(***************************************************************************)
EXTENDS Daemon, LeaseProofs, ShutdownProofs

lateOwner == ownerPID \in Pids /\ lateInside(ownerPID)

\* A frontend inside AdoptOwner is alive, and the owner has no verdict yet.
ClaimsAlive ==
    \A p \in Pids : claimAt[p] = "claimed" =>
        p \in frontendUp /\ (p = ownerPID => verdict = "none")

\* A lease that fired, and was not claimed since, has a dead owner.
DrainedIsDead == drained => ownerPID \notin frontendUp

\* Nobody asks for a retire or sends a signal: the daemon ends by a drain.
EndsByDrain ==
    /\ \A d \in Drains : runner[d] \notin {"retiring", "retired"}
    /\ ~daemonUp => Exiting

\* Until a late claim is refused or overtaken, the lease knows of the ending it
\* caused, or its owner is the late claim that is about to cancel it, and one
\* such ending is under way at a time.
EndingKnown ==
    ~overtaken =>
        /\ Ending => drained \/ lateOwner
        /\ shutdownState = "exit" \/ Exiting => runAt # "drain"
        /\ Exiting => shutdownState # "exit"

\* Until one that is not the owner keeps the daemon, a firing that nobody
\* claimed, a late claim of the owner or its refusal stands for an ending.
FiringEnds == ~strayKeep /\ (drained \/ lateOwner \/ verdict = "refused") => Ending

claimTypes ==
    /\ claimAt \in [Pids -> {"out", "claimed"}]
    /\ inTime \in [Pids -> BOOLEAN]
    /\ verdict \in {"none", "adopted", "refused"}
    /\ tries \in [Pids -> 0 .. MaxTries]
    /\ strayKeep \in BOOLEAN /\ overtaken \in BOOLEAN

ClaimInv == ClaimsAlive /\ DrainedIsDead /\ EndsByDrain /\ EndingKnown /\ FiringEnds

DaemonInv == LeaseInv /\ ShutdownInv /\ claimTypes /\ ClaimInv

-----------------------------------------------------------------------------

\* A step of the daemon is a step of the lease or leaves the lease alone.
LEMMA LeaseRefined ==
  ASSUME [DaemonNext]_daemonVars
  PROVE  [LeaseNext]_leaseVars
  <1>1. ASSUME NEW pid \in Pids, AdoptOwner(pid) PROVE LeaseNext
    BY <1>1 DEF AdoptOwner, LeaseNext, Callers
  <1>2. ASSUME NEW pid \in Pids, AdoptOwnerReturns(pid) PROVE UNCHANGED leaseVars
    BY <1>2 DEF AdoptOwnerReturns
  <1>3. CASE LeaseDrains
    BY <1>3 DEF LeaseDrains, LeaseNext, Run
  <1>4. CASE LeaseSteps
    BY <1>4 DEF LeaseSteps, Frontends, LeaseNext, Run, Callers, OS
  <1>5. CASE ShutdownSteps
    BY <1>5 DEF ShutdownSteps
  <1>6. CASE UNCHANGED daemonVars
    BY <1>6 DEF daemonVars
  <1> QED
    BY <1>1, <1>2, <1>3, <1>4, <1>5, <1>6 DEF DaemonNext

\* And a step of the shutdown machine, or leaves it alone.
LEMMA ShutdownRefined ==
  ASSUME [DaemonNext]_daemonVars
  PROVE  [ShutdownNext]_shutdownVars
  <1>1. ASSUME NEW pid \in Pids, AdoptOwner(pid) PROVE UNCHANGED shutdownVars
    BY <1>1 DEF AdoptOwner
  <1>2. ASSUME NEW pid \in Pids, AdoptOwnerReturns(pid) PROVE ShutdownNext
    BY <1>2 DEF AdoptOwnerReturns, ShutdownNext, Claim
  <1>3. CASE LeaseDrains
    BY <1>3 DEF LeaseDrains, ShutdownNext
  <1>4. CASE LeaseSteps
    BY <1>4 DEF LeaseSteps
  <1>5. CASE ShutdownSteps
    BY <1>5 DEF ShutdownSteps, ShutdownNext, Boot
  <1>6. CASE UNCHANGED daemonVars
    BY <1>6 DEF daemonVars
  <1> QED
    BY <1>1, <1>2, <1>3, <1>4, <1>5, <1>6 DEF DaemonNext

LEMMA DaemonInitInv == DaemonInit => DaemonInv
  <1> SUFFICES ASSUME DaemonInit PROVE DaemonInv
    OBVIOUS
  <1>1. LeaseInv /\ ShutdownInv
    BY TypeInit, InitInv DEF DaemonInit
  <1>2. claimTypes
    <2>1. strayKeep \in BOOLEAN /\ overtaken \in BOOLEAN
      BY Zenon DEF DaemonInit
    <2> QED
      BY <2>1, DaemonAssumption DEF DaemonInit, claimTypes
  <1>3. \A d \in Drains : runner[d] = "none"
    BY DEF DaemonInit, ShutdownInit
  <1>4. ClaimInv
    BY <1>3 DEF DaemonInit, LeaseInit, ShutdownInit, ClaimInv, ClaimsAlive, DrainedIsDead,
       EndsByDrain, EndingKnown, FiringEnds, Ending, Exiting, lateOwner, lateInside
  <1> QED
    BY <1>1, <1>2, <1>4 DEF DaemonInv

\* The claims keep their types.
LEMMA ClaimTypesStep ==
  ASSUME claimTypes, [DaemonNext]_daemonVars
  PROVE  claimTypes'
  <1> USE DEF claimTypes
  <1>1. ASSUME NEW pid \in Pids, AdoptOwner(pid) PROVE claimTypes'
    <2>1. overtaken' \in BOOLEAN /\ strayKeep' \in BOOLEAN
      BY <1>1, Zenon DEF AdoptOwner
    <2>2. inTime' \in [Pids -> BOOLEAN]
      <3>1. inTime' = [inTime EXCEPT ![pid] = ~claimIsLate]
        BY <1>1 DEF AdoptOwner
      <3>2. (~claimIsLate) \in BOOLEAN
        BY Zenon
      <3> QED
        BY <3>1, <3>2
    <2>3. tries' \in [Pids -> 0 .. MaxTries]
      BY <1>1, DaemonAssumption DEF AdoptOwner, mayClaim
    <2> QED
      BY <1>1, <2>1, <2>2, <2>3 DEF AdoptOwner
  <1>2. ASSUME NEW pid \in Pids, AdoptOwnerReturns(pid) PROVE claimTypes'
    <2>1. overtaken' \in BOOLEAN /\ strayKeep' \in BOOLEAN
      BY <1>2, Zenon DEF AdoptOwnerReturns
    <2> QED
      BY <1>2, <2>1 DEF AdoptOwnerReturns
  <1>3. CASE LeaseDrains
    BY <1>3 DEF LeaseDrains, claimVars
  <1>4. CASE LeaseSteps
    BY <1>4 DEF LeaseSteps, claimVars
  <1>5. CASE ShutdownSteps
    <2>1. strayKeep' \in BOOLEAN
      BY <1>5, Zenon DEF ShutdownSteps
    <2> QED
      BY <1>5, <2>1 DEF ShutdownSteps, claimVars
  <1>6. CASE UNCHANGED daemonVars
    BY <1>6 DEF daemonVars, claimVars
  <1> QED
    BY <1>1, <1>2, <1>3, <1>4, <1>5, <1>6 DEF DaemonNext

\* A claim: a late one becomes the owner that is about to cancel the ending.
LEMMA ClaimStep ==
  ASSUME DaemonInv, NEW pid \in Pids, AdoptOwner(pid)
  PROVE  ClaimInv'
  <1> USE DEF DaemonInv, ClaimInv, claimTypes
  <1>1. /\ pid \in frontendUp /\ ownerPID' = pid /\ ~drained'
        /\ claimAt' = [claimAt EXCEPT ![pid] = "claimed"]
        /\ inTime'  = [inTime EXCEPT ![pid] = ~drained]
        /\ verdict' = "none"
        /\ ~overtaken' => ~overtaken /\ \A p \in Pids : ~lateInside(p)
        /\ UNCHANGED <<frontendUp, runAt, shutdownState, runner, daemonUp, strayKeep>>
    BY DEF AdoptOwner, SetOwner, claimIsLate, runVars, envVars, shutdownVars, machine
  <1>2. ClaimsAlive'
    BY <1>1 DEF ClaimsAlive
  <1>3. DrainedIsDead'
    BY <1>1 DEF DrainedIsDead
  <1>4. (Exiting' <=> Exiting) /\ (Ending' <=> Ending)
    BY <1>1 DEF Exiting, Ending
  <1>5. EndsByDrain'
    BY <1>1, <1>4 DEF EndsByDrain
  <1>6. ASSUME ~overtaken', Ending' PROVE lateOwner'
    <2>1. drained
      BY <1>1, <1>4, <1>6 DEF EndingKnown, lateOwner
    <2> QED
      BY <1>1, <2>1 DEF lateOwner, lateInside
  <1>7. EndingKnown'
    BY <1>1, <1>4, <1>6 DEF EndingKnown
  <1>8. FiringEnds'
    <2>1. lateOwner' => drained
      BY <1>1 DEF lateOwner, lateInside
    <2> QED
      BY <1>1, <1>4, <2>1 DEF FiringEnds
  <1> QED
    BY <1>2, <1>3, <1>5, <1>7, <1>8

\* The return: a late claim that is adopted has cancelled the only ending.
LEMMA ReturnStep ==
  ASSUME DaemonInv, NEW pid \in Pids, AdoptOwnerReturns(pid)
  PROVE  ClaimInv'
  <1> USE DEF DaemonInv, ClaimInv, claimTypes
  <1>1. /\ claimAt[pid] = "claimed" /\ claimAt' = [claimAt EXCEPT ![pid] = "out"]
        /\ inTime' = [inTime EXCEPT ![pid] = FALSE]
        /\ verdict' = IF pid # ownerPID THEN verdict
                      ELSE IF inTime[pid] \/ shutdownState = "exit" THEN "adopted" ELSE "refused"
        /\ strayKeep' = (strayKeep \/ (shutdownState = "exit" /\ ownerPID # pid))
        /\ shutdownState' = IF shutdownState = "exit" THEN "keep" ELSE shutdownState
        /\ ~overtaken' => ~overtaken /\ (inTime[pid] \/ shutdownState = "exit")
        /\ UNCHANGED <<frontendUp, ownerPID, drained, runAt, runner, daemonUp>>
    BY DEF AdoptOwnerReturns, CancelShutdownExit, cancels, adopts, leaseVars, leaseCore,
       runVars, envVars
  <1>2. ClaimsAlive'
    BY <1>1 DEF ClaimsAlive
  <1>3. DrainedIsDead'
    BY <1>1 DEF DrainedIsDead
  <1>4. Exiting' <=> Exiting
    BY <1>1 DEF Exiting
  <1>5. EndsByDrain'
    BY <1>1, <1>4 DEF EndsByDrain
  <1>6. ASSUME ~overtaken', Ending' PROVE drained' \/ lateOwner'
    <2>1. Ending
      BY <1>1, <1>4, <1>6 DEF Ending
    <2>2. inTime[pid]
      BY <1>1, <1>4, <1>6 DEF EndingKnown, Ending
    <2>3. drained \/ (lateOwner /\ ownerPID # pid)
      BY <1>1, <1>6, <2>1, <2>2 DEF EndingKnown, lateOwner, lateInside
    <2> QED
      BY <1>1, <2>3 DEF lateOwner, lateInside
  <1>7. EndingKnown'
    BY <1>1, <1>4, <1>6 DEF EndingKnown
  <1>8. FiringEnds'
    <2>1. CASE pid = ownerPID
      <3>1. ~drained' /\ ~lateOwner'
        BY <1>1, <2>1 DEF ClaimsAlive, DrainedIsDead, lateOwner, lateInside
      <3>2. ASSUME verdict' = "refused", ~strayKeep' PROVE Ending'
        <4>1. lateOwner /\ ~strayKeep
          BY <1>1, <2>1, <3>2, Zenon DEF lateOwner, lateInside
        <4>2. shutdownState' = shutdownState
          BY <1>1, <2>1, <3>2
        <4> QED
          BY <1>1, <1>4, <4>1, <4>2 DEF FiringEnds, Ending
      <3> QED
        BY <3>1, <3>2 DEF FiringEnds
    <2>2. CASE pid # ownerPID
      <3>1. (lateOwner' => lateOwner) /\ verdict' = verdict /\ drained' = drained
        BY <1>1, <2>2 DEF lateOwner, lateInside
      <3>2. ~strayKeep' => ~strayKeep /\ shutdownState # "exit"
        BY <1>1, <2>2, Zenon
      <3>3. ~strayKeep' => (Ending' <=> Ending)
        BY <1>1, <1>4, <3>2 DEF Ending
      <3> QED
        BY <3>1, <3>2, <3>3 DEF FiringEnds
    <2> QED
      BY <2>1, <2>2
  <1> QED
    BY <1>2, <1>3, <1>5, <1>7, <1>8

\* The lease asks for the exit it fired for.
LEMMA DrainStep ==
  ASSUME DaemonInv, LeaseDrains
  PROVE  ClaimInv'
  <1> USE DEF DaemonInv, ClaimInv, claimTypes
  <1>1. /\ runAt = "drain" /\ runAt' = "idle" /\ shutdownState' = "exit"
        /\ UNCHANGED <<frontendUp, ownerPID, drained, claimAt, inTime, verdict, overtaken,
                       daemonUp>>
    BY DEF LeaseDrains, CallDrain, LeaseExit, RequestExit, startDrainLocked, leaseCore, envVars,
       claimVars, ShutdownInv, ShutdownTypeOK
  <1>2. runner' = runner \/ runner' = [runner EXCEPT ![drains + 1] = "draining"]
    BY DEF LeaseDrains, LeaseExit, RequestExit, startDrainLocked, ShutdownInv, ShutdownTypeOK
  <1>3. /\ \A d \in Drains : runner'[d] = runner[d] \/ runner'[d] = "draining"
        /\ ~daemonUp' => Exiting'
    <2>1. daemonUp'
      BY DEF LeaseDrains, LeaseExit
    <2> QED
      BY <1>2, <2>1 DEF ShutdownInv, ShutdownTypeOK
  <1>4. ClaimsAlive' /\ DrainedIsDead'
    BY <1>1 DEF ClaimsAlive, DrainedIsDead
  <1>5. EndsByDrain'
    BY <1>3 DEF EndsByDrain
  <1>6. Exiting' => Exiting
    BY <1>3 DEF Exiting
  <1>7. EndingKnown'
    BY <1>1, <1>6 DEF EndingKnown, Ending, lateOwner, lateInside
  <1>8. FiringEnds'
    BY <1>1 DEF FiringEnds, Ending
  <1> QED
    BY <1>4, <1>5, <1>7, <1>8

\* The other steps of the lease: it fires only when nothing is ending.
LEMMA LeaseStep ==
  ASSUME DaemonInv, LeaseSteps
  PROVE  ClaimInv'
  <1> USE DEF DaemonInv, ClaimInv, claimTypes
  <1>1. /\ UNCHANGED <<shutdownState, runner, daemonUp, claimAt, inTime, verdict, overtaken,
                       strayKeep>>
        /\ ownerPID' = ownerPID
    BY DEF LeaseSteps, Frontends, shutdownVars, machine, claimVars, PollRead, PollLookup,
       PollApply, FireIfExpired, ConnNew, ConnClosed, Goodbye, Hold, Release, GraceElapses,
       FrontendStarts, FrontendDies, PidRecycled, PidFreed, leaseCore
  <1>2. \/ /\ drained' = drained /\ (runAt' = "drain" <=> runAt = "drain")
           /\ ownerPID \in frontendUp' => ownerPID \in frontendUp
           /\ \A p \in Pids : claimAt[p] = "claimed" /\ p \in frontendUp => p \in frontendUp'
        \/ /\ ~drained /\ drained' /\ ownerGone /\ runAt' = "drain"
           /\ frontendUp' = frontendUp
    BY DEF LeaseSteps, Frontends, PollRead, PollLookup, PollApply, FireIfExpired, expiredLocked,
       ConnNew, ConnClosed, Goodbye, Hold, Release, GraceElapses,
       FrontendStarts, FrontendDies, PidRecycled, PidFreed, leaseCore, runVars, envVars
  <1>3. (Exiting' <=> Exiting) /\ (lateOwner' <=> lateOwner)
    BY <1>1 DEF Exiting, lateOwner, lateInside
  <1>4. EndsByDrain'
    BY <1>1, <1>3 DEF EndsByDrain
  <1>5. CASE drained' = drained /\ (runAt' = "drain" <=> runAt = "drain")
             /\ (ownerPID \in frontendUp' => ownerPID \in frontendUp)
             /\ \A p \in Pids : claimAt[p] = "claimed" /\ p \in frontendUp => p \in frontendUp'
    <2>1. ClaimsAlive' /\ DrainedIsDead'
      BY <1>1, <1>5 DEF ClaimsAlive, DrainedIsDead
    <2>2. EndingKnown'
      BY <1>1, <1>3, <1>5 DEF EndingKnown, Ending
    <2>3. FiringEnds'
      BY <1>1, <1>3, <1>5 DEF FiringEnds, Ending
    <2> QED
      BY <1>4, <2>1, <2>2, <2>3
  <1>6. CASE ~drained /\ drained' /\ ownerGone /\ runAt' = "drain" /\ frontendUp' = frontendUp
    <2>1. ownerPID \notin frontendUp
      BY <1>6 DEF LeaseInv, OwnerGoneIsDead
    <2>2. ~lateOwner
      BY <2>1 DEF ClaimsAlive, lateOwner, lateInside
    <2>3. ClaimsAlive' /\ DrainedIsDead'
      BY <1>1, <1>6, <2>1 DEF ClaimsAlive, DrainedIsDead
    <2>4. EndingKnown'
      BY <1>1, <1>3, <1>6, <2>2 DEF EndingKnown, Ending
    <2>5. FiringEnds'
      BY <1>6 DEF FiringEnds, Ending
    <2> QED
      BY <1>4, <2>3, <2>4, <2>5
  <1> QED
    BY <1>2, <1>5, <1>6

\* Drains and boots: a boot may keep the drain, and a drain that nobody kept
\* exits, which it was asked to before.
LEMMA MachineStep ==
  ASSUME DaemonInv, ShutdownSteps
  PROVE  ClaimInv'
  <1> USE DEF DaemonInv, ClaimInv, claimTypes
  <1>1. UNCHANGED <<frontendUp, ownerPID, drained, runAt, claimAt, inTime, verdict, overtaken>>
    BY DEF ShutdownSteps, leaseVars, leaseCore, runVars, envVars, claimVars
  <1>2. ClaimsAlive' /\ DrainedIsDead' /\ (lateOwner' <=> lateOwner)
    BY <1>1 DEF ClaimsAlive, DrainedIsDead, lateOwner, lateInside
  <1>0. ~strayKeep' => ~strayKeep
    BY Zenon DEF ShutdownSteps
  <1>3. \/ /\ \/ shutdownState' = shutdownState
              \/ shutdownState' = "keep" /\ (shutdownState = "exit" => strayKeep')
           /\ runner' = runner /\ daemonUp' = daemonUp
        \/ \E d \in Drains :
             /\ runner[d] \notin {"retiring", "retired"}
             /\ StopChildren(d) \/ FinishDrain(d) \/ exitProcess(d)
    <2>1. ASSUME NEW b \in Boots, AwaitDrain(b), shutdownState = "exit" PROVE strayKeep'
      <3>1. bootAt'[b] = "waiting"
        BY <2>1 DEF AwaitDrain, drainInFlight, ShutdownInv, ShutdownTypeOK
      <3> QED
        BY <3>1, Zenon DEF ShutdownSteps
    <2>2. ASSUME NEW b \in Boots,
                 AwaitDrain(b) \/ BootWakes(b) \/ BootCancelled(b) \/ BootStarts(b)
          PROVE  /\ \/ shutdownState' = shutdownState
                    \/ shutdownState' = "keep" /\ AwaitDrain(b)
                 /\ runner' = runner /\ daemonUp' = daemonUp
      BY <2>2 DEF AwaitDrain, CancelShutdownExit, BootWakes, BootCancelled, BootStarts, machine
    <2>3. ASSUME NEW d \in Drains, Drain(d)
          PROVE  /\ runner[d] \notin {"retiring", "retired"}
                 /\ StopChildren(d) \/ FinishDrain(d) \/ exitProcess(d)
      BY <2>3 DEF Drain, Retire, EndsByDrain
    <2> QED
      BY <2>1, <2>2, <2>3, Zenon DEF ShutdownSteps
  <1>4. CASE /\ \/ shutdownState' = shutdownState
                \/ shutdownState' = "keep" /\ (shutdownState = "exit" => strayKeep')
             /\ runner' = runner /\ daemonUp' = daemonUp
    <2>1. Exiting' <=> Exiting
      BY <1>4 DEF Exiting
    <2>2. FiringEnds'
      BY <1>1, <1>2, <1>4, <1>0, <2>1 DEF FiringEnds, Ending
    <2> QED
      BY <1>1, <1>2, <1>4, <2>1, <2>2 DEF EndsByDrain, EndingKnown, Ending
  <1>5. ASSUME NEW d \in Drains, runner[d] \notin {"retiring", "retired"}, StopChildren(d)
        PROVE  ClaimInv'
    <2>1. /\ runner[d] = "draining" /\ runner' = [runner EXCEPT ![d] = "drained"]
          /\ UNCHANGED <<shutdownState, daemonUp>>
      BY <1>5 DEF StopChildren
    <2>2. \A c \in Drains : runner'[c] = runner[c] \/ (c = d /\ runner'[c] = "drained")
      BY <2>1 DEF ShutdownInv, ShutdownTypeOK
    <2>3. Exiting' <=> Exiting
      BY <2>1, <2>2 DEF Exiting
    <2> QED
      BY <1>1, <1>2, <1>0, <2>1, <2>2, <2>3 DEF EndsByDrain, EndingKnown, FiringEnds, Ending
  <1>6. ASSUME NEW d \in Drains, runner[d] \notin {"retiring", "retired"}, FinishDrain(d)
        PROVE  ClaimInv'
    <2>1. /\ daemonUp /\ runner[d] = "drained" /\ daemonUp' = daemonUp
          /\ shutdownState' = "running"
          /\ runner' = [runner EXCEPT ![d] = IF shutdownState = "exit" THEN "exiting" ELSE "kept"]
      BY <1>6 DEF FinishDrain, finalExits
    <2>2. \A c \in Drains : \/ runner'[c] = runner[c]
                            \/ runner'[c] = "kept"
                            \/ runner'[c] = "exiting" /\ shutdownState = "exit"
      BY <2>1 DEF ShutdownInv, ShutdownTypeOK
    <2>3. Exiting' => Exiting \/ shutdownState = "exit"
      BY <2>2 DEF Exiting
    <2>4. EndsByDrain'
      BY <2>1, <2>2 DEF EndsByDrain
    <2>5. EndingKnown'
      BY <1>1, <1>2, <2>1, <2>3 DEF EndingKnown, Ending
    <2>6. shutdownState = "exit" \/ Exiting => Exiting'
      BY <2>1 DEF Exiting, ShutdownInv, ShutdownTypeOK
    <2>7. FiringEnds'
      BY <1>1, <1>2, <1>0, <2>6 DEF FiringEnds, Ending
    <2> QED
      BY <1>2, <2>4, <2>5, <2>7
  <1>7. ASSUME NEW d \in Drains, runner[d] \notin {"retiring", "retired"}, exitProcess(d)
        PROVE  ClaimInv'
    <2>1. runner[d] = "exiting" /\ UNCHANGED <<runner, shutdownState>>
      BY <1>7 DEF exitProcess, machine
    <2>2. Exiting /\ Exiting'
      BY <2>1 DEF Exiting
    <2> QED
      BY <1>1, <1>2, <2>1, <2>2 DEF EndsByDrain, EndingKnown, FiringEnds, Ending
  <1> QED
    BY <1>3, <1>4, <1>5, <1>6, <1>7

\* Every step keeps the invariant.
LEMMA DaemonStepInv ==
  ASSUME DaemonInv, [DaemonNext]_daemonVars
  PROVE  DaemonInv'
  <1>1. LeaseInv'
    BY LeaseRefined, TypeStep, CountsStep, StrikeStep DEF DaemonInv, LeaseInv, StrikeInv
  <1>2. ShutdownInv'
    BY ShutdownRefined, StepInv DEF DaemonInv
  <1>3. claimTypes'
    BY ClaimTypesStep DEF DaemonInv
  <1>4. ASSUME UNCHANGED daemonVars PROVE ClaimInv'
    BY <1>4 DEF DaemonInv, ClaimInv, ClaimsAlive, DrainedIsDead, EndsByDrain, EndingKnown,
       FiringEnds, Ending, Exiting, lateOwner, lateInside, daemonVars, leaseVars, leaseCore, runVars,
       envVars, shutdownVars, machine, claimVars
  <1>5. ClaimInv'
    BY <1>4, ClaimStep, ReturnStep, DrainStep, LeaseStep, MachineStep DEF DaemonNext, DaemonInv
  <1> QED
    BY <1>1, <1>2, <1>3, <1>5 DEF DaemonInv

-----------------------------------------------------------------------------

\* The composition implements both of its parts: main wires the lease and the
\* shutdown machine together without a step that either of them cannot take.
THEOREM DaemonImplementsParts == DaemonSpec => LeaseSpec /\ ShutdownSpec
  <1>1. DaemonInit => LeaseInit /\ ShutdownInit
    BY DEF DaemonInit
  <1>2. [DaemonNext]_daemonVars => [LeaseNext]_leaseVars /\ [ShutdownNext]_shutdownVars
    BY LeaseRefined, ShutdownRefined
  <1> QED
    BY <1>1, <1>2, PTL DEF DaemonSpec, LeaseSpec, ShutdownSpec

\* So the daemon ends only as its clients are promised, with a lease that fires
\* and frontends that claim in between.
THEOREM DaemonKeepsLifecycle == DaemonSpec => ImplementsLifecycle
  BY DaemonImplementsParts, Implements

\* The inductive invariant of the composition, which contains those of the lease
\* and of the shutdown machine, holds in every run.
THEOREM DaemonInvariant == DaemonSpec => []DaemonInv
  BY DaemonInitInv, DaemonStepInv, PTL DEF DaemonSpec

\* The types of both parts and of the claims hold in every run.
THEOREM DaemonTypes == DaemonSpec => []DaemonTypeOK
  <1>1. DaemonInv => DaemonTypeOK
    BY DEF DaemonInv, LeaseInv, ShutdownInv, claimTypes, DaemonTypeOK
  <1> QED
    BY <1>1, DaemonInvariant, PTL

\* A frontend that AdoptOwner told "adopted" keeps the daemon while it lives,
\* unless a late claim was refused or overtaken before.
THEOREM AdoptedKeepsDaemon == DaemonSpec => []AdoptedStaysUp
  <1>1. DaemonInv => AdoptedStaysUp
    <2> SUFFICES ASSUME DaemonInv, ~overtaken,
                        verdict = "adopted", ownerPID \in frontendUp
                 PROVE  daemonUp /\ ~Ending
      BY DEF AdoptedStaysUp
    <2>1. ~drained /\ ~lateOwner
      BY DEF DaemonInv, ClaimInv, DrainedIsDead, ClaimsAlive, lateOwner, lateInside
    <2> QED
      BY <2>1 DEF DaemonInv, ClaimInv, EndingKnown, EndsByDrain, Ending
  <1> QED
    BY <1>1, DaemonInvariant, PTL

\* While the lease's latch is set, or its owner stands refused, the exit it fired
\* for is under way, unless one that is not the owner kept the daemon: with any
\* number of frontends.
THEOREM FiredEnds == DaemonSpec => []FiredLeaseEnds
  <1>1. DaemonInv => FiredLeaseEnds
    BY DEF DaemonInv, ClaimInv, FiringEnds, FiredLeaseEnds
  <1> QED
    BY <1>1, DaemonInvariant, PTL
=============================================================================
