------------------------------ MODULE Daemon ------------------------------
(***************************************************************************)
(* drivechaind's lifetime: the client lease composed with the shutdown     *)
(* state machine, as main wires them.  The lease's drain is RequestExit,   *)
(* AdoptOwner is SetOwner followed by CancelShutdownExit with nothing held *)
(* between the two, and a connected frontend may boot the stack.  Nobody   *)
(* sends a signal or asks for a retire (Shutdown with keep_l1) here: those  *)
(* end the daemon whoever claims it, and Shutdown has both.                *)
(***************************************************************************)
EXTENDS Lease, Shutdown

CONSTANTS
    MaxTries    \* bound on the AdoptOwner calls of one frontend

ASSUME DaemonAssumption == MaxTries \in Nat

VARIABLES
    claimAt,    \* a frontend's AdoptOwner: between calls, or inside one
    inTime,     \* what its SetOwner returned
    verdict,    \* what AdoptOwner returned to the owner, once it has
    tries,      \* AdoptOwner calls so far
    strayKeep,  \* history: an exit was cancelled by one that is not the owner: a boot,
                \* or a claim that another one overtook
    overtaken   \* history: a late claim was refused, or another claim came before
                \* it had cancelled the exit

claimVars  == <<claimAt, inTime, verdict, tries>>
daemonVars == <<leaseVars, shutdownVars, claimVars, strayKeep, overtaken>>

DaemonTypeOK ==
    /\ LeaseTypeOK /\ ShutdownTypeOK
    /\ claimAt \in [Pids -> {"out", "claimed"}]
    /\ inTime \in [Pids -> BOOLEAN]
    /\ verdict \in {"none", "adopted", "refused"}
    /\ tries \in [Pids -> 0 .. MaxTries]
    /\ strayKeep \in BOOLEAN /\ overtaken \in BOOLEAN

DaemonInit ==
    /\ LeaseInit /\ ShutdownInit
    /\ claimAt = [p \in Pids |-> "out"]
    /\ inTime  = [p \in Pids |-> FALSE]
    /\ verdict = "none"
    /\ tries   = [p \in Pids |-> 0]
    /\ strayKeep = FALSE /\ overtaken = FALSE

-----------------------------------------------------------------------------

\* A claim that came late and has not reached CancelShutdownExit yet.
lateInside(pid) == claimAt[pid] = "claimed" /\ ~inTime[pid]

\* A later frontend, with a bound on its claims.
mayClaim(pid) == pid # FirstOwner /\ tries[pid] < MaxTries

\* AdoptOwner up to the return of SetOwner.
AdoptOwner(pid) ==
    /\ daemonUp
    /\ claimAt[pid] = "out" /\ mayClaim(pid)
    /\ SetOwner(pid)
    /\ claimAt' = [claimAt EXCEPT ![pid] = "claimed"]
    /\ inTime'  = [inTime EXCEPT ![pid] = ~claimIsLate]
    /\ verdict' = "none"
    /\ tries'   = [tries EXCEPT ![pid] = @ + 1]
    /\ overtaken' = (overtaken \/ \E p \in Pids : lateInside(p))
    /\ UNCHANGED <<shutdownVars, strayKeep>>

\* A late claim that cancels nothing is refused.
lateNotRefused(pid) == TRUE
lateAlwaysRefused(pid) == inTime[pid]
adopts(pid) == inTime[pid] \/ cancels

AdoptOwnerReturns(pid) ==
    /\ daemonUp /\ claimAt[pid] = "claimed"
    /\ CancelShutdownExit
    /\ claimAt' = [claimAt EXCEPT ![pid] = "out"]
    /\ verdict' = IF pid # ownerPID THEN verdict
                  ELSE IF adopts(pid) THEN "adopted" ELSE "refused"
    /\ inTime'  = [inTime EXCEPT ![pid] = FALSE]
    /\ overtaken' = (overtaken \/ ~adopts(pid))
    /\ strayKeep' = (strayKeep \/ (cancels /\ ownerPID # pid))
    /\ UNCHANGED <<leaseVars, others, daemonUp, retireAsked, tries>>

\* The lease's drain function.
LeaseDrains ==
    /\ CallDrain /\ LeaseExit
    /\ UNCHANGED <<claimVars, strayKeep, overtaken>>

\* A frontend does not die inside AdoptOwner: its two calls follow each other
\* at once, and the lease needs two ticks of two seconds to see a death.  Of the
\* others only the owner and those that will still ask for the daemon count.
Frontends ==
    \E pid \in Pids :
        \/ mayClaim(pid) /\ FrontendStarts(pid)
        \/ pid = ownerPID /\ claimAt[pid] = "out" /\ FrontendDies(pid)
        \/ PidRecycled(pid) \/ PidFreed(pid)

LeaseSteps ==
    /\ daemonUp
    /\ \/ PollRead \/ PollLookup \/ PollApply \/ FireIfExpired
       \/ \E c \in Clients : ConnNew(c) \/ ConnClosed(c) \/ Goodbye(c)
       \/ \E h \in Holders : Hold(h) \/ Release(h)
       \/ GraceElapses
       \/ Frontends
    /\ UNCHANGED <<shutdownVars, claimVars, strayKeep, overtaken>>

\* StartWithL1 is an RPC: some frontend is connected when a boot arrives.  One
\* that meets no drain starts its children at once and shows nowhere here.
ShutdownSteps ==
    /\ \/ \E d \in Drains : Drain(d)
       \/ \E b \in Boots : \/ drainInFlight /\ open # {} /\ AwaitDrain(b)
                           \/ BootWakes(b) \/ BootCancelled(b) \/ BootStarts(b)
    /\ strayKeep' = (strayKeep \/ \E b \in Boots : bootAt'[b] = "waiting")
    /\ UNCHANGED <<leaseVars, claimVars, overtaken>>

DaemonNext ==
    \/ \E pid \in Pids : AdoptOwner(pid) \/ AdoptOwnerReturns(pid)
    \/ LeaseDrains \/ LeaseSteps \/ ShutdownSteps

\* Run, the drains, the callers of AdoptOwner and the clock go on.
DaemonFairness ==
    /\ WF_leaseVars(daemonUp /\ Run)
    /\ WF_leaseVars(daemonUp /\ GraceElapses)
    /\ WF_shutdownVars(\E d \in Drains : Drain(d))
    /\ WF_daemonVars(\E pid \in Pids : AdoptOwnerReturns(pid))

DaemonSpec == DaemonInit /\ [][DaemonNext]_daemonVars
DaemonFairSpec == DaemonSpec /\ DaemonFairness

-----------------------------------------------------------------------------

\* The daemon is on its way out, or gone: the lease is about to ask for the exit,
\* a drain in flight will exit, or one does.
Exiting == \E d \in Drains : runner[d] = "exiting"
Ending == runAt = "drain" \/ shutdownState = "exit" \/ Exiting

\* A frontend whose AdoptOwner succeeded keeps the daemon for as long as it
\* lives: no drain that exits is left behind, and none is asked for.  The first
\* late claim takes the firing off the lease, so a claim that overtakes it, or
\* comes after it was refused, is told that it is in time: that one may lose
\* the daemon.
AdoptedStaysUp ==
    ~overtaken /\ verdict = "adopted" /\ ownerPID \in frontendUp =>
        daemonUp /\ ~Ending

\* The lease's latch is never stale: while it is set, no tick will fire again, so
\* the exit it fired for is under way and not cancelled.  The same for an owner
\* that was refused because of it.  A keep by one that is not the owner breaks it.
FiredLeaseEnds == (drained \/ verdict = "refused") /\ ~strayKeep => Ending

\* The owner whose AdoptOwner was refused may rely on the daemon going away,
\* unless it asks again, another frontend takes the daemon over (its claim may
\* cancel the exit), or one that is not the owner keeps it.
RefusedMeansGone ==
    verdict = "refused" ~> (verdict # "refused" \/ ~daemonUp \/ strayKeep)

AllGone == <>[](Unattended \/ ~daemonUp)

\* Once the owner is dead and nobody is left for good, the daemon exits, even
\* when the dead pid is reused by another process later and whatever was
\* claimed before, unless one that is not the owner kept it: the lease that
\* fired for the owner is not told of such a keep, and stays latched.
UnkeptExits == AllGone => <>(~daemonUp \/ strayKeep)

\* The same, and a keep by a boot changes nothing about it.
UnattendedExits == AllGone => <>~daemonUp
=============================================================================
