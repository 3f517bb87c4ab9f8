------------------------------- MODULE Lease -------------------------------
(***************************************************************************)
(* The client lease of drivechaind (sidechain-orchestrator/lease).  The    *)
(* daemon drains once its owner process is gone and no client connection   *)
(* and no hold is left.  Three parties step the lease concurrently: the    *)
(* HTTP server (ConnState), the callers of Goodbye, Hold and SetOwner, and *)
(* the ticker goroutine of Run, whose pid lookup happens outside the lock. *)
(* Every critical section of l.mu is one action.                           *)
(***************************************************************************)
EXTENDS Naturals, FiniteSets

CONSTANTS
    Pids,       \* process ids of frontends
    NoOwner,    \* an owner pid of 0 or less: the daemon was started by hand
    Clients,    \* frontends, each with one connection
    Holders,    \* callers of Hold
    FirstOwner, \* the --owner-pid flag
    MaxMisses   \* lookups of a live process that may fail in a row

deadStrikes == 2

ASSUME LeaseAssumption ==
    /\ NoOwner \notin Pids
    /\ FirstOwner \in Pids \cup {NoOwner}
    /\ IsFiniteSet(Clients) /\ IsFiniteSet(Holders)
    /\ MaxMisses \in Nat /\ MaxMisses < deadStrikes

VARIABLES
    ownerPID, live, holds, strikes, drained, waived, ownerGone,
    graceOver,      \* time.Since(idleFrom) >= grace
    runAt,          \* where the goroutine of Run is
    polled, answer, \* its pid and the answer of its lookup
    frontendUp,     \* environment: the frontends that are alive
    recycled,       \* environment: pids that now name another process
    misses,         \* environment: lookups that failed in a row
    open, held,     \* environment: open connections, holds not yet released
    warned          \* history: some SetOwner since the lease fired returned false

leaseCore == <<ownerPID, live, holds, strikes, drained, waived, ownerGone, graceOver>>
runVars   == <<runAt, polled, answer>>
envVars   == <<frontendUp, recycled, misses>>
leaseVars == <<leaseCore, runVars, envVars, open, held, warned>>

LeaseTypeOK ==
    /\ ownerPID \in Pids \cup {NoOwner} /\ polled \in Pids \cup {NoOwner}
    /\ live \in Nat /\ holds \in Nat
    /\ strikes \in 0 .. deadStrikes /\ misses \in 0 .. MaxMisses
    /\ drained \in BOOLEAN /\ waived \in BOOLEAN /\ ownerGone \in BOOLEAN
    /\ graceOver \in BOOLEAN /\ answer \in BOOLEAN /\ warned \in BOOLEAN
    /\ runAt \in {"idle", "lookup", "apply", "fire", "drain"}
    /\ frontendUp \subseteq Pids /\ recycled \subseteq Pids
    /\ open \subseteq Clients /\ held \subseteq Holders

LeaseInit ==
    /\ ownerPID = FirstOwner
    /\ live = 0 /\ holds = 0 /\ strikes = 0 /\ misses = 0
    /\ drained = FALSE /\ waived = FALSE /\ ownerGone = FALSE
    /\ graceOver = FALSE /\ warned = FALSE
    /\ runAt = "idle" /\ polled = NoOwner /\ answer = FALSE
    /\ frontendUp = {FirstOwner} \cap Pids /\ recycled = {}
    /\ open = {} /\ held = {}

-----------------------------------------------------------------------------
(* The HTTP server and the callers.                                        *)

\* ConnState(StateNew)
ConnNew(c) ==
    /\ c \notin open
    /\ open' = open \cup {c}
    /\ live' = live + 1
    /\ waived' = FALSE
    /\ UNCHANGED <<ownerPID, holds, strikes, drained, ownerGone, graceOver,
                   runVars, envVars, held, warned>>

\* ConnState(StateClosed)
ConnClosed(c) ==
    /\ c \in open
    /\ open' = open \ {c}
    /\ live' = IF live <= 1 THEN 0 ELSE live - 1
    /\ graceOver' = (graceOver /\ live' > 0)
    /\ UNCHANGED <<ownerPID, holds, strikes, drained, waived, ownerGone,
                   runVars, envVars, held, warned>>

\* The Shutdown RPC with only_if_last, sent over the client's connection.
Goodbye(c) ==
    /\ c \in open
    /\ waived' = TRUE
    /\ UNCHANGED <<ownerPID, live, holds, strikes, drained, ownerGone, graceOver,
                   runVars, envVars, open, held, warned>>

Hold(h) ==
    /\ h \notin held
    /\ held' = held \cup {h}
    /\ holds' = holds + 1
    /\ UNCHANGED <<ownerPID, live, strikes, drained, waived, ownerGone, graceOver,
                   runVars, envVars, open, warned>>

\* The sync.Once of the function Hold returned: a second call is a no-op.
releasesAgain(h) == h \in Holders
firstRelease(h) == h \in held

Release(h) ==
    /\ firstRelease(h)
    /\ held' = held \ {h}
    /\ holds' = holds - 1
    /\ graceOver' = (graceOver /\ holds' > 0)
    /\ UNCHANGED <<ownerPID, live, strikes, drained, waived, ownerGone,
                   runVars, envVars, open, warned>>

\* SetOwner returns ~claimIsLate to the live frontend that calls it.
claimReadAfterReset == FALSE
claimIsLate == drained

SetOwner(pid) ==
    /\ pid \in frontendUp
    /\ ownerPID' = pid
    /\ ownerGone' = FALSE
    /\ strikes' = 0
    /\ waived' = FALSE
    /\ drained' = FALSE
    /\ graceOver' = FALSE
    /\ warned' = (warned \/ claimIsLate)
    /\ UNCHANGED <<live, holds, runVars, envVars, open, held>>

GraceElapses ==
    /\ ~graceOver
    /\ graceOver' = TRUE
    /\ UNCHANGED <<ownerPID, live, holds, strikes, drained, waived, ownerGone,
                   runVars, envVars, open, held, warned>>

-----------------------------------------------------------------------------
(* The goroutine of Run: pollOwner in three steps, then fireIfExpired.     *)

pollNeverLatches == ownerPID = NoOwner
pollDone == ownerGone \/ ownerPID = NoOwner

\* A tick: pollOwner reads the pid, or skips the poll when it is done.
PollRead ==
    /\ runAt = "idle"
    /\ IF pollDone
         THEN runAt' = "fire" /\ UNCHANGED polled
         ELSE runAt' = "lookup" /\ polled' = ownerPID
    /\ UNCHANGED <<leaseCore, answer, envVars, open, held, warned>>

\* alive(pid): a pid reused by another process reads as alive, and a lookup
\* of a live process may fail, at most MaxMisses times in a row.
PollLookup ==
    /\ runAt = "lookup"
    /\ runAt' = "apply"
    /\ \/ polled \in frontendUp \cup recycled /\ answer' = TRUE /\ misses' = 0
       \/ polled \notin frontendUp \cup recycled /\ answer' = FALSE /\ UNCHANGED misses
       \/ /\ polled \in frontendUp \cup recycled /\ misses < MaxMisses
          /\ answer' = FALSE /\ misses' = misses + 1
    /\ UNCHANGED <<leaseCore, polled, frontendUp, recycled, open, held, warned>>

\* SetOwner landed while the lookup ran.
staleUnnoticed == FALSE
answerIsStale == ownerPID # polled

PollApply ==
    /\ runAt = "apply"
    /\ runAt' = "fire"
    /\ \/ answerIsStale /\ UNCHANGED <<strikes, ownerGone>>
       \/ ~answerIsStale /\ answer /\ strikes' = 0 /\ UNCHANGED ownerGone
       \/ /\ ~answerIsStale /\ ~answer
          /\ strikes' = strikes + 1
          /\ ownerGone' = (strikes' >= deadStrikes)
    /\ polled' = NoOwner /\ answer' = FALSE
    /\ UNCHANGED <<ownerPID, live, holds, drained, waived, graceOver,
                   envVars, open, held, warned>>

expiredLocked == ownerGone /\ live = 0 /\ holds = 0 /\ (waived \/ graceOver)

FireIfExpired ==
    /\ runAt = "fire"
    /\ IF drained \/ ~expiredLocked
         THEN runAt' = "idle" /\ UNCHANGED <<drained, warned>>
         ELSE runAt' = "drain" /\ drained' = TRUE /\ warned' = FALSE
    /\ UNCHANGED <<ownerPID, live, holds, strikes, waived, ownerGone, graceOver,
                   polled, answer, envVars, open, held>>

\* l.drain(), called with the lock released.
CallDrain ==
    /\ runAt = "drain"
    /\ runAt' = "idle"
    /\ UNCHANGED <<leaseCore, polled, answer, envVars, open, held, warned>>

-----------------------------------------------------------------------------
(* The operating system.                                                   *)

\* A pid is reused no sooner than the lookups that name it are over, and by a
\* process other than the owner's only after the two ticks it takes to latch.
BeingLookedUp(pid) == runAt \in {"lookup", "apply"} /\ polled = pid

FrontendStarts(pid) ==
    /\ pid \notin frontendUp \cup recycled
    /\ pid # ownerPID /\ ~BeingLookedUp(pid)
    /\ frontendUp' = frontendUp \cup {pid}
    /\ UNCHANGED <<leaseCore, runVars, recycled, misses, open, held, warned>>

FrontendDies(pid) ==
    /\ pid \in frontendUp
    /\ frontendUp' = frontendUp \ {pid}
    /\ UNCHANGED <<leaseCore, runVars, recycled, misses, open, held, warned>>

PidRecycled(pid) ==
    /\ pid \notin frontendUp \cup recycled
    /\ pid = ownerPID /\ ownerGone
    /\ recycled' = recycled \cup {pid}
    /\ UNCHANGED <<leaseCore, runVars, frontendUp, misses, open, held, warned>>

PidFreed(pid) ==
    /\ pid \in recycled
    /\ recycled' = recycled \ {pid}
    /\ UNCHANGED <<leaseCore, runVars, frontendUp, misses, open, held, warned>>

Run == PollRead \/ PollLookup \/ PollApply \/ FireIfExpired \/ CallDrain

Callers ==
    \/ \E c \in Clients : ConnNew(c) \/ ConnClosed(c) \/ Goodbye(c)
    \/ \E h \in Holders : Hold(h) \/ Release(h)
    \/ \E pid \in Pids : SetOwner(pid)

OS == \E pid \in Pids : \/ FrontendStarts(pid) \/ FrontendDies(pid)
                        \/ PidRecycled(pid) \/ PidFreed(pid)

LeaseNext == Run \/ Callers \/ GraceElapses \/ OS

LeaseSpec == LeaseInit /\ [][LeaseNext]_leaseVars

-----------------------------------------------------------------------------

\* The counters the lease decides on are the connections and holds that exist:
\* a close or a release counted twice would drain under a client, one that is
\* lost would keep the daemon for good.
CountsMatch == live = Cardinality(open) /\ holds = Cardinality(held)

\* The lease takes no live frontend for dead, whatever lookup fails once and
\* whichever handover lands while a lookup of the previous owner runs.
OwnerGoneIsDead == ownerGone => ownerPID \notin frontendUp

\* When the drain is about to run under a frontend that is alive, some claim
\* since the lease fired was told so (SetOwner returned false).
LateClaimIsWarned == runAt = "drain" /\ ownerPID \in frontendUp => warned

Unattended == /\ ownerPID \in Pids \ frontendUp
              /\ live = 0 /\ holds = 0
=============================================================================
