---------------------------- MODULE LeaseProofs ----------------------------
(***************************************************************************)
(* Proofs about the client lease, for every set of frontends, clients and  *)
(* holders.  One inductive invariant gives the four safety properties: its *)
(* core says that the strikes against an owner that is alive are lookups   *)
(* that failed in a row, and fewer than deadStrikes can.                   *)
(***************************************************************************)
EXTENDS Lease, FiniteSetTheorems, TLAPS

looking == runAt \in {"lookup", "apply"}

\* A poll is in flight only while the owner's death is not latched, and the
\* death is latched as soon as the strikes are reached.
Latched ==
    /\ looking => ~ownerGone
    /\ ~ownerGone => strikes < deadStrikes

\* A lookup that names another pid than the owner's was overtaken by a
\* SetOwner, which wiped the strikes.
OvertakenPoll == looking /\ polled # ownerPID => strikes = 0

\* A negative answer about a process that is alive is a failed lookup.
MissSeen == runAt = "apply" /\ ~answer /\ polled \in frontendUp => misses >= 1

\* The strikes against a live owner are failed lookups, the one whose answer is
\* still to be applied included.
StrikesAreMisses ==
    ownerPID \in frontendUp =>
        IF runAt = "apply" /\ polled = ownerPID
          THEN answer \/ strikes + 1 <= misses
          ELSE strikes <= misses

\* Between the firing and the drain, the owner is the dead one the lease fired
\* for, or some claim was told that it came late.
FiredOrWarned ==
    runAt = "drain" => warned \/ (drained /\ ownerPID \notin frontendUp)

LeaseInv ==
    /\ LeaseTypeOK /\ CountsMatch
    /\ Latched /\ OvertakenPoll /\ MissSeen /\ StrikesAreMisses
    /\ OwnerGoneIsDead /\ FiredOrWarned

-----------------------------------------------------------------------------

\* The types follow from the latch: strikes stop at deadStrikes.
LEMMA TypeInit == LeaseInit => LeaseInv
  <1> SUFFICES ASSUME LeaseInit PROVE LeaseInv
    OBVIOUS
  <1>1. LeaseTypeOK
    <2>1. drained \in BOOLEAN /\ waived \in BOOLEAN /\ ownerGone \in BOOLEAN
          /\ graceOver \in BOOLEAN /\ answer \in BOOLEAN /\ warned \in BOOLEAN
      BY DEF LeaseInit
    <2> QED
      BY <2>1, LeaseAssumption DEF LeaseInit, LeaseTypeOK, deadStrikes
  <1>2. CountsMatch
    BY FS_EmptySet DEF LeaseInit, CountsMatch
  <1> QED
    BY <1>1, <1>2 DEF LeaseInit, LeaseInv, Latched, OvertakenPoll, MissSeen,
       StrikesAreMisses, OwnerGoneIsDead, FiredOrWarned, looking, deadStrikes

\* Every step keeps the types.
LEMMA TypeStep ==
  ASSUME LeaseTypeOK, CountsMatch, Latched, [LeaseNext]_leaseVars
  PROVE  LeaseTypeOK'
  <1> USE LeaseAssumption DEF LeaseTypeOK, leaseCore, runVars, envVars
  <1>1. ASSUME NEW c \in Clients, ConnNew(c) PROVE LeaseTypeOK'
    <2>1. waived' \in BOOLEAN
      BY <1>1 DEF ConnNew
    <2> QED
      BY <1>1, <2>1 DEF ConnNew
  <1>2. ASSUME NEW c \in Clients, ConnClosed(c) PROVE LeaseTypeOK'
    <2>1. graceOver' \in BOOLEAN
      BY <1>2, Zenon DEF ConnClosed
    <2> QED
      BY <1>2, <2>1 DEF ConnClosed
  <1>3. ASSUME NEW c \in Clients, Goodbye(c) PROVE LeaseTypeOK'
    BY <1>3 DEF Goodbye
  <1>4. ASSUME NEW h \in Holders, Hold(h) PROVE LeaseTypeOK'
    BY <1>4 DEF Hold
  <1>5. ASSUME NEW h \in Holders, Release(h) PROVE LeaseTypeOK'
    <2>1. IsFiniteSet(held) /\ Cardinality(held) # 0
      BY <1>5, FS_Subset, FS_EmptySet DEF Release, firstRelease
    <2>2. holds - 1 \in Nat
      BY <2>1, FS_CardinalityType DEF CountsMatch
    <2> QED
      BY <1>5, <2>2 DEF Release, firstRelease
  <1>6. ASSUME NEW pid \in Pids, SetOwner(pid) PROVE LeaseTypeOK'
    <2>1. warned' \in BOOLEAN /\ ownerGone' \in BOOLEAN /\ waived' \in BOOLEAN
          /\ drained' \in BOOLEAN /\ graceOver' \in BOOLEAN
      BY <1>6, Zenon DEF SetOwner
    <2>2. /\ ownerPID' \in Pids /\ strikes' = 0
          /\ UNCHANGED <<live, holds, runVars, envVars, open, held>>
      BY <1>6 DEF SetOwner
    <2> QED
      BY <2>1, <2>2 DEF deadStrikes
  <1>7. ASSUME GraceElapses PROVE LeaseTypeOK'
    BY <1>7 DEF GraceElapses
  <1>8. ASSUME PollRead PROVE LeaseTypeOK'
    BY <1>8 DEF PollRead, pollDone
  <1>9. ASSUME PollLookup PROVE LeaseTypeOK'
    <2>1. misses' \in 0 .. MaxMisses
      BY <1>9 DEF PollLookup
    <2>2. answer' \in BOOLEAN
      BY <1>9 DEF PollLookup
    <2> QED
      BY <1>9, <2>1, <2>2 DEF PollLookup
  <1>10. ASSUME PollApply PROVE LeaseTypeOK'
    <2>1. strikes' \in 0 .. deadStrikes
      BY <1>10 DEF PollApply, deadStrikes, Latched, looking
    <2>2. ownerGone' \in BOOLEAN
      <3>1. CASE UNCHANGED ownerGone
        BY <3>1
      <3>2. CASE ownerGone' = (strikes' >= deadStrikes)
        <4>1. CASE strikes' >= deadStrikes
          BY <3>2, <4>1
        <4>2. CASE ~(strikes' >= deadStrikes)
          BY <3>2, <4>2
        <4> QED
          BY <4>1, <4>2
      <3> QED
        BY <1>10, <3>1, <3>2 DEF PollApply
    <2>3. /\ runAt' = "fire" /\ polled' = NoOwner /\ answer' = FALSE
          /\ UNCHANGED <<ownerPID, live, holds, drained, waived, graceOver, envVars,
                          open, held, warned>>
      BY <1>10 DEF PollApply
    <2> QED
      BY <2>1, <2>2, <2>3
  <1>11. ASSUME FireIfExpired PROVE LeaseTypeOK'
    BY <1>11 DEF FireIfExpired
  <1>12. ASSUME CallDrain PROVE LeaseTypeOK'
    BY <1>12 DEF CallDrain
  <1>13. ASSUME NEW pid \in Pids, FrontendStarts(pid) PROVE LeaseTypeOK'
    BY <1>13 DEF FrontendStarts, BeingLookedUp
  <1>14. ASSUME NEW pid \in Pids, FrontendDies(pid) PROVE LeaseTypeOK'
    BY <1>14 DEF FrontendDies
  <1>15. ASSUME NEW pid \in Pids, PidRecycled(pid) PROVE LeaseTypeOK'
    BY <1>15 DEF PidRecycled
  <1>16. ASSUME NEW pid \in Pids, PidFreed(pid) PROVE LeaseTypeOK'
    BY <1>16 DEF PidFreed
  <1>17. CASE UNCHANGED leaseVars
    BY <1>17 DEF leaseVars
  <1> QED
    BY <1>1, <1>2, <1>3, <1>4, <1>5, <1>6, <1>7, <1>8, <1>9, <1>10, <1>11, <1>12, <1>13, <1>14, <1>15, <1>16, <1>17 DEF LeaseNext, Run, Callers, OS

\* The counters follow the sets of connections and holds, which stay finite.
LEMMA CountsStep ==
  ASSUME LeaseTypeOK, CountsMatch, [LeaseNext]_leaseVars
  PROVE  CountsMatch'
  <1>1. IsFiniteSet(open) /\ IsFiniteSet(held)
    BY LeaseAssumption, FS_Subset DEF LeaseTypeOK
  <1>2. ASSUME NEW c \in Clients, ConnNew(c) PROVE CountsMatch'
    <2>1. Cardinality(open \cup {c}) = Cardinality(open) + 1
      BY <1>1, <1>2, FS_AddElement DEF ConnNew
    <2> QED
      BY <1>2, <2>1 DEF ConnNew, CountsMatch
  <1>3. ASSUME NEW c \in Clients, ConnClosed(c) PROVE CountsMatch'
    <2>1. Cardinality(open \ {c}) = Cardinality(open) - 1
      BY <1>1, <1>3, FS_RemoveElement DEF ConnClosed
    <2>2. Cardinality(open \ {c}) \in Nat
      BY <1>1, FS_CardinalityType, FS_RemoveElement
    <2>3. live' = Cardinality(open) - 1 /\ holds' = holds
      BY <1>3, <2>1, <2>2 DEF ConnClosed, CountsMatch, LeaseTypeOK
    <2> QED
      BY <1>3, <2>1, <2>3 DEF ConnClosed, CountsMatch
  <1>4. ASSUME NEW h \in Holders, Hold(h) PROVE CountsMatch'
    <2>1. Cardinality(held \cup {h}) = Cardinality(held) + 1
      BY <1>1, <1>4, FS_AddElement DEF Hold
    <2> QED
      BY <1>4, <2>1 DEF Hold, CountsMatch
  <1>5. ASSUME NEW h \in Holders, Release(h) PROVE CountsMatch'
    <2>1. Cardinality(held \ {h}) = Cardinality(held) - 1
      BY <1>1, <1>5, FS_RemoveElement DEF Release, firstRelease
    <2> QED
      BY <1>5, <2>1 DEF Release, CountsMatch
  <1>6. CASE UNCHANGED <<live, holds, open, held>>
    BY <1>6 DEF CountsMatch
  <1>7. CASE GraceElapses \/ Run \/ OS \/ (\E pid \in Pids : SetOwner(pid)) \/ (\E c \in Clients : Goodbye(c))
    BY <1>6, <1>7 DEF GraceElapses, Run, PollRead, PollLookup, PollApply, FireIfExpired, CallDrain,
       OS, FrontendStarts, FrontendDies, PidRecycled, PidFreed, SetOwner, Goodbye,
       leaseCore, runVars, envVars
  <1> QED
    BY <1>2, <1>3, <1>4, <1>5, <1>6, <1>7 DEF LeaseNext, Callers, leaseVars, leaseCore

-----------------------------------------------------------------------------
(* The strikes.                                                            *)

StrikeInv == Latched /\ OvertakenPoll /\ MissSeen /\ StrikesAreMisses /\ OwnerGoneIsDead
               /\ FiredOrWarned

strikeVars == <<ownerPID, strikes, drained, ownerGone, runVars, envVars, warned>>

\* What neither the strikes, the poll nor the owner depends on.
LEMMA StrikeStutter ==
  ASSUME StrikeInv, UNCHANGED strikeVars
  PROVE  StrikeInv'
  BY DEF StrikeInv, strikeVars, runVars, envVars, looking, Latched, OvertakenPoll, MissSeen,
     StrikesAreMisses, OwnerGoneIsDead, FiredOrWarned

\* No step takes a live owner for dead.
LEMMA StrikeStep ==
  ASSUME LeaseTypeOK, StrikeInv, [LeaseNext]_leaseVars
  PROVE  StrikeInv'
  <1> USE LeaseAssumption DEF LeaseTypeOK, StrikeInv, looking, Latched, OvertakenPoll, MissSeen,
        StrikesAreMisses, OwnerGoneIsDead, FiredOrWarned, deadStrikes, runVars, envVars, leaseCore
  <1>1. ASSUME NEW pid \in Pids, SetOwner(pid) PROVE StrikeInv'
    BY <1>1 DEF SetOwner, claimIsLate
  <1>2. ASSUME PollRead PROVE StrikeInv'
    BY <1>2 DEF PollRead, pollDone
  <1>3. ASSUME PollLookup PROVE StrikeInv'
    BY <1>3 DEF PollLookup
  <1>4. ASSUME PollApply PROVE StrikeInv'
    <2> USE <1>4 DEF PollApply, answerIsStale
    <2>1. CASE answerIsStale /\ UNCHANGED <<strikes, ownerGone>>
      BY <2>1
    <2>2. CASE ~answerIsStale /\ answer /\ strikes' = 0 /\ UNCHANGED ownerGone
      BY <2>2
    <2>3. CASE ~answerIsStale /\ ~answer /\ strikes' = strikes + 1
      <3>1. ownerPID \in frontendUp => strikes' <= misses
        BY <2>3
      <3>2. ownerGone' <=> strikes' >= deadStrikes
        BY <2>3
      <3> QED
        BY <3>1, <3>2, <2>3
    <2> QED
      BY <2>1, <2>2, <2>3
  <1>5. ASSUME FireIfExpired PROVE StrikeInv'
    BY <1>5 DEF FireIfExpired, expiredLocked
  <1>6. ASSUME CallDrain PROVE StrikeInv'
    BY <1>6 DEF CallDrain
  <1>7. ASSUME NEW pid \in Pids, FrontendStarts(pid) PROVE StrikeInv'
    BY <1>7 DEF FrontendStarts, BeingLookedUp
  <1>8. ASSUME NEW pid \in Pids, FrontendDies(pid) PROVE StrikeInv'
    BY <1>8 DEF FrontendDies
  <1>9. ASSUME NEW pid \in Pids, PidRecycled(pid) \/ PidFreed(pid) PROVE StrikeInv'
    BY <1>9 DEF PidRecycled, PidFreed
  <1>10. CASE UNCHANGED strikeVars
    BY <1>10, StrikeStutter
  <1>11. ASSUME NEW c \in Clients, ConnNew(c) \/ ConnClosed(c) \/ Goodbye(c)
         PROVE StrikeInv'
    BY <1>10, <1>11 DEF ConnNew, ConnClosed, Goodbye, strikeVars
  <1>12. ASSUME NEW h \in Holders, Hold(h) \/ Release(h) PROVE StrikeInv'
    BY <1>10, <1>12 DEF Hold, Release, strikeVars
  <1>13. CASE GraceElapses \/ UNCHANGED leaseVars
    BY <1>10, <1>13 DEF GraceElapses, leaseVars, strikeVars
  <1> QED
    BY <1>1, <1>2, <1>3, <1>4, <1>5, <1>6, <1>7, <1>8, <1>9, <1>11, <1>12, <1>13
    DEF LeaseNext, Run, Callers, OS

-----------------------------------------------------------------------------

\* The invariant holds of every reachable state.
THEOREM LeaseInvariant == LeaseSpec => []LeaseInv
  <1>1. LeaseInit => LeaseInv
    BY TypeInit
  <1>2. LeaseInv /\ [LeaseNext]_leaseVars => LeaseInv'
    BY TypeStep, CountsStep, StrikeStep DEF LeaseInv, StrikeInv
  <1> QED
    BY <1>1, <1>2, PTL DEF LeaseSpec

\* Every variable keeps its type; the strikes stop where the death is latched.
THEOREM LeaseTypes == LeaseSpec => []LeaseTypeOK
  <1>1. LeaseInv => LeaseTypeOK
    BY DEF LeaseInv
  <1> QED
    BY <1>1, LeaseInvariant, PTL

\* The lease counts the connections and holds that exist.
THEOREM LeaseCounts == LeaseSpec => []CountsMatch
  <1>1. LeaseInv => CountsMatch
    BY DEF LeaseInv
  <1> QED
    BY <1>1, LeaseInvariant, PTL

\* The lease never takes a live owner for dead.
THEOREM LiveOwnerKept == LeaseSpec => []OwnerGoneIsDead
  <1>1. LeaseInv => OwnerGoneIsDead
    BY DEF LeaseInv
  <1> QED
    BY <1>1, LeaseInvariant, PTL

\* A drain never comes as a surprise to a live owner.
THEOREM LateClaimsWarned == LeaseSpec => []LateClaimIsWarned
  <1>1. LeaseInv => LateClaimIsWarned
    BY DEF LeaseInv, FiredOrWarned, LateClaimIsWarned
  <1> QED
    BY <1>1, LeaseInvariant, PTL
=============================================================================
