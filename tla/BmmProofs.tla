----------------------------- MODULE BmmProofs -----------------------------
(***************************************************************************)
(* Proofs about the BMM engine, for every number of blocks, bids, attempts *)
(* and faults, when no Start falls into a tick.  The argument: a round     *)
(* that the tick takes is one whose block is there, and the block it is    *)
(* judged by is the one on its tip, because the target always names the    *)
(* tip of the round in play.  From there, what the tick, the store and the *)
(* file hold of the past: nothing that was judged is still held as open,   *)
(* and the live bid on the tip is the one of the round in play.            *)
(***************************************************************************)
EXTENDS BmmEngine, FiniteSetTheorems, WellFoundedInduction, TLAPS

\* One bid of a round is live at most, and who waits for a verdict has attempts
\* left.
OneLive(r) ==
    \A i, j \in DOMAIN r.bids : r.bids[i].st = "live" /\ r.bids[j].st = "live" => i = j
MayWait(r) == hasLive(r) /\ r.res \in {"open", "won"} => r.waited < Attempts

\* A lost round has its deciding block, which carries none of its bids.
LostFairly(chain, r) ==
    r.res = "lost" =>
        /\ r.on < Len(chain)
        /\ \A i \in DOMAIN r.bids : r.bids[i].crit # chain[r.on + 1].crit

Fine(chain) == {r \in Rounds : /\ r.on <= Len(chain) /\ OneLive(r) /\ MayWait(r)
                               /\ LostFairly(chain, r)}
Waiting(chain) == {r \in Fine(chain) : r.waited < Attempts}
Playing(chain) ==
    {r \in Waiting(chain) : r.res = "open" /\ (r.bids = <<>> \/ hasLive(r))}

-----------------------------------------------------------------------------
(* Numbers and sequences.                                                  *)

\* A set of numbers has a least element.
LEMMA Least ==
  ASSUME NEW S, S \subseteq Nat, S # {}
  PROVE  \E x \in S : \A y \in S : x =< y
  <1>1. PICK x \in S : \A y \in S : ~ (<<y, x>> \in OpToRel(<, Nat))
    BY WFMin, NatLessThanWellFounded
  <1>2. \A y \in S : ~ (y < x)
    <2> SUFFICES ASSUME NEW y \in S, y < x PROVE FALSE
      OBVIOUS
    <2>1. <<y, x>> \in Nat \X Nat /\ <<y, x>>[1] < <<y, x>>[2]
      OBVIOUS
    <2> QED
      BY <1>1, <2>1 DEF OpToRel
  <1> QED
    BY <1>2

\* Min is defined on it.
LEMMA MinFact ==
  ASSUME NEW S, S \subseteq Nat, S # {}
  PROVE  Min(S) \in S
  <1>1. \E x \in S : \A y \in S : x =< y
    BY Least
  <1> QED
    BY <1>1 DEF Min

\* Max is defined on a bounded one: the least gap to the bound belongs to it.
LEMMA MaxFact ==
  ASSUME NEW n \in Nat, NEW S, S \subseteq 1 .. n, S # {}
  PROVE  Max(S) \in S
  <1> DEFINE gaps == {n - i : i \in S}
  <1>1. gaps \subseteq Nat
    BY SMT
  <1>2. gaps # {}
    BY Zenon
  <1>3. PICK g \in gaps : \A h \in gaps : g =< h
    BY <1>1, <1>2, Least
  <1>4. PICK m \in S : g = n - m
    OBVIOUS
  <1>5. \A i \in S : m >= i
    <2> TAKE i \in S
    <2>1. n - i \in gaps
      OBVIOUS
    <2> QED
      BY <1>3, <1>4, <2>1
  <1> QED
    BY <1>5 DEF Max

\* The short sequences that a tick saves.
LEMMA ShortSeqs ==
  ASSUME NEW S, NEW s \in Seq(S)
  PROVE  /\ <<>> \in Seq(S) /\ \A r \in S : <<r>> \in Seq(S)
         /\ \A r, q \in S : <<r, q>> \in Seq(S)
         /\ s # <<>> => Head(s) \in S /\ Tail(s) \in Seq(S)
         /\ \A t \in Seq(S) : s \o t \in Seq(S)
         /\ \A x \in ToSet(s) : x \in S
  <1>1. <<>> \in Seq(S) /\ \A r \in S : <<r>> \in Seq(S)
    OBVIOUS
  <1>2. \A r, q \in S : <<r, q>> \in Seq(S)
    OBVIOUS
  <1>3. s # <<>> => Head(s) \in S /\ Tail(s) \in Seq(S)
    OBVIOUS
  <1>4. \A t \in Seq(S) : s \o t \in Seq(S)
    OBVIOUS
  <1>5. \A x \in ToSet(s) : x \in S
    BY DEF ToSet
  <1> QED
    BY <1>1, <1>2, <1>3, <1>4, <1>5

\* Save keeps the store a sequence of such rounds.
LEMMA SavedFact ==
  ASSUME NEW S, S \subseteq Rounds, NEW rounds \in Seq(S), NEW r \in S
  PROVE  saved(rounds, r) \in Seq(S)
  <1> DEFINE same == {i \in 1 .. Len(rounds) : rounds[i].on = r.on}
  <1>1. saved(rounds, r) = IF (IF same # {} THEN Min(same) ELSE 0) # 0
                             THEN ReplaceAt(rounds, IF same # {} THEN Min(same) ELSE 0, r)
                             ELSE Cons(r, rounds)
    BY DEF saved, SelectInSeq
  <1>2. Len(rounds) \in Nat /\ same \subseteq Nat
    OBVIOUS
  <1>3. same # {} => Min(same) \in same
    BY <1>2, MinFact
  <1>4. CASE same # {}
    <2>1. saved(rounds, r) = [rounds EXCEPT ![Min(same)] = r]
      BY <1>1, <1>3, <1>4 DEF ReplaceAt
    <2> QED
      BY <1>3, <1>4, <2>1
  <1>5. CASE same = {}
    <2>1. saved(rounds, r) = <<r>> \o rounds
      BY <1>1, <1>5 DEF Cons
    <2> QED
      BY <2>1
  <1> QED
    BY <1>4, <1>5

\* What load picks is in the file, or nothing is.
LEMMA Resumed ==
  ASSUME NEW S, NEW rounds \in Seq(S)
  PROVE  \/ resumedCurrent(rounds) = NoRound /\ resumedTip(rounds) = NoTip
         \/ /\ resumedCurrent(rounds) \in S /\ InPlay(resumedCurrent(rounds))
            /\ resumedTip(rounds) = resumedCurrent(rounds).on
  <1> DEFINE played == {i \in 1 .. Len(rounds) : InPlay(rounds[i])}
             found  == IF played # {} THEN Min(played) ELSE 0
  <1>1. resumedCurrent(rounds) = (IF found = 0 THEN NoRound ELSE rounds[found])
    BY DEF resumedCurrent, SelectInSeq
  <1>2. resumedTip(rounds) = (IF found = 0 THEN NoTip ELSE rounds[found].on)
    BY DEF resumedTip, SelectInSeq
  <1>3. Len(rounds) \in Nat /\ played \subseteq Nat
    OBVIOUS
  <1>4. played # {} => Min(played) \in played
    BY <1>3, MinFact
  <1>5. CASE played # {}
    <2> DEFINE i == Min(played)
    <2>1. i \in played /\ found = i
      BY <1>4, <1>5
    <2>2. i \in 1 .. Len(rounds) /\ InPlay(rounds[i])
      BY <2>1
    <2> HIDE DEF i, played, found
    <2>3. found # 0 /\ rounds[i] \in S
      BY <1>3, <2>1, <2>2
    <2> QED
      BY <1>1, <1>2, <2>1, <2>2, <2>3
  <1> QED
    BY <1>1, <1>2, <1>5

-----------------------------------------------------------------------------
(* Rounds.                                                                 *)

\* The live bid of a round, when it has one.
LEMMA LiveIndex ==
  ASSUME NEW r \in Rounds
  PROVE  /\ r.bids \in Seq(Bids) /\ DOMAIN r.bids = 1 .. Len(r.bids) /\ Len(r.bids) \in Nat
         /\ hasLive(r) <=> \E i \in DOMAIN r.bids : r.bids[i].st = "live"
         /\ hasLive(r) => liveIndex(r) \in DOMAIN r.bids /\ r.bids[liveIndex(r)].st = "live"
  <1> DEFINE live == {i \in 1 .. Len(r.bids) : r.bids[i].st = "live"}
  <1>1. r.bids \in Seq(Bids) /\ Len(r.bids) \in Nat /\ DOMAIN r.bids = 1 .. Len(r.bids)
    BY DEF Rounds
  <1>2. liveIndex(r) = IF live # {} THEN Max(live) ELSE 0
    BY DEF liveIndex, SelectLastInSeq
  <1>3. live # {} => Max(live) \in live
    BY <1>1, MaxFact
  <1>4. \A i : i \in live <=> i \in DOMAIN r.bids /\ r.bids[i].st = "live"
    BY <1>1
  <1>5. 0 \notin live
    BY <1>1
  <1> HIDE DEF live
  <1> QED
    BY <1>1, <1>2, <1>3, <1>4, <1>5 DEF hasLive

\* Two versions of a round with the same bids, up to their states.
Version(r, s) ==
    /\ s \in Rounds /\ s.on = r.on
    /\ Len(s.bids) = Len(r.bids)
    /\ \A i \in DOMAIN s.bids : s.bids[i].tx = r.bids[i].tx /\ s.bids[i].crit = r.bids[i].crit

\* The live bid takes another state, and none is live.
LEMMA LiveBecomes ==
  ASSUME NEW r \in Rounds, OneLive(r), NEW st \in BidStates \ {"live"}
  PROVE  /\ Version(r, liveBecomes(r, st)) /\ ~hasLive(liveBecomes(r, st))
         /\ OneLive(liveBecomes(r, st))
         /\ liveBecomes(r, st).res = r.res /\ liveBecomes(r, st).waited = r.waited
         /\ liveBecomes(r, st).incl = r.incl
  <1> DEFINE s == liveBecomes(r, st)
  <1>1. CASE ~hasLive(r)
    <2>1. s = r
      BY <1>1 DEF liveBecomes
    <2> QED
      BY <1>1, <2>1 DEF Version
  <1>2. CASE hasLive(r)
    <2> DEFINE k == liveIndex(r)
               bs == [r.bids EXCEPT ![k] = [r.bids[k] EXCEPT !.st = st]]
    <2>1. k \in DOMAIN r.bids /\ r.bids[k].st = "live" /\ r.bids \in Seq(Bids)
          /\ DOMAIN r.bids = 1 .. Len(r.bids) /\ Len(r.bids) \in Nat
      BY <1>2, LiveIndex
    <2>2. s = [r EXCEPT !.bids = bs]
      BY <1>2 DEF liveBecomes
    <2> HIDE DEF k
    <2>3. [r.bids[k] EXCEPT !.st = st] \in Bids
      <3>1. r.bids[k] \in Bids
        BY <2>1
      <3> QED
        BY <3>1 DEF Bids
    <2>4. bs \in Seq(Bids) /\ Len(bs) = Len(r.bids) /\ DOMAIN bs = DOMAIN r.bids
      BY <2>1, <2>3
    <2>5. \A i \in DOMAIN bs : bs[i] = IF i = k THEN [r.bids[k] EXCEPT !.st = st] ELSE r.bids[i]
      BY <2>1
    <2>6. \A i \in DOMAIN bs : /\ bs[i].tx = r.bids[i].tx /\ bs[i].crit = r.bids[i].crit
                               /\ bs[i].st # "live"
      <3> TAKE i \in DOMAIN bs
      <3>1. CASE i = k
        BY <2>1, <2>4, <2>5, <3>1 DEF Bids
      <3>2. CASE i # k
        BY <2>1, <2>4, <2>5, <3>2 DEF OneLive
      <3> QED
        BY <3>1, <3>2
    <2> HIDE DEF bs
    <2>7. s \in Rounds /\ s.bids = bs /\ s.on = r.on /\ s.res = r.res /\ s.waited = r.waited
          /\ s.incl = r.incl
      BY <2>2, <2>4 DEF Rounds
    <2> HIDE DEF s
    <2>8. ~hasLive(s)
      BY <2>6, <2>7, LiveIndex
    <2> QED
      BY <2>4, <2>6, <2>7, <2>8 DEF Version, OneLive, s
  <1> QED
    BY <1>1, <1>2

\* The bids of one transaction are marked replaced.
LEMMA BidBecomes ==
  ASSUME NEW r \in Rounds, OneLive(r), NEW tx
  PROVE  LET s == bidBecomes(r, tx, "replaced") IN
         /\ Version(r, s) /\ OneLive(s)
         /\ s.res = r.res /\ s.waited = r.waited /\ s.incl = r.incl
         /\ \A i \in DOMAIN s.bids : s.bids[i].st = "live" =>
                                       r.bids[i].st = "live" /\ r.bids[i].tx # tx
         /\ hasLive(s) => hasLive(r)
  <1> DEFINE s == bidBecomes(r, tx, "replaced")
             bs == [i \in DOMAIN r.bids |-> IF r.bids[i].tx = tx
                                              THEN [r.bids[i] EXCEPT !.st = "replaced"]
                                              ELSE r.bids[i]]
  <1>1. r.bids \in Seq(Bids) /\ DOMAIN r.bids = 1 .. Len(r.bids) /\ Len(r.bids) \in Nat
    BY LiveIndex
  <1>2. s = [r EXCEPT !.bids = bs]
    BY DEF bidBecomes
  <1>3. \A i \in DOMAIN r.bids :
           /\ bs[i] \in Bids /\ bs[i].tx = r.bids[i].tx /\ bs[i].crit = r.bids[i].crit
           /\ bs[i].st = "live" => r.bids[i].st = "live" /\ r.bids[i].tx # tx
    <2> TAKE i \in DOMAIN r.bids
    <2>1. r.bids[i] \in Bids
      BY <1>1
    <2>2. bs[i] = IF r.bids[i].tx = tx THEN [r.bids[i] EXCEPT !.st = "replaced"] ELSE r.bids[i]
      OBVIOUS
    <2> HIDE DEF bs
    <2> QED
      BY <2>1, <2>2 DEF Bids, BidStates
  <1>4. bs \in Seq(Bids) /\ Len(bs) = Len(r.bids) /\ DOMAIN bs = DOMAIN r.bids
    <2>1. DOMAIN bs = 1 .. Len(r.bids)
      BY <1>1
    <2>2. bs \in [1 .. Len(r.bids) -> Bids]
      BY <1>1, <1>3
    <2> QED
      BY <1>1, <2>1, <2>2
  <1> HIDE DEF bs
  <1>5. s \in Rounds /\ s.bids = bs /\ s.on = r.on /\ s.res = r.res /\ s.waited = r.waited
        /\ s.incl = r.incl
    BY <1>2, <1>4 DEF Rounds
  <1> HIDE DEF s
  <1>6. hasLive(s) => hasLive(r)
    BY <1>3, <1>4, <1>5, LiveIndex
  <1>7. OneLive(s)
    BY <1>3, <1>4, <1>5 DEF OneLive
  <1> QED
    BY <1>3, <1>4, <1>5, <1>6, <1>7 DEF Version, s

\* Another version of a fine round is fine, unless it is now lost or waits too
\* long.
LEMMA VersionFine ==
  ASSUME NEW chain, NEW r \in Fine(chain), NEW s, Version(r, s), OneLive(s),
         MayWait(s), s.res = "lost" => r.res = "lost"
  PROVE  s \in Fine(chain)
  <1>1. r \in Rounds /\ s \in Rounds
    BY DEF Fine, Version
  <1>2. DOMAIN s.bids = DOMAIN r.bids
    BY <1>1, LiveIndex DEF Version
  <1>3. LostFairly(chain, s)
    BY <1>2 DEF Fine, Version, LostFairly
  <1> QED
    BY <1>1, <1>3 DEF Fine, Version

\* Its live bid out of play, a round stays fine.
LEMMA OutOfPlay ==
  ASSUME NEW chain, NEW r \in Fine(chain), NEW st \in BidStates \ {"live"}
  PROVE  liveBecomes(r, st) \in Fine(chain)
  <1>1. r \in Rounds /\ OneLive(r)
    BY DEF Fine
  <1>2. MayWait(liveBecomes(r, st))
    BY <1>1, LiveBecomes DEF MayWait
  <1> QED
    BY <1>1, <1>2, LiveBecomes, VersionFine

\* So it does when the block that decides it is noted.
LEMMA Included ==
  ASSUME NEW chain, NEW r \in Fine(chain), NEW h \in Heights
  PROVE  /\ includes(r, h) \in Fine(chain) /\ includes(r, h).res = r.res
         /\ includes(r, h).waited = r.waited /\ includes(r, h).on = r.on
         /\ hasLive(includes(r, h)) <=> hasLive(r)
  <1> DEFINE q == includes(r, h)
  <1>1. r \in Rounds /\ OneLive(r) /\ MayWait(r)
    BY DEF Fine
  <1>2. q \in Rounds /\ q.bids = r.bids /\ q.res = r.res /\ q.waited = r.waited /\ q.on = r.on
    BY <1>1 DEF includes, Rounds
  <1> HIDE DEF q
  <1>3. hasLive(q) <=> hasLive(r)
    BY <1>1, <1>2, LiveIndex
  <1>4. Version(r, q) /\ OneLive(q) /\ MayWait(q)
    BY <1>1, <1>2, <1>3 DEF Version, OneLive, MayWait
  <1>5. q \in Fine(chain)
    BY <1>2, <1>4, VersionFine
  <1> QED
    BY <1>2, <1>3, <1>5 DEF q

\* And when an attempt is noted, which leaves one more if a bid is live.
LEMMA Noted ==
  ASSUME NEW chain, NEW r \in Fine(chain), NEW h \in Heights, NEW n \in 0 .. Attempts,
         hasLive(r) => n < Attempts
  PROVE  /\ includes(r, h) \in Fine(chain) /\ [r EXCEPT !.waited = n] \in Fine(chain)
         /\ includes(r, h).res = r.res /\ includes(r, h).waited = r.waited
         /\ [r EXCEPT !.waited = n].waited = n /\ [r EXCEPT !.waited = n].res = r.res
         /\ includes(r, h).on = r.on
         /\ hasLive(includes(r, h)) <=> hasLive(r)
         /\ hasLive([r EXCEPT !.waited = n]) <=> hasLive(r)
  <1> DEFINE w == [r EXCEPT !.waited = n]
  <1>1. r \in Rounds /\ OneLive(r) /\ MayWait(r)
    BY DEF Fine
  <1>2. w \in Rounds /\ w.bids = r.bids /\ w.res = r.res /\ w.waited = n /\ w.on = r.on
    BY <1>1 DEF Rounds
  <1> HIDE DEF w
  <1>3. hasLive(w) <=> hasLive(r)
    BY <1>1, <1>2, LiveIndex
  <1>4. Version(r, w) /\ OneLive(w) /\ MayWait(w)
    BY <1>1, <1>2, <1>3 DEF Version, OneLive, MayWait
  <1>5. w \in Fine(chain)
    BY <1>2, <1>4, VersionFine
  <1> QED
    BY <1>2, <1>3, <1>5, Included DEF w

\* A won round has one live bid, and waits like the round it was.
LEMMA Won ==
  ASSUME NEW chain, NEW r \in Waiting(chain), NEW h \in Heights, winners(r, h) # {}
  PROVE  /\ won(r, h) \in Waiting(chain) /\ won(r, h).res = "won" /\ hasLive(won(r, h))
         /\ [won(r, h) EXCEPT !.waited = 0] \in Waiting(chain)
         /\ [won(r, h) EXCEPT !.waited = 0].res = "won"
         /\ hasLive([won(r, h) EXCEPT !.waited = 0])
  <1> DEFINE m == liveBecomes(r, "missed")
             k == winner(r, h)
             w == won(r, h)
             bs == [m.bids EXCEPT ![k] = [m.bids[k] EXCEPT !.st = "live"]]
  <1>1. r \in Fine(chain) /\ r \in Rounds /\ OneLive(r) /\ r.waited < Attempts
    BY DEF Waiting, Fine
  <1>2. "missed" \in BidStates \ {"live"} /\ "live" \in BidStates
    BY DEF BidStates
  <1>3. Version(r, m) /\ ~hasLive(m) /\ m.res = r.res /\ m.waited = r.waited
    BY <1>1, <1>2, LiveBecomes
  <1>4. m \in Rounds /\ m.bids \in Seq(Bids) /\ DOMAIN m.bids = 1 .. Len(m.bids)
        /\ Len(m.bids) \in Nat /\ DOMAIN r.bids = DOMAIN m.bids
    BY <1>1, <1>3, LiveIndex DEF Version
  <1>5. k \in DOMAIN m.bids
    BY <1>4 DEF winner, winners, matches
  <1>6. \A i \in DOMAIN m.bids : m.bids[i] \in Bids /\ m.bids[i].st # "live"
    BY <1>3, <1>4, LiveIndex
  <1>7. w = [[[m EXCEPT !.bids = bs] EXCEPT !.res = "won"] EXCEPT !.incl = h]
    BY DEF won
  <1> HIDE DEF m, k, w
  <1>8. [m.bids[k] EXCEPT !.st = "live"] \in Bids
    BY <1>2, <1>5, <1>6 DEF Bids
  <1>9. /\ bs \in Seq(Bids) /\ Len(bs) = Len(m.bids) /\ DOMAIN bs = DOMAIN m.bids
        /\ \A i \in DOMAIN bs :
              bs[i] = IF i = k THEN [m.bids[k] EXCEPT !.st = "live"] ELSE m.bids[i]
    BY <1>4, <1>5, <1>8
  <1>10. \A i \in DOMAIN bs : /\ bs[i].tx = m.bids[i].tx /\ bs[i].crit = m.bids[i].crit
                              /\ bs[i].st = "live" <=> i = k
    BY <1>5, <1>6, <1>9 DEF Bids
  <1> HIDE DEF bs
  <1>11. /\ w \in Rounds /\ w.bids = bs /\ w.res = "won" /\ w.on = m.on
         /\ w.waited = m.waited
    BY <1>4, <1>7, <1>9 DEF Rounds
  <1>12. hasLive(w)
    BY <1>5, <1>9, <1>10, <1>11, LiveIndex
  <1>13. Version(r, w) /\ OneLive(w) /\ MayWait(w)
    BY <1>1, <1>3, <1>4, <1>9, <1>10, <1>11 DEF Version, OneLive, MayWait
  <1>14. w \in Fine(chain) /\ w.waited < Attempts
    BY <1>1, <1>3, <1>11, <1>13, VersionFine
  <1>15. 0 \in 0 .. Attempts /\ 0 < Attempts /\ r.waited \in 0 .. Attempts
    BY <1>1, BmmAssumption DEF Rounds
  <1>16. [w EXCEPT !.waited = 0] \in Fine(chain) /\ [w EXCEPT !.waited = 0].waited = 0
         /\ [w EXCEPT !.waited = 0].res = "won" /\ hasLive([w EXCEPT !.waited = 0])
    BY <1>11, <1>12, <1>14, <1>15, Noted
  <1> QED
    BY <1>11, <1>12, <1>14, <1>15, <1>16 DEF w, Waiting

\* A round whose block carries none of its bids is lost fairly.
LEMMA LostFine ==
  ASSUME NEW r \in Fine(blocks), r.on < height, noWinner(r, r.on + 1)
  PROVE  \A h \in Heights : lost(includes(r, h)) \in Fine(blocks)
  <1> TAKE h \in Heights
  <1> DEFINE q == includes(r, h)
             m == liveBecomes(q, "missed")
             s == lost(q)
  <1>1. r \in Rounds /\ r.on \in Nat
    BY DEF Fine, Rounds, Heights
  <1>2. q \in Rounds /\ q.bids = r.bids /\ q.on = r.on
    BY <1>1 DEF includes, Rounds
  <1>3. OneLive(q)
    BY <1>2 DEF OneLive, Fine
  <1>4. "missed" \in BidStates \ {"live"}
    BY DEF BidStates
  <1> HIDE DEF q
  <1>5. Version(q, m) /\ OneLive(m) /\ ~hasLive(m)
    BY <1>2, <1>3, <1>4, LiveBecomes
  <1>6. s = [m EXCEPT !.res = "lost"]
    BY DEF lost
  <1> HIDE DEF m
  <1>7. m \in Rounds
    BY <1>5 DEF Version
  <1> HIDE DEF s
  <1>8. s \in Rounds /\ s.bids = m.bids /\ s.on = r.on /\ s.res = "lost"
    BY <1>2, <1>5, <1>6, <1>7 DEF Rounds, Version
  <1>9. OneLive(s) /\ MayWait(s)
    BY <1>5, <1>8 DEF OneLive, MayWait
  <1>10. DOMAIN m.bids = DOMAIN r.bids
    BY <1>1, <1>2, <1>5, <1>7, LiveIndex DEF Version
  <1>11. \A i \in DOMAIN r.bids : r.bids[i].crit # blocks[r.on + 1].crit
    BY <1>1 DEF noWinner, matches, commitment
  <1>12. LostFairly(blocks, s)
    BY <1>2, <1>5, <1>8, <1>10, <1>11 DEF LostFairly, Version, height
  <1> QED
    BY <1>1, <1>8, <1>9, <1>12 DEF Fine, height, s, q

\* A round that the sidechain judged stays fine.
LEMMA ConnectedRetired ==
  ASSUME NEW chain, NEW r \in Fine(chain)
  PROVE  retired(r) \in Fine(chain) /\ (r.res = "won" => connected(r) \in Fine(chain))
  <1> DEFINE m == liveBecomes(r, "connected")
             s == connected(r)
  <1>1. {"connected", "failed"} \subseteq BidStates \ {"live"}
    BY DEF BidStates
  <1>2. r \in Rounds /\ OneLive(r)
    BY DEF Fine
  <1>3. retired(r) \in Fine(chain)
    BY <1>1, OutOfPlay DEF retired
  <1>4. m \in Fine(chain) /\ m \in Rounds /\ m.res = r.res
    BY <1>1, <1>2, OutOfPlay, LiveBecomes DEF Fine
  <1>5. s = [m EXCEPT !.res = "won"]
    BY DEF connected
  <1> HIDE DEF m
  <1>6. r.res = "won" => s = m
    BY <1>4, <1>5 DEF Rounds
  <1> QED
    BY <1>3, <1>4, <1>6 DEF s

-----------------------------------------------------------------------------
(* The invariant.                                                          *)

chainTypes ==
    /\ blocks \in Seq([tx : Txs \cup {NoTx}, crit : Txs \cup {NoCrit}])
    /\ height \in Heights

\* Every version of a round, in memory or in the file, is a fine one.
RoundsFine ==
    /\ store \in Seq(Fine(blocks)) /\ disk \in Seq(Fine(blocks))
    /\ saves \in Seq(Fine(blocks))
    /\ unconnected \subseteq Waiting(blocks) /\ todo \subseteq Waiting(blocks)
    /\ current \in Playing(blocks) \cup {NoRound}
    /\ work \in Playing(blocks) \cup {NoRound}
    /\ copied \in Playing(blocks) \cup {NoRound}

tickTypes ==
    /\ target \in Targets /\ snap \in Targets /\ previous \in Targets
    /\ seenTip \in Heights
    /\ at \in {"idle", "retry", "mark", "take", "settle", "open", "place",
               "record", "stranded", "raise"}
    /\ call \in {"none", "start", "stop"}
    /\ clearAt \in {"idle", "copies", "keeps"}

\* Where the tick is tells which rounds it holds.
RoundsHeld ==
    /\ work # NoRound <=> at = "settle"
    /\ at \in {"settle", "open"} => current = NoRound
    /\ at \in {"place", "record"} => current # NoRound
    /\ at = "place" => current.bids = <<>>
    /\ clearAt = "keeps" => copied # NoRound

\* Before the tick moves to a new tip, and after it opened its round, the target
\* names the tip of the round in play; between the two it names the new tip.  A
\* Stop in flight keeps it stopped.
fitsRound(t) == t = Stopped \/ current = NoRound \/ t = current.on
atTip(t)     == t \in {Stopped, seenTip}
between      == snap # Stopped /\ at \in {"take", "settle", "open"}

TargetFits ==
    /\ call = "start" => at = "idle"
    /\ call = "stop" => target = Stopped
    /\ between => atTip(target) /\ (call = "stop" => atTip(previous))
    /\ ~between => fitsRound(target) /\ (call # "none" => fitsRound(previous))

\* The tip that the tick read is past the round it settles.
TickFits ==
    /\ at # "idle" => seenTip <= height /\ (current # NoRound => current.on <= seenTip)
    /\ at \in {"retry", "mark"} /\ snap # Stopped => current = NoRound \/ current.on = snap
    /\ at = "mark" => snap # Stopped /\ snap # seenTip
    /\ at = "take" => current.on # seenTip
    /\ at = "settle" => work.on < seenTip
    /\ at = "open" => snap # Stopped

\* Our bids are numbered in the order they went out.
BidsNumbered ==
    /\ broadcast \subseteq [tx : Txs, on : Heights, crit : Txs, coin : Txs]
    /\ IsFiniteSet(broadcast)
    /\ \A n \in 1 .. Cardinality(broadcast) : \E b \in broadcast : b.tx = n
    /\ mempool \subseteq {b.tx : b \in broadcast}
    /\ replaced \in Txs \cup {NoTx}

\* While an answer is awaited, a bid is out, and the live one is replaced by it.
AnswerAwaited ==
    at = "record" =>
        /\ broadcast # {}
        /\ \A i \in DOMAIN current.bids :
              current.bids[i].st = "live" => current.bids[i].tx = replaced

historyTypes ==
    /\ storeTarget \in BOOLEAN /\ diskTarget \in BOOLEAN
    /\ offer \in Txs \cup {NoCrit}
    /\ over \subseteq Txs /\ filed \subseteq over /\ putBack \subseteq Txs
    /\ misled \in BOOLEAN /\ faults \in 0 .. MaxFaults /\ crashes \in 0 .. MaxCrashes

BmmInv ==
    /\ chainTypes /\ RoundsFine /\ tickTypes /\ RoundsHeld /\ TargetFits /\ TickFits
    /\ BidsNumbered /\ AnswerAwaited /\ historyTypes

-----------------------------------------------------------------------------
(* Rounds stay fine.                                                       *)

\* Rounds that were fine stay so when the chain grows.
LEMMA ChainGrows ==
  ASSUME chainTypes, NEW b \in [tx : Txs \cup {NoTx}, crit : Txs \cup {NoCrit}],
         blocks' = Append(blocks, b)
  PROVE  Fine(blocks) \subseteq Fine(blocks')
  <1> SUFFICES ASSUME NEW r \in Fine(blocks) PROVE r \in Fine(blocks')
    OBVIOUS
  <1>1. /\ Len(blocks) \in Nat /\ Len(blocks') = Len(blocks) + 1
        /\ \A i \in 1 .. Len(blocks) : blocks'[i] = blocks[i]
    BY DEF chainTypes
  <1>2. r \in Rounds /\ r.on \in Nat /\ r.on <= Len(blocks)
    BY DEF Fine, Rounds, Heights
  <1>3. LostFairly(blocks', r)
    BY <1>1, <1>2 DEF LostFairly, Fine
  <1> QED
    BY <1>1, <1>2, <1>3 DEF Fine

\* The three kinds of rounds, and NoRound is none of them.
LEMMA Kinds ==
  ASSUME NEW chain
  PROVE  /\ Playing(chain) \subseteq Waiting(chain) /\ Waiting(chain) \subseteq Fine(chain)
         /\ Fine(chain) \subseteq Rounds /\ NoRound \notin Rounds
  <1>1. NoRound \notin Rounds
    BY DEF NoRound, Rounds, Heights, NoTip
  <1> QED
    BY <1>1 DEF Playing, Waiting, Fine

\* What has an attempt left is parked, or given up for good.
LEMMA WaitsFine ==
  ASSUME RoundsFine, at = "retry", NEW r \in Waiting(blocks),
         NEW before \in Seq(Fine(blocks)), waits(r, before)
  PROVE  unconnected' \subseteq Waiting(blocks) /\ saves' \in Seq(Fine(blocks))
  <1> DEFINE w == [r EXCEPT !.waited = @ + 1]
  <1>1. r \in Fine(blocks) /\ r \in Rounds /\ r.waited \in 0 .. Attempts /\ r.waited < Attempts
    BY DEF Waiting, Fine, Rounds
  <1>2. Attempts \in Nat
    BY BmmAssumption
  <1>3. CASE ~spent(r)
    <2>1. r.waited + 1 < Attempts /\ r.waited + 1 \in 0 .. Attempts
      BY <1>1, <1>2, <1>3 DEF spent
    <2>2. 0 \in Heights
      BY BmmAssumption DEF Heights
    <2>3. w \in Fine(blocks) /\ w.waited = r.waited + 1
      BY <1>1, <2>1, <2>2, Noted
    <2>4. w \in Waiting(blocks)
      BY <2>1, <2>3 DEF Waiting
    <2>5. unconnected' = unconnected \cup {w} /\ saves' = before \o <<w>>
      BY <1>3 DEF waits, parks
    <2> QED
      BY <2>3, <2>4, <2>5, ShortSeqs DEF RoundsFine
  <1>4. CASE spent(r)
    <2>1. unconnected' = unconnected
          /\ saves' = before \o (IF r.res = "won" THEN <<retired(w)>> ELSE <<>>)
      BY <1>4 DEF waits, ends
    <2>2. r.res = "won" => retired(w) \in Fine(blocks)
      <3> SUFFICES ASSUME r.res = "won" PROVE retired(w) \in Fine(blocks)
        OBVIOUS
      <3>1. w \in Rounds /\ w.bids = r.bids /\ w.res = r.res /\ w.on = r.on
        BY <1>1, <1>2 DEF Rounds
      <3> HIDE DEF w
      <3>2. OneLive(w) /\ Version(r, w)
        BY <1>1, <3>1 DEF OneLive, Version, Fine
      <3> DEFINE s == retired(w)
      <3>3. "failed" \in BidStates \ {"live"}
        BY DEF BidStates
      <3>4. Version(w, s) /\ ~hasLive(s) /\ OneLive(s) /\ s.res = w.res
        BY <3>1, <3>2, <3>3, LiveBecomes DEF retired
      <3> HIDE DEF s
      <3>5. Version(r, s) /\ MayWait(s)
        <4>1. s \in Rounds /\ DOMAIN s.bids = DOMAIN w.bids
          BY <3>1, <3>4, LiveIndex DEF Version
        <4> QED
          BY <3>1, <3>2, <3>4, <4>1 DEF Version, MayWait
      <3> QED
        BY <1>1, <3>1, <3>4, <3>5, VersionFine DEF s
    <2> QED
      BY <2>1, <2>2, ShortSeqs DEF RoundsFine
  <1> QED
    BY <1>3, <1>4

\* What retryConnects does with a round.
LEMMA RetryFine ==
  ASSUME chainTypes, RoundsFine, tickTypes, TickFits, NEW r \in todo,
         AbandonBehindTip(r) \/ RetryUndecided(r) \/ RetryLost(r) \/ RetryWon(r)
           \/ RetryConnects(r)
  PROVE  /\ unconnected' \subseteq Waiting(blocks) /\ saves' \in Seq(Fine(blocks))
         /\ todo' \subseteq todo
         /\ UNCHANGED <<chainVars, targetVars, callVars, target, current, store, disk, at, snap,
                        seenTip, work, replaced>>
  <1>0. /\ <<>> \in Seq(Fine(blocks))
        /\ \A s \in Fine(blocks) : <<s>> \in Seq(Fine(blocks))
        /\ \A s, q \in Fine(blocks) : <<s, q>> \in Seq(Fine(blocks))
    BY ShortSeqs DEF RoundsFine
  <1>1. r \in Waiting(blocks) /\ r \in Fine(blocks) /\ r \in Rounds
    BY Kinds DEF RoundsFine
  <1>2. r.on \in Heights /\ r.on <= Len(blocks) /\ Len(blocks) \in Heights
        /\ Heights \subseteq Nat /\ 0 \in Heights /\ r.incl \in Heights
        /\ r.waited \in 0 .. Attempts /\ r.waited < Attempts
    BY <1>1, BmmAssumption DEF Fine, Waiting, Rounds, Heights, chainTypes, height
  <1>3. {"missed", "connected", "failed"} \subseteq BidStates \ {"live"}
    BY DEF BidStates
  <1>4. UNCHANGED <<chainVars, targetVars, callVars, target, current, store, disk, at, snap,
                    seenTip, work, replaced>>
        /\ todo' \subseteq todo
    BY DEF AbandonBehindTip, RetryUndecided, RetryLost, RetryWon, RetryConnects,
       retryUnchanged, retries, storeVars
  <1>5. at = "retry" /\ seenTip <= Len(blocks)
    BY DEF AbandonBehindTip, RetryUndecided, RetryLost, RetryWon, RetryConnects, retries,
       tickAt, TickFits, height
  <1>6. seenTip > r.on => r.on + 1 \in Heights /\ r.on < height
    BY <1>2, <1>5, BmmAssumption DEF tickTypes, Heights, height
  <1> DEFINE Goal == unconnected' \subseteq Waiting(blocks) /\ saves' \in Seq(Fine(blocks))
  <1>7. CASE AbandonBehindTip(r)
    <2>1. liveBecomes(r, "missed") \in Fine(blocks)
      BY <1>1, <1>3, OutOfPlay
    <2> QED
      BY <1>4, <1>7, <2>1, ShortSeqs DEF AbandonBehindTip, ends, RoundsFine
  <1>8. CASE RetryUndecided(r)
    <2>1. PICK h \in {r.incl, r.on + 1} :
             /\ h = r.incl \/ seenTip > r.on
             /\ waits(includes(r, h), <<>>)
      BY <1>8 DEF RetryUndecided
    <2>2. h \in Heights
      BY <1>2, <1>6, <2>1, BmmAssumption DEF tickTypes, Heights
    <2>3. includes(r, h) \in Waiting(blocks)
      BY <1>1, <1>2, <2>2, Noted DEF Waiting
    <2> QED
      BY <1>4, <1>5, <1>0, <2>1, <2>3, WaitsFine
  <1>9. CASE RetryLost(r)
    <2>1. r.on < height /\ r.on + 1 \in Heights
      BY <1>6, <1>9 DEF RetryLost
    <2>2. lost(includes(r, r.on + 1)) \in Fine(blocks)
      BY <1>1, <1>9, <2>1, LostFine DEF RetryLost
    <2> QED
      BY <1>4, <1>9, <2>2, ShortSeqs DEF RetryLost, ends, RoundsFine
  <1>10. CASE RetryWon(r)
    <2> DEFINE w == [won(r, r.on + 1) EXCEPT !.waited = 0]
    <2>1. r.on + 1 \in Heights /\ winners(r, r.on + 1) # {}
      BY <1>6, <1>10 DEF RetryWon
    <2>2. w \in Waiting(blocks) /\ w \in Fine(blocks) /\ w.res = "won"
      BY <1>1, <2>1, Won, Kinds
    <2>3. connected(w) \in Fine(blocks) /\ retired(w) \in Fine(blocks)
      BY <2>2, ConnectedRetired
    <2>4. \/ ends(<<connected(w)>>) \/ ends(<<w, retired(w)>>) \/ waits(w, <<w>>)
      BY <1>10 DEF RetryWon, offers
    <2> HIDE DEF w
    <2>5. CASE waits(w, <<w>>)
      BY <1>4, <1>0, <1>5, <2>2, <2>5, WaitsFine
    <2>6. CASE ends(<<connected(w)>>) \/ ends(<<w, retired(w)>>)
      BY <1>4, <1>0, <2>2, <2>3, <2>6 DEF ends, RoundsFine
    <2> QED
      BY <2>4, <2>5, <2>6
  <1>11. CASE RetryConnects(r)
    <2>1. r.res = "won"
      BY <1>11 DEF RetryConnects
    <2>2. connected(r) \in Fine(blocks) /\ retired(r) \in Fine(blocks)
      BY <1>1, <1>3, <2>1, ConnectedRetired
    <2>3. \/ ends(<<connected(r)>>) \/ ends(<<retired(r)>>) \/ waits(r, <<>>)
      BY <1>11 DEF RetryConnects, offers
    <2>4. CASE waits(r, <<>>)
      BY <1>4, <1>0, <1>1, <1>5, <2>4, WaitsFine
    <2>5. CASE ends(<<connected(r)>>) \/ ends(<<retired(r)>>)
      BY <1>4, <1>0, <2>2, <2>5 DEF ends, RoundsFine
    <2> QED
      BY <2>3, <2>4, <2>5
  <1>12. Goal
    BY <1>7, <1>8, <1>9, <1>10, <1>11
  <1> QED
    BY <1>4, <1>12

\* settleRound judges a round by the block on its tip.
LEMMA SettleFine ==
  ASSUME chainTypes, RoundsFine, RoundsHeld, tickTypes, TickFits,
         SettleParks \/ SettleWon \/ SettleLost
  PROVE  /\ unconnected' \subseteq Waiting(blocks) /\ saves' \in Seq(Fine(blocks))
         /\ work' = NoRound
         /\ UNCHANGED <<chainVars, targetVars, callVars, target, current, store, disk, todo,
                        replaced>>
  <1>1. /\ work' = NoRound
        /\ UNCHANGED <<chainVars, targetVars, callVars, target, current, store, disk, todo,
                       replaced>>
    BY DEF SettleParks, SettleWon, SettleLost, settles, settleUnchanged, storeVars
  <1>2. at = "settle"
    BY DEF SettleParks, SettleWon, SettleLost, settles, tickAt
  <1>3. work \in Playing(blocks) /\ work \in Waiting(blocks) /\ work \in Fine(blocks)
    BY <1>2, Kinds DEF RoundsFine, RoundsHeld
  <1>4. /\ work.on < seenTip /\ seenTip <= Len(blocks)
        /\ work.on \in Heights /\ work.on \in Nat /\ seenTip \in Heights /\ seenTip \in Nat
        /\ work.on + 1 \in Heights /\ work.on < height
    BY <1>2, <1>3, BmmAssumption
    DEF TickFits, tickTypes, chainTypes, height, Fine, Rounds, Heights
  <1>5. decider(work) \in Heights
    BY <1>4 DEF decider
  <1>6. work.bids = <<>> \/ hasLive(work)
    BY <1>3 DEF Playing
  <1>7. hasLive(work) => decider(work) = work.on + 1
    BY <1>4 DEF decider, outrun
  <1>8. \A s \in Fine(blocks) : <<s>> \in Seq(Fine(blocks))
    BY ShortSeqs DEF RoundsFine
  <1>9. \A s, q \in Fine(blocks) : <<s, q>> \in Seq(Fine(blocks))
    BY ShortSeqs DEF RoundsFine
  <1>10. CASE SettleParks
    <2>1. \A h \in Heights : includes(work, h) \in Waiting(blocks)
                             /\ includes(work, h) \in Fine(blocks)
      <3>1. work.waited \in 0 .. Attempts /\ work.waited < Attempts
        BY <1>3 DEF Waiting, Fine, Rounds
      <3> QED
        BY <1>3, <3>1, Noted DEF Waiting
    <2>2. \/ parks(work, <<work>>)
          \/ \E h \in Heights : parks(includes(work, h), <<includes(work, h)>>)
      BY <1>4, <1>5, <1>10 DEF SettleParks
    <2>3. PICK q \in Waiting(blocks) : q \in Fine(blocks) /\ parks(q, <<q>>)
      BY <1>3, <2>1, <2>2
    <2> QED
      BY <1>1, <1>8, <2>3 DEF parks, RoundsFine
  <1>11. CASE SettleWon
    <2> DEFINE w == [won(work, decider(work)) EXCEPT
                       !.waited = IF outrun(work) THEN 0 ELSE @]
    <2>1. winners(work, decider(work)) # {}
      BY <1>11 DEF SettleWon
    <2>2. w \in Waiting(blocks) /\ w \in Fine(blocks) /\ w.res = "won"
      <3> DEFINE v == won(work, decider(work))
      <3>1. v \in Waiting(blocks) /\ v.res = "won" /\ [v EXCEPT !.waited = 0] \in Waiting(blocks)
            /\ [v EXCEPT !.waited = 0].res = "won"
        BY <1>3, <1>5, <2>1, Won
      <3> HIDE DEF v
      <3>2. [v EXCEPT !.waited = v.waited] = v
        BY <3>1 DEF Waiting, Fine, Rounds
      <3>3. w = [v EXCEPT !.waited = 0] \/ w = v
        BY <3>2 DEF v
      <3> HIDE DEF w
      <3> QED
        BY <3>1, <3>3, Kinds
    <2>3. connected(w) \in Fine(blocks) /\ retired(w) \in Fine(blocks)
      BY <2>2, ConnectedRetired
    <2>4. \/ ends(<<connected(w)>>) \/ ends(<<w, retired(w)>>) \/ ends(<<retired(w)>>)
          \/ parks(w, <<w>>)
      BY <1>11 DEF SettleWon, offers
    <2> HIDE DEF w
    <2>5. <<connected(w)>> \in Seq(Fine(blocks)) /\ <<retired(w)>> \in Seq(Fine(blocks))
          /\ <<w, retired(w)>> \in Seq(Fine(blocks)) /\ <<w>> \in Seq(Fine(blocks))
      BY <1>8, <1>9, <2>2, <2>3
    <2> QED
      BY <1>1, <2>2, <2>4, <2>5 DEF ends, parks, RoundsFine
  <1>12. CASE SettleLost
    <2>1. noWinner(work, work.on + 1)
      <3>1. CASE hasLive(work)
        BY <1>7, <1>12, <3>1 DEF SettleLost
      <3>2. CASE work.bids = <<>>
        BY <3>2 DEF noWinner, matches
      <3> QED
        BY <1>6, <3>1, <3>2
    <2>2. lost(includes(work, decider(work))) \in Fine(blocks)
      BY <1>3, <1>4, <1>5, <2>1, LostFine
    <2> QED
      BY <1>1, <1>8, <1>12, <2>2 DEF SettleLost, ends, RoundsFine
  <1> QED
    BY <1>10, <1>11, <1>12

\* A new round is in play.
LEMMA Opened ==
  ASSUME chainTypes, seenTip \in Heights, seenTip <= height
  PROVE  [on |-> seenTip, res |-> "open", bids |-> <<>>, incl |-> 0, waited |-> 0]
           \in Playing(blocks)
  <1> DEFINE r == [on |-> seenTip, res |-> "open", bids |-> <<>>, incl |-> 0, waited |-> 0]
  <1>1. 0 \in Heights /\ 0 \in 0 .. Attempts /\ 0 < Attempts
    BY BmmAssumption DEF Heights
  <1>2. r \in Rounds /\ r.bids = <<>> /\ r.on = seenTip /\ r.res = "open" /\ r.waited = 0
    BY <1>1 DEF Rounds
  <1> HIDE DEF r
  <1>3. OneLive(r) /\ MayWait(r) /\ LostFairly(blocks, r)
    BY <1>1, <1>2 DEF OneLive, MayWait, LostFairly
  <1>4. r \in Fine(blocks)
    BY <1>2, <1>3 DEF Fine, height
  <1>5. r \in Playing(blocks)
    BY <1>1, <1>2, <1>4 DEF Playing, Waiting
  <1> QED
    BY <1>5 DEF r

\* The last bid that went out.
LEMMA LastSent ==
  ASSUME BidsNumbered, broadcast # {}
  PROVE  sent \in broadcast /\ sent.tx \in Txs /\ sent.crit \in Txs
  <1>1. Cardinality(broadcast) \in Nat /\ Cardinality(broadcast) # 0
    BY FS_CardinalityType, FS_EmptySet DEF BidsNumbered
  <1>2. \E b \in broadcast : b.tx = Cardinality(broadcast)
    BY <1>1 DEF BidsNumbered
  <1> QED
    BY <1>2 DEF sent, BidsNumbered

\* The bid joins its round, which stays in play.
LEMMA Recorded ==
  ASSUME RoundsFine, RoundsHeld, BidsNumbered, AnswerAwaited, BidRecorded
  PROVE  /\ current' \in Playing(blocks)
         /\ current'.on = current.on
  <1> DEFINE m == bidBecomes(current, replaced, "replaced")
             b == [tx |-> sent.tx, crit |-> sent.crit, st |-> "live"]
             bs == Append(m.bids, b)
  <1>1. at = "record" /\ current' = [m EXCEPT !.bids = bs]
    BY DEF BidRecorded, tickAt
  <1>2. current \in Playing(blocks) /\ current \in Waiting(blocks) /\ current \in Fine(blocks)
        /\ current \in Rounds
    BY <1>1, Kinds DEF RoundsFine, RoundsHeld
  <1>3. OneLive(current) /\ current.waited < Attempts /\ current.res = "open"
        /\ current.on <= Len(blocks)
    BY <1>2 DEF Fine, Waiting, Playing
  <1>4. /\ Version(current, m) /\ m.res = "open" /\ m.waited = current.waited
        /\ \A i \in DOMAIN m.bids : m.bids[i].st = "live" =>
              current.bids[i].st = "live" /\ current.bids[i].tx # replaced
    BY <1>2, <1>3, BidBecomes
  <1>5. m \in Rounds /\ m.bids \in Seq(Bids) /\ DOMAIN m.bids = 1 .. Len(m.bids)
        /\ Len(m.bids) \in Nat /\ DOMAIN m.bids = DOMAIN current.bids
    BY <1>2, <1>4, LiveIndex DEF Version
  <1>6. \A i \in DOMAIN m.bids : m.bids[i].st # "live"
    BY <1>1, <1>4, <1>5 DEF AnswerAwaited
  <1>7. b \in Bids /\ b.st = "live"
    BY <1>1, LastSent DEF AnswerAwaited, Bids, BidStates
  <1> HIDE DEF m, b
  <1>8. /\ bs \in Seq(Bids) /\ DOMAIN bs = 1 .. (Len(m.bids) + 1)
        /\ \A i \in DOMAIN bs : bs[i] = IF i = Len(m.bids) + 1 THEN b ELSE m.bids[i]
    BY <1>5, <1>7
  <1> DEFINE c == [m EXCEPT !.bids = bs]
  <1> HIDE DEF bs
  <1>9. /\ c \in Rounds /\ c.bids = bs /\ c.on = current.on /\ c.res = "open"
        /\ c.waited = current.waited
    BY <1>4, <1>5, <1>8 DEF Rounds, Version
  <1> HIDE DEF c
  <1>10. OneLive(c)
    BY <1>5, <1>6, <1>8, <1>9 DEF OneLive
  <1>11. hasLive(c)
    <2>1. Len(m.bids) + 1 \in DOMAIN c.bids /\ c.bids[Len(m.bids) + 1].st = "live"
      BY <1>5, <1>7, <1>8, <1>9
    <2> QED
      BY <1>9, <2>1, LiveIndex
  <1>12. c \in Fine(blocks)
    BY <1>3, <1>9, <1>10 DEF Fine, MayWait, LostFairly
  <1>13. c \in Playing(blocks) /\ current' = c
    BY <1>1, <1>3, <1>9, <1>11, <1>12 DEF Playing, Waiting, c
  <1> QED
    BY <1>9, <1>13

\* The round that owned a stranded bid is saved with it replaced.
LEMMA StrandedMarked ==
  ASSUME RoundsFine, MarkStranded
  PROVE  saves' \in Seq(Fine(blocks))
  <1> DEFINE owning == {i \in 1 .. Len(store) : \E j \in DOMAIN store[i].bids :
                                                   store[i].bids[j].tx = replaced}
             k == IF owning # {} THEN Min(owning) ELSE 0
  <1>1. saves' = IF k = 0 THEN <<>> ELSE <<bidBecomes(store[k], replaced, "replaced")>>
    BY DEF MarkStranded, SelectInSeq
  <1>2. store \in Seq(Fine(blocks)) /\ Len(store) \in Nat /\ owning \subseteq Nat
    BY DEF RoundsFine
  <1>3. owning # {} => Min(owning) \in owning
    BY <1>2, MinFact
  <1> HIDE DEF owning
  <1>4. CASE k = 0
    BY <1>1, <1>2, <1>4, ShortSeqs
  <1>5. CASE k # 0
    <2>1. k \in 1 .. Len(store)
      BY <1>3, <1>5 DEF owning
    <2>2. store[k] \in Fine(blocks)
      BY <1>2, <2>1
    <2> HIDE DEF k
    <2> DEFINE r == store[k]
               s == bidBecomes(r, replaced, "replaced")
    <2>3. r \in Rounds /\ OneLive(r) /\ MayWait(r)
      BY <2>2 DEF Fine
    <2>4. Version(r, s) /\ OneLive(s) /\ s.res = r.res /\ s.waited = r.waited
          /\ (hasLive(s) => hasLive(r))
      BY <2>3, BidBecomes
    <2>5. s \in Fine(blocks)
      <3>1. MayWait(s)
        BY <2>3, <2>4 DEF MayWait
      <3> QED
        BY <2>2, <2>4, <3>1, VersionFine
    <2> QED
      BY <1>1, <1>2, <1>5, <2>5, ShortSeqs
  <1> QED
    BY <1>4, <1>5

\* The chain only grows, and every round in memory or in a file stays fine.
LEMMA RoundsStep ==
  ASSUME BmmInv, [BmmNext]_bmmVars
  PROVE  chainTypes' /\ RoundsFine'
  <1> USE DEF BmmInv
  <1> DEFINE Goal == chainTypes' /\ RoundsFine'
  <1>1. ASSUME blocks' = blocks, store' \in Seq(Fine(blocks)), disk' \in Seq(Fine(blocks)),
               saves' \in Seq(Fine(blocks)), unconnected' \subseteq Waiting(blocks),
               todo' \subseteq Waiting(blocks), current' \in Playing(blocks) \cup {NoRound},
               work' \in Playing(blocks) \cup {NoRound},
               copied' \in Playing(blocks) \cup {NoRound}
        PROVE  Goal
    BY <1>1 DEF chainTypes, RoundsFine, height
  <1>2. ASSUME blocks' = blocks, UNCHANGED <<store, disk, saves, unconnected, todo, current,
                                             work, copied>>
        PROVE  Goal
    BY <1>1, <1>2 DEF RoundsFine
  <1>3. CASE Mine
    <2>1. \E b \in [tx : Txs \cup {NoTx}, crit : Txs \cup {NoCrit}] :
             blocks' = Append(blocks, b)
      BY <1>3 DEF Mine, BidsNumbered
    <2>2. Fine(blocks) \subseteq Fine(blocks')
      BY <2>1, ChainGrows
    <2>3. Waiting(blocks) \subseteq Waiting(blocks')
      BY <2>2 DEF Waiting
    <2>4. Playing(blocks) \subseteq Playing(blocks')
      BY <2>3 DEF Playing
    <2>5. Seq(Fine(blocks)) \subseteq Seq(Fine(blocks'))
      BY <2>2
    <2>6. chainTypes'
      <3>1. blocks' \in Seq([tx : Txs \cup {NoTx}, crit : Txs \cup {NoCrit}])
            /\ Len(blocks') = Len(blocks) + 1 /\ Len(blocks) \in Nat
        BY <2>1 DEF chainTypes
      <3> QED
        BY <1>3, <3>1, BmmAssumption DEF Mine, chainTypes, height, Heights
    <2>7. UNCHANGED <<store, disk, saves, unconnected, todo, current, work, copied>>
      BY <1>3 DEF Mine, memoryVars, storeVars, tickVars, callVars
    <2> QED
      BY <2>3, <2>4, <2>5, <2>6, <2>7 DEF RoundsFine
  <1>4. CASE Restart
    <2>1. \/ resumedCurrent(disk) = NoRound
          \/ resumedCurrent(disk) \in Fine(blocks) /\ InPlay(resumedCurrent(disk))
      BY Resumed DEF RoundsFine
    <2>2. resumedCurrent(disk) \in Playing(blocks) \cup {NoRound}
      BY <2>1 DEF InPlay, Playing, Waiting, Fine, MayWait
    <2>3. resumedWaiting(disk) \subseteq Waiting(blocks)
      <3>1. \A r \in ToSet(disk) : r \in Fine(blocks)
        BY ShortSeqs DEF RoundsFine
      <3> QED
        BY <3>1 DEF resumedWaiting, Resumable, Waiting, Fine, MayWait
    <2>4. <<>> \in Seq(Fine(blocks)) /\ {} \subseteq Waiting(blocks)
      OBVIOUS
    <2> QED
      BY <1>1, <1>4, <2>2, <2>3, <2>4 DEF Restart, RoundsFine, chainVars
  <1>5. CASE SaveRound
    <2>1. Head(saves) \in Fine(blocks) /\ Tail(saves) \in Seq(Fine(blocks))
      BY <1>5, ShortSeqs DEF SaveRound, RoundsFine
    <2>2. saved(store, Head(saves)) \in Seq(Fine(blocks))
      BY <2>1, SavedFact, Kinds DEF RoundsFine
    <2> QED
      BY <1>1, <1>5, <2>1, <2>2
      DEF SaveRound, Flush, RoundsFine, memoryVars, chainVars, callVars
  <1>6. CASE StartSets \/ StartSaves \/ StopSets \/ StopSaves
    BY <1>2, <1>6 DEF StartSets, StartSaves, StopSets, StopSaves, chainVars, storeVars,
       tickVars
  <1>7. CASE ClearDrops
    <2>1. <<>> \in Seq(Fine(blocks))
      OBVIOUS
    <2> QED
      BY <1>1, <1>7, <2>1 DEF ClearDrops, RoundsFine, chainVars, memoryVars, tickVars
  <1>8. CASE ClearCopies
    BY <1>1, <1>8 DEF ClearCopies, RoundsFine, chainVars, memoryVars, storeVars, tickVars
  <1>9. CASE ClearKeeps
    <2>1. copied \in Fine(blocks)
      BY <1>9, Kinds DEF ClearKeeps, RoundsFine, RoundsHeld
    <2>2. saved(store, copied) \in Seq(Fine(blocks))
      BY <2>1, SavedFact, Kinds DEF RoundsFine
    <2> QED
      BY <1>1, <1>9, <2>2
      DEF ClearKeeps, Flush, RoundsFine, chainVars, memoryVars, tickVars
  <1>10. CASE TickBegins
    BY <1>1, <1>10 DEF TickBegins, RoundsFine, tickOnly, chainVars, callVars, storeVars
  <1>11. CASE Retries
    BY <1>1, <1>11, RetryFine DEF Retries, RoundsFine, chainVars, callVars
  <1>12. CASE SettleParks \/ SettleWon \/ SettleLost
    BY <1>1, <1>12, SettleFine DEF RoundsFine, chainVars, callVars
  <1>13. CASE RetryEnds \/ MarkTip \/ AnswerLost
    BY <1>2, <1>13 DEF RetryEnds, MarkTip, AnswerLost, tickOnly, chainVars, callVars,
       storeVars, memoryVars
  <1>14. CASE SettleTakes
    BY <1>1, <1>14 DEF SettleTakes, RoundsFine, tickOnly, chainVars, callVars, storeVars
  <1>15. CASE OpenBegins
    <2>1. current' \in Playing(blocks)
      BY <1>15, Opened DEF OpenBegins, tickAt, tickTypes, TickFits
    <2> QED
      BY <1>1, <1>15, <2>1 DEF OpenBegins, RoundsFine, tickOnly, chainVars, callVars, storeVars
  <1>16. CASE PlaceBid \/ Raise
    BY <1>1, <1>16 DEF PlaceBid, Raise, Broadcasts, RetryTip, RoundsFine, chainVars, memoryVars,
       callVars, storeVars
  <1>17. CASE BidRecorded
    <2>1. current' \in Playing(blocks) /\ saves' = <<current'>>
      BY <1>17, Recorded DEF BidRecorded
    <2>2. saves' \in Seq(Fine(blocks))
      BY <2>1, Kinds
    <2> QED
      BY <1>1, <1>17, <2>1, <2>2
      DEF BidRecorded, RoundsFine, tickOnly, chainVars, callVars, storeVars
  <1>18. CASE MarkStranded
    BY <1>1, <1>18, StrandedMarked
    DEF MarkStranded, RoundsFine, tickOnly, chainVars, callVars, storeVars, memoryVars
  <1>19. CASE UNCHANGED bmmVars
    BY <1>2, <1>19 DEF bmmVars, chainVars, memoryVars, storeVars, tickVars, callVars
  <1> QED
    BY <1>3, <1>4, <1>5, <1>6, <1>7, <1>8, <1>9, <1>10, <1>11, <1>12, <1>13, <1>14, <1>15,
       <1>16, <1>17, <1>18, <1>19 DEF BmmNext, TickSteps, Calls


\* At the start nothing is in play, nothing is saved and no bid is out.
LEMMA InitInv == BmmInit => BmmInv
  <1> SUFFICES ASSUME BmmInit PROVE BmmInv
    OBVIOUS
  <1>0. 0 \in Heights /\ 0 \in 0 .. MaxFaults /\ 0 \in 0 .. MaxCrashes /\ height = 0
    BY BmmAssumption DEF Heights, BmmInit, height
  <1>1. chainTypes
    BY <1>0 DEF BmmInit, chainTypes
  <1>2. RoundsFine
    <2>1. <<>> \in Seq(Fine(blocks)) /\ {} \subseteq Waiting(blocks)
      OBVIOUS
    <2> QED
      BY <2>1 DEF BmmInit, RoundsFine
  <1>3. tickTypes
    BY <1>0 DEF BmmInit, tickTypes, Targets
  <1>4. RoundsHeld
    BY DEF BmmInit, RoundsHeld
  <1>5. TargetFits /\ TickFits
    BY DEF BmmInit, TargetFits, TickFits, between, fitsRound, atTip
  <1>6. BidsNumbered
    BY FS_EmptySet DEF BmmInit, BidsNumbered
  <1>7. AnswerAwaited
    BY DEF BmmInit, AnswerAwaited
  <1>8. historyTypes
    BY <1>0 DEF BmmInit, historyTypes
  <1> QED
    BY <1>1, <1>2, <1>3, <1>4, <1>5, <1>6, <1>7, <1>8 DEF BmmInv

-----------------------------------------------------------------------------
(* Where the tick is.                                                      *)

\* The rounds the tick holds are those its place tells.
LEMMA HeldStep ==
  ASSUME BmmInv, [BmmNext]_bmmVars
  PROVE  RoundsHeld'
  <1> USE DEF BmmInv
  <1>1. ASSUME UNCHANGED <<at, work, current, clearAt, copied>>
        PROVE  RoundsHeld'
    BY <1>1 DEF RoundsHeld
  <1>2. CASE Mine
    BY <1>1, <1>2 DEF Mine, tickVars, memoryVars, callVars
  <1>3. CASE Restart
    BY <1>3 DEF Restart, RoundsHeld
  <1>4. CASE SaveRound
    BY <1>1, <1>4 DEF SaveRound, memoryVars, callVars
  <1>5. CASE StartSets \/ StartSaves \/ StopSets \/ StopSaves
    BY <1>1, <1>5 DEF StartSets, StartSaves, StopSets, StopSaves, tickVars
  <1>6. CASE ClearDrops \/ ClearCopies \/ ClearKeeps
    BY <1>6 DEF ClearDrops, ClearCopies, ClearKeeps, RoundsHeld, tickVars, memoryVars
  <1>7. CASE TickBegins
    BY <1>7 DEF TickBegins, RoundsHeld, tickAt, tickOnly, callVars
  <1>8. CASE Retries
    <2>1. UNCHANGED <<at, work, current, callVars>>
      BY <1>8, RetryFine DEF Retries
    <2> QED
      BY <1>1, <2>1 DEF callVars
  <1>9. CASE RetryEnds
    BY <1>9 DEF RetryEnds, RoundsHeld, tickAt, goesTo, tickOnly, callVars, memoryVars
  <1>10. CASE MarkTip
    BY <1>10 DEF MarkTip, RoundsHeld, tickAt, goesTo, tickOnly, callVars
  <1>11. CASE SettleTakes
    BY <1>11 DEF SettleTakes, RoundsHeld, tickAt, goesTo, afterSettle, tickOnly, callVars
  <1>12. CASE SettleParks \/ SettleWon \/ SettleLost
    <2>1. at = "settle" /\ at' \in {"idle", "open"}
      BY <1>12 DEF SettleParks, SettleWon, SettleLost, settles, tickAt, goesTo, afterSettle
    <2>2. work' = NoRound /\ UNCHANGED <<current, callVars>>
      BY <1>12, SettleFine
    <2> QED
      BY <2>1, <2>2 DEF RoundsHeld, callVars
  <1>13. CASE OpenBegins
    <2>1. current'.bids = <<>> /\ current' # NoRound /\ at = "open" /\ at' = "place"
          /\ UNCHANGED <<work, callVars>>
      BY <1>13, Opened, Kinds
      DEF OpenBegins, tickAt, goesTo, tickOnly, TickFits, tickTypes, Playing, Waiting, Fine
    <2> QED
      BY <2>1 DEF RoundsHeld, callVars
  <1>14. CASE PlaceBid
    BY <1>14 DEF PlaceBid, Broadcasts, RetryTip, RoundsHeld, tickAt, goesTo, callVars, memoryVars
  <1>15. CASE Raise
    <2>1. hasLive(current) => current # NoRound
      BY DEF hasLive, liveIndex, SelectLastInSeq, NoRound
    <2> QED
      BY <1>15, <2>1 DEF Raise, Broadcasts, RoundsHeld, tickAt, goesTo, callVars, memoryVars
  <1>16. CASE BidRecorded
    <2>1. current' # NoRound
      BY <1>16, Recorded, Kinds
    <2>2. at = "record" /\ at' \in {"idle", "stranded"} /\ UNCHANGED <<work, callVars>>
      BY <1>16 DEF BidRecorded, tickAt, goesTo, tickOnly
    <2> QED
      BY <2>1, <2>2 DEF RoundsHeld, callVars
  <1>17. CASE AnswerLost \/ MarkStranded
    BY <1>17 DEF AnswerLost, MarkStranded, RoundsHeld, tickAt, goesTo, tickOnly, callVars,
       memoryVars
  <1>18. CASE UNCHANGED bmmVars
    BY <1>1, <1>18 DEF bmmVars, memoryVars, tickVars, callVars
  <1> QED
    BY <1>2, <1>3, <1>4, <1>5, <1>6, <1>7, <1>8, <1>9, <1>10, <1>11, <1>12, <1>13, <1>14,
       <1>15, <1>16, <1>17, <1>18 DEF BmmNext, TickSteps, Calls

-----------------------------------------------------------------------------
(* The target and the tick.                                                *)

\* The tick and the calls keep their types.
LEMMA TickTypesStep ==
  ASSUME BmmInv, [BmmNext]_bmmVars
  PROVE  tickTypes'
  <1> USE DEF BmmInv
  <1>0. 0 \in Heights /\ height \in Heights /\ Heights \subseteq Targets
        /\ {NoTip, Stopped} \subseteq Targets
    BY BmmAssumption DEF Heights, Targets, chainTypes
  <1>1. ASSUME UNCHANGED <<target, snap, previous, seenTip, at, call, clearAt>>
        PROVE  tickTypes'
    BY <1>1 DEF tickTypes
  <1>2. CASE Mine
    BY <1>1, <1>2 DEF Mine, tickVars, memoryVars, callVars
  <1>3. CASE Restart
    <2>1. \/ resumedTip(disk) = NoTip
          \/ /\ resumedCurrent(disk) \in Fine(blocks)
             /\ resumedTip(disk) = resumedCurrent(disk).on
      <3>1. disk \in Seq(Fine(blocks))
        BY DEF RoundsFine
      <3> QED
        BY <3>1, Resumed
    <2>2. \A r \in Fine(blocks) : r.on \in Heights
      BY DEF Fine, Rounds
    <2>3. resumedTip(disk) \in Targets
      BY <1>0, <2>1, <2>2
    <2> QED
      BY <1>0, <1>3, <2>3 DEF Restart, tickTypes
  <1>4. CASE SaveRound
    BY <1>1, <1>4 DEF SaveRound, memoryVars, callVars
  <1>5. CASE StartSets
    <2>1. current # NoRound => current.on \in Targets
      BY <1>0, Kinds DEF RoundsFine, Rounds
    <2> QED
      BY <1>0, <1>5, <2>1 DEF StartSets, tickVars, tickTypes
  <1>6. CASE StartSaves \/ StopSets \/ StopSaves
    BY <1>0, <1>6 DEF StartSaves, StopSets, StopSaves, tickVars, tickTypes
  <1>7. CASE ClearDrops \/ ClearCopies \/ ClearKeeps
    BY <1>7 DEF ClearDrops, ClearCopies, ClearKeeps, tickTypes, tickVars, memoryVars
  <1>8. CASE TickBegins
    BY <1>0, <1>8 DEF TickBegins, tickTypes, tickOnly, callVars
  <1>9. CASE Retries
    <2>1. UNCHANGED <<target, at, snap, seenTip, callVars>>
      BY <1>9, RetryFine DEF Retries
    <2> QED
      BY <1>1, <2>1 DEF callVars
  <1>10. CASE RetryEnds
    <2>1. at' \in {"take", "idle", "raise", "mark"}
      BY <1>10 DEF RetryEnds, goesTo
    <2> QED
      BY <1>0, <1>10, <2>1 DEF RetryEnds, goesTo, tickOnly, callVars, memoryVars, tickTypes
  <1>11. CASE MarkTip
    BY <1>0, <1>11 DEF MarkTip, goesTo, tickOnly, callVars, tickTypes
  <1>12. CASE SettleTakes
    BY <1>0, <1>12 DEF SettleTakes, goesTo, afterSettle, tickOnly, callVars, tickTypes
  <1>13. CASE SettleParks \/ SettleWon \/ SettleLost
    <2>1. goesTo(afterSettle)
      BY <1>13 DEF SettleParks, SettleWon, SettleLost, settles
    <2>2. UNCHANGED <<target, callVars>>
      BY <1>13, SettleFine
    <2> QED
      BY <1>0, <2>1, <2>2 DEF goesTo, afterSettle, callVars, tickTypes
  <1>14. CASE OpenBegins
    BY <1>0, <1>14 DEF OpenBegins, goesTo, tickOnly, callVars, tickTypes
  <1>15. CASE PlaceBid \/ Raise
    BY <1>0, <1>15 DEF PlaceBid, Raise, Broadcasts, RetryTip, goesTo, callVars, memoryVars,
       tickTypes
  <1>16. CASE BidRecorded \/ AnswerLost \/ MarkStranded
    BY <1>0, <1>16 DEF BidRecorded, AnswerLost, MarkStranded, goesTo, tickOnly, callVars,
       memoryVars, tickTypes
  <1>17. CASE UNCHANGED bmmVars
    BY <1>1, <1>17 DEF bmmVars, memoryVars, tickVars, callVars
  <1> QED
    BY <1>2, <1>3, <1>4, <1>5, <1>6, <1>7, <1>8, <1>9, <1>10, <1>11, <1>12, <1>13, <1>14,
       <1>15, <1>16, <1>17 DEF BmmNext, TickSteps, Calls

\* The target fits the round in play, and the tick judges past tips only.
LEMMA FitsStep ==
  ASSUME ~MayOverlap, BmmInv, [BmmNext]_bmmVars
  PROVE  TargetFits' /\ TickFits'
  <1> USE DEF BmmInv
  <1> DEFINE Goal == TargetFits' /\ TickFits'
  <1>0. /\ height \in Nat /\ height = Len(blocks) /\ seenTip \in Nat
        /\ seenTip # NoTip /\ seenTip # Stopped /\ NoTip # Stopped
        /\ NoRound.on = NoTip
        /\ current # NoRound => current.on \in Nat /\ current.on <= height
    <2>1. height \in Nat /\ seenTip \in Nat /\ Heights \subseteq Nat
      BY BmmAssumption DEF chainTypes, tickTypes, Heights
    <2>2. current # NoRound => current \in Fine(blocks)
      BY Kinds DEF RoundsFine
    <2>3. current # NoRound => current.on \in Nat /\ current.on <= height
      BY <2>1, <2>2 DEF Fine, Rounds, height
    <2> QED
      BY <2>1, <2>3 DEF NoTip, Stopped, NoRound, height
  <1>1. ASSUME UNCHANGED <<target, snap, previous, seenTip, at, call, current, work, blocks>>
        PROVE  Goal
    BY <1>1 DEF TargetFits, TickFits, between, atTip, fitsRound, height
  <1>2. CASE Mine
    <2>1. height <= height'
      <3>1. PICK b : blocks' = Append(blocks, b)
        BY <1>2 DEF Mine
      <3>2. blocks \in Seq([tx : Txs \cup {NoTx}, crit : Txs \cup {NoCrit}])
        BY DEF chainTypes
      <3>3. Len(blocks') = Len(blocks) + 1
        BY <3>1, <3>2
      <3> QED
        BY <1>0, <3>3 DEF height
    <2>2. height' \in Nat
      BY RoundsStep, BmmAssumption DEF chainTypes, Heights
    <2>3. UNCHANGED <<target, snap, previous, seenTip, at, call, current, work>>
      BY <1>2 DEF Mine, tickVars, memoryVars, callVars
    <2> QED
      BY <1>0, <2>1, <2>2, <2>3 DEF TargetFits, TickFits, between, atTip, fitsRound
  <1>3. CASE Restart
    <2>1. /\ at' = "idle" /\ call' = "none" /\ snap' = Stopped
          /\ target' = Stopped \/ (target' = resumedTip(disk))
          /\ current' = resumedCurrent(disk)
      BY <1>3 DEF Restart
    <2>2. fitsRound(target)'
      BY <2>1, Resumed DEF RoundsFine, fitsRound
    <2> QED
      BY <2>1, <2>2 DEF TargetFits, TickFits, between
  <1>4. CASE SaveRound
    BY <1>1, <1>4 DEF SaveRound, memoryVars, callVars, chainVars
  <1>5. CASE StartSets
    <2>1. at = "idle" /\ ~between /\ ~between' /\ fitsRound(target) /\ fitsRound(previous)'
          /\ fitsRound(target)' /\ call' = "start" /\ at' = "idle"
      BY <1>5 DEF StartSets, TargetFits, between, fitsRound, tickVars
    <2> QED
      BY <2>1 DEF TargetFits, TickFits
  <1>6. CASE StartSaves
    <2>1. at = "idle" /\ ~between /\ ~between' /\ fitsRound(target)' /\ call' = "none"
          /\ at' = "idle"
      BY <1>6 DEF StartSaves, TargetFits, between, fitsRound, tickVars
    <2> QED
      BY <2>1 DEF TargetFits, TickFits
  <1>7. CASE StopSets
    <2>1. /\ call' = "stop" /\ target' = Stopped /\ previous' = target
          /\ UNCHANGED <<snap, seenTip, at, current, work, blocks>>
      BY <1>7 DEF StopSets, tickVars, chainVars
    <2>2. TargetFits'
      BY <2>1 DEF TargetFits, between, atTip, fitsRound
    <2> QED
      BY <2>1, <2>2 DEF TickFits, height
  <1>8. CASE StopSaves
    <2>1. /\ call = "stop" /\ call' = "none" /\ target' \in {target, previous}
          /\ UNCHANGED <<snap, seenTip, at, current, work, blocks>>
      BY <1>8 DEF StopSaves, tickVars, chainVars
    <2>2. TargetFits'
      BY <2>1 DEF TargetFits, between, atTip, fitsRound
    <2> QED
      BY <2>1, <2>2 DEF TickFits, height
  <1>9. CASE ClearDrops \/ ClearCopies \/ ClearKeeps
    BY <1>1, <1>9 DEF ClearDrops, ClearCopies, ClearKeeps, tickVars, memoryVars, chainVars
  <1>10. CASE TickBegins
    <2>1. /\ at = "idle" /\ at' = "retry" /\ snap' = target /\ seenTip' = height
          /\ call # "start"
          /\ UNCHANGED <<target, previous, call, current, work, blocks>>
      BY <1>10 DEF TickBegins, tickAt, tickOnly, callVars, chainVars
    <2>2. TargetFits'
      BY <2>1 DEF TargetFits, between, atTip, fitsRound
    <2> QED
      BY <1>0, <2>1, <2>2 DEF TargetFits, TickFits, between, fitsRound, height
  <1>11. CASE Retries
    <2>1. UNCHANGED <<chainVars, callVars, target, current, at, snap, seenTip, work>>
      BY <1>11, RetryFine DEF Retries
    <2> QED
      BY <1>1, <2>1 DEF chainVars, callVars
  <1>12. CASE RetryEnds
    <2>1. /\ at = "retry"
          /\ UNCHANGED <<target, previous, call, current, work, blocks>>
          /\ goesTo(CASE snap = Stopped /\ current # NoRound /\ current.on # seenTip -> "take"
               [] snap = Stopped /\ (current = NoRound \/ current.on = seenTip) -> "idle"
               [] snap = seenTip -> "raise"
               [] OTHER -> "mark")
      BY <1>12 DEF RetryEnds, tickAt, tickOnly, callVars, chainVars, memoryVars
    <2>2. \/ at' = "take" /\ snap' = Stopped /\ seenTip' = seenTip /\ current.on # seenTip
          \/ at' = "idle" /\ snap' = Stopped
          \/ at' = "raise" /\ UNCHANGED <<snap, seenTip>>
          \/ at' = "mark" /\ snap # Stopped /\ snap # seenTip /\ UNCHANGED <<snap, seenTip>>
      BY <2>1 DEF goesTo
    <2>3. TargetFits'
      BY <2>1, <2>2 DEF TargetFits, between, atTip, fitsRound
    <2> QED
      BY <2>1, <2>2, <2>3 DEF TickFits, height
  <1>13. CASE MarkTip
    <2>1. /\ at = "mark" /\ snap # Stopped /\ snap # seenTip /\ ~between
          /\ UNCHANGED <<previous, call, current, work, blocks>>
      BY <1>13 DEF MarkTip, tickAt, tickOnly, callVars, chainVars, TickFits, between
    <2>2. \/ target = Stopped /\ target' = target /\ at' = "idle" /\ snap' = Stopped
          \/ /\ target # Stopped /\ at' = "take" /\ target' = seenTip
             /\ UNCHANGED <<snap, seenTip>>
      BY <1>13 DEF MarkTip, goesTo
    <2>3. TargetFits'
      BY <1>0, <2>1, <2>2 DEF TargetFits, between, atTip, fitsRound
    <2> QED
      BY <1>0, <2>1, <2>2, <2>3 DEF TickFits, height
  <1>14. CASE SettleTakes
    <2>1. /\ at = "take" /\ current' = NoRound /\ work' = current
          /\ UNCHANGED <<target, previous, call, blocks>>
          /\ current.on # seenTip
      BY <1>14 DEF SettleTakes, tickAt, tickOnly, callVars, chainVars, TickFits
    <2>2. \/ at' = "settle" /\ current # NoRound /\ UNCHANGED <<snap, seenTip>>
          \/ at' = "open" /\ snap # Stopped /\ UNCHANGED <<snap, seenTip>>
          \/ at' = "idle" /\ snap = Stopped /\ snap' = Stopped
      BY <1>14 DEF SettleTakes, goesTo, afterSettle
    <2>3. TargetFits'
      BY <2>1, <2>2 DEF TargetFits, between, atTip, fitsRound
    <2> QED
      BY <1>0, <2>1, <2>2, <2>3 DEF TickFits, height
  <1>15. CASE SettleParks \/ SettleWon \/ SettleLost
    <2>1. at = "settle" /\ goesTo(afterSettle)
      BY <1>15 DEF SettleParks, SettleWon, SettleLost, settles, tickAt
    <2>2. UNCHANGED <<target, call, previous, current, blocks>>
      BY <1>15, SettleFine DEF callVars, chainVars
    <2>3. current = NoRound
      BY <2>1 DEF RoundsHeld
    <2>4. \/ at' = "open" /\ snap # Stopped /\ UNCHANGED <<snap, seenTip>>
          \/ at' = "idle" /\ snap = Stopped /\ snap' = Stopped
      BY <2>1 DEF goesTo, afterSettle
    <2>5. TargetFits'
      BY <2>1, <2>2, <2>3, <2>4 DEF TargetFits, between, atTip, fitsRound
    <2> QED
      BY <1>0, <2>1, <2>2, <2>3, <2>4, <2>5 DEF TickFits, height
  <1>16. CASE OpenBegins
    <2>1. /\ at = "open" /\ at' = "place" /\ snap # Stopped
          /\ UNCHANGED <<target, previous, call, work, blocks, snap, seenTip>>
          /\ current'.on = seenTip
      BY <1>16 DEF OpenBegins, tickAt, goesTo, tickOnly, callVars, chainVars, TickFits
    <2>2. call \in {"none", "stop"}
      BY <2>1 DEF TargetFits, tickTypes
    <2>3. TargetFits'
      BY <2>1, <2>2 DEF TargetFits, between, atTip, fitsRound
    <2> QED
      BY <1>0, <2>1, <2>3 DEF TickFits, height
  <1>17. CASE PlaceBid \/ Raise
    <2>1. /\ at \in {"place", "raise"}
          /\ \/ at' = "record" /\ UNCHANGED <<snap, seenTip>>
             \/ at' = "idle" /\ snap' = Stopped
          /\ UNCHANGED <<previous, call, work, blocks>>
          /\ \/ UNCHANGED <<target, current>>
             \/ current' = NoRound /\ target' = IF target = seenTip THEN NoTip ELSE target
      BY <1>17 DEF PlaceBid, Raise, Broadcasts, RetryTip, tickAt, goesTo, callVars, chainVars,
         memoryVars
    <2>2. TargetFits'
      BY <1>0, <2>1 DEF TargetFits, between, atTip, fitsRound
    <2> QED
      BY <1>0, <2>1, <2>2 DEF TickFits, height
  <1>18. CASE BidRecorded
    <2>1. /\ at = "record" /\ UNCHANGED <<target, previous, call, work, blocks>>
          /\ \/ at' = "stranded" /\ UNCHANGED <<snap, seenTip>>
             \/ at' = "idle" /\ snap' = Stopped
      BY <1>18 DEF BidRecorded, tickAt, goesTo, tickOnly, callVars, chainVars
    <2>2. current'.on = current.on /\ current # NoRound
      BY <1>18, <2>1, Recorded DEF RoundsHeld
    <2>3. TargetFits'
      BY <2>1, <2>2 DEF TargetFits, between, atTip, fitsRound
    <2> QED
      BY <1>0, <2>1, <2>2, <2>3 DEF TickFits, height
  <1>19. CASE AnswerLost \/ MarkStranded
    <2>1. /\ at \in {"record", "stranded"} /\ at' = "idle" /\ snap' = Stopped
          /\ UNCHANGED <<target, previous, call, work, blocks, current>>
      BY <1>19 DEF AnswerLost, MarkStranded, tickAt, goesTo, tickOnly, callVars, chainVars,
         memoryVars
    <2> QED
      BY <2>1 DEF TargetFits, TickFits, between, atTip, fitsRound
  <1>20. CASE UNCHANGED bmmVars
    BY <1>1, <1>20 DEF bmmVars, memoryVars, tickVars, callVars, chainVars
  <1> QED
    BY <1>2, <1>3, <1>4, <1>5, <1>6, <1>7, <1>8, <1>9, <1>10, <1>11, <1>12, <1>13, <1>14,
       <1>15, <1>16, <1>17, <1>18, <1>19, <1>20 DEF BmmNext, TickSteps, Calls

-----------------------------------------------------------------------------
(* Bids and what is kept of the past.                                      *)

\* A new bid takes the next number.
LEMMA BroadcastFact ==
  ASSUME BidsNumbered, NEW on \in Heights, NEW hashes, hashes \subseteq Txs,
         NEW old, Broadcasts(on, hashes, old)
  PROVE  /\ broadcast' # {}
         /\ broadcast' \subseteq [tx : Txs, on : Heights, crit : Txs, coin : Txs]
         /\ IsFiniteSet(broadcast')
         /\ \A n \in 1 .. Cardinality(broadcast') : \E b \in broadcast' : b.tx = n
         /\ mempool' \subseteq {b.tx : b \in broadcast'}
         /\ UNCHANGED <<current, blocks>> /\ at' \in {"record"}
  <1> DEFINE coin == IF old = NoTx THEN newTx
                       ELSE (CHOOSE b \in broadcast : b.tx = old).coin
  <1>1. PICK crit \in hashes :
           broadcast' = broadcast \cup {[tx |-> newTx, on |-> on, crit |-> crit, coin |-> coin]}
    BY DEF Broadcasts
  <1>2. newTx \in Txs /\ (old # NoTx => old \in mempool)
        /\ mempool' = (mempool \ {old}) \cup {newTx}
        /\ UNCHANGED <<current, blocks>> /\ at' = "record"
    BY DEF Broadcasts, memoryVars, goesTo
  <1>3. coin \in Txs
    <2>1. CASE old = NoTx
      BY <1>2, <2>1
    <2>2. CASE old # NoTx
      <3>1. \E b \in broadcast : b.tx = old
        BY <1>2, <2>2 DEF BidsNumbered
      <3>2. (CHOOSE b \in broadcast : b.tx = old) \in broadcast
        BY <3>1
      <3> QED
        BY <2>2, <3>2 DEF BidsNumbered
    <2> QED
      BY <2>1, <2>2
  <1> HIDE DEF coin
  <1> DEFINE b == [tx |-> newTx, on |-> on, crit |-> crit, coin |-> coin]
  <1>4. b \in [tx : Txs, on : Heights, crit : Txs, coin : Txs] /\ b.tx = newTx
    BY <1>2, <1>3
  <1>5. broadcast' = broadcast \cup {b}
    BY <1>1
  <1> HIDE DEF b
  <1>6. IsFiniteSet(broadcast') /\ Cardinality(broadcast) \in Nat
        /\ Cardinality(broadcast') \in {Cardinality(broadcast), Cardinality(broadcast) + 1}
    BY <1>5, FS_AddElement, FS_CardinalityType DEF BidsNumbered
  <1>7. \A n \in 1 .. Cardinality(broadcast') : \E c \in broadcast' : c.tx = n
    <2> TAKE n \in 1 .. Cardinality(broadcast')
    <2>1. n \in 1 .. Cardinality(broadcast) \/ n = newTx
      BY <1>6 DEF newTx
    <2>2. CASE n \in 1 .. Cardinality(broadcast)
      BY <1>5, <2>2 DEF BidsNumbered
    <2>3. CASE n = newTx
      BY <1>4, <1>5, <2>3
    <2> QED
      BY <2>1, <2>2, <2>3
  <1>8. mempool' \subseteq {c.tx : c \in broadcast'}
    BY <1>2, <1>4, <1>5 DEF BidsNumbered
  <1> QED
    BY <1>2, <1>4, <1>5, <1>6, <1>7, <1>8 DEF BidsNumbered

\* Bids stay numbered, and the one that awaits its answer replaces the live one.
LEMMA BidsStep ==
  ASSUME BmmInv, [BmmNext]_bmmVars
  PROVE  BidsNumbered' /\ AnswerAwaited'
  <1> USE DEF BmmInv
  <1> DEFINE Goal == BidsNumbered' /\ AnswerAwaited'
  <1>0. NoTx \in Txs \cup {NoTx}
    OBVIOUS
  <1>1. ASSUME UNCHANGED <<broadcast, mempool>>, replaced' \in Txs \cup {NoTx},
               at' # "record" \/ UNCHANGED <<at, current, replaced>>
        PROVE  Goal
    BY <1>1 DEF BidsNumbered, AnswerAwaited
  <1>2. CASE Mine
    <2>1. UNCHANGED <<broadcast, at, current, replaced>> /\ mempool' \subseteq mempool
      BY <1>2 DEF Mine, tickVars, memoryVars
    <2> QED
      BY <2>1 DEF BidsNumbered, AnswerAwaited
  <1>3. CASE Restart
    BY <1>1, <1>3 DEF Restart, chainVars
  <1>4. CASE SaveRound
    BY <1>1, <1>4 DEF SaveRound, memoryVars, chainVars, BidsNumbered
  <1>5. CASE StartSets \/ StartSaves \/ StopSets \/ StopSaves
    BY <1>1, <1>5 DEF StartSets, StartSaves, StopSets, StopSaves, tickVars, chainVars,
       BidsNumbered
  <1>6. CASE ClearDrops \/ ClearCopies \/ ClearKeeps
    BY <1>1, <1>6 DEF ClearDrops, ClearCopies, ClearKeeps, tickVars, memoryVars, chainVars,
       BidsNumbered
  <1>7. CASE TickBegins
    BY <1>1, <1>7 DEF TickBegins, tickOnly, chainVars, BidsNumbered
  <1>8. CASE Retries
    <2>1. UNCHANGED <<at, current, chainVars, replaced>>
      BY <1>8, RetryFine DEF Retries
    <2> QED
      BY <1>1, <2>1 DEF chainVars, BidsNumbered
  <1>9. CASE RetryEnds
    BY <1>1, <1>9 DEF RetryEnds, goesTo, tickOnly, chainVars, BidsNumbered
  <1>10. CASE MarkTip
    BY <1>1, <1>10 DEF MarkTip, goesTo, tickOnly, chainVars, BidsNumbered
  <1>11. CASE SettleTakes
    BY <1>1, <1>11 DEF SettleTakes, goesTo, afterSettle, tickOnly, chainVars, BidsNumbered
  <1>12. CASE SettleParks \/ SettleWon \/ SettleLost
    <2>1. at' \in {"idle", "open"}
      BY <1>12 DEF SettleParks, SettleWon, SettleLost, settles, goesTo, afterSettle
    <2>2. UNCHANGED <<chainVars, replaced>>
      BY <1>12, SettleFine
    <2> QED
      BY <1>1, <2>1, <2>2 DEF chainVars, BidsNumbered
  <1>13. CASE OpenBegins
    <2>1. at' = "place" /\ UNCHANGED chainVars
      BY <1>13 DEF OpenBegins, goesTo, tickOnly
    <2>2. replaced' = NoTx \/ \E b \in stranded : replaced' = b.tx
      BY <1>13 DEF OpenBegins
    <2>3. \A b \in stranded : b.tx \in Txs
      BY DEF stranded, BidsNumbered
    <2> QED
      BY <1>1, <2>1, <2>2, <2>3 DEF chainVars
  <1>14. CASE PlaceBid
    <2>1. CASE Broadcasts(seenTip, {newTx}, replaced) /\ UNCHANGED replaced
      <3>1. newTx \in Txs /\ at = "place" /\ seenTip \in Heights
        BY <1>14, <2>1 DEF Broadcasts, PlaceBid, tickAt, tickTypes
      <3>2. {newTx} \subseteq Txs
        BY <3>1
      <3>3. current.bids = <<>>
        BY <3>1 DEF RoundsHeld
      <3> QED
        BY <2>1, <3>1, <3>2, <3>3, BroadcastFact DEF BidsNumbered, AnswerAwaited
    <2>2. CASE at' = "idle" /\ replaced' = NoTx /\ UNCHANGED chainVars
      BY <1>1, <2>2 DEF chainVars
    <2> QED
      BY <1>14, <2>1, <2>2 DEF PlaceBid, goesTo
  <1>15. CASE Raise
    <2>1. CASE /\ hasLive(current)
               /\ Broadcasts(current.on, {newTx, liveBid(current).crit}, liveBid(current).tx)
               /\ replaced' = liveBid(current).tx
      <3>1. current # NoRound
        BY <2>1 DEF hasLive, liveIndex, SelectLastInSeq, NoRound
      <3>2. current \in Rounds /\ OneLive(current)
        BY <3>1, Kinds DEF RoundsFine, Fine
      <3> DEFINE k == liveIndex(current)
      <3>3. /\ k \in DOMAIN current.bids /\ current.bids[k].st = "live"
            /\ current.bids \in Seq(Bids) /\ liveBid(current) = current.bids[k]
        BY <2>1, <3>2, LiveIndex DEF liveBid
      <3> HIDE DEF k
      <3>4. current.on \in Heights /\ liveBid(current) \in Bids
        BY <3>2, <3>3 DEF Rounds
      <3>5. newTx \in Txs
        BY <2>1 DEF Broadcasts
      <3>6. {newTx, liveBid(current).crit} \subseteq Txs /\ liveBid(current).tx \in Txs
        BY <3>4, <3>5 DEF Bids
      <3>7. \A i \in DOMAIN current.bids : current.bids[i].st = "live" =>
                                             current.bids[i].tx = liveBid(current).tx
        BY <3>2, <3>3 DEF OneLive
      <3> QED
        BY <2>1, <3>4, <3>6, <3>7, BroadcastFact DEF BidsNumbered, AnswerAwaited
    <2>2. CASE at' = "idle" /\ UNCHANGED replaced /\ UNCHANGED chainVars
      BY <1>1, <2>2 DEF chainVars, BidsNumbered
    <2> QED
      BY <1>15, <2>1, <2>2 DEF Raise, goesTo
  <1>16. CASE BidRecorded
    <2>1. at' # "record" /\ UNCHANGED chainVars /\ replaced' \in {NoTx, replaced}
      BY <1>16 DEF BidRecorded, goesTo, tickOnly
    <2> QED
      BY <1>1, <2>1 DEF chainVars, BidsNumbered
  <1>17. CASE AnswerLost \/ MarkStranded
    BY <1>1, <1>17 DEF AnswerLost, MarkStranded, goesTo, tickOnly, chainVars
  <1>18. CASE UNCHANGED bmmVars
    BY <1>1, <1>18 DEF bmmVars, memoryVars, tickVars, chainVars, BidsNumbered
  <1> QED
    BY <1>2, <1>3, <1>4, <1>5, <1>6, <1>7, <1>8, <1>9, <1>10, <1>11, <1>12, <1>13, <1>14,
       <1>15, <1>16, <1>17, <1>18 DEF BmmNext, TickSteps, Calls

\* What a round commits to, and what its live bid does.
LEMMA Commits ==
  ASSUME NEW r \in Rounds
  PROVE  critsOf(r) \subseteq Txs /\ liveBid(r).crit \in Txs \cup {NoCrit}
  <1>1. r.bids \in Seq(Bids)
    BY LiveIndex
  <1>2. critsOf(r) \subseteq Txs
    <2>1. \A i \in DOMAIN r.bids : r.bids[i] \in Bids
      BY <1>1
    <2>2. \A b \in Bids : b.crit \in Txs
      BY DEF Bids
    <2> QED
      BY <2>1, <2>2 DEF critsOf
  <1>3. liveBid(r).crit \in Txs \cup {NoCrit}
    <2>1. CASE hasLive(r)
      <3>1. liveIndex(r) \in DOMAIN r.bids /\ liveBid(r) = r.bids[liveIndex(r)]
        BY <2>1, LiveIndex DEF liveBid
      <3> HIDE DEF liveIndex
      <3>2. liveBid(r) \in Bids
        BY <1>1, <3>1
      <3> QED
        BY <3>2 DEF Bids
    <2>2. CASE ~hasLive(r)
      BY <2>2 DEF liveBid, NoBid, NoCrit
    <2> QED
      BY <2>1, <2>2
  <1> QED
    BY <1>2, <1>3

\* The history keeps its types.
LEMMA HistoryStep ==
  ASSUME BmmInv, [BmmNext]_bmmVars
  PROVE  historyTypes'
  <1> USE DEF BmmInv
  <1>0. /\ NoCrit \in Txs \cup {NoCrit}
        /\ MaxFaults \in Nat /\ MaxCrashes \in Nat
        /\ \A r \in todo \cup {work} : r # NoRound => r \in Waiting(blocks) /\ r \in Fine(blocks)
        /\ \A r \in Fine(blocks) \cup {NoRound} : critsOf(r) \subseteq Txs
        /\ \A r \in Fine(blocks) : liveBid(r).crit \in Txs \cup {NoCrit}
    <2>1. critsOf(NoRound) = {}
      BY DEF critsOf, NoRound
    <2> QED
      BY <2>1, BmmAssumption, Kinds, Commits DEF RoundsFine
  <1>1. ASSUME storeTarget' \in BOOLEAN, diskTarget' \in BOOLEAN,
               offer' \in Txs \cup {NoCrit}, over \subseteq over', over' \subseteq Txs,
               UNCHANGED <<filed, misled, crashes>>, putBack' \subseteq Txs,
               faults' = faults \/ Fault
        PROVE  historyTypes'
    BY <1>0, <1>1 DEF historyTypes, Fault
  <1>2. ASSUME storeTarget' \in BOOLEAN, diskTarget' \in BOOLEAN,
               offer' \in Txs \cup {NoCrit},
               UNCHANGED <<over, filed, putBack, misled, crashes>>, faults' = faults \/ Fault
        PROVE  historyTypes'
    BY <1>1, <1>2 DEF historyTypes
  <1>3. CASE Mine
    BY <1>2, <1>3 DEF Mine, targetVars, historyVars, historyTypes
  <1>4. CASE Restart
    BY <1>0, <1>4 DEF Restart, historyTypes
  <1>5. CASE SaveRound
    <2>1. /\ UNCHANGED <<storeTarget, diskTarget, over, misled, crashes>> /\ offer' = NoCrit
          /\ putBack' \subseteq putBack /\ filed' \subseteq filed \cup over
          /\ (faults' = faults \/ Fault)
      BY <1>5 DEF SaveRound, Flush, targetVars
    <2> QED
      BY <1>0, <2>1 DEF historyTypes, Fault
  <1>6. CASE StartSets \/ StopSets
    BY <1>2, <1>6 DEF StartSets, StopSets, targetVars, historyVars, historyTypes
  <1>7. CASE StartSaves \/ StopSaves
    <2>1. /\ UNCHANGED <<offer, over, filed, putBack, misled, crashes>>
          /\ (faults' = faults \/ Fault)
          /\ storeTarget' \in BOOLEAN /\ diskTarget' \in BOOLEAN
      BY <1>7 DEF StartSaves, StopSaves, historyTypes
    <2> QED
      BY <1>2, <2>1 DEF historyTypes
  <1>8. CASE ClearDrops \/ ClearCopies
    BY <1>2, <1>8 DEF ClearDrops, ClearCopies, targetVars, historyVars, historyTypes
  <1>9. CASE ClearKeeps
    <2>1. copied \in Fine(blocks) \cup {NoRound}
      BY Kinds DEF RoundsFine
    <2>2. critsOf(copied) \subseteq Txs
      BY <1>0, <2>1
    <2>3. /\ UNCHANGED <<storeTarget, diskTarget, offer, over, misled, crashes>>
          /\ (faults' = faults \/ Fault)
          /\ filed' \subseteq filed /\ putBack' = putBack \cup critsOf(copied)
      BY <1>9 DEF ClearKeeps, Flush, targetVars
    <2> QED
      BY <1>0, <2>2, <2>3 DEF historyTypes, Fault
  <1>10. CASE TickBegins \/ RetryEnds \/ MarkTip \/ SettleTakes
    BY <1>2, <1>10 DEF TickBegins, RetryEnds, MarkTip, SettleTakes, tickOnly, targetVars,
       historyTypes
  <1>11. CASE Retries
    <2>1. PICK r \in todo : AbandonBehindTip(r) \/ RetryUndecided(r) \/ RetryLost(r)
                              \/ RetryWon(r) \/ RetryConnects(r)
      BY <1>11 DEF Retries
    <2>2. UNCHANGED <<storeTarget, diskTarget, filed, misled, crashes>>
      BY <2>1 DEF AbandonBehindTip, RetryUndecided, RetryLost, RetryWon, RetryConnects,
         retryUnchanged, targetVars
    <2>3. /\ r # NoRound => r \in Waiting(blocks) /\ r \in Fine(blocks)
          /\ r # NoRound /\ critsOf(r) \subseteq Txs
      BY <1>0, Kinds DEF RoundsFine
    <2>4. faults' = faults \/ Fault
      BY <2>1 DEF AbandonBehindTip, RetryUndecided, RetryLost, RetryWon, RetryConnects,
         Fault
    <2>5. CASE AbandonBehindTip(r) \/ RetryUndecided(r) \/ RetryLost(r)
      <3>1. offer' = offer /\ over' \in {over, over \cup critsOf(r)}
            /\ putBack' \in {putBack, putBack \cup critsOf(r)}
        BY <2>5 DEF AbandonBehindTip, RetryUndecided, RetryLost
      <3> QED
        BY <1>1, <2>2, <2>3, <2>4, <3>1 DEF historyTypes
    <2>6. CASE RetryWon(r)
      <3> DEFINE w == [won(r, r.on + 1) EXCEPT !.waited = 0]
      <3>1. r.on + 1 \in Heights /\ winners(r, r.on + 1) # {}
        <4>1. seenTip > r.on /\ at = "retry"
          BY <2>6 DEF RetryWon, retries, tickAt
        <4> QED
          BY <2>3, <2>6, <4>1, BmmAssumption
          DEF RetryWon, tickTypes, Fine, Rounds, Heights
      <3>2. w \in Fine(blocks)
        BY <2>3, <3>1, Won, Kinds
      <3>3. \E step : offers(w, step) /\ putBack' = putBack
        BY <2>6 DEF RetryWon
      <3> HIDE DEF w
      <3>4. offer' = liveBid(w).crit /\ over' \in {over, over \cup critsOf(w)}
            /\ putBack' = putBack
        BY <3>3 DEF offers
      <3> QED
        BY <1>0, <1>1, <2>2, <2>4, <3>2, <3>4 DEF historyTypes
    <2>7. CASE RetryConnects(r)
      <3>1. offer' = liveBid(r).crit /\ over' \in {over, over \cup critsOf(r)}
            /\ putBack' = putBack
        BY <2>7 DEF RetryConnects, offers
      <3> QED
        BY <1>0, <1>1, <2>2, <2>3, <2>4, <3>1 DEF historyTypes
    <2> QED
      BY <2>1, <2>5, <2>6, <2>7
  <1>12. CASE SettleParks \/ SettleLost
    <2>1. UNCHANGED <<storeTarget, diskTarget, filed, putBack, misled, crashes, offer, over>>
      BY <1>12 DEF SettleParks, SettleLost, settleUnchanged, targetVars
    <2>2. faults' = faults \/ Fault
      BY <1>12 DEF SettleParks, SettleLost, Fault
    <2> QED
      BY <1>2, <2>1, <2>2 DEF historyTypes
  <1>13. CASE SettleWon
    <2> DEFINE v == won(work, decider(work))
               w == [v EXCEPT !.waited = IF outrun(work) THEN 0 ELSE @]
    <2>1. at = "settle" /\ winners(work, decider(work)) # {} /\ faults' = faults
          /\ \E step : offers(w, step)
          /\ UNCHANGED <<storeTarget, diskTarget, filed, putBack, misled, crashes>>
      BY <1>13 DEF SettleWon, settles, tickAt, settleUnchanged, targetVars
    <2>2. work \in Waiting(blocks)
      BY <1>0, <2>1 DEF RoundsHeld
    <2>3. decider(work) \in Heights
      <3>1. work.on < seenTip /\ seenTip \in Heights /\ work.on \in Heights
        BY <2>1, <2>2 DEF TickFits, tickTypes, Waiting, Fine, Rounds
      <3> QED
        BY <3>1, BmmAssumption DEF decider, Heights
    <2>4. v \in Waiting(blocks) /\ [v EXCEPT !.waited = 0] \in Waiting(blocks)
      BY <2>1, <2>2, <2>3, Won
    <2> HIDE DEF v
    <2>5. w = [v EXCEPT !.waited = 0] \/ w = v
      BY <2>4 DEF Waiting, Fine, Rounds
    <2> HIDE DEF w
    <2>6. w \in Fine(blocks)
      BY <2>4, <2>5, Kinds
    <2>7. offer' = liveBid(w).crit /\ over' \in {over, over \cup critsOf(w)}
      BY <2>1 DEF offers
    <2> QED
      BY <1>0, <1>1, <2>1, <2>6, <2>7 DEF historyTypes
  <1>14. CASE OpenBegins \/ BidRecorded \/ AnswerLost \/ MarkStranded
    BY <1>2, <1>14 DEF OpenBegins, BidRecorded, AnswerLost, MarkStranded, tickOnly, targetVars,
       historyTypes
  <1>15. CASE PlaceBid \/ Raise
    BY <1>2, <1>15 DEF PlaceBid, Raise, targetVars, historyVars, historyTypes
  <1>16. CASE UNCHANGED bmmVars
    BY <1>2, <1>16 DEF bmmVars, targetVars, historyVars, historyTypes
  <1> QED
    BY <1>3, <1>4, <1>5, <1>6, <1>7, <1>8, <1>9, <1>10, <1>11, <1>12, <1>13, <1>14, <1>15,
       <1>16 DEF BmmNext, TickSteps, Calls

-----------------------------------------------------------------------------
(* The theorems.                                                           *)

\* Every step of the engine keeps the invariant when no Start falls into a tick.
THEOREM BmmInvariant ==
  ASSUME ~MayOverlap
  PROVE  BmmSpec => []BmmInv
  <1>1. BmmInv /\ [BmmNext]_bmmVars => BmmInv'
    <2> SUFFICES ASSUME BmmInv, [BmmNext]_bmmVars PROVE BmmInv'
      OBVIOUS
    <2>1. chainTypes' /\ RoundsFine'
      BY RoundsStep
    <2>2. tickTypes' /\ RoundsHeld'
      BY TickTypesStep, HeldStep
    <2>3. TargetFits' /\ TickFits'
      BY FitsStep
    <2>4. BidsNumbered' /\ AnswerAwaited' /\ historyTypes'
      BY BidsStep, HistoryStep
    <2> QED
      BY <2>1, <2>2, <2>3, <2>4 DEF BmmInv
  <1> QED
    BY <1>1, InitInv, PTL DEF BmmSpec

\* The state of the engine, its files and its history keep their types.
THEOREM BmmTypes ==
  ASSUME ~MayOverlap
  PROVE  BmmSpec => []BmmTypeOK
  <1>1. BmmInv => BmmTypeOK
    <2> SUFFICES ASSUME BmmInv PROVE BmmTypeOK
      OBVIOUS
    <2>1. Fine(blocks) \subseteq Rounds /\ Waiting(blocks) \subseteq Rounds
          /\ Playing(blocks) \subseteq Rounds
      BY Kinds
    <2>2. store \in Seq(Rounds) /\ disk \in Seq(Rounds) /\ saves \in Seq(Rounds)
      BY <2>1 DEF BmmInv, RoundsFine
    <2>3. mempool \subseteq Txs
      BY DEF BmmInv, BidsNumbered
    <2> QED
      BY <2>1, <2>2, <2>3
      DEF BmmInv, BmmTypeOK, chainTypes, RoundsFine, tickTypes, BidsNumbered, historyTypes
  <1> QED
    BY <1>1, BmmInvariant, PTL

\* No version of a round, in memory or in a file, is written off as lost when
\* the block on its tip carries a commitment that one of its bids paid for.
THEOREM PaidBlockKept ==
  ASSUME ~MayOverlap
  PROVE  BmmSpec => []PaidBlockNotLost
  <1>1. BmmInv => PaidBlockNotLost
    <2> SUFFICES ASSUME BmmInv, NEW r \in known, r.res = "lost", r.on < height
                 PROVE  matches(r, r.on + 1) = {}
      BY DEF PaidBlockNotLost
    <2>1. r \in Fine(blocks)
      <3>1. /\ \A s \in ToSet(store) : s \in Fine(blocks)
            /\ \A s \in ToSet(disk) : s \in Fine(blocks)
            /\ \A s \in ToSet(saves) : s \in Fine(blocks)
        BY ShortSeqs DEF BmmInv, RoundsFine
      <3> QED
        BY <3>1, Kinds DEF known, BmmInv, RoundsFine
    <2>2. \A i \in DOMAIN r.bids : r.bids[i].crit # blocks[r.on + 1].crit
      BY <2>1 DEF Fine, LostFairly
    <2>3. r.on \in Nat
      BY <2>1 DEF Fine, Rounds, Heights
    <2> QED
      BY <2>2, <2>3 DEF matches, commitment
  <1> QED
    BY <1>1, BmmInvariant, PTL

-----------------------------------------------------------------------------
(* What becomes of a round.                                                *)

\* A version of a round whose verdict, if it is new, comes after its block.
Fate(r, s) == Version(r, s) /\ (s.res # "open" => r.res # "open" \/ r.on < height)

\* Versions of a round commit to the same blocks.
LEMMA SameCommits ==
  ASSUME NEW r \in Rounds, NEW s, Version(r, s)
  PROVE  critsOf(s) = critsOf(r) /\ DOMAIN s.bids = DOMAIN r.bids /\ s \in Rounds
  <1>1. DOMAIN s.bids = DOMAIN r.bids
    BY LiveIndex DEF Version
  <1> QED
    BY <1>1 DEF critsOf, Version

\* A version of a version is a version.
LEMMA Versions ==
  ASSUME NEW r \in Rounds, NEW s, NEW q, Version(r, s), Version(s, q)
  PROVE  Version(r, q)
  <1>1. DOMAIN s.bids = DOMAIN r.bids /\ s \in Rounds
    BY SameCommits
  <1>2. DOMAIN q.bids = DOMAIN s.bids
    BY <1>1, SameCommits
  <1> QED
    BY <1>1, <1>2 DEF Version

\* What ends a round leaves nothing to resume, and what keeps it is a version.
LEMMA Endings ==
  ASSUME NEW r \in Rounds, OneLive(r)
  PROVE  /\ Version(r, r)
         /\ \A h \in Heights : Version(r, includes(r, h)) /\ includes(r, h).res = r.res
         /\ Version(r, retired(r)) /\ ~Resumable(retired(r)) /\ retired(r).res = r.res
         /\ Version(r, connected(r)) /\ ~Resumable(connected(r))
         /\ \A h \in Heights : Version(r, lost(includes(r, h)))
                               /\ ~Resumable(lost(includes(r, h)))
         /\ \A n \in 0 .. Attempts : Version(r, [r EXCEPT !.waited = n])
                                     /\ [r EXCEPT !.waited = n].res = r.res
                                     /\ OneLive([r EXCEPT !.waited = n])
  <1>0. {"missed", "connected", "failed"} \subseteq BidStates \ {"live"}
    BY DEF BidStates
  <1>1. Version(r, r)
    BY DEF Version
  <1>2. Version(r, retired(r)) /\ ~Resumable(retired(r)) /\ retired(r).res = r.res
    BY <1>0, LiveBecomes DEF retired, Resumable
  <1>3. Version(r, connected(r)) /\ ~Resumable(connected(r))
    <2> DEFINE m == liveBecomes(r, "connected")
               s == connected(r)
    <2>1. Version(r, m) /\ ~hasLive(m) /\ m \in Rounds
      BY <1>0, LiveBecomes DEF Version
    <2>2. s = [m EXCEPT !.res = "won"]
      BY DEF connected
    <2> HIDE DEF m
    <2>3. s \in Rounds /\ s.on = m.on /\ s.bids = m.bids
      BY <2>1, <2>2 DEF Rounds
    <2> HIDE DEF s
    <2>4. ~hasLive(s)
      BY <2>1, <2>3, LiveIndex
    <2> QED
      BY <2>1, <2>3, <2>4 DEF Version, Resumable, s
  <1>4. ASSUME NEW h \in Heights
        PROVE  /\ Version(r, includes(r, h)) /\ includes(r, h).res = r.res
               /\ Version(r, lost(includes(r, h))) /\ ~Resumable(lost(includes(r, h)))
    <2> DEFINE q == includes(r, h)
               m == liveBecomes(q, "missed")
               s == lost(q)
    <2>1. q \in Rounds /\ q.bids = r.bids /\ q.on = r.on /\ q.res = r.res
      BY DEF includes, Rounds
    <2> HIDE DEF q
    <2>2. OneLive(q) /\ Version(r, q)
      BY <2>1 DEF OneLive, Version
    <2>3. Version(q, m) /\ ~hasLive(m) /\ m \in Rounds
      BY <1>0, <2>1, <2>2, LiveBecomes DEF Version
    <2>4. s = [m EXCEPT !.res = "lost"]
      BY DEF lost
    <2> HIDE DEF m
    <2>5. s \in Rounds /\ s.on = m.on /\ s.bids = m.bids /\ s.res = "lost"
      BY <2>3, <2>4 DEF Rounds
    <2> HIDE DEF s
    <2>6. Version(q, s) /\ ~Resumable(s)
      BY <2>3, <2>5 DEF Version, Resumable
    <2>7. Version(r, s)
      BY <2>2, <2>6, Versions
    <2> QED
      BY <2>1, <2>2, <2>6, <2>7 DEF q, s
  <1>5. ASSUME NEW n \in 0 .. Attempts
        PROVE  Version(r, [r EXCEPT !.waited = n]) /\ [r EXCEPT !.waited = n].res = r.res
               /\ OneLive([r EXCEPT !.waited = n])
    <2> DEFINE w == [r EXCEPT !.waited = n]
    <2>1. w \in Rounds /\ w.bids = r.bids /\ w.on = r.on /\ w.res = r.res
      BY DEF Rounds
    <2> HIDE DEF w
    <2>2. Version(r, w) /\ OneLive(w)
      BY <2>1 DEF Version, OneLive
    <2> QED
      BY <2>1, <2>2 DEF w
  <1> QED
    BY <1>1, <1>2, <1>3, <1>4, <1>5

\* A won round is a version of the round, with a live bid.
LEMMA WonVersion ==
  ASSUME NEW chain, NEW r \in Waiting(chain), NEW h \in Heights, winners(r, h) # {}
  PROVE  Version(r, won(r, h)) /\ Version(r, [won(r, h) EXCEPT !.waited = 0])
         /\ Resumable(won(r, h)) /\ Resumable([won(r, h) EXCEPT !.waited = 0])
  <1> DEFINE m == liveBecomes(r, "missed")
             k == winner(r, h)
             w == won(r, h)
             bs == [m.bids EXCEPT ![k] = [m.bids[k] EXCEPT !.st = "live"]]
  <1>1. r \in Rounds /\ OneLive(r) /\ "missed" \in BidStates \ {"live"}
    BY DEF Waiting, Fine, BidStates
  <1>2. Version(r, m) /\ m \in Rounds
    BY <1>1, LiveBecomes DEF Version
  <1>3. m.bids \in Seq(Bids) /\ DOMAIN m.bids = 1 .. Len(m.bids) /\ DOMAIN m.bids = DOMAIN r.bids
    BY <1>1, <1>2, LiveIndex, SameCommits
  <1>4. w = [[[m EXCEPT !.bids = bs] EXCEPT !.res = "won"] EXCEPT !.incl = h]
    BY DEF won
  <1>5. k \in DOMAIN m.bids
    BY <1>3 DEF winner, winners, matches
  <1> HIDE DEF m, k, w
  <1>6. /\ DOMAIN bs = DOMAIN m.bids /\ Len(bs) = Len(m.bids)
        /\ \A i \in DOMAIN bs : bs[i].tx = m.bids[i].tx /\ bs[i].crit = m.bids[i].crit
    <2>1. \A i \in DOMAIN m.bids : m.bids[i] \in Bids
      BY <1>3
    <2>2. m.bids[k] \in Bids
      BY <1>5, <2>1
    <2>3. [m.bids[k] EXCEPT !.st = "live"].tx = m.bids[k].tx
          /\ [m.bids[k] EXCEPT !.st = "live"].crit = m.bids[k].crit
          /\ [m.bids[k] EXCEPT !.st = "live"] \in Bids
      BY <2>2 DEF Bids, BidStates
    <2> QED
      BY <1>3, <1>5, <2>3
  <1> HIDE DEF bs
  <1>7. w.bids = bs /\ w.on = m.on
    BY <1>2, <1>4 DEF Rounds
  <1>8. w \in Waiting(chain) /\ w.res = "won" /\ hasLive(w)
        /\ [w EXCEPT !.waited = 0] \in Waiting(chain) /\ [w EXCEPT !.waited = 0].res = "won"
        /\ hasLive([w EXCEPT !.waited = 0])
    BY Won DEF w
  <1>9. w \in Rounds /\ OneLive(w) /\ 0 \in 0 .. Attempts
    BY <1>8, BmmAssumption DEF Waiting, Fine
  <1>10. Version(r, w)
    BY <1>2, <1>3, <1>6, <1>7, <1>9 DEF Version
  <1>11. Version(r, [w EXCEPT !.waited = 0])
    BY <1>1, <1>9, <1>10, Endings, Versions
  <1> QED
    BY <1>8, <1>10, <1>11 DEF w, Resumable

-----------------------------------------------------------------------------
(* What the tick does to a round that waits, or that the new tip closed.    *)

\* What becomes of a fate.
LEMMA Fates ==
  ASSUME NEW r \in Rounds, NEW s, NEW q, Fate(r, s), Version(s, q), q.res = s.res
  PROVE  Fate(r, q)
  BY Versions DEF Fate

\* The round is handed to the sidechain at most once.  It is parked and saved as
\* one that waits; or it ends, and what is saved last is nothing to resume; or
\* it is given up undecided, and the file has it as undecided.
Handled(r) ==
    /\ offer' \in {offer, NoCrit} \cup critsOf(r)
    /\ \/ /\ saves' = <<>> /\ unconnected' = unconnected
          /\ over' = over \cup critsOf(r) /\ putBack' = putBack \cup critsOf(r)
       \/ \E q : /\ Fate(r, q) /\ putBack' = putBack
                 /\ \/ saves' = <<q>>
                    \/ \E v : Fate(r, v) /\ Resumable(v) /\ saves' = <<v, q>>
                 /\ \/ unconnected' = unconnected \cup {q} /\ over' = over
                    \/ /\ unconnected' = unconnected /\ ~Resumable(q)
                       /\ over' = over \/ over' = over \cup critsOf(r)

\* The live bid of a round, or no bid, is what it offers.
LEMMA LiveBidFact ==
  ASSUME NEW r \in Rounds
  PROVE  liveBid(r).crit \in critsOf(r) \cup {NoCrit}
  <1>1. CASE hasLive(r)
    <2>1. liveIndex(r) \in DOMAIN r.bids /\ liveBid(r) = r.bids[liveIndex(r)]
      BY <1>1, LiveIndex DEF liveBid
    <2> QED
      BY <2>1 DEF critsOf
  <1>2. CASE ~hasLive(r)
    BY <1>2 DEF liveBid, NoBid
  <1> QED
    BY <1>1, <1>2

\* What follows nothing or one version.
LEMMA Follows ==
  ASSUME NEW S, NEW w \in S, NEW q \in S
  PROVE  /\ <<>> \o <<q>> = <<q>> /\ <<w>> \o <<q>> = <<w, q>>
         /\ <<>> \o <<>> = <<>> /\ <<w>> \o <<>> = <<w>>
  <1>1. <<w>> \in Seq(S) /\ <<q>> \in Seq(S) /\ <<>> \in Seq(S) /\ <<w, q>> \in Seq(S)
    OBVIOUS
  <1>2. <<>> \o <<q>> = <<q>> /\ <<>> \o <<>> = <<>> /\ <<w>> \o <<>> = <<w>>
    BY <1>1
  <1>3. <<w>> \o <<q>> = <<w, q>>
    <2> DEFINE t == <<w>> \o <<q>>
    <2>1. t \in Seq(S) /\ Len(t) = 2 /\ t[1] = w /\ t[2] = q
      BY <1>1
    <2>2. DOMAIN t = {1, 2} /\ DOMAIN <<w, q>> = {1, 2}
      BY <2>1
    <2> HIDE DEF t
    <2>3. t = [i \in {1, 2} |-> t[i]]
      BY <2>1, <2>2
    <2>4. <<w, q>> = [i \in {1, 2} |-> <<w, q>>[i]]
      BY <1>1
    <2>5. [i \in {1, 2} |-> t[i]] = [i \in {1, 2} |-> <<w, q>>[i]]
      BY <2>1
    <2> QED
      BY <2>3, <2>4, <2>5 DEF t
  <1> QED
    BY <1>2, <1>3

\* A round that waits is parked, or its last attempt is spent.
LEMMA WaitsHandled ==
  ASSUME NEW r \in Rounds, NEW w \in Waiting(blocks), Fate(r, w),
         NEW before, before = <<>> \/ before = <<w>>, waits(w, before)
  PROVE  \/ /\ ~spent(w)
            /\ \E q : Fate(r, q) /\ unconnected' = unconnected \cup {q}
                      /\ saves' = IF before = <<>> THEN <<q>> ELSE <<w, q>>
         \/ /\ spent(w) /\ unconnected' = unconnected
            /\ w.res # "won" => saves' = before
            /\ w.res = "won" =>
                 \E q : Fate(r, q) /\ ~Resumable(q)
                        /\ saves' = IF before = <<>> THEN <<q>> ELSE <<w, q>>
  <1> DEFINE s == [w EXCEPT !.waited = @ + 1]
  <1>1. w \in Rounds /\ OneLive(w) /\ w.waited \in 0 .. Attempts /\ w.waited < Attempts
        /\ Attempts \in Nat
    BY BmmAssumption DEF Waiting, Fine, Rounds
  <1>2. w.waited + 1 \in 0 .. Attempts
    BY <1>1
  <1>3. Version(w, s) /\ s.res = w.res /\ OneLive(s)
    BY <1>1, <1>2, Endings
  <1>4. Fate(r, s) /\ s \in Rounds
    BY <1>3, Fates DEF Version
  <1>5. waits(w, before) <=>
          IF ~spent(w) THEN unconnected' = unconnected \cup {s} /\ saves' = before \o <<s>>
          ELSE /\ unconnected' = unconnected
               /\ saves' = before \o (IF w.res = "won" THEN <<retired(s)>> ELSE <<>>)
    BY DEF waits, parks, ends
  <1> HIDE DEF s
  <1>6. Version(s, retired(s)) /\ retired(s).res = s.res /\ ~Resumable(retired(s))
    BY <1>3, <1>4, Endings
  <1>7. Fate(r, retired(s))
    BY <1>4, <1>6, Fates
  <1>8. /\ \A q \in Rounds : before \o <<q>> = IF before = <<>> THEN <<q>> ELSE <<w, q>>
        /\ before \o <<>> = before
    BY <1>1, Follows
  <1>9. CASE ~spent(w)
    BY <1>4, <1>5, <1>8, <1>9
  <1>10. CASE spent(w)
    <2>1. unconnected' = unconnected
          /\ saves' = before \o (IF w.res = "won" THEN <<retired(s)>> ELSE <<>>)
      BY <1>5, <1>10
    <2>2. retired(s) \in Rounds
      BY <1>6 DEF Version
    <2>3. CASE w.res = "won"
      BY <1>6, <1>7, <1>8, <1>10, <2>1, <2>2, <2>3
    <2>4. CASE w.res # "won"
      BY <1>8, <1>10, <2>1, <2>4
    <2> QED
      BY <2>3, <2>4
  <1> QED
    BY <1>9, <1>10

\* A round that the sidechain was offered waits, or ends.
LEMMA OfferHandled ==
  ASSUME NEW r \in Rounds, NEW w \in Waiting(blocks), Fate(r, w), w.res = "won",
         NEW before, before = <<>> \/ (before = <<w>> /\ Resumable(w)), putBack' = putBack,
         NEW step, offers(w, step),
         \/ step = "done" /\ ends(<<connected(w)>>)
         \/ step = "retire" /\ ends(before \o <<retired(w)>>)
         \/ step = "retry" /\ waits(w, before)
  PROVE  Handled(r)
  <1>1. w \in Rounds /\ OneLive(w) /\ critsOf(w) = critsOf(r)
    BY SameCommits DEF Waiting, Fine, Fate
  <1>2. /\ Fate(r, retired(w)) /\ ~Resumable(retired(w)) /\ retired(w) \in Rounds
        /\ Fate(r, connected(w)) /\ ~Resumable(connected(w))
    <2>1. /\ Version(w, retired(w)) /\ ~Resumable(retired(w)) /\ retired(w).res = w.res
          /\ Version(w, connected(w)) /\ ~Resumable(connected(w))
      BY <1>1, Endings
    <2>2. Version(r, connected(w)) /\ Fate(r, retired(w))
      BY <2>1, Fates, Versions DEF Fate
    <2> QED
      BY <1>1, <2>1, <2>2 DEF Fate, Version
  <1>3. offer' \in {NoCrit} \cup critsOf(r)
        /\ over' = IF step # "retry" \/ spent(w) THEN over \cup critsOf(r) ELSE over
    BY <1>1, LiveBidFact DEF offers
  <1>4. CASE step = "done"
    <2>1. ends(<<connected(w)>>)
      BY <1>4
    <2> QED
      BY <1>2, <1>3, <1>4, <2>1 DEF ends, Handled
  <1>5. CASE step = "retire"
    <2>1. ends(before \o <<retired(w)>>)
      BY <1>5
    <2>2. before \o <<retired(w)>> = IF before = <<>> THEN <<retired(w)>> ELSE <<w, retired(w)>>
      BY <1>1, <1>2, Follows
    <2> QED
      BY <1>2, <1>3, <1>5, <2>1, <2>2 DEF ends, Handled
  <1>6. CASE step = "retry"
    <2>1. waits(w, before)
      BY <1>6
    <2>2. CASE ~spent(w)
      <3>1. PICK q : Fate(r, q) /\ unconnected' = unconnected \cup {q}
                     /\ saves' = IF before = <<>> THEN <<q>> ELSE <<w, q>>
        BY <2>1, <2>2, WaitsHandled
      <3> QED
        BY <1>3, <1>6, <2>2, <3>1 DEF Handled
    <2>3. CASE spent(w)
      <3>1. unconnected' = unconnected
        BY <2>1, <2>3, WaitsHandled
      <3>2. PICK q : Fate(r, q) /\ ~Resumable(q)
                     /\ saves' = IF before = <<>> THEN <<q>> ELSE <<w, q>>
        BY <2>1, <2>3, WaitsHandled
      <3> QED
        BY <1>3, <1>6, <2>3, <3>1, <3>2 DEF Handled
    <2> QED
      BY <2>2, <2>3
  <1> QED
    BY <1>4, <1>5, <1>6

\* A round that waits still waits when the height of its inclusion is noted.
LEMMA IncludesWaits ==
  ASSUME NEW chain, NEW r \in Waiting(chain), NEW h \in Heights
  PROVE  /\ includes(r, h) \in Waiting(chain)
         /\ includes(r, h).res = r.res /\ includes(r, h).waited = r.waited
  <1>1. r \in Fine(chain) /\ r.waited < Attempts
    BY DEF Waiting
  <1>2. /\ includes(r, h) \in Fine(chain)
        /\ includes(r, h).res = r.res /\ includes(r, h).waited = r.waited
    BY <1>1, Included
  <1> QED
    BY <1>1, <1>2 DEF Waiting

\* What retryConnects does with a round.
LEMMA RetryHandled ==
  ASSUME BmmInv, NEW r \in todo,
         AbandonBehindTip(r) \/ RetryUndecided(r) \/ RetryLost(r) \/ RetryWon(r)
           \/ RetryConnects(r)
  PROVE  /\ Handled(r) /\ todo' = todo \ {r} /\ at = "retry" /\ saves = <<>>
         /\ UNCHANGED <<broadcast, mempool, blocks, current, store, disk, at, seenTip, work,
                        copied, filed, misled>>
  <1> USE DEF BmmInv
  <1>1. r \in Waiting(blocks) /\ r \in Fine(blocks) /\ r \in Rounds /\ OneLive(r)
    BY Kinds DEF RoundsFine, Fine
  <1>2. /\ todo' = todo \ {r} /\ at = "retry" /\ saves = <<>>
        /\ UNCHANGED <<broadcast, mempool, blocks, current, store, disk, at, seenTip, work,
                       copied, filed, misled>>
    BY DEF AbandonBehindTip, RetryUndecided, RetryLost, RetryWon, RetryConnects,
       retryUnchanged, retries, tickAt, storeVars, chainVars, callVars
  <1>3. seenTip > r.on => r.on + 1 \in Heights /\ r.on < height
    BY <1>1, <1>2, BmmAssumption
    DEF tickTypes, TickFits, chainTypes, Heights, height, Fine, Rounds
  <1>4. CASE AbandonBehindTip(r)
    <2> DEFINE q == liveBecomes(r, "missed")
    <2>1. "missed" \in BidStates \ {"live"}
      BY DEF BidStates
    <2>2. Version(r, q) /\ ~hasLive(q) /\ q.res = r.res
      BY <1>1, <2>1, LiveBecomes
    <2>3. /\ saves' = <<q>> /\ unconnected' = unconnected /\ over' = over \cup critsOf(r)
          /\ putBack' = putBack /\ offer' = offer
      BY <1>4 DEF AbandonBehindTip, ends
    <2> HIDE DEF q
    <2> QED
      BY <1>2, <2>2, <2>3 DEF Handled, Fate, Resumable
  <1>5. CASE RetryUndecided(r)
    <2>1. PICK h \in {r.incl, r.on + 1} :
             (h = r.incl \/ seenTip > r.on) /\ waits(includes(r, h), <<>>)
      BY <1>5 DEF RetryUndecided
    <2> DEFINE w == includes(r, h)
    <2>2. h \in Heights
      BY <1>1, <1>3, <2>1 DEF tickTypes, Fine, Rounds, Heights
    <2>3. w \in Waiting(blocks) /\ w.res = r.res /\ w.waited = r.waited
      BY <1>1, <2>2, IncludesWaits
    <2>4. Fate(r, w)
      BY <1>1, <2>2, <2>3, Endings DEF Fate
    <2>5. spent(w) <=> spent(r)
      BY <2>3 DEF spent
    <2>6. /\ offer' = offer /\ r.res = "open"
          /\ over' = (IF spent(r) THEN over \cup critsOf(r) ELSE over)
          /\ putBack' = (IF spent(r) THEN putBack \cup critsOf(r) ELSE putBack)
      BY <1>5 DEF RetryUndecided
    <2> HIDE DEF w
    <2>7. waits(w, <<>>)
      BY <2>1 DEF w
    <2>8. CASE spent(r)
      <3>1. unconnected' = unconnected /\ saves' = <<>>
        BY <1>1, <2>3, <2>4, <2>5, <2>6, <2>7, <2>8, WaitsHandled
      <3> QED
        BY <1>2, <2>6, <2>8, <3>1 DEF Handled
    <2>9. CASE ~spent(r)
      <3>1. PICK q : Fate(r, q) /\ unconnected' = unconnected \cup {q} /\ saves' = <<q>>
        BY <1>1, <2>3, <2>4, <2>5, <2>7, <2>9, WaitsHandled
      <3> QED
        BY <1>2, <2>6, <2>9, <3>1 DEF Handled
    <2> QED
      BY <2>8, <2>9
  <1>6. CASE RetryLost(r)
    <2> DEFINE q == lost(includes(r, r.on + 1))
    <2>1. /\ seenTip > r.on /\ saves' = <<q>> /\ unconnected' = unconnected
          /\ UNCHANGED <<over, putBack, offer>>
      BY <1>6 DEF RetryLost, ends
    <2>2. Version(r, q) /\ ~Resumable(q)
      BY <1>1, <1>3, <2>1, Endings
    <2> HIDE DEF q
    <2> QED
      BY <1>2, <1>3, <2>1, <2>2 DEF Handled, Fate
  <1>7. CASE RetryWon(r)
    <2> DEFINE w == [won(r, r.on + 1) EXCEPT !.waited = 0]
    <2>1. seenTip > r.on /\ winners(r, r.on + 1) # {} /\ putBack' = putBack
      BY <1>7 DEF RetryWon
    <2>2. w \in Waiting(blocks) /\ w.res = "won" /\ Version(r, w) /\ Resumable(w)
      BY <1>1, <1>3, <2>1, Won, WonVersion
    <2>3. PICK step \in {"done", "retire", "retry"} :
             /\ offers(w, step)
             /\ CASE step = "done"   -> ends(<<connected(w)>>)
                  [] step = "retire" -> ends(<<w, retired(w)>>)
                  [] step = "retry"  -> waits(w, <<w>>)
      BY <1>7 DEF RetryWon
    <2>4. retired(w) \in Rounds /\ w \in Rounds
      BY <2>2, Endings DEF Version, Waiting, Fine
    <2> HIDE DEF w
    <2>5. <<w>> \o <<retired(w)>> = <<w, retired(w)>>
      BY <2>4, Follows
    <2>6. Fate(r, w)
      BY <1>3, <2>1, <2>2 DEF Fate
    <2>7. \/ step = "done" /\ ends(<<connected(w)>>)
          \/ step = "retire" /\ ends(<<w>> \o <<retired(w)>>)
          \/ step = "retry" /\ waits(w, <<w>>)
      BY <2>3, <2>5
    <2>8. Handled(r)
      BY <1>1, <2>1, <2>2, <2>3, <2>6, <2>7, OfferHandled
    <2> QED
      BY <1>2, <2>8
  <1>8. CASE RetryConnects(r)
    <2>1. PICK step \in {"done", "retire", "retry"} :
             /\ offers(r, step)
             /\ CASE step = "done"   -> ends(<<connected(r)>>)
                  [] step = "retire" -> ends(<<retired(r)>>)
                  [] step = "retry"  -> waits(r, <<>>)
      BY <1>8 DEF RetryConnects
    <2>2. r.res = "won" /\ putBack' = putBack
      BY <1>8 DEF RetryConnects
    <2>3. Fate(r, r) /\ retired(r) \in Rounds
      BY <1>1, Endings DEF Fate, Version
    <2> DEFINE before == <<>>
    <2>4. before \o <<retired(r)>> = <<retired(r)>> /\ before = <<>>
      BY <2>3, Follows
    <2> HIDE DEF before
    <2>5. \/ step = "done" /\ ends(<<connected(r)>>)
          \/ step = "retire" /\ ends(before \o <<retired(r)>>)
          \/ step = "retry" /\ waits(r, before)
      BY <2>1, <2>4
    <2>6. before = <<>> \/ (before = <<r>> /\ Resumable(r))
      BY <2>4
    <2>7. offers(r, step)
      BY <2>1
    <2>8. Handled(r)
      BY <1>1, <2>2, <2>3, <2>5, <2>6, <2>7, OfferHandled
    <2> QED
      BY <1>2, <2>8
  <1> QED
    BY <1>4, <1>5, <1>6, <1>7, <1>8

\* What settleRound does with the round that the new tip closed.
LEMMA SettleHandled ==
  ASSUME BmmInv, SettleParks \/ SettleWon \/ SettleLost
  PROVE  /\ Handled(work) /\ work' = NoRound /\ at = "settle" /\ saves = <<>>
         /\ at' \notin {"record", "place"} /\ (at' # "idle" => seenTip' = seenTip)
         /\ UNCHANGED <<broadcast, mempool, blocks, current, store, disk, todo,
                        copied, filed, misled>>
  <1> USE DEF BmmInv
  <1>1. /\ work' = NoRound /\ at = "settle" /\ saves = <<>> /\ putBack' = putBack
        /\ at' \notin {"record", "place"} /\ (at' # "idle" => seenTip' = seenTip)
        /\ UNCHANGED <<broadcast, mempool, blocks, current, store, disk, todo,
                       copied, filed, misled>>
    BY DEF SettleParks, SettleWon, SettleLost, settles, settleUnchanged, tickAt, goesTo,
       afterSettle, storeVars, chainVars, callVars
  <1> DEFINE r == work
             d == decider(r)
  <1>2. r \in Playing(blocks) /\ r \in Waiting(blocks) /\ r \in Fine(blocks) /\ r \in Rounds
        /\ OneLive(r)
    BY <1>1, Kinds DEF RoundsFine, RoundsHeld, Fine
  <1>3. r.on < height /\ seenTip \in Heights /\ d \in Heights
    <2>1. r.on < seenTip /\ seenTip <= height /\ r.on \in Heights /\ seenTip \in Heights
          /\ height \in Heights
      BY <1>1, <1>2 DEF TickFits, tickTypes, chainTypes, Fine, Rounds
    <2> QED
      BY <2>1, BmmAssumption DEF decider, Heights
  <1>4. \A q : Version(r, q) => Fate(r, q)
    BY <1>3 DEF Fate
  <1> HIDE DEF d
  <1>5. CASE SettleParks
    <2>1. \E q : Version(r, q) /\ parks(q, <<q>>)
      <3>1. \/ parks(r, <<r>>)
            \/ \E h \in {seenTip, d} : parks(includes(r, h), <<includes(r, h)>>)
        BY <1>5 DEF SettleParks, d
      <3> QED
        BY <1>2, <1>3, <3>1, Endings
    <2>2. over' = over /\ offer' = offer
      BY <1>5 DEF SettleParks
    <2> QED
      BY <1>1, <1>4, <2>1, <2>2 DEF parks, Handled
  <1>6. CASE SettleWon
    <2> DEFINE v == won(r, d)
               w == [v EXCEPT !.waited = IF outrun(r) THEN 0 ELSE @]
    <2>1. winners(r, d) # {}
      BY <1>6 DEF SettleWon, d
    <2>2. PICK step \in {"done", "retire", "retry"} :
             /\ offers(w, step)
             /\ CASE step = "done"   -> ends(<<connected(w)>>)
                  [] step = "retire" -> ends(IF outrun(r) THEN <<w, retired(w)>>
                                                          ELSE <<retired(w)>>)
                  [] step = "retry"  -> parks(w, <<w>>)
      BY <1>6 DEF SettleWon, d
    <2>3. /\ v \in Waiting(blocks) /\ v.res = "won" /\ Version(r, v) /\ Resumable(v)
          /\ [v EXCEPT !.waited = 0] \in Waiting(blocks) /\ Version(r, [v EXCEPT !.waited = 0])
          /\ [v EXCEPT !.waited = 0].res = "won" /\ Resumable([v EXCEPT !.waited = 0])
      BY <1>2, <1>3, <2>1, Won, WonVersion
    <2> HIDE DEF v
    <2>4. w = [v EXCEPT !.waited = 0] \/ w = v
      BY <2>3 DEF Waiting, Fine, Rounds
    <2> HIDE DEF w
    <2>5. w \in Waiting(blocks) /\ w.res = "won" /\ Version(r, w) /\ Resumable(w)
      BY <2>3, <2>4
    <2>6. w \in Rounds /\ retired(w) \in Rounds
      BY <2>5, Endings DEF Version, Waiting, Fine
    <2>7. CASE step = "retry"
      <3>1. parks(w, <<w>>)
        BY <2>2, <2>7
      <3>2. over' = over /\ offer' = liveBid(w).crit
        BY <1>1, <2>2, <2>7 DEF offers, spent
      <3>3. offer' \in {NoCrit} \cup critsOf(r)
        BY <1>2, <2>5, <2>6, <3>2, SameCommits, LiveBidFact
      <3> QED
        BY <1>1, <1>4, <2>5, <3>1, <3>2, <3>3 DEF parks, Handled
    <2>8. CASE step # "retry"
      <3> DEFINE before == IF outrun(r) /\ step = "retire" THEN <<w>> ELSE <<>>
      <3>1. \/ step = "done" /\ ends(<<connected(w)>>)
            \/ step = "retire" /\ ends(before \o <<retired(w)>>)
        BY <2>2, <2>6, <2>8, Follows
      <3>2. before = <<>> \/ (before = <<w>> /\ Resumable(w))
        BY <2>5
      <3> HIDE DEF before
      <3> QED
        BY <1>1, <1>2, <1>4, <2>2, <2>5, <3>1, <3>2, OfferHandled
    <2> QED
      BY <1>1, <2>7, <2>8
  <1>7. CASE SettleLost
    <2> DEFINE q == lost(includes(r, d))
    <2>1. /\ saves' = <<q>> /\ unconnected' = unconnected /\ over' = over /\ offer' = offer
      BY <1>7 DEF SettleLost, ends, d
    <2>2. Version(r, q) /\ ~Resumable(q)
      BY <1>2, <1>3, Endings
    <2> HIDE DEF q
    <2> QED
      BY <1>1, <1>4, <2>1, <2>2 DEF Handled
  <1> QED
    BY <1>1, <1>5, <1>6, <1>7

-----------------------------------------------------------------------------
(* What the files and the tick hold of the past: the second invariant.     *)

everyRound == ToSet(store) \cup ToSet(disk) \cup ToSet(saves) \cup unconnected \cup todo
                \cup {current, work, copied}

\* A transaction is one bid, and bids that share a commitment share their tip.
BidsNamed ==
    /\ \A b, c \in broadcast : /\ b.tx = c.tx => b = c
                               /\ b.crit = c.crit => b.on = c.on
    /\ \A b \in broadcast : b.tx < newTx /\ b.crit < newTx
    /\ \A c \in over : c < newTx

\* The bids of a round went out on its tip, and its verdict comes after its block.
Placed(r) ==
    /\ \A i \in DOMAIN r.bids : \E b \in broadcast :
          b.tx = r.bids[i].tx /\ b.crit = r.bids[i].crit /\ b.on = r.on
    /\ r.res # "open" => r.on < height
RoundsPlaced == \A r \in everyRound : Placed(r)

\* The bid whose answer is awaited belongs to the round in play, and to no other.
SentAwaited ==
    at = "record" =>
        /\ sent.on = current.on /\ replaced \notin mempool /\ sent.crit \notin over
        /\ \A r \in unconnected \cup todo : sent.crit \notin critsOf(r)

\* The round that gets its opening bid is on the tip the tick read.
PlacedOnTip == at = "place" => current.on = seenTip

\* Neither the store nor the file has two rounds on one tip.
tipsApart(rounds) == \A i, j \in 1 .. Len(rounds) : rounds[i].on = rounds[j].on => i = j
OneRoundPerTip == tipsApart(store) /\ tipsApart(disk)

\* Of what the tick still holds nothing was judged, and no two share a block.
apart(r, s) == critsOf(r) \cap critsOf(s) = {}
Unjudged ==
    \A r \in unconnected \cup todo \cup {current, work} : critsOf(r) \cap over = {}
RoundsApart ==
    /\ \A r, s \in unconnected : r # s => apart(r, s)
    /\ \A r, s \in todo : r # s => apart(r, s)
    /\ \A r \in unconnected : \A s \in todo : apart(r, s)
    /\ \A r \in unconnected \cup todo : apart(r, current) /\ apart(r, work)

\* What a restart would resume of a round was not judged, but for what was given
\* up undecided or put back: of the version that the tick saves last, of every
\* round in the store's memory that it is not about to save, and in the file of
\* what was judged there, too.
settled(r) == Resumable(r) => critsOf(r) \cap over \subseteq putBack
Saving ==
    \/ saves = <<>>
    \/ \E q \in ToSet(saves) :
          /\ settled(q)
          /\ \/ saves = <<q>>
             \/ \E v \in ToSet(saves) : /\ saves = <<v, q>> /\ Resumable(v)
                                        /\ v.on = q.on /\ critsOf(v) = critsOf(q)
StoreKnows ==
    \A r \in ToSet(store) : settled(r) \/ (saves # <<>> /\ r.on = Head(saves).on)
FileKnows ==
    /\ filed \cap putBack = {}
    /\ \A r \in ToSet(store) \cup ToSet(disk) \cup ToSet(saves) :
          Resumable(r) => critsOf(r) \cap filed = {}

\* As long as no restart was misled: a bid that is live in some version of a round
\* and that the mempool keeps is live in the round in play, when it is on the
\* mainchain's tip, as far as the tick knows it; the rounds that wait are behind.
tipKnown == IF at = "idle" THEN height ELSE seenTip
liveIn(r, tx) == \E i \in DOMAIN r.bids : r.bids[i].tx = tx /\ r.bids[i].st = "live"
Covered ==
    \A r \in ToSet(store) \cup ToSet(disk) \cup ToSet(saves) \cup {copied} :
        \A tx \in mempool :
            liveIn(r, tx) /\ (tipKnown <= r.on \/ r.on = current.on) =>
                current.on = r.on /\ liveIn(current, tx)
Behind == \A r \in unconnected \cup todo : r.on < tipKnown /\ r.on # current.on

BmmHistory ==
    /\ BidsNamed /\ RoundsPlaced /\ SentAwaited /\ PlacedOnTip /\ OneRoundPerTip
    /\ Unjudged /\ RoundsApart /\ Saving /\ StoreKnows /\ FileKnows
    /\ ~misled => Covered /\ Behind

\* The two rounds of a pair.
LEMMA PairElements ==
  ASSUME NEW v, NEW q
  PROVE  ToSet(<<v, q>>) = {v, q}
  <1>1. DOMAIN <<v, q>> = {1, 2} /\ <<v, q>>[1] = v /\ <<v, q>>[2] = q
    OBVIOUS
  <1> QED
    BY <1>1 DEF ToSet

\* A sequence of one element.
LEMMA SingleElement ==
  ASSUME NEW q
  PROVE  ToSet(<<q>>) = {q} /\ Head(<<q>>) = q /\ <<q>> # <<>>
  <1>1. DOMAIN <<q>> = {1} /\ <<q>>[1] = q /\ Head(<<q>>) = q /\ <<q>> # <<>>
    OBVIOUS
  <1> QED
    BY <1>1 DEF ToSet

\* The rounds of a short sequence, and of what is left of one.
LEMMA Elements ==
  ASSUME NEW S
  PROVE  /\ ToSet(<<>>) = {}
         /\ \A q \in S : ToSet(<<q>>) = {q}
         /\ \A s \in Seq(S) : s # <<>> =>
               Head(s) \in ToSet(s) /\ ToSet(Tail(s)) \subseteq ToSet(s)
         /\ \A s \in Seq(S) : s \in Seq(ToSet(s))
  <1>1. ToSet(<<>>) = {}
    BY DEF ToSet
  <1>2. ASSUME NEW q \in S
        PROVE  ToSet(<<q>>) = {q}
    <2>1. DOMAIN <<q>> = {1} /\ <<q>>[1] = q
      OBVIOUS
    <2> QED
      BY <2>1 DEF ToSet
  <1>3. ASSUME NEW s \in Seq(S), s # <<>>
        PROVE  Head(s) \in ToSet(s) /\ ToSet(Tail(s)) \subseteq ToSet(s)
    <2>1. Len(s) \in Nat /\ Len(s) # 0 /\ DOMAIN s = 1 .. Len(s)
      BY <1>3
    <2>2. Head(s) = s[1] /\ 1 \in DOMAIN s
      BY <1>3, <2>1
    <2>3. /\ DOMAIN Tail(s) = 1 .. (Len(s) - 1)
          /\ \A i \in 1 .. (Len(s) - 1) : Tail(s)[i] = s[i + 1] /\ i + 1 \in DOMAIN s
      BY <1>3, <2>1
    <2> QED
      BY <2>2, <2>3 DEF ToSet
  <1>4. ASSUME NEW s \in Seq(S)
        PROVE  s \in Seq(ToSet(s))
    <2>1. \A i \in 1 .. Len(s) : s[i] \in ToSet(s)
      BY DEF ToSet
    <2> QED
      BY <2>1
  <1> QED
    BY <1>1, <1>2, <1>3, <1>4

\* Save keeps the tips apart; what it leaves of the store is on other tips.
LEMMA SavedTips ==
  ASSUME NEW S, S \subseteq Rounds, NEW rounds \in Seq(S), NEW r \in S, tipsApart(rounds)
  PROVE  /\ tipsApart(saved(rounds, r))
         /\ \A x \in ToSet(saved(rounds, r)) : x = r \/ (x \in ToSet(rounds) /\ x.on # r.on)
  <1> DEFINE same == {i \in 1 .. Len(rounds) : rounds[i].on = r.on}
             new == saved(rounds, r)
  <1>1. new = IF (IF same # {} THEN Min(same) ELSE 0) # 0
                THEN ReplaceAt(rounds, IF same # {} THEN Min(same) ELSE 0, r)
                ELSE Cons(r, rounds)
    BY DEF saved, SelectInSeq
  <1>2. Len(rounds) \in Nat /\ same \subseteq Nat /\ DOMAIN rounds = 1 .. Len(rounds)
    OBVIOUS
  <1>3. same # {} => Min(same) \in same
    BY <1>2, MinFact
  <1>4. CASE same # {}
    <2> DEFINE k == Min(same)
    <2>1. k \in 1 .. Len(rounds) /\ rounds[k].on = r.on /\ k # 0
      BY <1>3, <1>4
    <2>2. new = [rounds EXCEPT ![k] = r]
      BY <1>1, <1>4, <2>1 DEF ReplaceAt
    <2> HIDE DEF k, new
    <2>3. /\ DOMAIN new = 1 .. Len(rounds) /\ Len(new) = Len(rounds)
          /\ \A i \in 1 .. Len(rounds) : new[i] = IF i = k THEN r ELSE rounds[i]
      BY <1>2, <2>1, <2>2
    <2>4. \A i \in 1 .. Len(rounds) : i # k => rounds[i].on # r.on
      BY <2>1 DEF tipsApart
    <2>5. tipsApart(new)
      BY <2>1, <2>3, <2>4 DEF tipsApart
    <2>6. \A x \in ToSet(new) : x = r \/ (x \in ToSet(rounds) /\ x.on # r.on)
      BY <1>2, <2>3, <2>4 DEF ToSet
    <2> QED
      BY <2>5, <2>6 DEF new
  <1>5. CASE same = {}
    <2>1. new = <<r>> \o rounds
      BY <1>1, <1>5 DEF Cons
    <2> HIDE DEF new
    <2>2. /\ DOMAIN new = 1 .. (Len(rounds) + 1) /\ Len(new) = Len(rounds) + 1
          /\ new[1] = r
          /\ \A i \in 2 .. (Len(rounds) + 1) : new[i] = rounds[i - 1]
                                               /\ i - 1 \in 1 .. Len(rounds)
      BY <1>2, <2>1
    <2>3. \A i \in 1 .. Len(rounds) : rounds[i].on # r.on
      BY <1>5
    <2>4. \A i \in 1 .. (Len(rounds) + 1) : i = 1 \/ i \in 2 .. (Len(rounds) + 1)
      BY <1>2
    <2>5. tipsApart(new)
      BY <1>2, <2>2, <2>3, <2>4 DEF tipsApart
    <2>6. \A x \in ToSet(new) : x = r \/ (x \in ToSet(rounds) /\ x.on # r.on)
      BY <1>2, <2>2, <2>3, <2>4 DEF ToSet
    <2> QED
      BY <2>5, <2>6 DEF new
  <1> QED
    BY <1>4, <1>5

-----------------------------------------------------------------------------
(* The steps that leave the rounds alone.                                   *)

\* The chain may grow, the mempool may shrink and the tick may go on.
Quiet ==
    /\ UNCHANGED <<broadcast, current, unconnected, todo, work, store, disk, saves, copied,
                   over, filed, putBack, misled>>
    /\ mempool' \subseteq mempool /\ height <= height' /\ tipKnown <= tipKnown'
    /\ at' = "record" => at = "record" /\ replaced' = replaced
    /\ at' = "place" => at = "place" /\ seenTip' = seenTip
    /\ offer' = offer

\* Every version of a round is one, or there is none.
LEMMA RoundsTyped ==
  ASSUME BmmInv
  PROVE  /\ \A r \in everyRound : (r \in Fine(blocks) /\ r \in Rounds) \/ r = NoRound
         /\ \A r \in everyRound : r.on \in Int
         /\ \A r \in ToSet(store) \cup ToSet(disk) \cup ToSet(saves) \cup unconnected \cup todo :
               r \in Fine(blocks) /\ r \in Rounds /\ r # NoRound
         /\ NoRound.on = NoTip /\ critsOf(NoRound) = {}
  <1>1. \A r \in ToSet(store) \cup ToSet(disk) \cup ToSet(saves) \cup unconnected \cup todo :
           r \in Fine(blocks) /\ r \in Rounds /\ r # NoRound
    BY ShortSeqs, Kinds DEF BmmInv, RoundsFine
  <1>2. \A r \in {current, work, copied} : (r \in Fine(blocks) /\ r \in Rounds) \/ r = NoRound
    BY Kinds DEF BmmInv, RoundsFine
  <1>3. NoRound.on = NoTip /\ critsOf(NoRound) = {}
    BY DEF NoRound, critsOf
  <1>4. \A r \in Rounds : r.on \in Int
    BY BmmAssumption DEF Rounds, Heights
  <1> QED
    BY <1>1, <1>2, <1>3, <1>4 DEF everyRound, NoTip

\* What is known of the tip, and the length of the chain.
LEMMA TipFacts ==
  ASSUME BmmInv
  PROVE  height \in Heights /\ seenTip \in Heights /\ tipKnown \in Heights /\ Heights \subseteq Nat
         /\ tipKnown <= height
  BY BmmAssumption DEF BmmInv, chainTypes, tickTypes, TickFits, tipKnown, Heights

\* A tick that goes on knows no less of the tip.
LEMMA GoesOn ==
  ASSUME BmmInv, NEW label, goesTo(label), at # "idle", blocks' = blocks
  PROVE  tipKnown <= tipKnown' /\ at' = label /\ height' = height
  <1>1. at' = label /\ (label = "idle" => TRUE) /\ (label # "idle" => seenTip' = seenTip)
        /\ height' = height
    BY DEF goesTo, height
  <1>2. seenTip <= height /\ seenTip \in Nat /\ height \in Nat
    BY TipFacts DEF BmmInv, TickFits
  <1> QED
    BY <1>1, <1>2 DEF tipKnown

\* Which steps are quiet.
LEMMA QuietSteps ==
  ASSUME BmmInv,
         \/ Mine \/ StartSets \/ StartSaves \/ StopSets \/ StopSaves
         \/ RetryEnds \/ MarkTip \/ AnswerLost \/ UNCHANGED bmmVars
  PROVE  Quiet
  <1>1. CASE Mine
    <2>1. UNCHANGED <<broadcast, memoryVars, storeVars, tickVars, callVars, historyVars>>
          /\ mempool' \subseteq mempool
      BY <1>1 DEF Mine
    <2>2. height' = height + 1
      <3>1. \E b \in [tx : Txs \cup {NoTx}, crit : Txs \cup {NoCrit}] :
               blocks' = Append(blocks, b)
        BY <1>1 DEF Mine, BmmInv, BidsNumbered
      <3> QED
        BY <3>1 DEF height, BmmInv, chainTypes
    <2>3. height \in Nat /\ seenTip \in Nat
      BY TipFacts
    <2> QED
      BY <2>1, <2>2, <2>3
      DEF Quiet, tipKnown, memoryVars, storeVars, tickVars, callVars, historyVars
  <1>2. CASE StartSets \/ StartSaves \/ StopSets \/ StopSaves \/ UNCHANGED bmmVars
    <2>1. UNCHANGED <<chainVars, current, unconnected, storeVars, tickVars, copied, offer,
                      over, filed, putBack, misled>>
      BY <1>2 DEF StartSets, StartSaves, StopSets, StopSaves, bmmVars, callVars, memoryVars,
         historyVars
    <2>2. height \in Nat /\ tipKnown \in Nat
      BY TipFacts
    <2>3. height' = height /\ tipKnown' = tipKnown
      BY <2>1 DEF height, tipKnown, tickVars, chainVars
    <2> QED
      BY <2>1, <2>2, <2>3 DEF Quiet, chainVars, storeVars, tickVars
  <1>3. CASE RetryEnds \/ MarkTip \/ AnswerLost
    <2>1. /\ UNCHANGED <<chainVars, current, unconnected, storeVars, todo, work, saves, copied,
                         offer, over, filed, putBack, misled>>
          /\ at # "idle" /\ \E label \in {"take", "idle", "raise", "mark"} : goesTo(label)
      BY <1>3 DEF RetryEnds, MarkTip, AnswerLost, tickAt, tickOnly, callVars, memoryVars
    <2>2. tipKnown <= tipKnown' /\ at' \notin {"record", "place"} /\ height' = height
          /\ height \in Nat
      BY <2>1, GoesOn, TipFacts DEF chainVars
    <2> QED
      BY <2>1, <2>2 DEF Quiet, chainVars, storeVars
  <1> QED
    BY <1>1, <1>2, <1>3

\* They keep what the files and the tick hold of the past.
LEMMA QuietStep ==
  ASSUME BmmInv, BmmInv', BmmHistory, Quiet
  PROVE  BmmHistory'
  <1> USE DEF BmmHistory
  <1>0. /\ height \in Nat /\ height' \in Nat /\ tipKnown \in Nat /\ tipKnown' \in Nat
        /\ height <= height' /\ tipKnown <= tipKnown'
    <2>1. height' \in Heights /\ tipKnown' \in Heights
      BY BmmAssumption DEF BmmInv, chainTypes, tickTypes, tipKnown
    <2> QED
      BY <2>1, TipFacts DEF Quiet
  <1>1. \A r \in everyRound : r.on \in Int
    BY RoundsTyped
  <1>2. UNCHANGED <<everyRound, newTx, sent>>
    BY DEF Quiet, everyRound, newTx, sent
  <1>3. BidsNamed'
    BY <1>2 DEF Quiet, BidsNamed
  <1>4. RoundsPlaced'
    <2> SUFFICES ASSUME NEW r \in everyRound PROVE Placed(r)'
      BY <1>2 DEF RoundsPlaced
    <2>1. Placed(r) /\ r.on \in Int
      BY <1>1 DEF RoundsPlaced
    <2> QED
      BY <1>0, <2>1 DEF Quiet, Placed
  <1>5. SentAwaited' /\ PlacedOnTip'
    BY <1>2 DEF Quiet, SentAwaited, PlacedOnTip
  <1>6. OneRoundPerTip' /\ Unjudged' /\ RoundsApart'
    BY DEF Quiet, OneRoundPerTip, Unjudged, RoundsApart
  <1>7. Saving' /\ StoreKnows' /\ FileKnows'
    BY DEF Quiet, Saving, StoreKnows, FileKnows, settled
  <1>8. ASSUME ~misled'
        PROVE  Covered' /\ Behind'
    <2>1. Covered /\ Behind /\ UNCHANGED <<current, unconnected, todo, store, disk, saves, copied>>
          /\ mempool' \subseteq mempool
      BY <1>8 DEF Quiet
    <2>2. Covered'
      <3> SUFFICES ASSUME NEW r \in ToSet(store) \cup ToSet(disk) \cup ToSet(saves) \cup {copied},
                          NEW tx \in mempool', liveIn(r, tx), tipKnown' <= r.on \/ r.on = current.on
                   PROVE  current.on = r.on /\ liveIn(current, tx)
        BY <2>1 DEF Covered
      <3>1. r.on \in Int
        BY <1>1 DEF everyRound
      <3>2. tipKnown <= r.on \/ r.on = current.on
        BY <1>0, <3>1
      <3> QED
        BY <2>1, <3>2 DEF Covered
    <2>3. Behind'
      <3> SUFFICES ASSUME NEW r \in unconnected \cup todo
                   PROVE  r.on < tipKnown' /\ r.on # current.on
        BY <2>1 DEF Behind
      <3>1. r.on \in Int /\ r.on < tipKnown /\ r.on # current.on
        BY <1>1, <2>1 DEF everyRound, Behind
      <3> QED
        BY <1>0, <3>1
    <2> QED
      BY <2>2, <2>3
  <1> QED
    BY <1>3, <1>4, <1>5, <1>6, <1>7, <1>8

-----------------------------------------------------------------------------
(* What the other steps need.                                               *)

\* Rounds on different tips share no block, and in a file rounds differ by tip.
LEMMA ByTips ==
  ASSUME BidsNamed
  PROVE  /\ \A r, s : Placed(r) /\ Placed(s) /\ r.on # s.on => apart(r, s)
         /\ \A rounds : tipsApart(rounds) =>
              \A r, s \in ToSet(rounds) : Len(rounds) \in Nat /\ DOMAIN rounds = 1 .. Len(rounds)
                                          /\ r.on = s.on => r = s
  <1>1. ASSUME NEW r, NEW s, Placed(r), Placed(s), r.on # s.on
        PROVE  apart(r, s)
    <2> SUFFICES ASSUME NEW i \in DOMAIN r.bids, NEW j \in DOMAIN s.bids,
                        r.bids[i].crit = s.bids[j].crit
                 PROVE  FALSE
      BY DEF apart, critsOf
    <2>1. PICK b \in broadcast : b.crit = r.bids[i].crit /\ b.on = r.on
      BY <1>1 DEF Placed
    <2>2. PICK c \in broadcast : c.crit = s.bids[j].crit /\ c.on = s.on
      BY <1>1 DEF Placed
    <2> QED
      BY <1>1, <2>1, <2>2 DEF BidsNamed
  <1>2. ASSUME NEW rounds, tipsApart(rounds), NEW r \in ToSet(rounds), NEW s \in ToSet(rounds),
               Len(rounds) \in Nat, DOMAIN rounds = 1 .. Len(rounds), r.on = s.on
        PROVE  r = s
    BY <1>2 DEF tipsApart, ToSet
  <1> QED
    BY <1>1, <1>2

\* A round stays placed, and so do its versions, as bids and blocks come.
LEMMA StaysPlaced ==
  ASSUME BmmInv, BmmInv', broadcast \subseteq broadcast', height <= height'
  PROVE  /\ \A r \in everyRound : Placed(r) => Placed(r)'
         /\ \A r \in Rounds : \A s : Placed(r) /\ Fate(r, s) => Placed(s)'
         /\ Placed(NoRound)'
  <1>0. height \in Nat /\ height' \in Nat /\ NoRound.on = -1 /\ DOMAIN NoRound.bids = {}
    <2>1. height' \in Heights
      BY DEF BmmInv, chainTypes
    <2> QED
      BY <2>1, TipFacts DEF NoRound, NoTip
  <1>1. \A r : r.on \in Int /\ Placed(r) => Placed(r)'
    BY <1>0 DEF Placed
  <1>2. ASSUME NEW r \in Rounds, NEW s, Placed(r), Fate(r, s)
        PROVE  Placed(s)'
    <2>1. s.on = r.on /\ r.on \in Int
      BY <1>2, BmmAssumption DEF Fate, Version, Rounds, Heights
    <2>2. DOMAIN s.bids = DOMAIN r.bids
      BY <1>2, SameCommits DEF Fate
    <2>3. \A i \in DOMAIN s.bids : \E b \in broadcast' :
             b.tx = s.bids[i].tx /\ b.crit = s.bids[i].crit /\ b.on = s.on
      BY <1>2, <2>1, <2>2 DEF Placed, Fate, Version
    <2>4. s.res # "open" => s.on < height'
      BY <1>0, <1>2, <2>1 DEF Placed, Fate
    <2> QED
      BY <2>3, <2>4 DEF Placed
  <1>3. Placed(NoRound)'
    BY <1>0 DEF Placed
  <1> QED
    BY <1>1, <1>2, <1>3, RoundsTyped

-----------------------------------------------------------------------------
(* A restart.                                                               *)

\* What load takes up of the file.
LEMMA Reloaded ==
  ASSUME BmmInv
  PROVE  /\ \/ resumedCurrent(disk) = NoRound /\ resumedTip(disk) = NoTip
            \/ /\ resumedCurrent(disk) \in ToSet(disk) /\ Resumable(resumedCurrent(disk))
               /\ resumedTip(disk) = resumedCurrent(disk).on
         /\ \A r \in resumedWaiting(disk) :
               r \in ToSet(disk) /\ Resumable(r) /\ r # resumedCurrent(disk)
  <1>1. disk \in Seq(ToSet(disk))
    BY Elements DEF BmmInv, RoundsFine
  <1> QED
    BY <1>1, Resumed DEF resumedWaiting, InPlay, Resumable

\* A restart that is not misled takes up the round on the mainchain's tip.
LEMMA NotMisled ==
  ASSUME BmmInv, BmmHistory, NEW r \in ToSet(disk), hasLive(r), height <= r.on,
         ~ \E s \in ToSet(disk) : InPlay(s) /\ s.on > resumedCurrent(disk).on
  PROVE  r = resumedCurrent(disk)
  <1>1. r \in Fine(blocks) /\ r \in everyRound /\ r.on \in Nat /\ r.on <= height
        /\ height \in Nat
    <2>1. r \in Fine(blocks) /\ r \in Rounds
      BY RoundsTyped
    <2> QED
      BY <2>1, TipFacts DEF Fine, Rounds, everyRound, height
  <1>2. r.res = "open" /\ r.on = height
    BY <1>1 DEF BmmHistory, RoundsPlaced, Placed
  <1>3. ~ r.on > resumedCurrent(disk).on
    BY <1>2 DEF InPlay
  <1>4. resumedCurrent(disk) \in ToSet(disk) /\ resumedTip(disk) = resumedCurrent(disk).on
    <2>1. NoRound.on = NoTip
      BY DEF NoRound
    <2>2. resumedCurrent(disk) # NoRound
      BY <1>1, <1>3, <2>1 DEF NoTip
    <2> QED
      BY <2>2, Reloaded
  <1>5. resumedCurrent(disk) \in Fine(blocks) /\ resumedCurrent(disk).on \in Nat
        /\ resumedCurrent(disk).on <= height
    <2>1. resumedCurrent(disk) \in Fine(blocks) /\ resumedCurrent(disk) \in Rounds
      BY <1>4, RoundsTyped
    <2> QED
      BY <2>1, BmmAssumption DEF Fine, Rounds, Heights, height
  <1>6. resumedCurrent(disk).on = r.on
    BY <1>1, <1>2, <1>3, <1>4, <1>5
  <1>7. Len(disk) \in Nat /\ DOMAIN disk = 1 .. Len(disk)
    BY DEF BmmInv, RoundsFine
  <1> QED
    BY <1>4, <1>6, <1>7, ByTips DEF BmmHistory, OneRoundPerTip

\* What was filed as judged is not resumed; a restart that is not misled resumes the
\* round on the tip as the one in play, and the others are behind it.
LEMMA RestartStep ==
  ASSUME BmmInv, BmmInv', BmmHistory, Restart
  PROVE  BmmHistory'
  <1> USE DEF BmmHistory
  <1> DEFINE c == resumedCurrent(disk)
  <1>1. /\ UNCHANGED <<blocks, broadcast, mempool, disk, filed>>
        /\ store' = disk /\ current' = c /\ unconnected' = resumedWaiting(disk) /\ todo' = {}
        /\ work' = NoRound /\ copied' = NoRound /\ saves' = <<>> /\ at' = "idle"
        /\ over' = filed /\ putBack' = {}
    BY DEF Restart, chainVars
  <1>2. /\ c = NoRound \/ (c \in ToSet(disk) /\ Resumable(c))
        /\ \A r \in unconnected' : r \in ToSet(disk) /\ Resumable(r) /\ r # c
    BY <1>1, Reloaded
  <1>3. filed \subseteq over /\ UNCHANGED <<newTx, sent, height>>
    BY <1>1 DEF BmmInv, historyTypes, newTx, sent, height
  <1>4. ToSet(saves') = {}
    BY <1>1, Elements
  <1>5. Len(disk) \in Nat /\ DOMAIN disk = 1 .. Len(disk)
    BY DEF BmmInv, RoundsFine
  <1>6. \A r \in ToSet(disk) : Resumable(r) => critsOf(r) \cap filed = {}
    BY DEF FileKnows
  <1> HIDE DEF c
  <1>7. BidsNamed'
    BY <1>1, <1>3 DEF BidsNamed
  <1>8. RoundsPlaced'
    <2>1. \A r \in everyRound' : r \in ToSet(disk) \/ r = NoRound
      BY <1>1, <1>2, <1>4 DEF everyRound
    <2>2. height \in Nat /\ Placed(NoRound)'
      BY <1>1, <1>3, TipFacts, StaysPlaced
    <2> SUFFICES ASSUME NEW r \in everyRound' PROVE Placed(r)'
      BY DEF RoundsPlaced
    <2>3. r \in ToSet(disk) => Placed(r)
      BY DEF RoundsPlaced, everyRound
    <2> QED
      BY <1>1, <1>3, <2>1, <2>2, <2>3 DEF Placed
  <1>9. SentAwaited' /\ PlacedOnTip' /\ OneRoundPerTip'
    BY <1>1 DEF SentAwaited, PlacedOnTip, OneRoundPerTip
  <1>10. Unjudged'
    BY <1>1, <1>2, <1>6, RoundsTyped DEF Unjudged
  <1>11. RoundsApart'
    <2>1. \A r, s \in ToSet(disk) : r # s => apart(r, s)
      <3>1. \A r \in ToSet(disk) : Placed(r)
        BY DEF RoundsPlaced, everyRound
      <3> QED
        BY <1>5, <3>1, ByTips DEF OneRoundPerTip
    <2>2. \A r : apart(r, NoRound)
      BY RoundsTyped DEF apart
    <2> QED
      BY <1>1, <1>2, <2>1, <2>2 DEF RoundsApart
  <1>12. Saving' /\ StoreKnows' /\ FileKnows'
    BY <1>1, <1>4, <1>6 DEF Saving, StoreKnows, FileKnows, settled
  <1>13. ASSUME ~misled'
         PROVE  Covered' /\ Behind'
    <2>1. ~ \E s \in ToSet(disk) : InPlay(s) /\ s.on > resumedCurrent(disk).on
      BY <1>13 DEF Restart
    <2>2. \A r \in ToSet(disk) : hasLive(r) /\ height <= r.on => r = c
      BY <2>1, NotMisled DEF c
    <2>3. tipKnown' = height
      BY <1>1, <1>3 DEF tipKnown
    <2>4. \A r, s \in ToSet(disk) : r.on = s.on => r = s
      BY <1>5, ByTips DEF OneRoundPerTip
    <2>5. \A r \in ToSet(disk) : r \in Rounds /\ r.on \in Nat /\ r.on # NoTip
      BY RoundsTyped, BmmAssumption DEF Rounds, Heights, NoTip
    <2>6. NoRound.on = NoTip /\ ~ \E tx : liveIn(NoRound, tx)
      BY RoundsTyped DEF liveIn, NoRound
    <2>7. Covered'
      <3> SUFFICES ASSUME NEW r \in ToSet(disk), NEW tx \in mempool,
                          liveIn(r, tx), height <= r.on \/ r.on = c.on
                   PROVE  c.on = r.on /\ liveIn(c, tx)
        BY <1>1, <1>4, <2>3, <2>6 DEF Covered
      <3>1. hasLive(r)
        BY <2>5, LiveIndex DEF liveIn
      <3>2. r = c
        BY <1>2, <2>2, <2>4, <2>5, <2>6, <3>1
      <3> QED
        BY <3>2
    <2>8. Behind'
      <3> SUFFICES ASSUME NEW r \in unconnected'
                   PROVE  r.on < height /\ r.on # c.on
        BY <1>1, <2>3 DEF Behind
      <3>1. r \in ToSet(disk) /\ hasLive(r) /\ r # c
        BY <1>2 DEF Resumable
      <3>2. ~ height <= r.on /\ r.on \in Nat /\ height \in Nat
        BY <2>2, <2>5, <3>1, TipFacts
      <3>3. r.on # c.on
        BY <1>2, <2>4, <2>5, <2>6, <3>1
      <3> QED
        BY <3>2, <3>3
    <2> QED
      BY <2>7, <2>8
  <1> QED
    BY <1>7, <1>8, <1>9, <1>10, <1>11, <1>12, <1>13

-----------------------------------------------------------------------------
(* The store and its file.                                                  *)

\* The rounds are those there were; the chain, the tick's place and what it
\* replaces are left alone.
sameRounds ==
    /\ UNCHANGED <<broadcast, mempool, blocks, at, seenTip, replaced, over, misled, current,
                   unconnected, todo, work>>
    /\ everyRound' \subseteq everyRound \cup {NoRound}

\* What such a step keeps.
LEMMA SameRounds ==
  ASSUME BmmInv, BmmInv', BmmHistory, sameRounds
  PROVE  /\ BidsNamed' /\ RoundsPlaced' /\ SentAwaited' /\ PlacedOnTip'
         /\ Unjudged' /\ RoundsApart' /\ Behind' = Behind
  <1> USE DEF BmmHistory
  <1>1. UNCHANGED <<newTx, sent, height, tipKnown>>
    BY DEF sameRounds, newTx, sent, height, tipKnown
  <1>2. height \in Nat
    BY TipFacts
  <1>3. RoundsPlaced'
    <2>1. \A r \in everyRound \cup {NoRound} : Placed(r)'
      BY <1>1, <1>2, StaysPlaced DEF sameRounds, RoundsPlaced
    <2> QED
      BY <2>1 DEF sameRounds, RoundsPlaced
  <1>4. BidsNamed' /\ SentAwaited' /\ PlacedOnTip'
    BY <1>1 DEF sameRounds, BidsNamed, SentAwaited, PlacedOnTip
  <1>5. Unjudged' /\ RoundsApart' /\ Behind' = Behind
    BY <1>1 DEF sameRounds, Unjudged, RoundsApart, Behind
  <1> QED
    BY <1>3, <1>4, <1>5

\* Of two versions the first is saved before the second, and the file has the
\* round as judged once the second is there.
LEMMA SaveStep ==
  ASSUME BmmInv, BmmInv', BmmHistory, SaveRound
  PROVE  BmmHistory'
  <1> USE DEF BmmHistory
  <1> DEFINE h == Head(saves)
             new == saved(store, h)
  <1>1. /\ saves # <<>> /\ saves' = Tail(saves) /\ store' = new /\ disk' \in {disk, new}
        /\ UNCHANGED <<broadcast, mempool, blocks, at, seenTip, replaced, over, misled, current,
                       unconnected, todo, work, copied>>
        /\ putBack' = (IF Resumable(h) THEN putBack ELSE putBack \ critsOf(h))
        /\ filed' = IF saves' = <<>> /\ disk' = store'
                      THEN filed \cup ((over \cap crits(store')) \ putBack') ELSE filed
    BY DEF SaveRound, Flush, memoryVars, chainVars, callVars
  <1>2. /\ store \in Seq(Fine(blocks)) /\ disk \in Seq(Fine(blocks)) /\ saves \in Seq(Fine(blocks))
        /\ Fine(blocks) \subseteq Rounds
    BY Kinds DEF BmmInv, RoundsFine
  <1>3. h \in ToSet(saves) /\ h \in Fine(blocks) /\ ToSet(saves') \subseteq ToSet(saves)
    BY <1>1, <1>2, Elements, ShortSeqs
  <1>4. tipsApart(new) /\ \A x \in ToSet(new) : x = h \/ (x \in ToSet(store) /\ x.on # h.on)
    BY <1>2, <1>3, SavedTips DEF OneRoundPerTip
  <1>5. PICK q \in ToSet(saves) :
           /\ settled(q)
           /\ \/ saves = <<q>>
              \/ \E v \in ToSet(saves) : /\ saves = <<v, q>> /\ Resumable(v)
                                         /\ v.on = q.on /\ critsOf(v) = critsOf(q)
    BY <1>1 DEF Saving
  <1>6. \/ h = q /\ saves' = <<>>
        \/ /\ saves' = <<q>> /\ Resumable(h) /\ h.on = q.on /\ critsOf(h) = critsOf(q)
           /\ ToSet(saves') = {q} /\ Head(saves') = q
    <2>1. q \in Fine(blocks)
      BY <1>2, ShortSeqs
    <2>2. CASE saves = <<q>>
      BY <1>1, <2>1, <2>2
    <2>3. CASE \E v \in ToSet(saves) : /\ saves = <<v, q>> /\ Resumable(v)
                                       /\ v.on = q.on /\ critsOf(v) = critsOf(q)
      <3>1. PICK v \in ToSet(saves) : /\ saves = <<v, q>> /\ Resumable(v)
                                      /\ v.on = q.on /\ critsOf(v) = critsOf(q)
        BY <2>3
      <3>2. v \in Fine(blocks)
        BY <1>2, ShortSeqs
      <3>3. Head(<<v, q>>) = v /\ Tail(<<v, q>>) = <<q>> /\ Head(<<q>>) = q
        BY <2>1, <3>2
      <3>4. ToSet(<<q>>) = {q}
        BY <2>1, Elements
      <3> QED
        BY <1>1, <3>1, <3>3, <3>4
    <2> QED
      BY <1>5, <2>2, <2>3
  <1> HIDE DEF h, new
  <1>7. sameRounds
    BY <1>1, <1>3, <1>4 DEF sameRounds, everyRound
  <1>8. OneRoundPerTip'
    BY <1>1, <1>4 DEF OneRoundPerTip
  <1>9. \A x \in ToSet(store) : x.on # h.on => apart(x, h)
    <2>1. Placed(h) /\ \A x \in ToSet(store) : Placed(x)
      BY <1>3 DEF RoundsPlaced, everyRound
    <2> QED
      BY <2>1, ByTips
  <1>10. Saving'
    BY <1>1, <1>5, <1>6 DEF Saving, settled
  <1>11. StoreKnows'
    <2> SUFFICES ASSUME NEW x \in ToSet(new)
                 PROVE  settled(x)' \/ (saves' # <<>> /\ x.on = Head(saves').on)
      BY <1>1 DEF StoreKnows
    <2>1. CASE x = h /\ h = q
      BY <1>1, <1>5, <2>1 DEF settled
    <2>2. CASE x = h /\ saves' = <<q>> /\ h.on = q.on /\ Head(saves') = q
      BY <2>2
    <2>3. CASE x \in ToSet(store) /\ x.on # h.on
      <3>1. settled(x)
        BY <2>3 DEF StoreKnows, h
      <3>2. apart(x, h)
        BY <1>9, <2>3
      <3> QED
        BY <1>1, <3>1, <3>2 DEF settled, apart
    <2> QED
      BY <1>4, <1>6, <2>1, <2>2, <2>3
  <1>12. FileKnows'
    <2>1. filed' \cap putBack' = {}
      BY <1>1 DEF FileKnows
    <2>2. ASSUME NEW r \in ToSet(store') \cup ToSet(disk') \cup ToSet(saves'), Resumable(r)
          PROVE  critsOf(r) \cap filed' = {}
      <3>1. r \in ToSet(store) \cup ToSet(disk) \cup ToSet(saves)
        BY <1>1, <1>3, <1>4, <2>2
      <3>2. critsOf(r) \cap filed = {}
        BY <2>2, <3>1 DEF FileKnows
      <3>3. CASE saves' = <<>> /\ disk' = store'
        <4>1. r \in ToSet(store')
          BY <2>2, <3>3, Elements
        <4>2. critsOf(r) \cap over' \subseteq putBack'
          BY <1>11, <2>2, <3>3, <4>1 DEF StoreKnows, settled
        <4> QED
          BY <1>1, <3>2, <3>3, <4>2
      <3> QED
        BY <1>1, <3>2, <3>3
    <2> QED
      BY <2>1, <2>2 DEF FileKnows
  <1>13. ASSUME ~misled'
         PROVE  Covered' /\ Behind'
    <2>1. Covered /\ Behind /\ tipKnown' = tipKnown
      BY <1>1, <1>13 DEF tipKnown, height
    <2> QED
      BY <1>1, <1>3, <1>4, <1>7, <2>1, SameRounds DEF Covered
  <1> QED
    BY <1>7, <1>8, <1>10, <1>11, <1>12, <1>13, SameRounds

\* ClearHistory empties the store, copies the round in play, and puts it back as
\* one that nothing was judged of.
LEMMA ClearStep ==
  ASSUME BmmInv, BmmInv', BmmHistory, ClearDrops \/ ClearCopies \/ ClearKeeps
  PROVE  BmmHistory'
  <1> USE DEF BmmHistory
  <1>1. UNCHANGED <<broadcast, mempool, blocks, at, seenTip, replaced, over, misled, current,
                    unconnected, todo, work, saves>>
    BY DEF ClearDrops, ClearCopies, ClearKeeps, chainVars, memoryVars, tickVars, historyVars
  <1>2. tipKnown' = tipKnown /\ (~misled' => Covered /\ Behind)
    BY <1>1 DEF tipKnown, height
  <1>3. ToSet(<<>>) = {}
    BY Elements
  <1> DEFINE Goal == BmmHistory'
  <1>4. CASE ClearDrops
    <2>1. store' = <<>> /\ disk' \in {<<>>, disk} /\ UNCHANGED <<copied, filed, putBack>>
      BY <1>4 DEF ClearDrops
    <2>2. sameRounds
      BY <1>1, <1>3, <2>1 DEF sameRounds, everyRound
    <2>3. Len(<<>>) = 0
      OBVIOUS
    <2>4. OneRoundPerTip'
      BY <2>1, <2>3 DEF OneRoundPerTip, tipsApart
    <2>5. Saving' /\ StoreKnows' /\ FileKnows'
      BY <1>1, <1>3, <2>1 DEF Saving, StoreKnows, FileKnows, settled
    <2>6. ~misled' => Covered'
      BY <1>1, <1>2, <1>3, <2>1 DEF Covered
    <2> QED
      BY <1>2, <2>2, <2>4, <2>5, <2>6, SameRounds
  <1>5. CASE ClearCopies
    <2>1. UNCHANGED <<store, disk, filed, putBack>> /\ copied' = current
      BY <1>5 DEF ClearCopies, storeVars, historyVars
    <2>2. sameRounds
      BY <1>1, <2>1 DEF sameRounds, everyRound
    <2>3. OneRoundPerTip' /\ Saving' /\ StoreKnows' /\ FileKnows'
      BY <1>1, <2>1 DEF OneRoundPerTip, Saving, StoreKnows, FileKnows, settled
    <2>4. ~misled' => Covered'
      BY <1>1, <1>2, <2>1 DEF Covered
    <2> QED
      BY <1>2, <2>2, <2>3, <2>4, SameRounds
  <1>6. CASE ClearKeeps
    <2> DEFINE new == saved(store, copied)
    <2>1. /\ store' = new /\ disk' \in {disk, new} /\ copied' = NoRound
          /\ filed' = filed \ critsOf(copied) /\ putBack' = putBack \cup critsOf(copied)
      BY <1>6 DEF ClearKeeps, Flush
    <2>2. store \in Seq(Fine(blocks)) /\ copied \in Fine(blocks) /\ Fine(blocks) \subseteq Rounds
      BY <1>6, Kinds DEF BmmInv, RoundsFine, RoundsHeld, ClearKeeps
    <2>3. /\ tipsApart(new)
          /\ \A x \in ToSet(new) : x = copied \/ x \in ToSet(store)
      BY <2>2, SavedTips DEF OneRoundPerTip
    <2> HIDE DEF new
    <2>4. sameRounds
      BY <1>1, <2>1, <2>3 DEF sameRounds, everyRound
    <2>5. OneRoundPerTip'
      BY <2>1, <2>3 DEF OneRoundPerTip
    <2>6. \A r : settled(r) => settled(r)'
      BY <1>1, <2>1 DEF settled
    <2>7. Saving'
      BY <1>1, <2>6 DEF Saving
    <2>8. StoreKnows'
      <3>1. \A r \in {copied} : settled(r)'
        BY <2>1 DEF settled
      <3>2. \A r \in ToSet(store') : r \in {copied} \/ r \in ToSet(store)
        BY <2>1, <2>3
      <3>3. \A r \in ToSet(store') :
               settled(r)' \/ (saves' # <<>> /\ r.on = Head(saves').on)
        BY <1>1, <2>6, <3>1, <3>2 DEF StoreKnows
      <3> QED
        BY <3>3 DEF StoreKnows
    <2>9. FileKnows'
      BY <1>1, <2>1, <2>3 DEF FileKnows
    <2>10. ~misled' => Covered'
      <3>1. \A tx : ~liveIn(NoRound, tx)
        BY DEF liveIn, NoRound
      <3>2. \A r \in ToSet(store') \cup ToSet(disk') \cup ToSet(saves') :
               r \in ToSet(store) \cup ToSet(disk) \cup ToSet(saves) \cup {copied}
        BY <1>1, <2>1, <2>3
      <3> QED
        BY <1>1, <1>2, <2>1, <3>1, <3>2 DEF Covered
    <2> QED
      BY <1>2, <2>4, <2>5, <2>7, <2>8, <2>9, <2>10, SameRounds
  <1> QED
    BY <1>4, <1>5, <1>6

-----------------------------------------------------------------------------
(* The tick.                                                                *)

\* The tick takes the rounds that wait, and later the one in play.
LEMMA TakesStep ==
  ASSUME BmmInv, BmmInv', BmmHistory, TickBegins \/ SettleTakes
  PROVE  BmmHistory'
  <1> USE DEF BmmHistory
  <1>0. /\ NoRound.on = NoTip /\ critsOf(NoRound) = {}
        /\ \A tx : ~liveIn(NoRound, tx)
    BY RoundsTyped DEF liveIn, NoRound
  <1>1. /\ UNCHANGED <<broadcast, mempool, blocks, over, misled, store, disk, saves, copied,
                       filed, putBack>>
        /\ at' \notin {"record", "place"}
    BY DEF TickBegins, SettleTakes, tickOnly, chainVars, storeVars, callVars, goesTo, afterSettle
  <1>2. UNCHANGED <<newTx, sent, height>> /\ height \in Nat
    BY <1>1, TipFacts DEF newTx, sent, height
  <1>3. /\ BidsNamed' /\ SentAwaited' /\ PlacedOnTip' /\ OneRoundPerTip'
        /\ Saving' /\ StoreKnows' /\ FileKnows'
    BY <1>1, <1>2
    DEF BidsNamed, SentAwaited, PlacedOnTip, OneRoundPerTip, Saving, StoreKnows, FileKnows, settled
  <1>4. ASSUME everyRound' \subseteq everyRound \cup {NoRound}
        PROVE  RoundsPlaced'
    <2>1. \A r \in everyRound \cup {NoRound} : Placed(r)'
      BY <1>1, <1>2, StaysPlaced DEF RoundsPlaced
    <2> QED
      BY <1>4, <2>1 DEF RoundsPlaced
  <1>5. CASE TickBegins
    <2>1. /\ at = "idle" /\ at' = "retry" /\ seenTip' = height
          /\ todo' = unconnected /\ unconnected' = {} /\ UNCHANGED <<current, work>>
      BY <1>5 DEF TickBegins, tickAt
    <2>2. tipKnown' = tipKnown
      BY <1>2, <2>1 DEF tipKnown
    <2>3. RoundsPlaced'
      <3>1. everyRound' \subseteq everyRound
        BY <1>1, <2>1 DEF everyRound
      <3> QED
        BY <1>4, <3>1
    <2>4. Unjudged' /\ RoundsApart'
      BY <1>1, <2>1 DEF Unjudged, RoundsApart
    <2>5. ~misled' => Covered' /\ Behind'
      BY <1>1, <2>1, <2>2 DEF Covered, Behind
    <2> QED
      BY <1>3, <2>3, <2>4, <2>5
  <1>6. CASE SettleTakes
    <2>1. /\ at = "take" /\ work' = current /\ current' = NoRound /\ UNCHANGED <<unconnected, todo>>
          /\ \E label : goesTo(label)
      BY <1>6 DEF SettleTakes, tickAt
    <2>2. tipKnown <= tipKnown' /\ tipKnown' \in Nat /\ tipKnown \in Nat /\ tipKnown = seenTip
      <3>1. tipKnown' \in Heights
        BY DEF BmmInv, chainTypes, tickTypes, tipKnown
      <3> QED
        BY <1>1, <2>1, <3>1, GoesOn, TipFacts DEF tipKnown
    <2>3. RoundsPlaced'
      <3>1. everyRound' \subseteq everyRound \cup {NoRound}
        BY <1>1, <2>1 DEF everyRound
      <3> QED
        BY <1>4, <3>1
    <2>4. Unjudged' /\ RoundsApart'
      <3>1. \A r : apart(r, NoRound)
        BY <1>0 DEF apart
      <3> QED
        BY <1>0, <1>1, <2>1, <3>1 DEF Unjudged, RoundsApart
    <2>5. ASSUME ~misled'
          PROVE  Covered' /\ Behind'
      <3>1. Covered /\ Behind
        BY <1>1, <2>5
      <3>2. current # NoRound => current.on < seenTip
        BY <2>1, <2>2 DEF BmmInv, TickFits, RoundsFine, Playing, Waiting, Fine, Rounds, Heights
      <3>3. \A r \in everyRound : r.on \in Int /\ (r # NoRound => r.on # NoTip)
        BY RoundsTyped, BmmAssumption DEF Rounds, Heights, NoTip
      <3>4. Covered'
        <4> SUFFICES ASSUME NEW r \in ToSet(store) \cup ToSet(disk) \cup ToSet(saves) \cup {copied},
                            NEW tx \in mempool, liveIn(r, tx),
                            tipKnown' <= r.on \/ r.on = NoTip
                     PROVE  FALSE
          BY <1>1, <2>1, <1>0 DEF Covered
        <4>1. r \in everyRound /\ r # NoRound /\ r.on # NoTip /\ r.on \in Int
          BY <1>0, <3>3 DEF everyRound
        <4>2. tipKnown <= r.on
          BY <2>2, <4>1
        <4>3. current.on = r.on /\ liveIn(current, tx)
          BY <3>1, <4>2 DEF Covered
        <4> QED
          BY <1>0, <2>2, <3>2, <4>1, <4>2, <4>3
      <3>5. Behind'
        <4> SUFFICES ASSUME NEW r \in unconnected \cup todo
                     PROVE  r.on < tipKnown' /\ r.on # NoTip
          BY <1>0, <2>1 DEF Behind
        <4>1. r \in everyRound /\ r # NoRound /\ r.on < tipKnown
          BY <3>1, RoundsTyped DEF Behind, everyRound
        <4> QED
          BY <2>2, <3>3, <4>1
      <3> QED
        BY <3>4, <3>5
    <2> QED
      BY <1>3, <2>3, <2>4, <2>5
  <1> QED
    BY <1>5, <1>6

\* A round that was handled is parked behind the tip with nothing judged of it, or
\* it ended; the store learns of it with the version that the tick saves last.
LEMMA HandledStep ==
  ASSUME BmmInv, BmmInv', BmmHistory, NEW r \in todo \cup {work}, r \in Rounds, Handled(r),
         UNCHANGED <<broadcast, mempool, blocks, current, store, disk, copied, filed, misled>>,
         saves = <<>>, at' \notin {"record", "place"}, tipKnown <= tipKnown',
         todo' \subseteq todo, work' \in {work, NoRound},
         \A s \in unconnected \cup todo' \cup {current, work'} : apart(r, s),
         ~misled => r.on < tipKnown /\ r.on # current.on
  PROVE  BmmHistory'
  <1> USE DEF BmmHistory
  <1>0. /\ UNCHANGED <<newTx, sent, height>> /\ height \in Nat
        /\ tipKnown \in Nat /\ tipKnown' \in Nat /\ r.on \in Nat
        /\ ToSet(saves) = {} /\ critsOf(NoRound) = {} /\ filed \subseteq over
    <2>1. tipKnown' \in Heights
      BY DEF BmmInv, chainTypes, tickTypes, tipKnown
    <2> QED
      BY <2>1, TipFacts, Elements, RoundsTyped
      DEF newTx, sent, height, Rounds, BmmInv, historyTypes
  <1>1. critsOf(r) \cap over = {} /\ Placed(r) /\ r \in everyRound
    BY DEF Unjudged, RoundsPlaced, everyRound
  <1>2. \A s : Fate(r, s) => s \in Rounds /\ critsOf(s) = critsOf(r) /\ s.on = r.on /\ Placed(s)'
    BY <1>0, <1>1, SameCommits, StaysPlaced DEF Fate, Version
  <1> DEFINE savesLast(q) ==
               /\ q \in ToSet(saves') /\ \A s \in ToSet(saves') : Fate(r, s)
               /\ saves' # <<>> /\ Head(saves').on = r.on
               /\ \/ saves' = <<q>>
                  \/ \E v \in ToSet(saves') : /\ saves' = <<v, q>> /\ Resumable(v)
                                              /\ v.on = q.on /\ critsOf(v) = critsOf(q)
             keepsOrEnds(q) ==
               \/ unconnected' = unconnected \cup {q} /\ over' = over
               \/ /\ unconnected' = unconnected /\ ~Resumable(q)
                  /\ over' = over \/ over' = over \cup critsOf(r)
  <1>3. \/ /\ saves' = <<>> /\ ToSet(saves') = {} /\ unconnected' = unconnected
           /\ over' = over \cup critsOf(r) /\ putBack' = putBack \cup critsOf(r)
        \/ \E q : Fate(r, q) /\ putBack' = putBack /\ savesLast(q) /\ keepsOrEnds(q)
    <2>1. CASE /\ saves' = <<>> /\ unconnected' = unconnected
               /\ over' = over \cup critsOf(r) /\ putBack' = putBack \cup critsOf(r)
      BY <2>1, Elements
    <2>2. ASSUME NEW q, Fate(r, q),
                 \/ saves' = <<q>>
                 \/ \E v : Fate(r, v) /\ Resumable(v) /\ saves' = <<v, q>>
          PROVE  savesLast(q)
      <3>1. q \in Rounds /\ q.on = r.on /\ critsOf(q) = critsOf(r)
        BY <1>2, <2>2
      <3>2. CASE saves' = <<q>>
        <4>1. ToSet(<<q>>) = {q} /\ Head(<<q>>) = q /\ <<q>> # <<>>
          BY SingleElement
        <4> QED
          BY <2>2, <3>1, <3>2, <4>1
      <3>3. ASSUME NEW v, Fate(r, v), Resumable(v), saves' = <<v, q>>
            PROVE  savesLast(q)
        <4>1. v \in Rounds /\ v.on = r.on /\ critsOf(v) = critsOf(r)
          BY <1>2, <3>3
        <4>2. ToSet(<<v, q>>) = {v, q}
          BY PairElements
        <4>3. <<v, q>> # <<>> /\ Head(<<v, q>>) = v
          BY <3>1, <4>1
        <4> QED
          BY <2>2, <3>1, <3>3, <4>1, <4>2, <4>3
      <3> QED
        BY <2>2, <3>2, <3>3
    <2> QED
      BY <2>1, <2>2 DEF Handled
  <1>4. /\ over \subseteq over' /\ over' \subseteq over \cup critsOf(r)
        /\ putBack' \subseteq putBack \cup critsOf(r)
        /\ \A s \in ToSet(saves') : Fate(r, s)
        /\ \A s \in unconnected' : s \in unconnected \/ (Fate(r, s) /\ over' = over)
        /\ unconnected' = unconnected \/ \E q : unconnected' = unconnected \cup {q} /\ Fate(r, q)
    BY <1>3
  <1>5. BidsNamed'
    <2>1. \A c \in critsOf(r) : c < newTx
      BY <1>1 DEF critsOf, Placed, BidsNamed
    <2> QED
      BY <1>0, <1>4, <2>1 DEF BidsNamed
  <1>6. RoundsPlaced'
    <2>1. \A s \in everyRound' : s \in everyRound \cup {NoRound} \/ Fate(r, s)
      BY <1>4 DEF everyRound
    <2>2. \A s \in everyRound \cup {NoRound} : Placed(s)'
      BY <1>0, StaysPlaced DEF RoundsPlaced
    <2> QED
      BY <1>2, <2>1, <2>2 DEF RoundsPlaced
  <1>7. SentAwaited' /\ PlacedOnTip' /\ OneRoundPerTip'
    BY DEF SentAwaited, PlacedOnTip, OneRoundPerTip
  <1>8. Unjudged'
    <2> SUFFICES ASSUME NEW s \in unconnected' \cup todo' \cup {current, work'}
                 PROVE  critsOf(s) \cap over' = {}
      BY DEF Unjudged
    <2>1. CASE s \in unconnected \cup todo' \cup {current, work'}
      <3>1. critsOf(s) \cap over = {}
        BY <1>0, <2>1 DEF Unjudged
      <3>2. apart(r, s)
        BY <2>1
      <3> QED
        BY <1>4, <3>1, <3>2 DEF apart
    <2>2. CASE Fate(r, s) /\ over' = over
      BY <1>1, <1>2, <2>2
    <2> QED
      BY <1>4, <2>1, <2>2
  <1>9. RoundsApart'
    <2>1. /\ \A s \in unconnected \cup todo : apart(s, work')
          /\ \A s, t : apart(s, t) => apart(t, s)
      BY <1>0 DEF RoundsApart, apart
    <2>2. CASE unconnected' = unconnected
      BY <2>1, <2>2 DEF RoundsApart
    <2>3. ASSUME NEW q, unconnected' = unconnected \cup {q}, Fate(r, q)
          PROVE  RoundsApart'
      <3>1. \A s \in unconnected \cup todo' \cup {current, work'} : apart(q, s)
        BY <1>2, <2>3 DEF apart
      <3> QED
        BY <2>1, <2>3, <3>1 DEF RoundsApart
    <2> QED
      BY <1>4, <2>2, <2>3
  <1>10. Saving'
    <2>1. CASE saves' = <<>>
      BY <2>1 DEF Saving
    <2>2. CASE saves' # <<>>
      <3>1. PICK q : /\ Fate(r, q) /\ putBack' = putBack /\ q \in ToSet(saves')
                     /\ \/ saves' = <<q>>
                        \/ \E v \in ToSet(saves') : /\ saves' = <<v, q>> /\ Resumable(v)
                                                    /\ v.on = q.on /\ critsOf(v) = critsOf(q)
                     /\ ~Resumable(q) \/ over' = over
        BY <1>3, <2>2
      <3>2. settled(q)'
        BY <1>1, <1>2, <3>1 DEF settled
      <3> QED
        BY <3>1, <3>2 DEF Saving
    <2> QED
      BY <2>1, <2>2
  <1>11. StoreKnows'
    <2> SUFFICES ASSUME NEW x \in ToSet(store)
                 PROVE  settled(x)' \/ (saves' # <<>> /\ x.on = Head(saves').on)
      BY DEF StoreKnows
    <2>1. settled(x)
      BY DEF StoreKnows
    <2>2. CASE over' = over \cup critsOf(r) /\ putBack' = putBack \cup critsOf(r)
      BY <2>1, <2>2 DEF settled
    <2>3. CASE putBack' = putBack /\ saves' # <<>> /\ Head(saves').on = r.on
      <3>1. CASE x.on = r.on
        BY <2>3, <3>1
      <3>2. CASE x.on # r.on
        <4>1. Placed(x)
          BY DEF RoundsPlaced, everyRound
        <4>2. apart(x, r)
          BY <1>1, <3>2, <4>1, ByTips
        <4> QED
          BY <1>4, <2>1, <2>3, <4>2 DEF settled, apart
      <3> QED
        BY <3>1, <3>2
    <2> QED
      BY <1>3, <2>2, <2>3
  <1>12. FileKnows'
    <2>1. filed' \cap putBack' = {}
      BY <1>0, <1>1, <1>4 DEF FileKnows
    <2>2. \A s \in ToSet(saves') : critsOf(s) \cap filed = {}
      BY <1>0, <1>1, <1>2, <1>4
    <2> QED
      BY <2>1, <2>2 DEF FileKnows
  <1>13. ASSUME ~misled'
         PROVE  Covered' /\ Behind'
    <2>1. Covered /\ Behind /\ r.on < tipKnown /\ r.on # current.on
      BY <1>13
    <2>2. Covered'
      <3> SUFFICES ASSUME NEW x \in ToSet(store) \cup ToSet(disk) \cup ToSet(saves') \cup {copied},
                          NEW tx \in mempool, liveIn(x, tx),
                          tipKnown' <= x.on \/ x.on = current.on
                   PROVE  current.on = x.on /\ liveIn(current, tx)
        BY DEF Covered
      <3>1. CASE x \in ToSet(saves')
        BY <1>0, <1>2, <1>4, <2>1, <3>1
      <3>2. CASE x \in ToSet(store) \cup ToSet(disk) \cup {copied}
        <4>1. x.on \in Int
          BY <3>2, RoundsTyped DEF everyRound
        <4>2. tipKnown <= x.on \/ x.on = current.on
          BY <1>0, <4>1
        <4> QED
          BY <2>1, <3>2, <4>2 DEF Covered
      <3> QED
        BY <3>1, <3>2
    <2>3. Behind'
      <3> SUFFICES ASSUME NEW s \in unconnected' \cup todo'
                   PROVE  s.on < tipKnown' /\ s.on # current.on
        BY DEF Behind
      <3>1. CASE s \in unconnected \cup todo
        <4>1. s.on < tipKnown /\ s.on # current.on /\ s.on \in Int
          BY <2>1, <3>1, RoundsTyped DEF Behind, everyRound
        <4> QED
          BY <1>0, <4>1
      <3>2. CASE Fate(r, s)
        BY <1>0, <1>2, <2>1, <3>2
      <3> QED
        BY <1>4, <3>1, <3>2
    <2> QED
      BY <2>2, <2>3
  <1> QED
    BY <1>5, <1>6, <1>7, <1>8, <1>9, <1>10, <1>11, <1>12, <1>13

\* So it is with what retryConnects goes through.
LEMMA RetriesStep ==
  ASSUME BmmInv, BmmInv', BmmHistory, Retries
  PROVE  BmmHistory'
  <1>1. PICK r \in todo : AbandonBehindTip(r) \/ RetryUndecided(r) \/ RetryLost(r)
                            \/ RetryWon(r) \/ RetryConnects(r)
    BY DEF Retries
  <1>2. /\ Handled(r) /\ todo' = todo \ {r} /\ at = "retry" /\ saves = <<>>
        /\ UNCHANGED <<broadcast, mempool, blocks, current, store, disk, at, seenTip, work,
                       copied, filed, misled>>
    BY <1>1, RetryHandled
  <1>3. r \in Rounds
    BY RoundsTyped
  <1>4. tipKnown <= tipKnown'
    BY <1>2, TipFacts DEF tipKnown, height
  <1>5. \A s \in unconnected \cup todo' \cup {current, work'} : apart(r, s)
    BY <1>2 DEF BmmHistory, RoundsApart, apart
  <1>6. ~misled => r.on < tipKnown /\ r.on # current.on
    BY DEF BmmHistory, Behind
  <1> QED
    BY <1>2, <1>3, <1>4, <1>5, <1>6, HandledStep

\* And with the round that settleRound took.
LEMMA SettlesStep ==
  ASSUME BmmInv, BmmInv', BmmHistory, SettleParks \/ SettleWon \/ SettleLost
  PROVE  BmmHistory'
  <1>1. /\ Handled(work) /\ work' = NoRound /\ at = "settle" /\ saves = <<>>
        /\ at' \notin {"record", "place"} /\ (at' # "idle" => seenTip' = seenTip)
        /\ UNCHANGED <<broadcast, mempool, blocks, current, store, disk, todo,
                       copied, filed, misled>>
    BY SettleHandled
  <1>2. work \in Rounds /\ current = NoRound /\ work.on < seenTip /\ seenTip <= height
    BY <1>1, Kinds DEF BmmInv, RoundsFine, RoundsHeld, TickFits
  <1>3. tipKnown <= tipKnown' /\ tipKnown = seenTip
    BY <1>1, <1>2, TipFacts DEF tipKnown, height
  <1>4. \A s \in unconnected \cup todo' \cup {current, work'} : apart(work, s)
    <2>1. critsOf(NoRound) = {}
      BY RoundsTyped
    <2> QED
      BY <1>1, <1>2, <2>1 DEF BmmHistory, RoundsApart, apart
  <1>5. work.on < tipKnown /\ work.on # current.on
    BY <1>2, <1>3, RoundsTyped, BmmAssumption DEF Rounds, Heights, NoTip
  <1> QED
    BY <1>1, <1>2, <1>3, <1>4, <1>5, HandledStep

-----------------------------------------------------------------------------
(* Bids.                                                                    *)

\* No live bid of the mempool is left on the tip when the tick opens a round.
LEMMA OpenStep ==
  ASSUME BmmInv, BmmInv', BmmHistory, OpenBegins
  PROVE  BmmHistory'
  <1> USE DEF BmmHistory
  <1> DEFINE n == [on |-> seenTip, res |-> "open", bids |-> <<>>, incl |-> 0, waited |-> 0]
  <1>1. /\ at = "open" /\ at' = "place" /\ seenTip' = seenTip /\ current' = n
        /\ UNCHANGED <<broadcast, mempool, blocks, unconnected, todo, work, store, disk, saves,
                       copied, over, filed, putBack, misled>>
    BY DEF OpenBegins, tickAt, goesTo, tickOnly, chainVars, storeVars, callVars
  <1>2. current = NoRound /\ n.on = seenTip /\ n.res = "open" /\ DOMAIN n.bids = {}
    BY <1>1 DEF BmmInv, RoundsHeld
  <1>3. /\ UNCHANGED <<newTx, sent, height, tipKnown>> /\ tipKnown = seenTip
        /\ height \in Nat /\ seenTip \in Nat
    BY <1>1, TipFacts DEF newTx, sent, height, tipKnown
  <1> HIDE DEF n
  <1>4. critsOf(n) = {}
    BY <1>2 DEF critsOf
  <1>5. RoundsPlaced'
    <2>1. \A r \in everyRound' : r \in everyRound \/ r = n
      BY <1>1 DEF everyRound
    <2>2. \A r \in everyRound : Placed(r)'
      BY <1>1, <1>3, StaysPlaced DEF RoundsPlaced
    <2>3. \A r \in {n} : Placed(r)'
      BY <1>2, <1>3 DEF Placed
    <2> QED
      BY <2>1, <2>2, <2>3 DEF RoundsPlaced
  <1>6. /\ BidsNamed' /\ SentAwaited' /\ PlacedOnTip' /\ OneRoundPerTip'
        /\ Saving' /\ StoreKnows' /\ FileKnows'
    BY <1>1, <1>2, <1>3
    DEF BidsNamed, SentAwaited, PlacedOnTip, OneRoundPerTip, Saving, StoreKnows, FileKnows,
        settled
  <1>7. Unjudged' /\ RoundsApart'
    BY <1>1, <1>4 DEF Unjudged, RoundsApart, apart
  <1>8. ASSUME ~misled'
        PROVE  Covered' /\ Behind'
    <2>1. Covered /\ Behind /\ \A tx : ~liveIn(NoRound, tx)
      BY <1>1, <1>8 DEF liveIn, NoRound
    <2>2. \A r \in everyRound : r.on \in Int
      BY RoundsTyped
    <2>3. Covered'
      <3> SUFFICES ASSUME NEW r \in ToSet(store) \cup ToSet(disk) \cup ToSet(saves) \cup {copied},
                          NEW tx \in mempool, liveIn(r, tx), seenTip <= r.on \/ r.on = seenTip
                   PROVE  FALSE
        BY <1>1, <1>2, <1>3 DEF Covered
      <3>1. tipKnown <= r.on
        BY <1>3
      <3> QED
        BY <1>2, <2>1, <3>1 DEF Covered
    <2>4. Behind'
      BY <1>1, <1>2, <1>3, <2>1, <2>2 DEF Behind, everyRound
    <2> QED
      BY <2>3, <2>4
  <1> QED
    BY <1>5, <1>6, <1>7, <1>8

\* A bid goes out for the round in play, and what it replaces leaves the mempool.
LEMMA BroadcastStep ==
  ASSUME BmmInv, BmmInv', BmmHistory, at \in {"place", "raise"}, current \in Rounds,
         NEW hashes, hashes \subseteq {newTx} \cup critsOf(current),
         NEW old, Broadcasts(current.on, hashes, old), replaced' = old,
         UNCHANGED <<store, disk, saves, todo, work, copied, over, filed, putBack, misled>>
  PROVE  BmmHistory'
  <1> USE DEF BmmHistory
  <1>1. PICK b : /\ broadcast' = broadcast \cup {b} /\ b.tx = newTx /\ b.on = current.on
                 /\ b.crit \in {newTx} \cup critsOf(current)
    <2> DEFINE coin == IF old = NoTx THEN newTx ELSE (CHOOSE c \in broadcast : c.tx = old).coin
    <2>1. PICK crit \in hashes :
             broadcast' = broadcast
               \cup {[tx |-> newTx, on |-> current.on, crit |-> crit, coin |-> coin]}
      BY DEF Broadcasts
    <2> HIDE DEF coin
    <2> DEFINE b == [tx |-> newTx, on |-> current.on, crit |-> crit, coin |-> coin]
    <2>2. b.tx = newTx /\ b.on = current.on /\ b.crit = crit
      OBVIOUS
    <2> HIDE DEF b
    <2>3. broadcast' = broadcast \cup {b}
      BY <2>1 DEF b
    <2> QED
      BY <2>2, <2>3
  <1>2. /\ newTx \in Txs /\ (old # NoTx => old \in mempool)
        /\ mempool' = (mempool \ {old}) \cup {newTx}
        /\ at' = "record" /\ seenTip' = seenTip /\ UNCHANGED <<blocks, current, unconnected>>
    BY DEF Broadcasts, goesTo, memoryVars
  <1>3. /\ height' = height /\ height \in Nat /\ tipKnown' = tipKnown
        /\ newTx \in Nat
    BY <1>2, TipFacts DEF height, tipKnown, Txs
  <1>4. newTx' = newTx + 1
    <2>1. b \notin broadcast
      BY <1>1, <1>3 DEF BidsNamed
    <2>2. IsFiniteSet(broadcast)
      BY DEF BmmInv, BidsNumbered
    <2>3. Cardinality(broadcast') = Cardinality(broadcast) + 1
      BY <1>1, <2>1, <2>2, FS_AddElement
    <2> QED
      BY <1>3, <2>3 DEF newTx
  <1>5. Placed(current) /\ current \in everyRound
    BY DEF RoundsPlaced, everyRound
  <1>6. \A d \in broadcast : d.tx \in Nat /\ d.crit \in Nat /\ d.tx < newTx /\ d.crit < newTx
    BY DEF BidsNamed, BmmInv, BidsNumbered, Txs
  <1>7. b.crit = newTx \/ \E c \in broadcast : c.crit = b.crit /\ c.on = b.on
    BY <1>1, <1>5 DEF critsOf, Placed
  <1>8. BidsNamed'
    <2>1. \A c, d \in broadcast' : /\ c.tx = d.tx => c = d
                                   /\ c.crit = d.crit => c.on = d.on
      BY <1>1, <1>3, <1>6, <1>7 DEF BidsNamed
    <2>2. \A c \in broadcast' : c.tx < newTx' /\ c.crit < newTx'
      BY <1>1, <1>3, <1>4, <1>6, <1>7
    <2>3. \A c \in over' : c < newTx'
      BY <1>3, <1>4 DEF BidsNamed, BmmInv, historyTypes, Txs
    <2> QED
      BY <2>1, <2>2, <2>3 DEF BidsNamed
  <1>9. RoundsPlaced'
    <2>1. \A r \in everyRound : Placed(r)'
      BY <1>1, <1>3, StaysPlaced DEF RoundsPlaced
    <2> QED
      BY <1>2, <2>1 DEF RoundsPlaced, everyRound
  <1>10. SentAwaited'
    <2>1. sent' = b
      <3>1. Cardinality(broadcast') = newTx
        BY <1>3, <1>4, FS_CardinalityType DEF newTx, BmmInv, BidsNumbered
      <3>2. \A c \in broadcast' : c.tx = newTx => c = b
        BY <1>1, <1>3, <1>6
      <3> QED
        BY <1>1, <3>1, <3>2 DEF sent
    <2>2. replaced' \notin mempool'
      <3>1. old # newTx
        <4>1. CASE old = NoTx
          BY <1>2, <4>1 DEF NoTx, Txs
        <4>2. CASE old # NoTx
          <5>1. \E d \in broadcast : d.tx = old
            BY <1>2, <4>2 DEF BmmInv, BidsNumbered
          <5> QED
            BY <1>3, <1>6, <5>1
        <4> QED
          BY <4>1, <4>2
      <3> QED
        BY <1>2, <3>1
    <2>3. \A r \in everyRound : \A c \in critsOf(r) : c \in Nat /\ c < newTx
      BY <1>6 DEF RoundsPlaced, Placed, critsOf
    <2>4. CASE b.crit = newTx
      <3>1. b.crit \notin over
        BY <1>3, <2>4 DEF BidsNamed, BmmInv, historyTypes, Txs
      <3>2. \A r \in unconnected \cup todo : b.crit \notin critsOf(r)
        BY <1>3, <2>3, <2>4 DEF everyRound
      <3> QED
        BY <1>1, <1>2, <2>1, <2>2, <3>1, <3>2 DEF SentAwaited
    <2>5. CASE b.crit \in critsOf(current)
      <3>1. b.crit \notin over /\ \A r \in unconnected \cup todo : b.crit \notin critsOf(r)
        BY <2>5 DEF Unjudged, RoundsApart, apart
      <3> QED
        BY <1>1, <1>2, <2>1, <2>2, <3>1 DEF SentAwaited
    <2> QED
      BY <1>1, <2>4, <2>5
  <1>11. /\ PlacedOnTip' /\ OneRoundPerTip' /\ Unjudged' /\ RoundsApart'
         /\ Saving' /\ StoreKnows' /\ FileKnows'
    BY <1>2
    DEF PlacedOnTip, OneRoundPerTip, Unjudged, RoundsApart, Saving, StoreKnows, FileKnows,
        settled
  <1>12. ASSUME ~misled'
         PROVE  Covered' /\ Behind'
    <2>1. Covered /\ Behind
      BY <1>12
    <2>2. \A r \in everyRound : ~liveIn(r, newTx)
      BY <1>3, <1>6 DEF RoundsPlaced, Placed, liveIn
    <2>3. Covered'
      <3> SUFFICES ASSUME NEW r \in ToSet(store) \cup ToSet(disk) \cup ToSet(saves) \cup {copied},
                          NEW tx \in mempool', liveIn(r, tx),
                          tipKnown <= r.on \/ r.on = current.on
                   PROVE  current.on = r.on /\ liveIn(current, tx)
        BY <1>2, <1>3 DEF Covered
      <3>1. tx # newTx
        BY <2>2 DEF everyRound
      <3> QED
        BY <1>2, <2>1, <3>1 DEF Covered
    <2> QED
      BY <1>2, <1>3, <2>1, <2>3 DEF Behind
  <1> QED
    BY <1>8, <1>9, <1>10, <1>11, <1>12

\* The opening bid goes out, or its round is unwound; a raise replaces the live bid.
LEMMA BidStep ==
  ASSUME BmmInv, BmmInv', BmmHistory, PlaceBid \/ Raise
  PROVE  BmmHistory'
  <1>1. /\ at \in {"place", "raise"} /\ saves = <<>>
        /\ UNCHANGED <<store, disk, saves, todo, work, copied, over, filed, putBack, misled, offer>>
    BY DEF PlaceBid, Raise, tickAt, storeVars, callVars, historyVars
  <1>2. current # NoRound => current \in Rounds
    BY Kinds DEF BmmInv, RoundsFine
  <1>3. CASE PlaceBid /\ Broadcasts(seenTip, {newTx}, replaced) /\ UNCHANGED replaced
    <2>1. at = "place" /\ current.on = seenTip /\ current \in Rounds
      BY <1>2, <1>3 DEF PlaceBid, tickAt, BmmInv, RoundsHeld, BmmHistory, PlacedOnTip
    <2> QED
      BY <1>1, <1>3, <2>1, BroadcastStep
  <1>4. CASE Raise /\ /\ hasLive(current)
                      /\ Broadcasts(current.on, {newTx, liveBid(current).crit},
                                    liveBid(current).tx)
                      /\ replaced' = liveBid(current).tx
    <2>1. current # NoRound
      BY <1>4 DEF hasLive, liveIndex, SelectLastInSeq, NoRound
    <2>2. liveIndex(current) \in DOMAIN current.bids
          /\ liveBid(current) = current.bids[liveIndex(current)]
      BY <1>2, <1>4, <2>1, LiveIndex DEF liveBid
    <2>3. {newTx, liveBid(current).crit} \subseteq {newTx} \cup critsOf(current)
      BY <2>2 DEF critsOf
    <2> QED
      BY <1>1, <1>2, <1>4, <2>1, <2>3, BroadcastStep
  <1>5. CASE goesTo("idle") /\ UNCHANGED <<chainVars, memoryVars>>
    <2>1. tipKnown <= tipKnown' /\ at' = "idle" /\ height' = height /\ height \in Nat
      BY <1>1, <1>5, GoesOn, TipFacts DEF chainVars
    <2>2. Quiet
      BY <1>1, <1>5, <2>1 DEF Quiet, chainVars, memoryVars
    <2> QED
      BY <2>2, QuietStep
  <1>6. CASE PlaceBid /\ RetryTip /\ goesTo("idle") /\ UNCHANGED chainVars
    <2> USE DEF BmmHistory
    <2>1. /\ at = "place" /\ current.bids = <<>> /\ at' = "idle" /\ tipKnown <= tipKnown'
          /\ current' = NoRound /\ UNCHANGED <<unconnected, blocks, broadcast, mempool>>
      BY <1>1, <1>6, GoesOn DEF PlaceBid, tickAt, BmmInv, RoundsHeld, RetryTip, chainVars
    <2>2. /\ UNCHANGED <<newTx, sent, height>> /\ height \in Nat
          /\ tipKnown \in Nat /\ tipKnown' \in Nat
      <3>1. tipKnown' \in Heights
        BY DEF BmmInv, chainTypes, tickTypes, tipKnown
      <3> QED
        BY <2>1, <3>1, TipFacts DEF newTx, sent, height
    <2>3. /\ NoRound.on = NoTip /\ critsOf(NoRound) = {}
          /\ \A tx : ~liveIn(NoRound, tx) /\ ~liveIn(current, tx)
      BY <2>1, RoundsTyped DEF liveIn, NoRound
    <2>4. RoundsPlaced'
      <3>1. \A r \in everyRound \cup {NoRound} : Placed(r)'
        BY <2>1, <2>2, StaysPlaced DEF RoundsPlaced
      <3> QED
        BY <1>1, <2>1, <3>1 DEF RoundsPlaced, everyRound
    <2>5. /\ BidsNamed' /\ SentAwaited' /\ PlacedOnTip' /\ OneRoundPerTip'
          /\ Saving' /\ StoreKnows' /\ FileKnows'
      BY <1>1, <2>1, <2>2
      DEF BidsNamed, SentAwaited, PlacedOnTip, OneRoundPerTip, Saving, StoreKnows, FileKnows,
          settled
    <2>6. Unjudged' /\ RoundsApart'
      BY <1>1, <2>1, <2>3 DEF Unjudged, RoundsApart, apart
    <2>7. ASSUME ~misled'
          PROVE  Covered' /\ Behind'
      <3>1. Covered /\ Behind
        BY <1>1, <2>7
      <3>2. \A r \in everyRound : r.on \in Int /\ (r # NoRound => r.on # NoTip)
        BY RoundsTyped, BmmAssumption DEF Rounds, Heights, NoTip
      <3>3. Covered'
        <4> SUFFICES ASSUME NEW r \in ToSet(store) \cup ToSet(disk) \cup ToSet(saves) \cup {copied},
                            NEW tx \in mempool, liveIn(r, tx),
                            tipKnown' <= r.on \/ r.on = NoTip
                     PROVE  FALSE
          BY <1>1, <2>1, <2>3 DEF Covered
        <4>1. tipKnown <= r.on
          BY <2>1, <2>2, <2>3, <3>2 DEF everyRound
        <4> QED
          BY <2>3, <3>1, <4>1 DEF Covered
      <3>4. Behind'
        <4> SUFFICES ASSUME NEW r \in unconnected \cup todo
                     PROVE  r.on < tipKnown' /\ r.on # NoTip
          BY <1>1, <2>1, <2>3 DEF Behind
        <4>1. r \in everyRound /\ r # NoRound /\ r.on < tipKnown
          BY <3>1, RoundsTyped DEF Behind, everyRound
        <4> QED
          BY <2>1, <2>2, <3>2, <4>1
      <3> QED
        BY <3>3, <3>4
    <2> QED
      BY <2>4, <2>5, <2>6, <2>7
  <1> QED
    BY <1>3, <1>4, <1>5, <1>6 DEF PlaceBid, Raise

\* What the round in play commits to once its bid is recorded.
LEMMA RecordedBids ==
  ASSUME BmmInv, BidRecorded
  PROVE  /\ current \in Rounds /\ current' \in Rounds /\ current'.on = current.on
         /\ current'.res = "open"
         /\ \A i \in DOMAIN current'.bids :
               \/ current'.bids[i].tx = sent.tx /\ current'.bids[i].crit = sent.crit
               \/ /\ i \in DOMAIN current.bids
                  /\ current'.bids[i].tx = current.bids[i].tx
                  /\ current'.bids[i].crit = current.bids[i].crit
         /\ sent \in broadcast
  <1> USE DEF BmmInv
  <1> DEFINE m == bidBecomes(current, replaced, "replaced")
             b == [tx |-> sent.tx, crit |-> sent.crit, st |-> "live"]
             bs == Append(m.bids, b)
  <1>1. at = "record" /\ current' = [m EXCEPT !.bids = bs]
    BY DEF BidRecorded, tickAt
  <1>2. current \in Rounds /\ OneLive(current)
    BY <1>1, Kinds DEF RoundsFine, RoundsHeld, Fine
  <1>3. sent \in broadcast /\ sent.tx \in Txs /\ sent.crit \in Txs
    BY <1>1, LastSent DEF AnswerAwaited
  <1>4. Version(current, m)
    BY <1>2, BidBecomes
  <1>5. m \in Rounds /\ m.bids \in Seq(Bids) /\ DOMAIN m.bids = 1 .. Len(m.bids)
        /\ Len(m.bids) \in Nat /\ DOMAIN m.bids = DOMAIN current.bids
    BY <1>2, <1>4, LiveIndex, SameCommits DEF Version
  <1>6. b \in Bids /\ b.tx = sent.tx /\ b.crit = sent.crit
    BY <1>3 DEF Bids, BidStates
  <1> HIDE DEF m, b
  <1>7. /\ DOMAIN bs = 1 .. (Len(m.bids) + 1)
        /\ \A i \in DOMAIN bs : i \in DOMAIN m.bids \/ i = Len(m.bids) + 1
        /\ \A i \in DOMAIN bs : bs[i] = IF i = Len(m.bids) + 1 THEN b ELSE m.bids[i]
    BY <1>5, <1>6
  <1> HIDE DEF bs
  <1>8. current'.bids = bs
    BY <1>1, <1>5 DEF Rounds
  <1>9. current' \in Rounds /\ current'.on = current.on /\ current'.res = "open"
    BY Recorded, Kinds DEF Playing
  <1> QED
    BY <1>2, <1>3, <1>4, <1>5, <1>6, <1>7, <1>8, <1>9 DEF Version

\* Nobody else has the block of the bid that joins the round in play, and what it
\* replaced is no longer in the mempool.
LEMMA RecordStep ==
  ASSUME BmmInv, BmmInv', BmmHistory, BidRecorded
  PROVE  BmmHistory'
  <1> USE DEF BmmHistory
  <1> DEFINE c == current'
  <1>1. /\ at = "record" /\ saves = <<>> /\ saves' = <<c>> /\ at' \in {"idle", "stranded"}
        /\ UNCHANGED <<broadcast, mempool, blocks, unconnected, todo, work, store, disk,
                       copied, over, filed, putBack, misled>>
        /\ goesTo(at')
    BY DEF BidRecorded, tickAt, goesTo, tickOnly, chainVars, storeVars, callVars
  <1>2. /\ UNCHANGED <<newTx, sent, height>> /\ height \in Nat /\ filed \subseteq over
        /\ tipKnown <= tipKnown' /\ tipKnown \in Nat /\ tipKnown' \in Nat
    <2>1. tipKnown' \in Heights
      BY DEF BmmInv, chainTypes, tickTypes, tipKnown
    <2>2. tipKnown <= tipKnown'
      BY <1>1, GoesOn
    <2> QED
      BY <1>1, <2>1, <2>2, TipFacts DEF newTx, sent, height, BmmInv, historyTypes
  <1>3. /\ c \in Rounds /\ c.on = current.on /\ c.res = "open" /\ sent \in broadcast
        /\ \A i \in DOMAIN c.bids :
              \/ c.bids[i].tx = sent.tx /\ c.bids[i].crit = sent.crit
              \/ /\ i \in DOMAIN current.bids
                 /\ c.bids[i].tx = current.bids[i].tx /\ c.bids[i].crit = current.bids[i].crit
    BY RecordedBids
  <1>4. sent.on = current.on /\ replaced \notin mempool /\ sent.crit \notin over
        /\ \A r \in unconnected \cup todo : sent.crit \notin critsOf(r)
    BY <1>1 DEF SentAwaited
  <1>5. Placed(current) /\ critsOf(current) \cap over = {}
    BY DEF RoundsPlaced, everyRound, Unjudged
  <1> HIDE DEF c
  <1>6. critsOf(c) \subseteq critsOf(current) \cup {sent.crit}
    BY <1>3 DEF critsOf
  <1>7. critsOf(c) \cap over = {}
    BY <1>4, <1>5, <1>6
  <1>8. ToSet(saves') = {c} /\ saves' # <<>>
    BY <1>1, <1>3, Elements
  <1>9. RoundsPlaced'
    <2>1. \A r \in everyRound : Placed(r)'
      BY <1>1, <1>2, StaysPlaced DEF RoundsPlaced
    <2>2. \A i \in DOMAIN c.bids : \E b \in broadcast :
             b.tx = c.bids[i].tx /\ b.crit = c.bids[i].crit /\ b.on = c.on
      BY <1>3, <1>4, <1>5 DEF Placed
    <2>3. \A r \in {c} : Placed(r)'
      BY <1>1, <1>2, <1>3, <2>2 DEF Placed
    <2>4. \A r \in everyRound' : r \in everyRound \/ r \in {c}
      BY <1>1, <1>8 DEF everyRound, c
    <2> QED
      BY <2>1, <2>3, <2>4 DEF RoundsPlaced
  <1>10. BidsNamed' /\ SentAwaited' /\ PlacedOnTip' /\ OneRoundPerTip'
    BY <1>1, <1>2 DEF BidsNamed, SentAwaited, PlacedOnTip, OneRoundPerTip
  <1>11. Unjudged'
    BY <1>1, <1>7 DEF Unjudged, c
  <1>12. RoundsApart'
    <2>1. \A r \in unconnected \cup todo : apart(r, c)
      BY <1>4, <1>6 DEF RoundsApart, apart
    <2> QED
      BY <1>1, <2>1 DEF RoundsApart, c
  <1>13. Saving' /\ StoreKnows' /\ FileKnows'
    <2>1. \A r \in {c} : settled(r)'
      BY <1>1, <1>7 DEF settled
    <2>2. Saving'
      BY <1>1, <1>8, <2>1 DEF Saving
    <2>3. \A r \in ToSet(store) : settled(r)'
      BY <1>1 DEF StoreKnows, settled
    <2>4. StoreKnows'
      BY <1>1, <2>3 DEF StoreKnows
    <2>5. FileKnows'
      BY <1>1, <1>2, <1>7, <1>8 DEF FileKnows
    <2> QED
      BY <2>2, <2>4, <2>5
  <1>14. ASSUME ~misled'
         PROVE  Covered' /\ Behind'
    <2>1. Covered /\ Behind
      BY <1>1, <1>14
    <2>2. \A tx \in mempool : ~liveIn(current, tx)
      BY <1>1, <1>4 DEF BmmInv, AnswerAwaited, liveIn
    <2>3. \A r \in everyRound : r.on \in Int
      BY RoundsTyped
    <2>4. Covered'
      <3> SUFFICES ASSUME NEW r \in ToSet(store) \cup ToSet(disk) \cup {c} \cup {copied},
                          NEW tx \in mempool, liveIn(r, tx),
                          tipKnown' <= r.on \/ r.on = c.on
                   PROVE  c.on = r.on /\ liveIn(c, tx)
        BY <1>1, <1>8 DEF Covered, c
      <3>1. CASE r = c
        BY <3>1
      <3>2. CASE r \in ToSet(store) \cup ToSet(disk) \cup {copied}
        <4>1. tipKnown <= r.on \/ r.on = current.on
          BY <1>2, <1>3, <2>3, <3>2 DEF everyRound
        <4> QED
          BY <2>1, <2>2, <3>2, <4>1 DEF Covered
      <3> QED
        BY <3>1, <3>2
    <2>5. Behind'
      <3> SUFFICES ASSUME NEW r \in unconnected \cup todo
                   PROVE  r.on < tipKnown' /\ r.on # c.on
        BY <1>1 DEF Behind, c
      <3> QED
        BY <1>2, <1>3, <2>1, <2>3 DEF Behind, everyRound
    <2> QED
      BY <2>4, <2>5
  <1> QED
    BY <1>9, <1>10, <1>11, <1>12, <1>13, <1>14

\* The round that owned the stranded bid is saved as the store had it, but for the
\* bid that was replaced.
LEMMA StrandedStep ==
  ASSUME BmmInv, BmmInv', BmmHistory, MarkStranded
  PROVE  BmmHistory'
  <1> USE DEF BmmHistory
  <1>1. /\ at = "stranded" /\ saves = <<>> /\ at' = "idle" /\ goesTo("idle")
        /\ UNCHANGED <<broadcast, mempool, blocks, current, unconnected, todo, work, store, disk,
                       copied, over, filed, putBack, misled>>
    BY DEF MarkStranded, tickAt, goesTo, tickOnly, chainVars, memoryVars, storeVars, callVars
  <1>2. /\ UNCHANGED <<newTx, sent, height>> /\ height \in Nat /\ filed \subseteq over
        /\ tipKnown <= tipKnown' /\ tipKnown \in Nat /\ tipKnown' \in Nat
    <2>1. tipKnown' \in Heights
      BY DEF BmmInv, chainTypes, tickTypes, tipKnown
    <2>2. tipKnown <= tipKnown'
      BY <1>1, GoesOn
    <2> QED
      BY <1>1, <2>1, <2>2, TipFacts DEF newTx, sent, height, BmmInv, historyTypes
  <1>3. \/ saves' = <<>> /\ ToSet(saves') = {}
        \/ \E r \in ToSet(store) : \E s :
              /\ saves' = <<s>> /\ ToSet(saves') = {s}
              /\ Fate(r, s) /\ (Resumable(s) => Resumable(r))
              /\ \A tx : liveIn(s, tx) => liveIn(r, tx)
    <2> DEFINE owning == {i \in 1 .. Len(store) : \E j \in DOMAIN store[i].bids :
                                                     store[i].bids[j].tx = replaced}
               k == IF owning # {} THEN Min(owning) ELSE 0
               r == store[k]
               s == bidBecomes(r, replaced, "replaced")
    <2>1. saves' = IF k = 0 THEN <<>> ELSE <<s>>
      BY DEF MarkStranded, SelectInSeq
    <2>2. store \in Seq(Fine(blocks)) /\ Len(store) \in Nat /\ owning \subseteq Nat
      BY DEF BmmInv, RoundsFine
    <2>3. owning # {} => Min(owning) \in owning
      BY <2>2, MinFact
    <2> HIDE DEF owning
    <2>4. CASE k = 0
      BY <2>1, <2>4, Elements
    <2>5. CASE k # 0
      <3>1. k \in 1 .. Len(store)
        BY <2>3, <2>5 DEF owning
      <3>2. r \in ToSet(store)
        BY <2>2, <3>1 DEF ToSet
      <3> HIDE DEF k
      <3>3. r \in Rounds /\ OneLive(r)
        BY <3>2, RoundsTyped DEF Fine
      <3>4. saves' = <<s>>
        BY <2>1, <2>5
      <3> HIDE DEF r
      <3>5. /\ Version(r, s) /\ s.res = r.res /\ (hasLive(s) => hasLive(r))
            /\ \A i \in DOMAIN s.bids : s.bids[i].st = "live" =>
                                          r.bids[i].st = "live" /\ r.bids[i].tx # replaced
        BY <3>3, BidBecomes
      <3> HIDE DEF s
      <3>6. Fate(r, s) /\ (Resumable(s) => Resumable(r)) /\ s \in Rounds
        BY <3>5 DEF Fate, Resumable, Version
      <3>7. DOMAIN s.bids = DOMAIN r.bids
        BY <3>3, <3>5, SameCommits
      <3>8. \A tx : liveIn(s, tx) => liveIn(r, tx)
        BY <3>5, <3>7 DEF liveIn, Version
      <3>9. ToSet(saves') = {s}
        BY <3>4, <3>6, Elements
      <3> QED
        BY <3>2, <3>4, <3>6, <3>8, <3>9
    <2> QED
      BY <2>4, <2>5
  <1>4. \A r \in ToSet(store) : \A s : Fate(r, s) =>
           /\ s \in Rounds /\ critsOf(s) = critsOf(r) /\ s.on = r.on /\ Placed(s)'
    <2>1. \A r \in ToSet(store) : r \in Rounds /\ Placed(r)
      BY RoundsTyped DEF RoundsPlaced, everyRound
    <2> QED
      BY <1>1, <1>2, <2>1, SameCommits, StaysPlaced DEF Fate, Version
  <1>5. RoundsPlaced'
    <2>1. \A r \in everyRound : Placed(r)'
      BY <1>1, <1>2, StaysPlaced DEF RoundsPlaced
    <2>2. \A r \in everyRound' : r \in everyRound \/ r \in ToSet(saves')
      BY <1>1 DEF everyRound
    <2>3. \A s \in ToSet(saves') : Placed(s)'
      BY <1>3, <1>4
    <2> QED
      BY <2>1, <2>2, <2>3 DEF RoundsPlaced
  <1>6. /\ BidsNamed' /\ SentAwaited' /\ PlacedOnTip' /\ OneRoundPerTip'
        /\ Unjudged' /\ RoundsApart'
    BY <1>1, <1>2
    DEF BidsNamed, SentAwaited, PlacedOnTip, OneRoundPerTip, Unjudged, RoundsApart
  <1>7. Saving' /\ StoreKnows' /\ FileKnows'
    <2>1. \A r \in ToSet(store) : settled(r) /\ settled(r)'
      BY <1>1 DEF StoreKnows, settled
    <2>2. \A s \in ToSet(saves') : settled(s)'
      BY <1>1, <1>3, <1>4, <2>1 DEF settled
    <2>3. Saving'
      BY <1>3, <2>2 DEF Saving
    <2>4. StoreKnows'
      BY <1>1, <2>1 DEF StoreKnows
    <2>5. FileKnows'
      BY <1>1, <1>3, <1>4 DEF FileKnows
    <2> QED
      BY <2>3, <2>4, <2>5
  <1>8. ASSUME ~misled'
        PROVE  Covered' /\ Behind'
    <2>1. Covered /\ Behind
      BY <1>1, <1>8
    <2>2. \A r \in everyRound : r.on \in Int
      BY RoundsTyped
    <2>3. Covered'
      <3> SUFFICES ASSUME NEW x \in ToSet(store) \cup ToSet(disk) \cup ToSet(saves') \cup {copied},
                          NEW tx \in mempool, liveIn(x, tx),
                          tipKnown' <= x.on \/ x.on = current.on
                   PROVE  current.on = x.on /\ liveIn(current, tx)
        BY <1>1 DEF Covered
      <3>1. PICK r \in ToSet(store) \cup ToSet(disk) \cup {copied} : x.on = r.on /\ liveIn(r, tx)
        BY <1>3, <1>4
      <3>2. tipKnown <= r.on \/ r.on = current.on
        BY <1>2, <2>2, <3>1 DEF everyRound
      <3> QED
        BY <2>1, <3>1, <3>2 DEF Covered
    <2>4. Behind'
      <3> SUFFICES ASSUME NEW r \in unconnected \cup todo
                   PROVE  r.on < tipKnown' /\ r.on # current.on
        BY <1>1 DEF Behind
      <3> QED
        BY <1>2, <2>1, <2>2 DEF Behind, everyRound
    <2> QED
      BY <2>3, <2>4
  <1> QED
    BY <1>5, <1>6, <1>7, <1>8

-----------------------------------------------------------------------------
(* The theorems about what was judged and what is bid.                      *)

\* At the start no bid is out and no file has a round.
LEMMA InitHistory == BmmInit => BmmHistory
  <1> SUFFICES ASSUME BmmInit PROVE BmmHistory
    OBVIOUS
  <1>1. /\ ToSet(<<>>) = {} /\ critsOf(NoRound) = {} /\ NoRound.on = -1
        /\ DOMAIN NoRound.bids = {} /\ Len(<<>>) = 0
    BY Elements DEF critsOf, NoRound, NoTip
  <1>2. ToSet(store) = {} /\ ToSet(disk) = {} /\ ToSet(saves) = {} /\ height = 0
    BY <1>1 DEF BmmInit, height
  <1>3. BidsNamed /\ SentAwaited /\ PlacedOnTip
    BY DEF BmmInit, BidsNamed, SentAwaited, PlacedOnTip
  <1>4. RoundsPlaced
    BY <1>1, <1>2 DEF BmmInit, RoundsPlaced, Placed, everyRound
  <1>5. OneRoundPerTip
    BY <1>1 DEF BmmInit, OneRoundPerTip, tipsApart
  <1>6. Unjudged /\ RoundsApart
    BY <1>1 DEF BmmInit, Unjudged, RoundsApart
  <1>7. Saving /\ StoreKnows /\ FileKnows
    BY <1>2 DEF BmmInit, Saving, StoreKnows, FileKnows
  <1>8. Covered /\ Behind
    BY <1>1, <1>2 DEF BmmInit, Covered, Behind
  <1> QED
    BY <1>3, <1>4, <1>5, <1>6, <1>7, <1>8 DEF BmmHistory

\* What a step hands to the sidechain comes from a round of which nothing was
\* judged.
LEMMA OfferStep ==
  ASSUME BmmInv, BmmHistory, [BmmNext]_bmmVars, offer' # offer, offer' # NoCrit
  PROVE  offer' \notin over
  <1>1. ASSUME NEW r \in todo \cup {work}, Handled(r)
        PROVE  offer' \notin over
    <2>1. critsOf(r) \cap over = {}
      BY DEF BmmHistory, Unjudged
    <2> QED
      BY <1>1, <2>1 DEF Handled
  <1>2. CASE Retries
    BY <1>1, <1>2, RetryHandled DEF Retries
  <1>3. CASE SettleParks \/ SettleWon \/ SettleLost
    BY <1>1, <1>3, SettleHandled
  <1>4. CASE Mine \/ Restart \/ SaveRound \/ Calls \/ UNCHANGED bmmVars
    BY <1>4 DEF Mine, Restart, SaveRound, Calls, StartSets, StartSaves, StopSets, StopSaves,
       ClearDrops, ClearCopies, ClearKeeps, historyVars, bmmVars
  <1>5. CASE TickBegins \/ RetryEnds \/ MarkTip \/ SettleTakes \/ OpenBegins \/ PlaceBid \/ Raise
               \/ BidRecorded \/ AnswerLost \/ MarkStranded
    BY <1>5 DEF TickBegins, RetryEnds, MarkTip, SettleTakes, OpenBegins, PlaceBid, Raise,
       BidRecorded, AnswerLost, MarkStranded, historyVars
  <1> QED
    BY <1>2, <1>3, <1>4, <1>5 DEF BmmNext, TickSteps

\* A bid that goes out on a tip leaves no live bid of ours on it in the mempool.
LEMMA SecondBidStep ==
  ASSUME BmmInv, BmmHistory, [BmmNext]_bmmVars, ~misled,
         NEW b \in broadcast' \ broadcast, NEW c \in broadcast,
         c.on = b.on, c.tx \in mempool',
         NEW r \in ToSet(disk), liveIn(r, c.tx)
  PROVE  FALSE
  <1> USE DEF BmmHistory
  <1>1. PlaceBid \/ Raise
    <2>1. CASE Retries
      BY <2>1, RetryHandled DEF Retries
    <2>2. CASE SettleParks \/ SettleWon \/ SettleLost
      BY <2>2, SettleHandled
    <2>3. CASE Mine \/ Restart \/ SaveRound \/ Calls \/ UNCHANGED bmmVars
      BY <2>3 DEF Mine, Restart, SaveRound, Calls, StartSets, StartSaves, StopSets, StopSaves,
         ClearDrops, ClearCopies, ClearKeeps, chainVars, bmmVars
    <2>4. CASE TickBegins \/ RetryEnds \/ MarkTip \/ SettleTakes \/ OpenBegins
                 \/ BidRecorded \/ AnswerLost \/ MarkStranded
      BY <2>4 DEF TickBegins, RetryEnds, MarkTip, SettleTakes, OpenBegins,
         BidRecorded, AnswerLost, MarkStranded, tickOnly, chainVars
    <2> QED
      BY <2>1, <2>2, <2>3, <2>4 DEF BmmNext, TickSteps
  <1>2. at \in {"place", "raise"} /\ (at = "place" => current.bids = <<>>)
        /\ (at = "place" => current.on = seenTip) /\ tipKnown = seenTip
    BY <1>1 DEF PlaceBid, Raise, tickAt, BmmInv, RoundsHeld, PlacedOnTip, tipKnown
  <1>3. PICK old, hashes :
           /\ Broadcasts(current.on, hashes, old)
           /\ at = "raise" => hasLive(current) /\ old = liveBid(current).tx
    <2>1. CASE PlaceBid
      <3>1. Broadcasts(seenTip, {newTx}, replaced) /\ at = "place"
        BY <2>1 DEF PlaceBid, tickAt, chainVars
      <3> QED
        BY <1>2, <3>1
    <2>2. CASE Raise
      BY <2>2 DEF Raise, chainVars
    <2> QED
      BY <1>1, <2>1, <2>2
  <1>4. b.on = current.on /\ b.tx = newTx /\ mempool' = (mempool \ {old}) \cup {newTx}
    <2> DEFINE coin == IF old = NoTx THEN newTx ELSE (CHOOSE d \in broadcast : d.tx = old).coin
    <2>1. PICK crit \in hashes :
             broadcast' = broadcast
               \cup {[tx |-> newTx, on |-> current.on, crit |-> crit, coin |-> coin]}
      BY <1>3 DEF Broadcasts
    <2> HIDE DEF coin
    <2>2. b = [tx |-> newTx, on |-> current.on, crit |-> crit, coin |-> coin]
      BY <2>1
    <2> QED
      BY <1>3, <2>2 DEF Broadcasts
  <1>5. c.tx \in mempool /\ c.tx # old
    <2>1. c.tx < newTx /\ c.tx \in Nat /\ newTx \in Nat
      <3>1. newTx \in Txs
        BY <1>3 DEF Broadcasts
      <3> QED
        BY <3>1 DEF BidsNamed, BmmInv, BidsNumbered, Txs
    <2> QED
      BY <1>4, <2>1
  <1>6. r.on = current.on
    <2>1. Placed(r)
      BY DEF RoundsPlaced, everyRound
    <2> QED
      BY <1>4, <2>1 DEF liveIn, Placed, BidsNamed
  <1>7. liveIn(current, c.tx)
    BY <1>5, <1>6 DEF Covered
  <1>8. CASE at = "place"
    BY <1>2, <1>7, <1>8 DEF liveIn
  <1>9. CASE at = "raise"
    <2>1. hasLive(current) /\ old = liveBid(current).tx
      BY <1>3, <1>9
    <2>2. current \in Rounds /\ OneLive(current)
      <3>1. current # NoRound
        BY <1>7 DEF liveIn, NoRound
      <3> QED
        BY <3>1, Kinds DEF BmmInv, RoundsFine, Fine
    <2>3. liveIndex(current) \in DOMAIN current.bids
          /\ current.bids[liveIndex(current)].st = "live"
          /\ liveBid(current) = current.bids[liveIndex(current)]
      BY <2>1, <2>2, LiveIndex DEF liveBid
    <2> QED
      BY <1>5, <1>7, <2>1, <2>2, <2>3 DEF liveIn, OneLive
  <1> QED
    BY <1>2, <1>8, <1>9

\* What the tick, the store and the file hold of the past stays true: every step
\* keeps it when no Start falls into a tick.
THEOREM BmmHistoryKept ==
  ASSUME ~MayOverlap
  PROVE  BmmSpec => []BmmHistory
  <1>1. BmmInv /\ BmmInv' /\ BmmHistory /\ [BmmNext]_bmmVars => BmmHistory'
    <2> SUFFICES ASSUME BmmInv, BmmInv', BmmHistory, [BmmNext]_bmmVars PROVE BmmHistory'
      OBVIOUS
    <2>1. CASE \/ Mine \/ StartSets \/ StartSaves \/ StopSets \/ StopSaves
               \/ RetryEnds \/ MarkTip \/ AnswerLost \/ UNCHANGED bmmVars
      BY <2>1, QuietSteps, QuietStep
    <2>2. CASE Restart
      BY <2>2, RestartStep
    <2>3. CASE SaveRound
      BY <2>3, SaveStep
    <2>4. CASE ClearDrops \/ ClearCopies \/ ClearKeeps
      BY <2>4, ClearStep
    <2>5. CASE TickBegins \/ SettleTakes
      BY <2>5, TakesStep
    <2>6. CASE Retries
      BY <2>6, RetriesStep
    <2>7. CASE SettleParks \/ SettleWon \/ SettleLost
      BY <2>7, SettlesStep
    <2>8. CASE OpenBegins
      BY <2>8, OpenStep
    <2>9. CASE PlaceBid \/ Raise
      BY <2>9, BidStep
    <2>10. CASE BidRecorded
      BY <2>10, RecordStep
    <2>11. CASE MarkStranded
      BY <2>11, StrandedStep
    <2> QED
      BY <2>1, <2>2, <2>3, <2>4, <2>5, <2>6, <2>7, <2>8, <2>9, <2>10, <2>11
      DEF BmmNext, TickSteps, Calls
  <1> QED
    BY <1>1, InitHistory, BmmInvariant, PTL DEF BmmSpec

\* The engine never offers the sidechain a block whose round was retired, connected
\* or abandoned, restarts included.
THEOREM OfferedOnce ==
  ASSUME ~MayOverlap
  PROVE  BmmSpec => JudgedOnce
  <1>1. BmmInv /\ BmmHistory /\ [BmmNext]_bmmVars =>
          [offer' # offer /\ offer' # NoCrit => offer' \notin over]_bmmVars
    BY OfferStep
  <1> QED
    BY <1>1, BmmInvariant, BmmHistoryKept, PTL DEF BmmSpec, JudgedOnce

\* Unless a restart took an older round for the one in play, the engine never bids
\* twice on a tip: what goes out replaces the live bid the file has there.
THEOREM OneBidPerTip ==
  ASSUME ~MayOverlap
  PROVE  BmmSpec => NoSecondBid
  <1>1. BmmInv /\ BmmHistory /\ [BmmNext]_bmmVars =>
          [~misled => \A b \in broadcast' \ broadcast : \A c \in broadcast :
             ~ /\ c.on = b.on /\ c.tx \in mempool'
               /\ \E r \in ToSet(disk) : \E i \in DOMAIN r.bids :
                    r.bids[i].tx = c.tx /\ r.bids[i].st = "live"]_bmmVars
    <2> SUFFICES ASSUME BmmInv, BmmHistory, [BmmNext]_bmmVars, ~misled,
                        NEW b \in broadcast' \ broadcast, NEW c \in broadcast,
                        c.on = b.on, c.tx \in mempool',
                        NEW r \in ToSet(disk), liveIn(r, c.tx)
                 PROVE  FALSE
      BY DEF liveIn
    <2> QED
      BY SecondBidStep
  <1> QED
    BY <1>1, BmmInvariant, BmmHistoryKept, PTL DEF BmmSpec, NoSecondBid
=============================================================================
