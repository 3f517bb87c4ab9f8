----------------------------- MODULE BmmEngine -----------------------------
(***************************************************************************)
(* The blind merged mining engine of drivechaind for one sidechain         *)
(* (engines/bmm_engine.go, engines/bmmstate/store.go).  A round is one     *)
(* mainchain tip: the engine bids on it, raises the bid, and once the next *)
(* block is there settles the round: lost, or won and then offered to the  *)
(* sidechain until that one judges it.  One goroutine ticks under passMu;  *)
(* Start, Stop and ClearHistory are calls that take e.mu only, so they run *)
(* between its steps.  Rounds and the target are saved to files whose      *)
(* write may fail, and the daemon may die between any two steps.           *)
(*                                                                         *)
(* A mainchain block is its height, a bid its transaction, a critical hash *)
(* the first bid that carried it.  Amounts, wallets and rivals' bids are   *)
(* left out: whether to raise is a free choice.                            *)
(***************************************************************************)
EXTENDS Integers, FiniteSets, Sequences, SequencesExt

CONSTANTS
    MaxHeight,      \* bound on the mainchain
    MaxBids,        \* bound on the bids we broadcast
    Attempts,       \* bmmConnectAttempts
    Horizon,        \* bmmConnectHorizon
    MaxFaults,      \* bound on unread answers, failed writes and cleared files
    MaxCrashes,     \* bound on crashes
    MayOverlap      \* whether a Start may run while a tick does

ASSUME BmmAssumption ==
    /\ MaxHeight \in Nat /\ MaxBids \in Nat /\ MaxFaults \in Nat /\ MaxCrashes \in Nat
    /\ Attempts \in Nat \ {0} /\ Horizon \in Nat
    /\ MayOverlap \in BOOLEAN

VARIABLES
    blocks,         \* environment: the bid and the commitment of each block
    broadcast,      \* environment: the bids we ever broadcast
    mempool,        \* environment: those of them the mempool holds
    target,         \* Stopped, or the lastTip of the running target
    current,        \* the round being bid on, or NoRound
    unconnected,    \* rounds that wait for their block or their verdict
    store, storeTarget,     \* the store's memory: rounds newest first, target
    disk, diskTarget,       \* the two files
    at,             \* where the tick is
    snap, seenTip,  \* its copy of the target and the tip it read
    todo,           \* the rounds retryConnects still goes through
    work,           \* the round settleRound took
    replaced,       \* the stranded or live bid that placeBid replaces
    saves,          \* versions of a round the tick saves next
    call, previous, \* the Start or Stop in flight, the target it found
    clearAt, copied,    \* the ClearHistory in flight and its copy
    offer,          \* history: the block the last step handed to the sidechain
    over, filed,    \* history: the blocks judged or given up; in the file, too
    putBack,        \* history: those whose round the file has as undecided again
    misled,         \* history: a restart ever took an older round for the one in play
    faults, crashes \* so far

chainVars  == <<blocks, broadcast, mempool>>
memoryVars == <<target, current, unconnected>>
storeVars  == <<store, disk>>
targetVars == <<storeTarget, diskTarget>>
tickVars   == <<at, snap, seenTip, todo, work, replaced, saves>>
callVars   == <<call, previous, clearAt, copied>>
historyVars == <<offer, over, filed, putBack, misled, faults, crashes>>
bmmVars == <<chainVars, memoryVars, storeVars, targetVars, tickVars, callVars, historyVars>>

NoTip   == -1
Stopped == -2
Heights == 0 .. MaxHeight
Targets == Heights \cup {NoTip, Stopped}
Txs     == 1 .. MaxBids
NoTx    == 0
NoCrit  == 0                \* the commitment of a block that took no bid of ours

BidStates == {"live", "replaced", "connected", "missed", "failed"}
Bids   == [tx : Txs, crit : Txs, st : BidStates]
NoBid  == [tx |-> NoTx, crit |-> NoCrit, st |-> "failed"]
Rounds == [on : Heights, res : {"open", "won", "lost"}, bids : Seq(Bids),
           incl : Heights, waited : 0 .. Attempts]
NoRound == [on |-> NoTip, res |-> "lost", bids |-> <<>>, incl |-> 0, waited |-> 0]

height == Len(blocks)
Pending == current # NoRound \/ unconnected # {}

BmmTypeOK ==
    /\ blocks \in Seq([tx : Txs \cup {NoTx}, crit : Txs \cup {NoCrit}])
    /\ height \in Heights
    /\ broadcast \subseteq [tx : Txs, on : Heights, crit : Txs, coin : Txs]
    /\ mempool \subseteq Txs
    /\ target \in Targets /\ snap \in Targets /\ previous \in Targets
    /\ current \in Rounds \cup {NoRound} /\ copied \in Rounds \cup {NoRound}
    /\ unconnected \subseteq Rounds /\ todo \subseteq Rounds
    /\ store \in Seq(Rounds) /\ disk \in Seq(Rounds)
    /\ storeTarget \in BOOLEAN /\ diskTarget \in BOOLEAN
    /\ at \in {"idle", "retry", "mark", "take", "settle", "open", "place",
               "record", "stranded", "raise"}
    /\ seenTip \in Heights
    /\ work \in Rounds \cup {NoRound}
    /\ replaced \in Txs \cup {NoTx}
    /\ saves \in Seq(Rounds)
    /\ call \in {"none", "start", "stop"}
    /\ clearAt \in {"idle", "copies", "keeps"}
    /\ offer \in Txs \cup {NoCrit}
    /\ over \subseteq Txs /\ filed \subseteq over /\ putBack \subseteq Txs
    /\ misled \in BOOLEAN /\ faults \in 0 .. MaxFaults /\ crashes \in 0 .. MaxCrashes

BmmInit ==
    /\ blocks = <<>> /\ broadcast = {} /\ mempool = {}
    /\ target = Stopped /\ current = NoRound /\ unconnected = {}
    /\ store = <<>> /\ disk = <<>> /\ storeTarget = FALSE /\ diskTarget = FALSE
    /\ at = "idle" /\ snap = Stopped /\ seenTip = 0 /\ todo = {}
    /\ work = NoRound /\ replaced = NoTx /\ saves = <<>>
    /\ call = "none" /\ previous = Stopped /\ clearAt = "idle" /\ copied = NoRound
    /\ offer = NoCrit /\ over = {} /\ filed = {} /\ putBack = {} /\ misled = FALSE
    /\ faults = 0 /\ crashes = 0

Fault == faults < MaxFaults /\ faults' = faults + 1

-----------------------------------------------------------------------------
(* Rounds and the store.                                                   *)

liveIndex(r) == SelectLastInSeq(r.bids, LAMBDA b : b.st = "live")
hasLive(r)   == liveIndex(r) # 0
liveBid(r)   == IF hasLive(r) THEN r.bids[liveIndex(r)] ELSE NoBid

critsOf(r) == {r.bids[i].crit : i \in DOMAIN r.bids}
crits(rounds) == UNION {critsOf(r) : r \in ToSet(rounds)}

\* The live bid takes a new state.
liveBecomes(r, st) ==
    IF hasLive(r) THEN [r EXCEPT !.bids[liveIndex(r)].st = st] ELSE r

bidBecomes(r, tx, st) ==
    [r EXCEPT !.bids = [i \in DOMAIN @ |->
        IF @[i].tx = tx THEN [@[i] EXCEPT !.st = st] ELSE @[i]]]

\* Save: insert or replace a round by its tip, the newest insertion first.
saved(rounds, r) ==
    LET i == SelectInSeq(rounds, LAMBDA s : s.on = r.on)
    IN  IF i # 0 THEN ReplaceAt(rounds, i, r) ELSE Cons(r, rounds)

Flush(new) == \/ disk' = new /\ UNCHANGED faults
              \/ Fault /\ UNCHANGED disk

\* What load makes of the rounds in the file.
InPlay(r)    == r.res = "open" /\ hasLive(r)
Resumable(r) == r.res \in {"open", "won"} /\ hasLive(r)
resumesNoTip(rounds) == NoTip
resumedTip(rounds) ==
    LET i == SelectInSeq(rounds, InPlay)
    IN  IF i = 0 THEN NoTip ELSE rounds[i].on
resumedCurrent(rounds) ==
    LET i == SelectInSeq(rounds, InPlay)
    IN  IF i = 0 THEN NoRound ELSE rounds[i]
resumedWaiting(rounds) ==
    {r \in ToSet(rounds) : Resumable(r) /\ r # resumedCurrent(rounds)}

-----------------------------------------------------------------------------
(* The environment.                                                        *)

\* A block takes one of our bids on its parent, even one that we replaced, or
\* none of ours.  What shares the coin of a mined bid is void.
Mine ==
    /\ height < MaxHeight
    /\ \/ blocks' = Append(blocks, [tx |-> NoTx, crit |-> NoCrit]) /\ UNCHANGED mempool
       \/ \E b \in broadcast :
            /\ b.on = height
            /\ blocks' = Append(blocks, [tx |-> b.tx, crit |-> b.crit])
            /\ mempool' = mempool \ {c.tx : c \in {d \in broadcast : d.coin = b.coin}}
    /\ UNCHANGED <<broadcast, memoryVars, storeVars, targetVars, tickVars, callVars, historyVars>>

mined(tx) == \E h \in DOMAIN blocks : blocks[h].tx = tx

\* The daemon dies and starts again.
Restart ==
    /\ crashes < MaxCrashes /\ crashes' = crashes + 1
    /\ store' = disk /\ storeTarget' = diskTarget
    /\ target' = IF diskTarget THEN resumedTip(disk) ELSE Stopped
    /\ current' = resumedCurrent(disk)
    /\ unconnected' = resumedWaiting(disk)
    /\ at' = "idle" /\ snap' = Stopped /\ seenTip' = 0 /\ todo' = {}
    /\ work' = NoRound /\ replaced' = NoTx /\ saves' = <<>>
    /\ call' = "none" /\ previous' = Stopped /\ clearAt' = "idle" /\ copied' = NoRound
    /\ offer' = NoCrit
    /\ over' = filed /\ putBack' = {}
    /\ misled' = (misled \/ \E r \in ToSet(disk) : InPlay(r) /\ r.on > resumedCurrent(disk).on)
    /\ UNCHANGED <<chainVars, disk, diskTarget, filed, faults>>

-----------------------------------------------------------------------------
(* The files and the calls.                                                *)

tickOnly == <<chainVars, targetVars, callVars, over, filed, putBack, misled, crashes>>

\* The tick saves the next version of a round.
SaveRound ==
    /\ saves # <<>>
    /\ store' = saved(store, Head(saves))
    /\ Flush(store')
    /\ saves' = Tail(saves)
    /\ offer' = NoCrit
    /\ putBack' = IF Resumable(Head(saves)) THEN putBack ELSE putBack \ critsOf(Head(saves))
    /\ filed' = IF saves' = <<>> /\ disk' = store'
                  THEN filed \cup ((over \cap crits(store')) \ putBack') ELSE filed
    /\ UNCHANGED <<memoryVars, at, snap, seenTip, todo, work, replaced, chainVars, targetVars,
                   callVars, over, misled, crashes>>

\* Start: the target goes to memory first, then to the file.
StartSets ==
    /\ call = "none" /\ (MayOverlap \/ at = "idle")
    /\ call' = "start" /\ previous' = target
    /\ target' = CASE target # Stopped    -> target
                   [] current # NoRound   -> current.on
                   [] OTHER               -> NoTip
    /\ UNCHANGED <<chainVars, current, unconnected, storeVars, targetVars, tickVars,
                   clearAt, copied, historyVars>>

StartSaves ==
    /\ call = "start"
    /\ call' = "none" /\ previous' = Stopped
    /\ storeTarget' = TRUE
    /\ \/ diskTarget' = TRUE /\ UNCHANGED <<target, faults>>
       \/ Fault /\ target' = previous /\ UNCHANGED diskTarget
    /\ UNCHANGED <<chainVars, current, unconnected, storeVars, tickVars,
                   clearAt, copied, offer, over, filed, putBack, misled, crashes>>

StopSets ==
    /\ call = "none"
    /\ call' = "stop" /\ previous' = target
    /\ target' = Stopped
    /\ UNCHANGED <<chainVars, current, unconnected, storeVars, targetVars, tickVars,
                   clearAt, copied, historyVars>>

\* DeleteTarget writes no file when the store's memory has no target.
StopSaves ==
    /\ call = "stop"
    /\ call' = "none" /\ previous' = Stopped
    /\ storeTarget' = FALSE
    /\ \/ ~storeTarget /\ UNCHANGED <<target, diskTarget, faults>>
       \/ storeTarget /\ diskTarget' = FALSE /\ UNCHANGED <<target, faults>>
       \/ /\ storeTarget /\ Fault /\ UNCHANGED diskTarget
          /\ target' = IF previous # Stopped THEN previous ELSE target
    /\ UNCHANGED <<chainVars, current, unconnected, storeVars, tickVars,
                   clearAt, copied, offer, over, filed, putBack, misled, crashes>>

\* ClearHistory: drop the rounds, copy the round in play, save the copy.
ClearDrops ==
    /\ clearAt = "idle" /\ Fault
    /\ store' = <<>>
    /\ \/ disk' = <<>> /\ clearAt' = "copies"
       \/ UNCHANGED <<disk, clearAt>>
    /\ UNCHANGED <<chainVars, memoryVars, targetVars, tickVars, call, previous, copied,
                   offer, over, filed, putBack, misled, crashes>>

ClearCopies ==
    /\ clearAt = "copies"
    /\ copied' = current
    /\ clearAt' = IF current = NoRound THEN "idle" ELSE "keeps"
    /\ UNCHANGED <<chainVars, memoryVars, storeVars, targetVars, tickVars, call, previous,
                   historyVars>>

ClearKeeps ==
    /\ clearAt = "keeps"
    /\ store' = saved(store, copied) /\ Flush(store')
    /\ filed' = filed \ critsOf(copied) /\ putBack' = putBack \cup critsOf(copied)
    /\ clearAt' = "idle" /\ copied' = NoRound
    /\ UNCHANGED <<chainVars, memoryVars, targetVars, tickVars, call, previous,
                   offer, over, misled, crashes>>

-----------------------------------------------------------------------------
(* The tick: what is won.                                                  *)

commitment(h) == IF h = 0 THEN NoCrit ELSE blocks[h].crit
matches(r, h) == {i \in DOMAIN r.bids : r.bids[i].crit = commitment(h)}

\* recordWinner: of several bids that carry the commitment, the mined one; when
\* none of them is mined, the round stays undecided.
winners(r, h) ==
    IF Cardinality(matches(r, h)) <= 1 THEN matches(r, h)
    ELSE {i \in matches(r, h) : mined(r.bids[i].tx)}
winner(r, h) == CHOOSE i \in winners(r, h) : TRUE
noWinner(r, h) == matches(r, h) = {}
unclear(r, h)  == matches(r, h) # {} /\ winners(r, h) = {}
won(r, h) ==
    [liveBecomes(r, "missed") EXCEPT !.bids[winner(r, h)].st = "live",
                                     !.res = "won", !.incl = h]
lost(r)      == [liveBecomes(r, "missed") EXCEPT !.res = "lost"]
connected(r) == [liveBecomes(r, "connected") EXCEPT !.res = "won"]
retiresNothing(r) == r
retired(r)   == liveBecomes(r, "failed")
includes(r, h) == [r EXCEPT !.incl = h]

\* The attempt that is now made is the last one.
neverSpent(r) == FALSE
spent(r) == at = "retry" /\ r.waited + 1 >= Attempts

\* connectWon offers the live bid's block and the main block that carries it.
\* The sidechain takes it, refuses it, or does not judge it yet.
offers(r, step) ==
    /\ step \in {"done", "retire", "retry"}
    /\ offer' = liveBid(r).crit
    /\ over' = IF step # "retry" \/ spent(r) THEN over \cup critsOf(r) ELSE over

parksInFileOnly(r, versions) == saves' = versions /\ UNCHANGED unconnected
parks(r, versions) ==
    /\ unconnected' = unconnected \cup {r}
    /\ saves' = versions

ends(versions) == saves' = versions /\ UNCHANGED unconnected

\* A round that was not judged waits for the next tick, Attempts times at most.
waits(r, before) ==
    LET w == [r EXCEPT !.waited = @ + 1]
    IN  IF ~spent(r)
          THEN parks(w, before \o <<w>>)
          ELSE ends(before \o (IF r.res = "won" THEN <<retired(w)>> ELSE <<>>))

-----------------------------------------------------------------------------
(* The tick: rounds that wait.                                             *)

tickAt(label) == at = label /\ saves = <<>>

\* The tick goes on, or is over and forgets what it read.
goesTo(label) ==
    /\ at' = label
    /\ IF label = "idle" THEN snap' = Stopped /\ seenTip' = 0
                         ELSE UNCHANGED <<snap, seenTip>>

TickBegins ==
    /\ tickAt("idle") /\ (MayOverlap \/ call # "start")
    /\ target # Stopped \/ Pending
    /\ at' = "retry"
    /\ snap' = target /\ seenTip' = height
    /\ todo' = unconnected /\ unconnected' = {}
    /\ UNCHANGED <<tickOnly, target, current, storeVars, work, replaced, saves, offer, faults>>

behindTip(r) == r.incl > 0 /\ seenTip - r.incl > Horizon

retryUnchanged ==
    <<chainVars, targetVars, callVars, filed, misled, crashes, target, current, storeVars,
      at, snap, seenTip, work, replaced>>

AbandonBehindTip(r) ==
    /\ tickAt("retry") /\ r \in todo /\ behindTip(r)
    /\ todo' = todo \ {r}
    /\ ends(<<liveBecomes(r, "missed")>>)
    /\ over' = over \cup critsOf(r)
    /\ UNCHANGED <<retryUnchanged, putBack, offer, faults>>

retries(r) == tickAt("retry") /\ r \in todo /\ ~behindTip(r) /\ todo' = todo \ {r}

\* settleOutrunRound has no deciding block to name, fails to read the block, its
\* commitment or a bid, or finds none of the matching bids mined.
RetryUndecided(r) ==
    /\ retries(r) /\ r.res = "open"
    /\ \E h \in {r.incl, r.on + 1} :
          /\ \/ seenTip <= r.on /\ h = r.incl /\ UNCHANGED faults
             \/ seenTip > r.on /\ Fault
             \/ seenTip > r.on /\ unclear(r, r.on + 1) /\ h = r.on + 1 /\ UNCHANGED faults
          /\ waits(includes(r, h), <<>>)
    /\ over' = IF spent(r) THEN over \cup critsOf(r) ELSE over
    /\ putBack' = IF spent(r) THEN putBack \cup critsOf(r) ELSE putBack
    /\ UNCHANGED <<retryUnchanged, offer>>

RetryLost(r) ==
    /\ retries(r) /\ r.res = "open" /\ seenTip > r.on
    /\ noWinner(r, r.on + 1)
    /\ ends(<<lost(includes(r, r.on + 1))>>)
    /\ UNCHANGED <<retryUnchanged, putBack, offer, over, faults>>

RetryWon(r) ==
    /\ retries(r) /\ r.res = "open" /\ seenTip > r.on
    /\ winners(r, r.on + 1) # {}
    /\ LET w == [won(r, r.on + 1) EXCEPT !.waited = 0]
       IN  \E step \in {"done", "retire", "retry"} :
             /\ offers(w, step)
             /\ CASE step = "done"   -> ends(<<connected(w)>>)
                  [] step = "retire" -> ends(<<w, retired(w)>>)
                  [] step = "retry"  -> waits(w, <<w>>)
    /\ UNCHANGED <<retryUnchanged, putBack, faults>>

RetryConnects(r) ==
    /\ retries(r) /\ r.res = "won"
    /\ \E step \in {"done", "retire", "retry"} :
          /\ offers(r, step)
          /\ CASE step = "done"   -> ends(<<connected(r)>>)
               [] step = "retire" -> ends(<<retired(r)>>)
               [] step = "retry"  -> waits(r, <<>>)
    /\ UNCHANGED <<retryUnchanged, putBack, faults>>

\* A stopped sidechain only settles; one that bids raises, or opens a round.
RetryEnds ==
    /\ tickAt("retry") /\ todo = {}
    /\ goesTo(CASE snap = Stopped /\ current # NoRound /\ current.on # seenTip -> "take"
               [] snap = Stopped /\ (current = NoRound \/ current.on = seenTip) -> "idle"
               [] snap = seenTip -> "raise"
               [] OTHER -> "mark")
    /\ UNCHANGED <<tickOnly, memoryVars, storeVars, todo, work, replaced,
                   saves, offer, faults>>

-----------------------------------------------------------------------------
(* The tick: the round the new tip closed.                                 *)

\* markTip does nothing for a target that was stopped since.
MarkTip ==
    /\ tickAt("mark")
    /\ IF target = Stopped THEN goesTo("idle") /\ UNCHANGED target
                            ELSE goesTo("take") /\ target' = seenTip
    /\ UNCHANGED <<tickOnly, current, unconnected, storeVars, todo, work,
                   replaced, saves, offer, faults>>

afterSettle == IF snap = Stopped THEN "idle" ELSE "open"

SettleTakes ==
    /\ tickAt("take")
    /\ work' = current /\ current' = NoRound
    /\ goesTo(IF current = NoRound THEN afterSettle ELSE "settle")
    /\ UNCHANGED <<tickOnly, target, unconnected, storeVars, todo, replaced,
                   saves, offer, faults>>

settles == tickAt("settle") /\ goesTo(afterSettle) /\ work' = NoRound
settleUnchanged ==
    <<chainVars, targetVars, callVars, filed, putBack, misled, crashes, target, current, storeVars,
      todo, replaced>>

\* The tip ran past the block that decides the round.
outrun(r) == hasLive(r) /\ seenTip > r.on + 1

\* The block that decides the round, as far as the tick can tell.
deciderIsTip(r) == seenTip
decider(r) == IF outrun(r) THEN r.on + 1 ELSE seenTip

\* The commitment of the tip, the deciding block or a bid cannot be read, or
\* none of the matching bids was mined.
SettleParks ==
    /\ settles /\ hasLive(work)
    /\ \/ Fault /\ parks(work, <<work>>)
       \/ /\ outrun(work) \/ Cardinality(matches(work, seenTip)) > 1
          /\ \E h \in {seenTip, decider(work)} :
                /\ \/ Fault
                   \/ unclear(work, decider(work)) /\ h = decider(work) /\ UNCHANGED faults
                /\ parks(includes(work, h), <<includes(work, h)>>)
    /\ UNCHANGED <<settleUnchanged, offer, over>>

SettleWon ==
    /\ settles /\ winners(work, decider(work)) # {}
    /\ LET w == [won(work, decider(work)) EXCEPT !.waited = IF outrun(work) THEN 0 ELSE @]
       IN  \E step \in {"done", "retire", "retry"} :
             /\ offers(w, step)
             /\ CASE step = "done"   -> ends(<<connected(w)>>)
                  [] step = "retire" -> ends(IF outrun(work) THEN <<w, retired(w)>>
                                                             ELSE <<retired(w)>>)
                  [] step = "retry"  -> parks(w, <<w>>)
    /\ UNCHANGED <<settleUnchanged, faults>>

SettleLost ==
    /\ settles /\ noWinner(work, decider(work))
    /\ ends(<<lost(includes(work, decider(work)))>>)
    /\ UNCHANGED <<settleUnchanged, offer, over, faults>>

-----------------------------------------------------------------------------
(* The tick: bids.                                                         *)

newTx == Cardinality(broadcast) + 1
sent  == CHOOSE b \in broadcast : b.tx = Cardinality(broadcast)

\* Our bids that a stored round names, still in the mempool on another parent.
stranded ==
    {b \in broadcast : b.tx \in mempool /\
        \E r \in ToSet(store) : r.on # seenTip /\ \E i \in DOMAIN r.bids : r.bids[i].tx = b.tx}

\* The round becomes the current one; its opening bid replaces the oldest
\* stranded bid, when the mempool can be read.
OpenBegins ==
    /\ tickAt("open")
    /\ goesTo("place")
    /\ current' = [on |-> seenTip, res |-> "open", bids |-> <<>>, incl |-> 0, waited |-> 0]
    /\ \/ stranded = {} /\ replaced' = NoTx /\ UNCHANGED faults
       \/ \E b \in stranded : /\ \A c \in stranded : b.on <= c.on
                               /\ replaced' = b.tx /\ UNCHANGED faults
       \/ stranded # {} /\ Fault /\ replaced' = NoTx
    /\ UNCHANGED <<tickOnly, target, unconnected, storeVars, todo, work,
                   saves, offer>>

\* SendTransaction broadcasts a bid that spends the coin of the bid it replaces.
Broadcasts(on, hashes, old) ==
    /\ newTx \in Txs /\ (old # NoTx => old \in mempool)
    /\ \E crit \in hashes :
          broadcast' = broadcast \cup
            {[tx |-> newTx, on |-> on, crit |-> crit,
              coin |-> IF old = NoTx THEN newTx
                       ELSE (CHOOSE b \in broadcast : b.tx = old).coin]}
    /\ mempool' = (mempool \ {old}) \cup {newTx}
    /\ goesTo("record")
    /\ UNCHANGED <<blocks, memoryVars>>

\* retryTip unwinds the round, so that the next tick opens it again.
RetryTip ==
    /\ current' = NoRound
    /\ target' = IF target = seenTip THEN NoTip ELSE target
    /\ UNCHANGED unconnected

\* The opening bid goes out, is refused for now, or fails.
PlaceBid ==
    /\ tickAt("place")
    /\ \/ Broadcasts(seenTip, {newTx}, replaced) /\ UNCHANGED replaced
       \/ RetryTip /\ goesTo("idle") /\ replaced' = NoTx /\ UNCHANGED chainVars
       \/ goesTo("idle") /\ replaced' = NoTx /\ UNCHANGED <<chainVars, memoryVars>>
    /\ UNCHANGED <<targetVars, callVars, storeVars, todo, work, saves,
                   historyVars>>

\* maybeRaise and rebuildStaleBid replace the live bid, or leave it alone.  The
\* new template may be the old one.
Raise ==
    /\ tickAt("raise")
    /\ \/ /\ hasLive(current)
          /\ Broadcasts(current.on, {newTx, liveBid(current).crit}, liveBid(current).tx)
          /\ replaced' = liveBid(current).tx
       \/ goesTo("idle") /\ UNCHANGED <<chainVars, memoryVars, replaced>>
    /\ UNCHANGED <<targetVars, callVars, storeVars, todo, work, saves,
                   historyVars>>

\* The answer of CreateBid: the bid joins its round, or nobody hears of it.
BidRecorded ==
    /\ tickAt("record")
    /\ current' = [bidBecomes(current, replaced, "replaced") EXCEPT
                     !.bids = Append(@, [tx |-> sent.tx, crit |-> sent.crit, st |-> "live"])]
    /\ saves' = <<current'>>
    /\ goesTo(IF snap = seenTip \/ replaced = NoTx THEN "idle" ELSE "stranded")
    /\ replaced' = IF at' = "idle" THEN NoTx ELSE replaced
    /\ UNCHANGED <<tickOnly, target, unconnected, storeVars, todo, work,
                   offer, faults>>

AnswerLost ==
    /\ tickAt("record") /\ Fault
    /\ goesTo("idle") /\ replaced' = NoTx
    /\ UNCHANGED <<tickOnly, memoryVars, storeVars, todo, work, saves, offer>>

\* The round that owns the stranded bid learns what replaced it.
MarkStranded ==
    /\ tickAt("stranded")
    /\ LET owns(r) == \E i \in DOMAIN r.bids : r.bids[i].tx = replaced
           i == SelectInSeq(store, owns)
       IN  saves' = IF i = 0 THEN <<>> ELSE <<bidBecomes(store[i], replaced, "replaced")>>
    /\ goesTo("idle") /\ replaced' = NoTx
    /\ UNCHANGED <<tickOnly, memoryVars, storeVars, todo, work, offer, faults>>

-----------------------------------------------------------------------------

Retries == \E r \in todo : \/ AbandonBehindTip(r) \/ RetryUndecided(r) \/ RetryLost(r)
                          \/ RetryWon(r) \/ RetryConnects(r)

TickSteps ==
    \/ TickBegins \/ Retries \/ RetryEnds \/ MarkTip
    \/ SettleTakes \/ SettleParks \/ SettleWon \/ SettleLost
    \/ OpenBegins \/ PlaceBid \/ Raise \/ BidRecorded \/ AnswerLost \/ MarkStranded
    \/ SaveRound

Calls == \/ StartSets \/ StartSaves \/ StopSets \/ StopSaves
         \/ ClearDrops \/ ClearCopies \/ ClearKeeps

BmmNext == TickSteps \/ Calls \/ Mine \/ Restart

BmmSpec == BmmInit /\ [][BmmNext]_bmmVars

\* The goroutine of Run keeps ticking; no fault is due.
BmmFairness == WF_bmmVars(TickSteps /\ UNCHANGED faults)

BmmFairSpec == BmmSpec /\ BmmFairness

-----------------------------------------------------------------------------

\* Every version of a round that memory or a file still has.
known == (ToSet(store) \cup ToSet(disk) \cup unconnected \cup todo \cup ToSet(saves)
             \cup {current, work}) \ {NoRound}

\* No version of a round, in memory or in the file, is settled as lost when the
\* block on its tip carries the commitment of one of its bids: settleRound,
\* settleOutrunRound and retryConnects never write off a block we paid for,
\* however late they look and whatever they could not read before.
PaidBlockNotLost ==
    \A r \in known :
        r.res = "lost" /\ r.on < height => matches(r, r.on + 1) = {}

\* connectWon never offers a block whose round was already retired, connected or
\* abandoned, and a restart does not make it forget once the round's last save
\* reached the file.  (What ClearHistory put back, or was given up undecided, a
\* restart takes up again, and so it does a verdict that is not in the file yet.)
JudgedOnce ==
    [][offer' # offer /\ offer' # NoCrit => offer' \notin over]_bmmVars

\* The engine never broadcasts a bid on a tip while the file holds a live bid of
\* ours on that tip which the mempool keeps: openRound after a restart, and a
\* raise by placeBid, replace the bid or leave it alone.  (Unless a restart took
\* an older round for the one in play: load trusts the file to list the newest
\* round first, and ClearHistory may leave it in another order.)
NoSecondBid ==
    [][~misled => \A b \in broadcast' \ broadcast : \A c \in broadcast :
         ~ /\ c.on = b.on /\ c.tx \in mempool'
           /\ \E r \in ToSet(disk) : \E i \in DOMAIN r.bids :
                r.bids[i].tx = c.tx /\ r.bids[i].st = "live"]_bmmVars

recorded(tx) == \E r \in ToSet(disk) : \E i \in DOMAIN r.bids : r.bids[i].tx = tx
isOver(tx) == \E b \in broadcast : b.tx = tx /\ b.crit \in over

\* Once calls no longer come, the ticks bring every bid that a block took and
\* that is in the file to an end, restarts included: its block is judged by the
\* sidechain, or retryConnects gives it up.
PaidBlockJudged ==
    <>[](call = "none") =>
    []<>(\A tx \in Txs : mined(tx) /\ recorded(tx) => isOver(tx))
=============================================================================
