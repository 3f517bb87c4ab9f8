--------------------------- MODULE ProcessProofs ---------------------------
(***************************************************************************)
(* Proofs about the process manager, for every set of slots, callers and   *)
(* runs and any number of crashes.  The core of the invariant is about the *)
(* children whose goroutine still waits: such a child is in the table, or  *)
(* Remove took one from that slot, and a slot whose start is in flight has *)
(* no such child.                                                          *)
(***************************************************************************)
EXTENDS ProcessManager, TLAPS

\* The entry of a run that this daemon forked, or adopted.
Child(r)    == Entry(r, FALSE)
Adopted(r)  == Entry(r, TRUE)

waits(r)    == reaper[Child(r)] = "waiting"
starting(n) == startAt[n] \in {"reserved", "forked", "registered"}
newborn(n)  == startAt[n] \in {"forked", "registered"}

\* A goroutine waits only for a child that this daemon forked.
ReaperOfOwn ==
    /\ \A r \in Runs : reaper[Child(r)] # "none" => r \in own
    /\ \A r \in own : os[r] # "unborn"

\* The run of a start that is not on record yet is new.
NewbornFresh ==
    \A n \in Names : newborn(n) =>
        /\ startRun[n] \in own /\ nameOf[startRun[n]] = n
        /\ reaper[Child(startRun[n])] = "none"

\* A live child has its goroutine, or is the run of the start in flight.
LiveHasKeeper ==
    \A r \in own : os[r] = "alive" =>
        waits(r) \/ (newborn(nameOf[r]) /\ startRun[nameOf[r]] = r)

\* A child whose goroutine waits is in the table.
WaitingTracked ==
    \A r \in own : waits(r) =>
        processes[nameOf[r]] = Child(r) \/ LostChild(nameOf[r])

\* A slot with a start in flight has no child whose goroutine waits.
SlotWasFree ==
    \A n \in Names : starting(n) =>
        \A r \in own : nameOf[r] = n /\ waits(r) => LostChild(n)

\* A registered run stays in the table until its goroutine is there.
RegisteredTracked ==
    \A n \in Names : startAt[n] = "registered" =>
        processes[n] = Child(startRun[n]) \/ LostChild(n)

\* A daemon that is down, or adopts, has no child and starts none; the slots it
\* still has to look at have no goroutine.
AdoptsAlone ==
    /\ (adopting # {} \/ ~daemon.up) => own = {} /\ \A n \in Names : startAt[n] = "out"
    /\ \A e \in Entries : nameOf[e.run] \in adopting => reaper[e] = "none"
    /\ \A n \in Names : pidFile[n] # NoRun => nameOf[pidFile[n]] = n

\* An entry whose goroutine is past the table does not come back to it.
GoneUntracked ==
    /\ \A e \in Entries : reaper[e] \in {"untracked", "unfiled", "done"} =>
                            processes[nameOf[e.run]] # e
    /\ \A e \in exitClosed : reaper[e] = "done"

Core == /\ ReaperOfOwn /\ NewbornFresh /\ LiveHasKeeper
        /\ WaitingTracked /\ SlotWasFree /\ RegisteredTracked
        /\ AdoptsAlone /\ GoneUntracked /\ ExitOrRunning

\* A goroutine that has seen the end of its process: it has left the table, and
\* may have closed the exit channel.
Gone(e) == reaper[e] \in {"untracked", "unfiled"} \/ e \in exitClosed

\* The slot shows the entry that last took it, only a dead process is gone, and
\* the exit of one that is gone stays on record until another entry takes the
\* slot, or Remove lost a child that ends later.
LatestTracked == \A n \in Names : processes[n] # NoEntry => latest[n] = processes[n]
GoneIsDead    == \A e \in Entries : Gone(e) => os[e.run] = "dead"
GoneOnRecord  == \A e \in Entries :
    Gone(e) /\ latest[nameOf[e.run]] = e =>
        lastExited[nameOf[e.run]] = e \/ LostChild(nameOf[e.run])

Record == LatestTracked /\ GoneIsDead /\ GoneOnRecord

ProcessInv == ProcessTypeOK /\ Core /\ Record

-----------------------------------------------------------------------------

\* An entry is told by its run and by whether it was adopted.
\* NoEntry is no entry.
LEMMA EntryFacts ==
    /\ NoRun \notin Runs /\ NoEntry \notin Entries
    /\ \A r \in Runs, a \in BOOLEAN : Entry(r, a) \in Entries
  BY ProcessAssumption DEF Entry, Entries, NoEntry, Runs, NoRun

\* An entry is told by its run and by whether it was adopted.
LEMMA ChildFacts ==
    /\ \A r \in Runs : /\ Child(r) \in Entries /\ Child(r) # NoEntry
                        /\ Child(r).run = r /\ ~Child(r).adopted
    /\ \A r \in Runs : /\ Adopted(r) \in Entries /\ Adopted(r) # NoEntry
                        /\ Adopted(r).run = r /\ Adopted(r).adopted
    /\ \A r, q \in Runs : Child(r) = Child(q) => r = q
    /\ \A r, q \in Runs : Adopted(r) = Adopted(q) => r = q
    /\ \A r, q \in Runs : Child(r) # Adopted(q)
    /\ \A e \in Entries : /\ e.run \in Runs
                           /\ IF e.adopted THEN e = Adopted(e.run) ELSE e = Child(e.run)
    /\ NoRun \notin Runs /\ NoEntry \notin Entries
  BY ProcessAssumption DEF Child, Adopted, Entry, Entries, NoEntry, Runs, NoRun

\* The invariant holds at first: there is no child yet.
LEMMA InvInit == ProcessInit => ProcessInv
  <1> SUFFICES ASSUME ProcessInit PROVE ProcessInv
    OBVIOUS
  <1>1. ProcessTypeOK
    BY ProcessAssumption DEF ProcessInit, ProcessTypeOK, Slots, Goroutine
  <1>2. Core
    BY ChildFacts DEF Core, ProcessInit, ReaperOfOwn, NewbornFresh, LiveHasKeeper, WaitingTracked,
       SlotWasFree, RegisteredTracked, AdoptsAlone, GoneUntracked, ExitOrRunning, newborn,
       starting, waits
  <1>3. Record
    BY DEF Record, ProcessInit, LatestTracked, GoneIsDead, GoneOnRecord, Gone
  <1> QED
    BY <1>1, <1>2, <1>3 DEF ProcessInv

\* Every step keeps the types.
LEMMA TypeStep ==
  ASSUME ProcessTypeOK, [ProcessNext]_processVars
  PROVE  ProcessTypeOK'
  <1> USE ProcessAssumption, EntryFacts
      DEF ProcessTypeOK, tables, starts, stops, history, Slots, Goroutine
  <1>1. ASSUME NEW n \in Names, Start(n) PROVE ProcessTypeOK'
    <2>1. CASE Reserve(n)
      BY <2>1 DEF Reserve
    <2>2. CASE StartFails(n)
      BY <2>2 DEF StartFails
    <2>3. ASSUME NEW r \in Runs, Fork(n, r) PROVE ProcessTypeOK'
      BY <2>3 DEF Fork
    <2>4. CASE Register(n)
      <3>1. startRun[n] \in Runs \cup {NoRun}
        OBVIOUS
      <3>2. Entry(startRun[n], FALSE) \in Slots
        BY <3>1 DEF NoEntry
      <3> QED
        BY <2>4, <3>2 DEF Register, withoutLastExit
    <2>5. CASE WritePidFile(n)
      BY <2>5 DEF WritePidFile
    <2>6. CASE StartReturns(n)
      BY <2>6 DEF StartReturns
    <2> QED
      BY <1>1, <2>1, <2>2, <2>3, <2>4, <2>5, <2>6 DEF Start
  <1>2. ASSUME NEW e \in Entries, Reap(e) PROVE ProcessTypeOK'
    <2>1. CASE Untrack(e)
      BY <2>1 DEF Untrack
    <2>2. CASE WatchEnds(e)
      BY <2>2 DEF WatchEnds
    <2>3. CASE DeletePidFile(e)
      BY <2>3 DEF DeletePidFile
    <2>4. CASE closeExit(e)
      BY <2>4 DEF closeExit
    <2> QED
      BY <1>2, <2>1, <2>2, <2>3, <2>4 DEF Reap
  <1>3. ASSUME NEW s \in Stoppers, Stop(s) PROVE ProcessTypeOK'
    <2>1. ASSUME NEW n \in Names, StopLooksUp(s, n) PROVE ProcessTypeOK'
      BY <2>1 DEF StopLooksUp
    <2>2. CASE StopSignals(s)
      BY <2>2 DEF StopSignals
    <2>3. CASE StopReturns(s)
      BY <2>3 DEF StopReturns
    <2>4. CASE StopKills(s)
      BY <2>4 DEF StopKills
    <2> QED
      BY <1>3, <2>1, <2>2, <2>3, <2>4 DEF Stop
  <1>4. ASSUME NEW n \in Names, NEW r \in Runs, AdoptProcess(n, r) PROVE ProcessTypeOK'
    BY <1>4 DEF AdoptProcess, adopt, withoutLastExit
  <1>5. ASSUME NEW n \in Names, AdoptOrphan(n) PROVE ProcessTypeOK'
    <2>1. CASE Alive(pidFile[n])
      <3>1. pidFile[n] \in Runs
        BY <2>1 DEF Alive
      <3>2. PICK r \in Runs : r = pidFile[n]
        BY <3>1
      <3>3. adopt(n, r) /\ UNCHANGED pidFile /\ adopting' = adopting \ {n}
            /\ UNCHANGED <<os, nameOf, starts, exitClosed, stops, removing, daemon, own, dropped>>
        BY <1>5, <2>1, <3>2 DEF AdoptOrphan
      <3> QED
        BY <3>3 DEF adopt, withoutLastExit
    <2>2. CASE ~Alive(pidFile[n])
      BY <1>5, <2>2 DEF AdoptOrphan
    <2> QED
      BY <2>1, <2>2
  <1>6. ASSUME NEW x \in Removers, NEW n \in Names, SeesAdopted(x, n) PROVE ProcessTypeOK'
    BY <1>6 DEF SeesAdopted
  <1>7. ASSUME NEW x \in Removers, NEW n \in Names, Remove(x, n) PROVE ProcessTypeOK'
    BY <1>7 DEF Remove
  <1>8. ASSUME NEW r \in Runs, Dies(r) PROVE ProcessTypeOK'
    BY <1>8 DEF Dies
  <1>9. ASSUME NEW r \in Runs, StartedElsewhere(r) PROVE ProcessTypeOK'
    BY <1>9 DEF StartedElsewhere
  <1>10. CASE DaemonDies
    BY <1>10 DEF DaemonDies
  <1>11. CASE DaemonStarts
    BY <1>11 DEF DaemonStarts
  <1>12. CASE UNCHANGED processVars
    BY <1>12 DEF processVars
  <1> QED
    BY <1>1, <1>2, <1>3, <1>4, <1>5, <1>6, <1>7, <1>8, <1>9, <1>10, <1>11, <1>12 DEF ProcessNext

\* What the steps need of the types.
Shape ==
    /\ nameOf \in [Runs -> Names] /\ own \subseteq Runs /\ exitClosed \subseteq Entries
    /\ DOMAIN os = Runs /\ DOMAIN processes = Names /\ DOMAIN lastExited = Names
    /\ DOMAIN startAt = Names /\ DOMAIN startRun = Names /\ DOMAIN pidFile = Names
    /\ DOMAIN reaper = Entries /\ DOMAIN latest = Names

\* They follow from the types.
LEMMA ShapeFacts == ProcessTypeOK => Shape
  BY DEF ProcessTypeOK, Shape


\* A slot is reserved when it is empty, so no child of it waits.
LEMMA CoreReserve ==
  ASSUME ProcessTypeOK, Core, NEW n \in Names, Reserve(n)
  PROVE  Core'
  <1> USE ShapeFacts DEF Core, Shape
  <1>1. /\ processes[n] = NoEntry /\ startAt[n] = "out" /\ adopting = {} /\ daemon.up
        /\ startAt' = [startAt EXCEPT ![n] = "reserved"]
        /\ startRun' = [startRun EXCEPT ![n] = NoRun]
        /\ UNCHANGED <<os, nameOf, processes, lastExited, pidFile, reaper, exitClosed, daemon,
                       adopting, own, dropped>>
    BY DEF Reserve, slotFree, serving, tables, history
  <1>2. \A r \in own : nameOf[r] = n /\ waits(r) => LostChild(n)
    BY <1>1, ChildFacts DEF WaitingTracked
  <1>3. \A m : LostChild(m) => LostChild(m)'
    BY <1>1, <1>2 DEF LostChild
  <1>4. ReaperOfOwn'
    BY <1>1, <1>2 DEF ReaperOfOwn
  <1>5. NewbornFresh'
    BY <1>1, <1>2 DEF NewbornFresh, newborn
  <1>6. LiveHasKeeper'
    BY <1>1, <1>2 DEF LiveHasKeeper, newborn, waits
  <1>7. WaitingTracked'
    BY <1>1, <1>2, <1>3 DEF WaitingTracked, waits
  <1>8. SlotWasFree'
    BY <1>1, <1>2, <1>3 DEF SlotWasFree, starting, waits
  <1>9. RegisteredTracked'
    BY <1>1, <1>2, <1>3 DEF RegisteredTracked
  <1>10. AdoptsAlone'
    BY <1>1, <1>2 DEF AdoptsAlone
  <1>11. GoneUntracked'
    BY <1>1, <1>2 DEF GoneUntracked
  <1>12. ExitOrRunning'
    BY <1>1, <1>2 DEF ExitOrRunning
  <1> QED
    BY <1>4, <1>5, <1>6, <1>7, <1>8,
       <1>9, <1>10, <1>11, <1>12

\* A start that fails after its reservation, or returns, only gives it back.
LEMMA CoreStartEnds ==
  ASSUME ProcessTypeOK, Core, NEW n \in Names, StartFails(n) \/ StartReturns(n)
  PROVE  Core'
  <1> USE ShapeFacts DEF Core, Shape
  <1>1. /\ startAt[n] \in {"reserved", "started"}
        /\ startAt' = [startAt EXCEPT ![n] = "out"]
        /\ \A m \in Names : m # n => startRun'[m] = startRun[m]
        /\ UNCHANGED <<os, nameOf, processes, lastExited, pidFile, reaper, exitClosed, daemon,
                       adopting, own, dropped>>
    BY DEF StartFails, StartReturns, tables, history
  <1>2. \A m : LostChild(m) => LostChild(m)'
    BY <1>1 DEF LostChild
  <1>3. ReaperOfOwn'
    BY <1>1 DEF ReaperOfOwn
  <1>4. NewbornFresh'
    BY <1>1 DEF NewbornFresh, newborn
  <1>5. LiveHasKeeper'
    BY <1>1 DEF LiveHasKeeper, newborn, waits
  <1>6. WaitingTracked'
    BY <1>1, <1>2 DEF WaitingTracked, waits
  <1>7. SlotWasFree'
    BY <1>1, <1>2 DEF SlotWasFree, starting, waits
  <1>8. RegisteredTracked'
    BY <1>1, <1>2 DEF RegisteredTracked
  <1>9. AdoptsAlone'
    BY <1>1 DEF AdoptsAlone
  <1>10. GoneUntracked'
    BY <1>1 DEF GoneUntracked
  <1>11. ExitOrRunning'
    BY <1>1 DEF ExitOrRunning
  <1> QED
    BY <1>3, <1>4, <1>5, <1>6, <1>7,
       <1>8, <1>9, <1>10, <1>11

\* The run that is forked had no goroutine.
LEMMA CoreFork ==
  ASSUME ProcessTypeOK, Core, NEW n \in Names, NEW r \in Runs, Fork(n, r)
  PROVE  Core'
  <1> USE ShapeFacts DEF Core, Shape
  <1>1. /\ startAt[n] = "reserved" /\ os[r] = "unborn" /\ nameOf[r] = n
        /\ adopting = {} /\ daemon.up
        /\ os' = [os EXCEPT ![r] = "alive"] /\ own' = own \cup {r}
        /\ startAt' = [startAt EXCEPT ![n] = "forked"]
        /\ startRun' = [startRun EXCEPT ![n] = r]
        /\ UNCHANGED <<nameOf, processes, lastExited, pidFile, reaper, exitClosed, daemon,
                       adopting, dropped>>
    BY DEF Fork, Unborn, serving, tables, history
  <1>2. r \notin own /\ reaper[Child(r)] = "none" /\ ~waits(r)
    BY <1>1 DEF ReaperOfOwn, waits
  <1>3. \A m : LostChild(m) => LostChild(m)'
    BY <1>1, <1>2 DEF LostChild
  <1>4. ReaperOfOwn'
    BY <1>1, <1>2 DEF ReaperOfOwn
  <1>5. NewbornFresh'
    BY <1>1, <1>2 DEF NewbornFresh, newborn
  <1>6. LiveHasKeeper'
    BY <1>1, <1>2 DEF LiveHasKeeper, newborn, waits
  <1>7. WaitingTracked'
    BY <1>1, <1>2, <1>3 DEF WaitingTracked, waits
  <1>8. SlotWasFree'
    BY <1>1, <1>2, <1>3 DEF SlotWasFree, starting, waits
  <1>9. RegisteredTracked'
    BY <1>1, <1>2, <1>3 DEF RegisteredTracked
  <1>10. AdoptsAlone'
    BY <1>1, <1>2 DEF AdoptsAlone
  <1>11. GoneUntracked'
    BY <1>1, <1>2 DEF GoneUntracked
  <1>12. ExitOrRunning'
    BY <1>1, <1>2 DEF ExitOrRunning
  <1> QED
    BY <1>4, <1>5, <1>6, <1>7, <1>8,
       <1>9, <1>10, <1>11, <1>12

\* The slot takes the new run; no child of it waited.
LEMMA CoreRegister ==
  ASSUME ProcessTypeOK, Core, NEW n \in Names, Register(n)
  PROVE  Core'
  <1> USE ShapeFacts DEF Core, Shape
  <1>1. /\ startAt[n] = "forked" /\ startRun[n] \in own /\ reaper[Child(startRun[n])] = "none"
        /\ processes' = [processes EXCEPT ![n] = Child(startRun[n])]
        /\ lastExited' = [lastExited EXCEPT ![n] = NoEntry]
        /\ startAt' = [startAt EXCEPT ![n] = "registered"]
        /\ UNCHANGED <<os, nameOf, startRun, pidFile, reaper, exitClosed, daemon,
                       adopting, own, dropped>>
    BY DEF Register, Child, withoutLastExit, NewbornFresh, newborn, history
  <1>2. \A r \in own : nameOf[r] = n /\ waits(r) => LostChild(n)
    BY <1>1 DEF SlotWasFree, starting
  <1>3. \A m : LostChild(m) => LostChild(m)'
    BY <1>1, <1>2 DEF LostChild
  <1>4. ReaperOfOwn'
    BY <1>1, <1>2 DEF ReaperOfOwn
  <1>5. NewbornFresh'
    BY <1>1, <1>2 DEF NewbornFresh, newborn
  <1>6. LiveHasKeeper'
    BY <1>1, <1>2 DEF LiveHasKeeper, newborn, waits
  <1>7. WaitingTracked'
    BY <1>1, <1>2, <1>3 DEF WaitingTracked, waits
  <1>8. SlotWasFree'
    BY <1>1, <1>2, <1>3 DEF SlotWasFree, starting, waits
  <1>9. RegisteredTracked'
    BY <1>1, <1>2, <1>3 DEF RegisteredTracked
  <1>10. AdoptsAlone'
    BY <1>1, <1>2 DEF AdoptsAlone
  <1>11. GoneUntracked'
    BY <1>1, <1>2 DEF GoneUntracked
  <1>12. ExitOrRunning'
    BY <1>1, <1>2 DEF ExitOrRunning
  <1> QED
    BY <1>4, <1>5, <1>6, <1>7, <1>8,
       <1>9, <1>10, <1>11, <1>12

\* The goroutine of a registered run starts; the run is in the table by then.
LEMMA CoreWritePidFile ==
  ASSUME ProcessTypeOK, Core, NEW n \in Names, WritePidFile(n)
  PROVE  Core'
  <1> USE ShapeFacts DEF Core, Shape
  <1>1. /\ startAt[n] = "registered" /\ startRun[n] \in own /\ nameOf[startRun[n]] = n
        /\ adopting = {} /\ daemon.up
        /\ pidFile' = [pidFile EXCEPT ![n] = startRun[n]]
        /\ reaper' = [reaper EXCEPT ![Child(startRun[n])] = "waiting"]
        /\ startAt' = [startAt EXCEPT ![n] = "started"]
        /\ UNCHANGED <<os, nameOf, processes, lastExited, startRun, exitClosed, daemon,
                       adopting, own, dropped>>
    BY DEF WritePidFile, Child, serving, NewbornFresh, newborn, tables, history
  <1>2. reaper[Child(startRun[n])] = "none"
    BY <1>1 DEF NewbornFresh, newborn
  <1>3. \A r \in own : waits(r)' => waits(r) \/ r = startRun[n]
    BY <1>1, ChildFacts DEF waits
  <1>4. \A m : LostChild(m) => LostChild(m)'
    BY <1>1, <1>2, <1>3 DEF LostChild
  <1>5. ReaperOfOwn'
    BY <1>1, <1>2, <1>3, ChildFacts DEF ReaperOfOwn
  <1>6. NewbornFresh'
    BY <1>1, <1>2, <1>3, ChildFacts DEF NewbornFresh, newborn
  <1>7. LiveHasKeeper'
    BY <1>1, <1>2, <1>3, ChildFacts DEF LiveHasKeeper, newborn, waits
  <1>8. WaitingTracked'
    BY <1>1, <1>2, <1>3, <1>4, ChildFacts DEF WaitingTracked, waits, RegisteredTracked
  <1>9. SlotWasFree'
    BY <1>1, <1>2, <1>3, <1>4 DEF SlotWasFree, starting, waits
  <1>10. RegisteredTracked'
    BY <1>1, <1>2, <1>3, <1>4 DEF RegisteredTracked
  <1>11. AdoptsAlone'
    BY <1>1, <1>2, <1>3, ChildFacts DEF AdoptsAlone
  <1>12. GoneUntracked'
    BY <1>1, <1>2, <1>3, ChildFacts DEF GoneUntracked
  <1>13. ExitOrRunning'
    BY <1>1, <1>2, <1>3 DEF ExitOrRunning
  <1> QED
    BY <1>5, <1>6, <1>7, <1>8, <1>9,
       <1>10, <1>11, <1>12, <1>13

\* A goroutine frees the slot of its dead child, and of another one only when Remove
\* took that child from the slot.
LEMMA CoreUntrack ==
  ASSUME ProcessTypeOK, Core, NEW e \in Entries, Untrack(e)
  PROVE  Core'
  <1> USE ShapeFacts DEF Core, Shape
  <1>1. /\ reaper[e] = "waiting" /\ os[e.run] = "dead" /\ nameOf[e.run] \in Names /\ e.run \in Runs
        /\ e.adopted => processes[nameOf[e.run]] = e
        /\ processes' = [processes EXCEPT ![nameOf[e.run]] = NoEntry]
        /\ lastExited' = [lastExited EXCEPT ![nameOf[e.run]] = e]
        /\ reaper' = [reaper EXCEPT ![e] = "untracked"]
        /\ UNCHANGED <<os, nameOf, startAt, startRun, pidFile, exitClosed, daemon,
                       adopting, own, dropped>>
    BY ChildFacts DEF Untrack, mayUntrack, stopsTracking, starts, history
  <1>2. ~e.adopted => e = Child(e.run) /\ e.run \in own /\ waits(e.run)
    BY <1>1, ChildFacts DEF ReaperOfOwn, waits
  <1>3. \A r \in own : /\ waits(r)' => waits(r) /\ (e.adopted \/ r # e.run)
                      /\ waits(r) => waits(r)' \/ r = e.run
    BY <1>1, <1>2, ChildFacts DEF waits
  <1>4. \A r \in Runs : Child(r) = processes[nameOf[e.run]] => LostChild(nameOf[e.run]) \/ (~e.adopted /\ r = e.run)
    BY <1>1, <1>2, ChildFacts DEF WaitingTracked
  <1>5. \A m : LostChild(m) => LostChild(m)'
    BY <1>1, <1>2, <1>3, <1>4 DEF LostChild
  <1>6. ReaperOfOwn'
    BY <1>1, <1>2, <1>3, <1>4, ChildFacts DEF ReaperOfOwn
  <1>7. NewbornFresh'
    BY <1>1, <1>2, <1>3, <1>4, ChildFacts DEF NewbornFresh, newborn
  <1>8. LiveHasKeeper'
    BY <1>1, <1>2, <1>3, <1>4, ChildFacts DEF LiveHasKeeper, newborn, waits
  <1>9. WaitingTracked'
    BY <1>1, <1>2, <1>3, <1>4, <1>5, ChildFacts DEF WaitingTracked, waits
  <1>10. SlotWasFree'
    BY <1>1, <1>2, <1>3, <1>4, <1>5 DEF SlotWasFree, starting, waits
  <1>11. RegisteredTracked'
    BY <1>1, <1>2, <1>3, <1>4, <1>5, ChildFacts DEF RegisteredTracked, SlotWasFree, starting, NewbornFresh, newborn
  <1>12. AdoptsAlone'
    BY <1>1, <1>2, <1>3, <1>4, ChildFacts DEF AdoptsAlone
  <1>13. GoneUntracked'
    BY <1>1, <1>2, <1>3, <1>4, ChildFacts DEF GoneUntracked
  <1>14. ExitOrRunning'
    BY <1>1, <1>2, <1>3, <1>4, ChildFacts DEF ExitOrRunning
  <1> QED
    BY <1>6, <1>7, <1>8, <1>9, <1>10,
       <1>11, <1>12, <1>13, <1>14

\* The rest of a goroutine leaves the table alone.
LEMMA CoreReaped ==
  ASSUME ProcessTypeOK, Core, NEW e \in Entries, WatchEnds(e) \/ DeletePidFile(e) \/ closeExit(e)
  PROVE  Core'
  <1> USE ShapeFacts DEF Core, Shape
  <1>1. /\ reaper[e] = "waiting" => e.adopted /\ processes[nameOf[e.run]] # e
        /\ reaper[e] \in {"waiting", "untracked", "unfiled"}
        /\ \E to \in {"unfiled", "done"} : reaper' = [reaper EXCEPT ![e] = to]
        /\ exitClosed' = exitClosed \/ (exitClosed' = exitClosed \cup {e} /\ reaper'[e] = "done")
        /\ pidFile' = pidFile \/ pidFile' = [pidFile EXCEPT ![nameOf[e.run]] = NoRun]
        /\ UNCHANGED <<os, nameOf, processes, lastExited, startAt, startRun, daemon,
                       adopting, own, dropped>>
    BY DEF WatchEnds, DeletePidFile, closeExit, stopsTracking, closesLast, tables, starts, history
  <1>2. \A r \in Runs : waits(r)' <=> waits(r)
    BY <1>1, ChildFacts DEF waits
  <1>3. \A m : LostChild(m) => LostChild(m)'
    BY <1>1, <1>2 DEF LostChild
  <1>4. ReaperOfOwn'
    BY <1>1, <1>2, ChildFacts DEF ReaperOfOwn
  <1>5. NewbornFresh'
    BY <1>1, <1>2, ChildFacts DEF NewbornFresh, newborn
  <1>6. LiveHasKeeper'
    BY <1>1, <1>2 DEF LiveHasKeeper, newborn, waits
  <1>7. WaitingTracked'
    BY <1>1, <1>2, <1>3 DEF WaitingTracked, waits
  <1>8. SlotWasFree'
    BY <1>1, <1>2, <1>3 DEF SlotWasFree, starting, waits
  <1>9. RegisteredTracked'
    BY <1>1, <1>2, <1>3 DEF RegisteredTracked
  <1>10. AdoptsAlone'
    BY <1>1, <1>2, ChildFacts DEF AdoptsAlone
  <1>11. GoneUntracked'
    BY <1>1, <1>2, ChildFacts DEF GoneUntracked
  <1>12. ExitOrRunning'
    BY <1>1, <1>2 DEF ExitOrRunning
  <1> QED
    BY <1>4, <1>5, <1>6, <1>7, <1>8,
       <1>9, <1>10, <1>11, <1>12

\* Processes die, are killed, or are started by somebody else; calls look something up.
LEMMA CoreEnvironment ==
  ASSUME ProcessTypeOK, Core, 
         \/ \E r \in Runs : Dies(r) \/ StartedElsewhere(r)
         \/ \E s \in Stoppers : Stop(s)
         \/ \E x \in Removers, n \in Names : SeesAdopted(x, n)
         \/ UNCHANGED processVars
  PROVE  Core'
  <1> USE ShapeFacts DEF Core, Shape
  <1>1. /\ \/ os' = os
           \/ \E r : os' = [os EXCEPT ![r] = "dead"]
           \/ \E r \in Runs : os[r] = "unborn" /\ os' = [os EXCEPT ![r] = "alive"]
        /\ UNCHANGED <<nameOf, processes, lastExited, startAt, startRun, pidFile, reaper,
                       exitClosed, daemon, adopting, own, dropped>>
    BY DEF Dies, StartedElsewhere, Unborn, Stop, StopLooksUp, StopSignals, StopReturns, StopKills,
           SeesAdopted, processVars, tables, starts, history
  <1>2. \A m : LostChild(m) => LostChild(m)'
    BY <1>1 DEF LostChild
  <1>3. ReaperOfOwn'
    BY <1>1 DEF ReaperOfOwn
  <1>4. NewbornFresh'
    BY <1>1 DEF NewbornFresh, newborn
  <1>5. LiveHasKeeper'
    BY <1>1 DEF LiveHasKeeper, newborn, waits, ReaperOfOwn
  <1>6. WaitingTracked'
    BY <1>1, <1>2 DEF WaitingTracked, waits
  <1>7. SlotWasFree'
    BY <1>1, <1>2 DEF SlotWasFree, starting, waits
  <1>8. RegisteredTracked'
    BY <1>1, <1>2 DEF RegisteredTracked
  <1>9. AdoptsAlone'
    BY <1>1 DEF AdoptsAlone
  <1>10. GoneUntracked'
    BY <1>1 DEF GoneUntracked
  <1>11. ExitOrRunning'
    BY <1>1 DEF ExitOrRunning
  <1> QED
    BY <1>3, <1>4, <1>5, <1>6, <1>7,
       <1>8, <1>9, <1>10, <1>11

\* An adoption fills an empty slot with an entry that is new.
LEMMA CoreAdopt ==
  ASSUME ProcessTypeOK, Core, NEW n \in Names, NEW r \in Runs, nameOf[r] = n,
         processes[n] = NoEntry \/ own = {}, Adopted(r) \notin exitClosed,
         n \notin adopting', adopting' \subseteq adopting, adopt(n, r),
         UNCHANGED <<os, nameOf, starts, pidFile, exitClosed, daemon, own, dropped>>
  PROVE  Core'
  <1> USE ShapeFacts DEF Core, Shape
  <1>1. /\ processes' = [processes EXCEPT ![n] = Adopted(r)]
        /\ lastExited' = [lastExited EXCEPT ![n] = NoEntry]
        /\ reaper' = [reaper EXCEPT ![Adopted(r)] = "waiting"]
        /\ Adopted(r) \in Entries /\ Adopted(r).run = r
        /\ UNCHANGED <<os, nameOf, startAt, startRun, pidFile, exitClosed, daemon, own, dropped>>
    BY ChildFacts DEF adopt, Adopted, withoutLastExit, starts
  <1>2. \A q \in Runs : Child(q) # Adopted(r) /\ reaper'[Child(q)] = reaper[Child(q)]
    BY <1>1, ChildFacts
  <1>3. \A q \in Runs : waits(q)' <=> waits(q)
    BY <1>2 DEF waits
  <1>4. \A q \in own : Child(q) # NoEntry
    BY ChildFacts
  <1>5. \A m : LostChild(m) => LostChild(m)'
    BY <1>1, <1>2, <1>3, <1>4 DEF LostChild
  <1>6. ReaperOfOwn'
    BY <1>1, <1>2, <1>3, <1>4 DEF ReaperOfOwn
  <1>7. NewbornFresh'
    BY <1>1, <1>2, <1>3, <1>4, ChildFacts DEF NewbornFresh, newborn
  <1>8. LiveHasKeeper'
    BY <1>1, <1>2, <1>3, <1>4 DEF LiveHasKeeper, newborn, waits
  <1>9. WaitingTracked'
    BY <1>1, <1>2, <1>3, <1>4, <1>5 DEF WaitingTracked, waits
  <1>10. SlotWasFree'
    BY <1>1, <1>2, <1>3, <1>4, <1>5 DEF SlotWasFree, starting, waits
  <1>11. RegisteredTracked'
    BY <1>1, <1>2, <1>3, <1>4, <1>5 DEF RegisteredTracked, NewbornFresh, newborn
  <1>12. AdoptsAlone'
    BY <1>1, <1>2, <1>3, <1>4 DEF AdoptsAlone
  <1>13. GoneUntracked'
    BY <1>1, <1>2, <1>3, <1>4 DEF GoneUntracked
  <1>14. ExitOrRunning'
    BY <1>1, <1>2, <1>3, <1>4 DEF ExitOrRunning
  <1> QED
    BY <1>6, <1>7, <1>8, <1>9, <1>10,
       <1>11, <1>12, <1>13, <1>14

\* What Remove takes is on record, so a child it takes excuses its slot.
LEMMA CoreRemove ==
  ASSUME ProcessTypeOK, Core, NEW x \in Removers, NEW n \in Names, Remove(x, n)
  PROVE  Core'
  <1> USE ShapeFacts DEF Core, Shape
  <1>1. /\ processes' = [processes EXCEPT ![n] = NoEntry]
        /\ dropped' = dropped \cup {e \in {processes[n]} \ {NoEntry} : ~e.adopted}
        /\ UNCHANGED <<os, nameOf, lastExited, startAt, startRun, pidFile, reaper, exitClosed,
                       daemon, adopting, own>>
    BY DEF Remove, starts
  <1>2. \A r \in Runs : nameOf[r] = n /\ processes[n] = Child(r) => LostChild(n)'
    BY <1>1, ChildFacts DEF LostChild
  <1>3. \A m : LostChild(m) => LostChild(m)'
    BY <1>1, <1>2 DEF LostChild
  <1>4. ReaperOfOwn'
    BY <1>1, <1>2 DEF ReaperOfOwn
  <1>5. NewbornFresh'
    BY <1>1, <1>2 DEF NewbornFresh, newborn
  <1>6. LiveHasKeeper'
    BY <1>1, <1>2 DEF LiveHasKeeper, newborn, waits
  <1>7. WaitingTracked'
    BY <1>1, <1>2, <1>3 DEF WaitingTracked, waits
  <1>8. SlotWasFree'
    BY <1>1, <1>2, <1>3 DEF SlotWasFree, starting, waits
  <1>9. RegisteredTracked'
    BY <1>1, <1>2, <1>3 DEF RegisteredTracked, NewbornFresh, newborn
  <1>10. AdoptsAlone'
    BY <1>1, <1>2 DEF AdoptsAlone
  <1>11. GoneUntracked'
    BY <1>1, <1>2, ChildFacts DEF GoneUntracked
  <1>12. ExitOrRunning'
    BY <1>1, <1>2 DEF ExitOrRunning
  <1> QED
    BY <1>4, <1>5, <1>6, <1>7, <1>8,
       <1>9, <1>10, <1>11, <1>12

\* A boot adopts into a slot it found empty.
LEMMA CoreAdoptProcess ==
  ASSUME ProcessTypeOK, Core, Record, NEW n \in Names, NEW r \in Runs, AdoptProcess(n, r)
  PROVE  Core'
  <1>1. /\ nameOf[r] = n /\ processes[n] = NoEntry /\ adopting = {} /\ adopting' = adopting
        /\ adopt(n, r) /\ Adopted(r) \notin exitClosed
        /\ UNCHANGED <<os, nameOf, starts, pidFile, exitClosed, daemon, own, dropped>>
    BY ChildFacts DEF AdoptProcess, serving, Record, GoneIsDead, Gone, Alive
  <1>2. n \notin adopting' /\ adopting' \subseteq adopting
    BY <1>1
  <1> QED
    BY <1>1, <1>2, CoreAdopt

\* AdoptOrphans runs while there is no child, and drops the record of a dead run.
LEMMA CoreAdoptOrphan ==
  ASSUME ProcessTypeOK, Core, NEW n \in Names, AdoptOrphan(n)
  PROVE  Core'
  <1> USE ShapeFacts DEF Shape
  <1>1. /\ n \in adopting /\ adopting' = adopting \ {n} /\ adopting # {}
        /\ UNCHANGED <<os, nameOf, starts, exitClosed, daemon, own, dropped>>
    BY DEF AdoptOrphan
  <1>2. own = {}
    BY <1>1 DEF Core, AdoptsAlone
  <1>3. CASE Alive(pidFile[n])
    <2>1. PICK r \in Runs : r = pidFile[n]
      BY <1>3 DEF ProcessTypeOK, Alive
    <2>2. nameOf[r] = n
      BY <1>3, <2>1 DEF Core, AdoptsAlone, Alive
    <2>3. Adopted(r) \notin exitClosed
      BY <1>1, <2>2, ChildFacts DEF Core, AdoptsAlone, GoneUntracked
    <2>4. adopt(n, r) /\ UNCHANGED pidFile
      BY <1>3, <2>1 DEF AdoptOrphan
    <2> QED
      BY <1>1, <1>2, <2>2, <2>3, <2>4, CoreAdopt
  <1>4. CASE ~Alive(pidFile[n])
    <2> USE DEF Core
    <2>1. /\ pidFile' = [pidFile EXCEPT ![n] = NoRun]
          /\ UNCHANGED <<processes, lastExited, reaper, startAt, startRun, own, dropped>>
      BY <1>1, <1>4 DEF AdoptOrphan, tables, starts
    <2>2. \A m : LostChild(m) => LostChild(m)'
      BY <1>1, <2>1 DEF LostChild
    <2>3. ReaperOfOwn' /\ NewbornFresh' /\ LiveHasKeeper'
      BY <1>1, <2>1 DEF ReaperOfOwn, NewbornFresh, LiveHasKeeper, waits, newborn
    <2>4. WaitingTracked' /\ SlotWasFree' /\ RegisteredTracked'
      BY <1>1, <2>1, <2>2 DEF WaitingTracked, SlotWasFree, RegisteredTracked, waits, starting
    <2>5. AdoptsAlone' /\ GoneUntracked' /\ ExitOrRunning'
      BY <1>1, <2>1 DEF AdoptsAlone, GoneUntracked, ExitOrRunning
    <2> QED
      BY <2>3, <2>4, <2>5
  <1> QED
    BY <1>3, <1>4

\* A dead daemon has no table, no start and no child; its records stay.
LEMMA CoreDaemonDies ==
  ASSUME ProcessTypeOK, Core, DaemonDies
  PROVE  Core'
  <1> USE ShapeFacts, ChildFacts DEF Core, Shape
  <1>1. /\ processes' = [n \in Names |-> NoEntry] /\ lastExited' = [n \in Names |-> NoEntry]
        /\ startAt' = [n \in Names |-> "out"]
        /\ reaper' = [e \in Entries |-> "none"] /\ exitClosed' = {}
        /\ own' = {} /\ UNCHANGED <<os, nameOf, pidFile>>
    BY DEF DaemonDies
  <1>2. ReaperOfOwn' /\ NewbornFresh' /\ LiveHasKeeper'
    BY <1>1 DEF ReaperOfOwn, NewbornFresh, LiveHasKeeper, newborn
  <1>3. WaitingTracked' /\ SlotWasFree' /\ RegisteredTracked'
    BY <1>1 DEF WaitingTracked, SlotWasFree, RegisteredTracked, starting
  <1>4. AdoptsAlone' /\ GoneUntracked' /\ ExitOrRunning'
    BY <1>1 DEF AdoptsAlone, GoneUntracked, ExitOrRunning
  <1> QED
    BY <1>2, <1>3, <1>4

\* The next daemon begins with what the last one left.
LEMMA CoreDaemonStarts ==
  ASSUME ProcessTypeOK, Core, DaemonStarts
  PROVE  Core'
  <1> USE ShapeFacts DEF Core, Shape
  <1>1. /\ ~daemon.up
        /\ UNCHANGED <<os, nameOf, processes, lastExited, startAt, startRun, pidFile, reaper,
                       exitClosed, adopting, own, dropped>>
    BY DEF DaemonStarts, tables, starts, history
  <1>2. \A m : LostChild(m) => LostChild(m)'
    BY <1>1 DEF LostChild
  <1>3. ReaperOfOwn' /\ NewbornFresh' /\ LiveHasKeeper'
    BY <1>1 DEF ReaperOfOwn, NewbornFresh, LiveHasKeeper, waits, newborn
  <1>4. WaitingTracked' /\ SlotWasFree' /\ RegisteredTracked'
    BY <1>1, <1>2 DEF WaitingTracked, SlotWasFree, RegisteredTracked, waits, starting
  <1>5. AdoptsAlone' /\ GoneUntracked' /\ ExitOrRunning'
    BY <1>1 DEF AdoptsAlone, GoneUntracked, ExitOrRunning
  <1> QED
    BY <1>3, <1>4, <1>5

-----------------------------------------------------------------------------

\* A step that leaves the table alone, and brings no entry past it, keeps Record.
LEMMA RecordQuiet ==
  ASSUME ProcessTypeOK, Record, UNCHANGED <<nameOf, processes, lastExited, latest, dropped>>,
         \A e \in Entries : Gone(e)' => Gone(e),
         \A r \in Runs : os[r] = "dead" => os'[r] = "dead"
  PROVE  Record'
  <1> USE ChildFacts DEF Record
  <1>1. \A m : LostChild(m) => LostChild(m)'
    BY DEF LostChild
  <1> QED
    BY <1>1 DEF LatestTracked, GoneIsDead, GoneOnRecord

\* A slot is taken by an entry that is not gone, and its last exit is forgotten.
LEMMA RecordTaken ==
  ASSUME ProcessTypeOK, Record, NEW n \in Names, NEW e \in Entries, ~Gone(e),
         processes' = [processes EXCEPT ![n] = e], latest' = [latest EXCEPT ![n] = e],
         lastExited' = [lastExited EXCEPT ![n] = NoEntry],
         UNCHANGED <<os, nameOf, exitClosed, dropped>>,
         \A d \in Entries : Gone(d)' => Gone(d)
  PROVE  Record'
  <1> USE ShapeFacts, ChildFacts DEF Record, Shape
  <1>1. \A m : LostChild(m) => LostChild(m)'
    BY DEF LostChild
  <1>2. LatestTracked' /\ GoneIsDead'
    BY DEF LatestTracked, GoneIsDead
  <1>3. GoneOnRecord'
    BY <1>1 DEF GoneOnRecord
  <1> QED
    BY <1>2, <1>3

\* A goroutine that untracks its process puts the exit on record, over that of
\* an entry it does not know only when Remove lost it.
LEMMA RecordUntrack ==
  ASSUME ProcessTypeOK, Core, Record, NEW e \in Entries, Untrack(e)
  PROVE  Record'
  <1> USE ShapeFacts, ChildFacts DEF Record, Shape
  <1> DEFINE n == nameOf[e.run]
  <1>1. /\ reaper[e] = "waiting" /\ os[e.run] = "dead" /\ n \in Names /\ e.run \in Runs
        /\ e.adopted => processes[n] = e
        /\ processes' = [processes EXCEPT ![n] = NoEntry]
        /\ lastExited' = [lastExited EXCEPT ![n] = e]
        /\ reaper' = [reaper EXCEPT ![e] = "untracked"]
        /\ UNCHANGED <<os, nameOf, exitClosed, latest, dropped>>
    BY DEF Untrack, mayUntrack, stopsTracking, history
  <1>2. processes[n] = e \/ LostChild(n)
    BY <1>1 DEF Core, ReaperOfOwn, WaitingTracked, waits
  <1>3. latest[n] = e \/ LostChild(n)
    BY <1>1, <1>2 DEF LatestTracked
  <1>4. \A m : LostChild(m) => LostChild(m)'
    BY <1>1 DEF LostChild
  <1>5. \A d \in Entries : Gone(d)' => Gone(d) \/ d = e
    BY <1>1 DEF Gone
  <1>6. LatestTracked' /\ GoneIsDead'
    BY <1>1, <1>5 DEF LatestTracked, GoneIsDead
  <1>7. GoneOnRecord'
    <2> SUFFICES ASSUME NEW d \in Entries, NEW m, m = nameOf[d.run], Gone(d)', latest'[m] = d
                 PROVE  lastExited'[m] = d \/ LostChild(m)'
      BY <1>1 DEF GoneOnRecord
    <2>1. CASE m = n
      BY <1>1, <1>3, <1>4, <2>1
    <2>2. CASE m # n
      BY <1>1, <1>4, <1>5, <2>2 DEF GoneOnRecord
    <2> QED
      BY <2>1, <2>2
  <1> QED
    BY <1>6, <1>7

\* An adoption takes the slot with an entry whose process is alive.
LEMMA RecordAdopt ==
  ASSUME ProcessTypeOK, Record, NEW n \in Names, NEW r \in Runs, Alive(r), adopt(n, r),
         UNCHANGED <<os, nameOf, exitClosed, dropped>>
  PROVE  Record'
  <1> USE ShapeFacts, ChildFacts DEF Shape
  <1>1. /\ processes' = [processes EXCEPT ![n] = Adopted(r)]
        /\ latest' = [latest EXCEPT ![n] = Adopted(r)]
        /\ lastExited' = [lastExited EXCEPT ![n] = NoEntry]
        /\ reaper' = [reaper EXCEPT ![Adopted(r)] = "waiting"]
    BY DEF adopt, Adopted, withoutLastExit
  <1>2. ~Gone(Adopted(r))
    BY DEF Record, GoneIsDead, Alive
  <1>3. \A d \in Entries : Gone(d)' => Gone(d)
    BY <1>1 DEF Gone
  <1> QED
    BY <1>1, <1>2, <1>3, RecordTaken

\* Every step keeps the record.
LEMMA RecordStep ==
  ASSUME ProcessTypeOK, Core, Record, [ProcessNext]_processVars
  PROVE  Record'
  <1> USE ShapeFacts, ChildFacts DEF Shape
  <1>1. ASSUME NEW n \in Names, Start(n) PROVE Record'
    <2>1. CASE Reserve(n) \/ StartFails(n) \/ StartReturns(n)
      BY <2>1, RecordQuiet DEF Reserve, StartFails, StartReturns, Gone, tables, history
    <2>2. ASSUME NEW r \in Runs, Fork(n, r) PROVE Record'
      BY <2>2, RecordQuiet DEF Fork, Unborn, Gone, tables
    <2>3. CASE Register(n)
      <3>1. /\ startRun[n] \in Runs /\ reaper[Child(startRun[n])] = "none"
            /\ processes' = [processes EXCEPT ![n] = Child(startRun[n])]
            /\ latest' = [latest EXCEPT ![n] = Child(startRun[n])]
            /\ lastExited' = [lastExited EXCEPT ![n] = NoEntry]
            /\ UNCHANGED <<os, nameOf, reaper, exitClosed, dropped>>
        BY <2>3 DEF Register, Child, withoutLastExit, Core, NewbornFresh, newborn
      <3>2. ~Gone(Child(startRun[n]))
        BY <3>1 DEF Gone, Core, GoneUntracked
      <3>3. \A d \in Entries : Gone(d)' => Gone(d)
        BY <3>1 DEF Gone
      <3> QED
        BY <3>1, <3>2, <3>3, RecordTaken
    <2>4. CASE WritePidFile(n)
      <3>1. \A d \in Entries : Gone(d)' => Gone(d)
        BY <2>4 DEF WritePidFile, Gone
      <3> QED
        BY <2>4, <3>1, RecordQuiet DEF WritePidFile, tables, history
    <2> QED
      BY <1>1, <2>1, <2>2, <2>3, <2>4 DEF Start
  <1>2. ASSUME NEW e \in Entries, Reap(e) PROVE Record'
    <2>1. CASE Untrack(e)
      BY <2>1, RecordUntrack
    <2>2. CASE WatchEnds(e) \/ DeletePidFile(e) \/ closeExit(e)
      <3>1. \A d \in Entries : Gone(d)' => Gone(d)
        BY <2>2 DEF WatchEnds, DeletePidFile, closeExit, closesLast, Gone
      <3>2. UNCHANGED <<os, nameOf, processes, lastExited, latest, dropped>>
        BY <2>2 DEF WatchEnds, DeletePidFile, closeExit, tables, history
      <3> QED
        BY <3>1, <3>2, RecordQuiet
    <2> QED
      BY <1>2, <2>1, <2>2 DEF Reap
  <1>3. ASSUME NEW n \in Names, NEW r \in Runs, AdoptProcess(n, r) PROVE Record'
    BY <1>3, RecordAdopt DEF AdoptProcess
  <1>4. ASSUME NEW n \in Names, AdoptOrphan(n) PROVE Record'
    <2>1. CASE Alive(pidFile[n])
      <3>1. PICK r \in Runs : r = pidFile[n]
        BY <2>1 DEF ProcessTypeOK, Alive
      <3> QED
        BY <1>4, <2>1, <3>1, RecordAdopt DEF AdoptOrphan
    <2>2. CASE ~Alive(pidFile[n])
      BY <1>4, <2>2, RecordQuiet DEF AdoptOrphan, Gone, tables
    <2> QED
      BY <2>1, <2>2
  <1>5. ASSUME NEW x \in Removers, NEW n \in Names, Remove(x, n) PROVE Record'
    <2>1. /\ processes' = [processes EXCEPT ![n] = NoEntry] /\ dropped \subseteq dropped'
          /\ UNCHANGED <<os, nameOf, lastExited, latest, reaper, exitClosed>>
      BY <1>5 DEF Remove
    <2>2. \A m : LostChild(m) => LostChild(m)'
      BY <2>1 DEF LostChild
    <2> QED
      BY <2>1, <2>2 DEF Record, LatestTracked, GoneIsDead, GoneOnRecord, Gone
  <1>6. ASSUME \/ \E r \in Runs : Dies(r) \/ StartedElsewhere(r)
               \/ \E s \in Stoppers : Stop(s)
               \/ \E x \in Removers, n \in Names : SeesAdopted(x, n)
               \/ DaemonStarts \/ UNCHANGED processVars
        PROVE  Record'
    <2>1. /\ \/ os' = os
             \/ \E r : os' = [os EXCEPT ![r] = "dead"]
             \/ \E r \in Runs : os[r] = "unborn" /\ os' = [os EXCEPT ![r] = "alive"]
          /\ UNCHANGED <<nameOf, processes, lastExited, latest, dropped, reaper, exitClosed>>
      BY <1>6 DEF Dies, StartedElsewhere, Unborn, Stop, StopLooksUp, StopSignals, StopReturns,
             StopKills, SeesAdopted, DaemonStarts, processVars, tables, history
    <2> QED
      BY <2>1, RecordQuiet DEF Gone
  <1>7. CASE DaemonDies
    BY <1>7 DEF DaemonDies, Record, LatestTracked, GoneIsDead, GoneOnRecord, Gone
  <1> QED
    BY <1>1, <1>2, <1>3, <1>4, <1>5, <1>6, <1>7 DEF ProcessNext

-----------------------------------------------------------------------------

\* Every step keeps the invariant, one lemma per action.
LEMMA InvStep ==
  ASSUME ProcessInv, [ProcessNext]_processVars
  PROVE  ProcessInv'
  <1>1. ProcessTypeOK /\ Core /\ Record
    BY DEF ProcessInv
  <1>2. ProcessTypeOK'
    BY <1>1, TypeStep
  <1>3. Core'
    <2>1. ASSUME NEW n \in Names, Start(n) PROVE Core'
      <3>1. CASE Reserve(n)
        BY <1>1, <3>1, CoreReserve
      <3>2. CASE StartFails(n) \/ StartReturns(n)
        BY <1>1, <3>2, CoreStartEnds
      <3>3. ASSUME NEW r \in Runs, Fork(n, r) PROVE Core'
        BY <1>1, <3>3, CoreFork
      <3>4. CASE Register(n)
        BY <1>1, <3>4, CoreRegister
      <3>5. CASE WritePidFile(n)
        BY <1>1, <3>5, CoreWritePidFile
      <3> QED
        BY <2>1, <3>1, <3>2, <3>3, <3>4, <3>5 DEF Start
    <2>2. ASSUME NEW e \in Entries, Reap(e) PROVE Core'
      <3>1. CASE Untrack(e)
        BY <1>1, <3>1, CoreUntrack
      <3>2. CASE WatchEnds(e) \/ DeletePidFile(e) \/ closeExit(e)
        BY <1>1, <3>2, CoreReaped
      <3> QED
        BY <2>2, <3>1, <3>2 DEF Reap
    <2>3. ASSUME NEW n \in Names, NEW r \in Runs, AdoptProcess(n, r) PROVE Core'
      BY <1>1, <2>3, CoreAdoptProcess
    <2>4. ASSUME NEW n \in Names, AdoptOrphan(n) PROVE Core'
      BY <1>1, <2>4, CoreAdoptOrphan
    <2>5. ASSUME NEW x \in Removers, NEW n \in Names, Remove(x, n) PROVE Core'
      BY <1>1, <2>5, CoreRemove
    <2>6. CASE \/ \E r \in Runs : Dies(r) \/ StartedElsewhere(r)
               \/ \E s \in Stoppers : Stop(s)
               \/ \E x \in Removers, n \in Names : SeesAdopted(x, n)
               \/ UNCHANGED processVars
      BY <1>1, <2>6, CoreEnvironment
    <2>7. CASE DaemonDies
      BY <1>1, <2>7, CoreDaemonDies
    <2>8. CASE DaemonStarts
      BY <1>1, <2>8, CoreDaemonStarts
    <2> QED
      BY <2>1, <2>2, <2>3, <2>4, <2>5, <2>6, <2>7, <2>8 DEF ProcessNext
  <1>4. Record'
    BY <1>1, RecordStep
  <1> QED
    BY <1>2, <1>3, <1>4 DEF ProcessInv

\* The inductive invariant holds in every run.
THEOREM ProcessInvariant == ProcessSpec => []ProcessInv
  BY InvInit, InvStep, PTL DEF ProcessSpec

\* The types hold in every run.
THEOREM ProcessTyped == ProcessSpec => []ProcessTypeOK
  <1>1. ProcessInv => ProcessTypeOK
    BY DEF ProcessInv
  <1> QED
    BY <1>1, ProcessInvariant, PTL

\* A slot has one live child of the daemon, whatever interleaves, until Remove
\* takes a child out of the table.
THEOREM OneChildPerSlot == ProcessSpec => []OneLiveChild
  <1>1. ProcessInv => OneLiveChild
    <2> SUFFICES ASSUME ProcessInv, NEW r1 \in Runs, NEW r2 \in Runs,
                        LiveChild(r1), LiveChild(r2), nameOf[r1] = nameOf[r2], r1 # r2
                 PROVE  LostChild(nameOf[r1])
      BY DEF OneLiveChild
    <2> DEFINE n == nameOf[r1]
    <2>1. /\ n \in Names /\ r1 \in own /\ r2 \in own
          /\ waits(r1) \/ (newborn(n) /\ startRun[n] = r1)
          /\ waits(r2) \/ (newborn(n) /\ startRun[n] = r2)
      BY ShapeFacts DEF ProcessInv, Core, Shape, LiveHasKeeper, LiveChild, Alive
    <2>2. CASE waits(r1) /\ waits(r2)
      BY <2>1, <2>2, ChildFacts DEF ProcessInv, Core, WaitingTracked
    <2>3. CASE newborn(n) /\ (waits(r1) \/ waits(r2))
      BY <2>1, <2>3 DEF ProcessInv, Core, SlotWasFree, newborn, starting
    <2> QED
      BY <2>1, <2>2, <2>3
  <1> QED
    BY <1>1, ProcessInvariant, PTL

\* A live child whose goroutine waits is in the table, until Remove lost it.
THEOREM ChildStaysTracked == ProcessSpec => []LiveChildTracked
  <1>1. ProcessInv => LiveChildTracked
    BY DEF ProcessInv, Core, LiveChildTracked, WaitingTracked, LiveChild, waits, Child
  <1> QED
    BY <1>1, ProcessInvariant, PTL

\* An exit channel is closed after the table let the process go and its exit is
\* on record, until another entry takes the slot.
THEOREM ExitClosesAfterTable == ProcessSpec => []ExitChannelClosesLast
  <1>1. ProcessInv => ExitChannelClosesLast
    BY ShapeFacts DEF ProcessInv, Core, Shape, ExitChannelClosesLast, GoneUntracked, Record,
       GoneOnRecord, Gone
  <1> QED
    BY <1>1, ProcessInvariant, PTL

\* A slot shows a running process or the exit of one, never both.
THEOREM ExitExcludesRunning == ProcessSpec => []ExitOrRunning
  <1>1. ProcessInv => ExitOrRunning
    BY DEF ProcessInv, Core
  <1> QED
    BY <1>1, ProcessInvariant, PTL
=============================================================================
