-------------------------- MODULE ProcessManager --------------------------
(***************************************************************************)
(* The process manager of drivechaind (process.go): the table of managed   *)
(* binaries, the PID records on disk and the goroutines that start, reap,  *)
(* watch, stop and remove a process.  pm.mu guards the table only, so the  *)
(* fork, the PID record, the exit channel and the OS process itself change *)
(* between two critical sections.  The daemon may die between any two      *)
(* steps; the children and the PID records outlive it, and the next daemon *)
(* adopts what the records name.                                           *)
(***************************************************************************)
EXTENDS Naturals, FiniteSets

CONSTANTS
    Names,      \* process slots (config names)
    Stoppers,   \* callers of Stop
    Removers,   \* callers that drop an adopted process (ShutdownAll)
    MaxRuns,    \* bound on OS processes
    MaxElsewhere, \* the runs up to this one may be started by somebody else
    MaxCrashes, \* bound on daemon deaths
    OwnsInstall \* whether the daemon holds the owner lock

ASSUME ProcessAssumption ==
    {MaxRuns, MaxElsewhere, MaxCrashes} \subseteq Nat /\ OwnsInstall \in BOOLEAN

Runs == 1 .. MaxRuns
NoRun == 0

\* A ManagedProcess: the OS process it stands for, and whether it was adopted.
Entry(r, a) == [run |-> r, adopted |-> a]
Entries == [run : Runs, adopted : BOOLEAN]
NoEntry == Entry(NoRun, FALSE)
Slots == Entries \cup {NoEntry}

VARIABLES
    os, nameOf,         \* OS processes, and the slot each belongs to
    processes, lastExited,
    orphans,            \* adopted runs that a PID record named when last adopted
    startAt, startRun,  \* the StartWithOptions in flight of a slot
    pidFile,            \* PID records on disk
    reaper,             \* the goroutine that waits for an entry's process
    exitClosed,         \* entries whose exitCh is closed
    stopAt, stopOn,     \* a Stop and the entry it looked up
    removing,           \* the slot a remover saw an adopted process in
    daemon, adopting,   \* daemon deaths so far, up, and slots left to adopt
    own,                \* history: processes this daemon forked
    dropped,            \* history: children Remove took
    latest              \* history: the entry that last took a slot

tables    == <<processes, lastExited, orphans>>
starts    == <<startAt, startRun>>
stops     == <<stopAt, stopOn>>
history   == <<own, dropped, latest>>
processVars == <<os, nameOf, tables, starts, pidFile, reaper, exitClosed, stops,
                 removing, daemon, adopting, history>>

Goroutine == {"none", "waiting", "untracked", "unfiled", "done"}

ProcessTypeOK ==
    /\ os \in [Runs -> {"unborn", "alive", "dead"}]
    /\ nameOf \in [Runs -> Names]
    /\ processes \in [Names -> Slots] /\ lastExited \in [Names -> Slots]
    /\ startAt \in [Names -> {"out", "reserved", "forked", "registered", "started"}]
    /\ startRun \in [Names -> Runs \cup {NoRun}]
    /\ pidFile \in [Names -> Runs \cup {NoRun}]
    /\ reaper \in [Entries -> Goroutine]
    /\ exitClosed \subseteq Entries
    /\ stopAt \in [Stoppers -> {"out", "found", "waiting"}]
    /\ stopOn \in [Stoppers -> Slots]
    /\ removing \in [Removers -> SUBSET Names]
    /\ daemon \in [up : BOOLEAN, deaths : 0 .. MaxCrashes]
    /\ adopting \subseteq Names
    /\ orphans \subseteq Runs /\ own \subseteq Runs /\ dropped \subseteq Entries
    /\ latest \in [Names -> Slots]

ProcessInit ==
    /\ os = [r \in Runs |-> "unborn"] /\ nameOf \in [Runs -> Names]
    /\ processes = [n \in Names |-> NoEntry] /\ lastExited = [n \in Names |-> NoEntry]
    /\ startAt = [n \in Names |-> "out"] /\ startRun = [n \in Names |-> NoRun]
    /\ pidFile = [n \in Names |-> NoRun]
    /\ reaper = [e \in Entries |-> "none"] /\ exitClosed = {}
    /\ stopAt = [s \in Stoppers |-> "out"] /\ stopOn = [s \in Stoppers |-> NoEntry]
    /\ removing = [x \in Removers |-> {}]
    /\ daemon = [up |-> TRUE, deaths |-> 0] /\ adopting = {}
    /\ orphans = {} /\ own = {} /\ dropped = {} /\ latest = [n \in Names |-> NoEntry]

serving == daemon.up /\ adopting = {}

\* A PID of 0, what a missed lookup yields, names no process.
aliveUnlessSeenDead(r) == r = NoRun \/ os[r] = "alive"
Alive(r) == r # NoRun /\ os[r] = "alive"

\* Runs are born in their order.
Unborn(r) == os[r] = "unborn" /\ \A q \in 1 .. r - 1 : os[q] # "unborn"

-----------------------------------------------------------------------------
(* StartWithOptions.                                                       *)

forgetsReservation(n) == processes[n] = NoEntry
slotFree(n) == processes[n] = NoEntry /\ startAt[n] = "out"

Reserve(n) ==
    /\ serving /\ slotFree(n)
    /\ startAt' = [startAt EXCEPT ![n] = "reserved"]
    /\ startRun' = [startRun EXCEPT ![n] = NoRun]
    /\ UNCHANGED <<os, nameOf, tables, pidFile, reaper, exitClosed, stops, removing,
                   daemon, adopting, history>>

\* No binary, a bad artifact pin, no log file or a failed fork.
StartFails(n) ==
    /\ serving /\ startAt[n] = "reserved"
    /\ startAt' = [startAt EXCEPT ![n] = "out"]
    /\ UNCHANGED <<os, nameOf, tables, startRun, pidFile, reaper, exitClosed, stops,
                   removing, daemon, adopting, history>>

Fork(n, r) ==
    /\ serving /\ startAt[n] = "reserved"
    /\ Unborn(r) /\ nameOf[r] = n
    /\ os' = [os EXCEPT ![r] = "alive"]
    /\ own' = own \cup {r}
    /\ startAt' = [startAt EXCEPT ![n] = "forked"]
    /\ startRun' = [startRun EXCEPT ![n] = r]
    /\ UNCHANGED <<nameOf, tables, pidFile, reaper, exitClosed, stops, removing,
                   daemon, adopting, dropped, latest>>

keepsLastExit(n) == lastExited
withoutLastExit(n) == [lastExited EXCEPT ![n] = NoEntry]

Register(n) ==
    /\ serving /\ startAt[n] = "forked"
    /\ processes' = [processes EXCEPT ![n] = Entry(startRun[n], FALSE)]
    /\ lastExited' = withoutLastExit(n)
    /\ latest' = [latest EXCEPT ![n] = Entry(startRun[n], FALSE)]
    /\ startAt' = [startAt EXCEPT ![n] = "registered"]
    /\ UNCHANGED <<os, nameOf, orphans, startRun, pidFile, reaper, exitClosed, stops,
                   removing, daemon, adopting, own, dropped>>

\* The PID record, and the goroutine that waits for the child.
WritePidFile(n) ==
    /\ serving /\ startAt[n] = "registered"
    /\ pidFile' = [pidFile EXCEPT ![n] = startRun[n]]
    /\ reaper' = [reaper EXCEPT ![Entry(startRun[n], FALSE)] = "waiting"]
    /\ startAt' = [startAt EXCEPT ![n] = "started"]
    /\ UNCHANGED <<os, nameOf, tables, startRun, exitClosed, stops, removing, daemon,
                   adopting, history>>

\* After 500 ms, or at once with an error when the child exited before that.
StartReturns(n) ==
    /\ serving /\ startAt[n] = "started"
    /\ startAt' = [startAt EXCEPT ![n] = "out"]
    /\ startRun' = [startRun EXCEPT ![n] = NoRun]
    /\ UNCHANGED <<os, nameOf, tables, pidFile, reaper, exitClosed, stops, removing,
                   daemon, adopting, history>>

-----------------------------------------------------------------------------
(* The goroutines that see a process end: the child's own, after cmd.Wait, *)
(* and watchAdopted, which polls.                                          *)

stopsTracking(e) == processes[nameOf[e.run]] = e
anyEntry(e) == TRUE

\* Only watchAdopted checks that the slot still holds its own entry.
mayUntrack(e) == e.adopted => stopsTracking(e)

Untrack(e) ==
    /\ daemon.up
    /\ reaper[e] = "waiting" /\ os[e.run] = "dead" /\ mayUntrack(e)
    /\ processes' = [processes EXCEPT ![nameOf[e.run]] = NoEntry]
    /\ lastExited' = [lastExited EXCEPT ![nameOf[e.run]] = e]
    /\ reaper' = [reaper EXCEPT ![e] = "untracked"]
    /\ UNCHANGED <<os, nameOf, orphans, starts, pidFile, exitClosed, stops, removing, daemon,
                   adopting, history>>

WatchEnds(e) ==
    /\ daemon.up
    /\ e.adopted /\ reaper[e] = "waiting" /\ ~stopsTracking(e)
    /\ reaper' = [reaper EXCEPT ![e] = "done"]
    /\ UNCHANGED <<os, nameOf, tables, starts, pidFile, exitClosed, stops, removing,
                   daemon, adopting, history>>

\* The record goes by name, whichever process it names by now.
DeletePidFile(e) ==
    LET n == nameOf[e.run] IN
    /\ daemon.up /\ reaper[e] = "untracked"
    /\ pidFile' = [pidFile EXCEPT ![n] = NoRun]
    /\ reaper' = [reaper EXCEPT ![e] = "unfiled"]
    /\ UNCHANGED <<os, nameOf, tables, starts, exitClosed, stops, removing, daemon,
                   adopting, history>>

closesBeforeUntracking(e) == reaper[e] = "waiting" /\ os[e.run] = "dead"
closesOwnOnly(e) == reaper[e] = "unfiled" /\ ~e.adopted
closesLast(e) == reaper[e] = "unfiled"

closeExit(e) ==
    /\ daemon.up /\ closesLast(e)
    /\ exitClosed' = exitClosed \cup {e}
    /\ reaper' = [reaper EXCEPT ![e] = "done"]
    /\ UNCHANGED <<os, nameOf, tables, starts, pidFile, stops, removing, daemon,
                   adopting, history>>

-----------------------------------------------------------------------------
(* Stop, AdoptProcess, Remove.                                             *)

StopLooksUp(s, n) ==
    /\ serving /\ stopAt[s] = "out" /\ processes[n] # NoEntry
    /\ stopAt' = [stopAt EXCEPT ![s] = "found"]
    /\ stopOn' = [stopOn EXCEPT ![s] = processes[n]]
    /\ UNCHANGED <<os, nameOf, tables, starts, pidFile, reaper, exitClosed, removing,
                   daemon, adopting, history>>

\* SIGTERM: the process ends when it likes.  A process that is gone already
\* makes Stop return an error.
StopSignals(s) ==
    /\ serving /\ stopAt[s] = "found"
    /\ stopAt' = [stopAt EXCEPT ![s] = IF Alive(stopOn[s].run) THEN "waiting" ELSE "out"]
    /\ stopOn' = [stopOn EXCEPT ![s] = IF Alive(@.run) THEN @ ELSE NoEntry]
    /\ UNCHANGED <<os, nameOf, tables, starts, pidFile, reaper, exitClosed, removing,
                   daemon, adopting, history>>

\* The exit channel closes, or the graceful timeout runs out and the kill ends
\* the process; either way Stop does not wait any further.
StopReturns(s) ==
    /\ serving /\ stopAt[s] = "waiting"
    /\ \/ stopOn[s] \in exitClosed /\ UNCHANGED os
       \/ os' = [os EXCEPT ![stopOn[s].run] = "dead"]
    /\ stopAt' = [stopAt EXCEPT ![s] = "out"]
    /\ stopOn' = [stopOn EXCEPT ![s] = NoEntry]
    /\ UNCHANGED <<nameOf, tables, starts, pidFile, reaper, exitClosed, removing,
                   daemon, adopting, history>>

\* force: kill without waiting.
StopKills(s) ==
    /\ serving /\ stopAt[s] = "found"
    /\ os' = [os EXCEPT ![stopOn[s].run] = "dead"]
    /\ stopAt' = [stopAt EXCEPT ![s] = "out"]
    /\ stopOn' = [stopOn EXCEPT ![s] = NoEntry]
    /\ UNCHANGED <<nameOf, tables, starts, pidFile, reaper, exitClosed, removing,
                   daemon, adopting, history>>

\* orphans: startedInAnEarlierRun, the PID record still names the process.  A run
\* that Remove took may be adopted again, as a new entry with a watcher of its own:
\* the watcher of the old entry sees that and ends, so one stands for both.
adopt(n, r) ==
    /\ orphans' = IF pidFile[n] = r THEN orphans \cup {r} ELSE orphans \ {r}
    /\ processes' = [processes EXCEPT ![n] = Entry(r, TRUE)]
    /\ lastExited' = withoutLastExit(n)
    /\ reaper' = [reaper EXCEPT ![Entry(r, TRUE)] = "waiting"]
    /\ latest' = [latest EXCEPT ![n] = Entry(r, TRUE)]

\* A boot that finds its binary running adopts it.  The reservation of a start
\* in flight does not keep it out.
AdoptProcess(n, r) ==
    /\ serving /\ nameOf[r] = n /\ Alive(r)
    /\ processes[n] = NoEntry
    /\ adopt(n, r)
    /\ UNCHANGED <<os, nameOf, starts, pidFile, exitClosed, stops, removing, daemon,
                   adopting, own, dropped>>

mayStopAdopted(n) == processes[n].run \in orphans /\ OwnsInstall

\* ShutdownAll: the process is adopted and not ours to stop ...
SeesAdopted(x, n) ==
    /\ serving /\ removing[x] = {} /\ processes[n].adopted /\ ~mayStopAdopted(n)
    /\ removing' = [removing EXCEPT ![x] = {n}]
    /\ UNCHANGED <<os, nameOf, tables, starts, pidFile, reaper, exitClosed, stops,
                   daemon, adopting, history>>

\* ... and Remove takes whatever the slot holds by then.
Remove(x, n) ==
    /\ serving /\ n \in removing[x]
    /\ processes' = [processes EXCEPT ![n] = NoEntry]
    /\ dropped' = dropped \cup {e \in {processes[n]} \ {NoEntry} : ~e.adopted}
    /\ removing' = [removing EXCEPT ![x] = {}]
    /\ UNCHANGED <<os, nameOf, lastExited, orphans, starts, pidFile, reaper, exitClosed, stops,
                   daemon, adopting, own, latest>>

-----------------------------------------------------------------------------
(* The operating system, and the daemon's death and restart.               *)

Dies(r) ==
    /\ os[r] = "alive"
    /\ os' = [os EXCEPT ![r] = "dead"]
    /\ UNCHANGED <<nameOf, tables, starts, pidFile, reaper, exitClosed, stops,
                   removing, daemon, adopting, history>>

\* Somebody starts the binary by hand.
StartedElsewhere(r) ==
    /\ Unborn(r) /\ r <= MaxElsewhere
    /\ os' = [os EXCEPT ![r] = "alive"]
    /\ UNCHANGED <<nameOf, tables, starts, pidFile, reaper, exitClosed, stops,
                   removing, daemon, adopting, history>>

DaemonDies ==
    /\ daemon.up /\ daemon.deaths < MaxCrashes
    /\ daemon' = [up |-> FALSE, deaths |-> daemon.deaths + 1]
    /\ processes' = [n \in Names |-> NoEntry] /\ lastExited' = [n \in Names |-> NoEntry]
    /\ orphans' = {}
    /\ startAt' = [n \in Names |-> "out"] /\ startRun' = [n \in Names |-> NoRun]
    /\ reaper' = [e \in Entries |-> "none"] /\ exitClosed' = {}
    /\ stopAt' = [s \in Stoppers |-> "out"] /\ stopOn' = [s \in Stoppers |-> NoEntry]
    /\ removing' = [x \in Removers |-> {}]
    /\ adopting' = Names /\ own' = {} /\ dropped' = {}
    /\ latest' = [n \in Names |-> NoEntry]
    /\ UNCHANGED <<os, nameOf, pidFile>>

DaemonStarts ==
    /\ ~daemon.up
    /\ daemon' = [daemon EXCEPT !.up = TRUE]
    /\ UNCHANGED <<os, nameOf, tables, starts, pidFile, reaper, exitClosed, stops,
                   removing, adopting, history>>

\* AdoptOrphans, one PID record at a time, before the daemon serves anybody.
AdoptOrphan(n) ==
    /\ daemon.up /\ n \in adopting
    /\ adopting' = adopting \ {n}
    /\ IF Alive(pidFile[n])
         THEN adopt(n, pidFile[n]) /\ UNCHANGED pidFile
         ELSE /\ pidFile' = [pidFile EXCEPT ![n] = NoRun]
              /\ UNCHANGED <<tables, reaper, latest>>
    /\ UNCHANGED <<os, nameOf, starts, exitClosed, stops, removing, daemon, own, dropped>>

Start(n) == Reserve(n) \/ StartFails(n) \/ (\E r \in Runs : Fork(n, r))
              \/ Register(n) \/ WritePidFile(n) \/ StartReturns(n)
Reap(e)  == Untrack(e) \/ WatchEnds(e) \/ DeletePidFile(e) \/ closeExit(e)
Stop(s)  == (\E n \in Names : StopLooksUp(s, n)) \/ StopSignals(s) \/ StopReturns(s)
              \/ StopKills(s)

ProcessNext ==
    \/ \E n \in Names : Start(n) \/ AdoptOrphan(n)
    \/ \E e \in Entries : Reap(e)
    \/ \E s \in Stoppers : Stop(s)
    \/ \E n \in Names, r \in Runs : AdoptProcess(n, r)
    \/ \E x \in Removers, n \in Names : SeesAdopted(x, n) \/ Remove(x, n)
    \/ \E r \in Runs : Dies(r) \/ StartedElsewhere(r)
    \/ DaemonDies \/ DaemonStarts

\* Goroutines run on; processes, callers and crashes are the environment's.
ProcessFairness == \A e \in Entries : WF_reaper(Reap(e))

ProcessSpec == ProcessInit /\ [][ProcessNext]_processVars
ProcessFairSpec == ProcessSpec /\ ProcessFairness

-----------------------------------------------------------------------------

LiveChild(r) == r \in own /\ Alive(r)

\* Remove took a child of this daemon out of the slot.
LostChild(n) == \E e \in dropped : nameOf[e.run] = n

\* However starts, adoptions and exits interleave, a slot has one live child of
\* this daemon, and only Remove can make it two.
OneLiveChild ==
    \A r1, r2 \in Runs :
        (LiveChild(r1) /\ LiveChild(r2) /\ nameOf[r1] = nameOf[r2] /\ r1 # r2) =>
        LostChild(nameOf[r1])

\* A live child stays in the table from its registration to its death: an
\* earlier run's goroutine never untracks it, unless Remove lost that run.
LiveChildTracked ==
    \A r \in Runs :
        LiveChild(r) /\ reaper[Entry(r, FALSE)] = "waiting" =>
        processes[nameOf[r]] = Entry(r, FALSE) \/ LostChild(nameOf[r])

\* Whoever waited for an exit finds the slot free of that process and, unless
\* a newer entry took the slot since, this exit on record and not another one.
\* Only a child that Remove lost can put its own exit over it.
ExitChannelClosesLast ==
    \A e \in exitClosed :
        LET n == nameOf[e.run] IN
        /\ processes[n] # e
        /\ latest[n] = e => lastExited[n] = e \/ LostChild(n)

\* A slot never shows a running process and an exited one at the same time:
\* the restart timer would restart what runs.
ExitOrRunning ==
    \A n \in Names : processes[n] # NoEntry => lastExited[n] = NoEntry

\* A dead process does not keep its slot, and whoever waits for its exit is
\* told, unless a registration or Remove took the slot from it meanwhile (the
\* watcher of an adopted process ends when it sees that).
Superseded(e) ==
    \/ processes[nameOf[e.run]] \notin {e, NoEntry}
    \/ e.adopted /\ reaper[e] = "done"
    \/ LostChild(nameOf[e.run])

DeadLeaves ==
    \A e \in Entries :
        (reaper[e] = "waiting" /\ os[e.run] = "dead" /\ stopsTracking(e)) ~>
        (e \in exitClosed \/ ~daemon.up \/ Superseded(e))

\* The PID record of a live child is there for the next daemon to adopt it by.
RecordKept ==
    \A r \in Runs :
        LiveChild(r) /\ reaper[Entry(r, FALSE)] = "waiting" => pidFile[nameOf[r]] = r
=============================================================================
