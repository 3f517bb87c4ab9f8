--------------------------- MODULE ECashMigration ---------------------------
(***************************************************************************)
(* The daemon's migration of a Core data directory from one eCash network  *)
(* to another (ecash_migration.go), with the block converter it runs, the  *)
(* node starts it holds back and the start of the daemon that resumes it.  *)
(* The worker goroutine saves the job before and after each of its five    *)
(* steps: prepare, rewind, convert, select, check.  It, the daemon, Core   *)
(* or the machine may stop anywhere; the next request takes the job up     *)
(* from its record.  Wallet files and wallet-only jobs are left out.       *)
(***************************************************************************)
EXTENDS BlockConvert, Naturals

CONSTANTS
    Branches,  \* source blocks right above the common block
    MaxFaults  \* errors, crashes and losses of power in a behaviour

ASSUME MigrationAssumption == MaxFaults \in Nat

VARIABLES
    disk,     \* ecash-migration.json: at most one job
    mem,      \* migrationState
    job,      \* the copy the worker works on, while it runs
    workerAt, \* where runECashMigration is
    daemonUp,
    core,     \* the Core binary that runs on the directory
    branches, \* environment: the branches Core still holds valid
    conf,     \* the network bitcoin.conf names (uacomment)
    record,   \* the settings' record of whose blocks these are (ECashChainID)
    pick,     \* the settings' network the user chose (ECashNetworkID)
    ecashID,  \* the network the configs in memory are expanded for
    boot,     \* where a StartWithL1 is
    refresh,  \* where refreshNetworkCatalog is, with the id it read
    faults

migrationVars == <<disk, mem, job, workerAt>>
chainVars     == <<core, branches>>
selectVars    == <<conf, record, pick, ecashID>>
daemonVars    == <<daemonUp, boot, refresh>>
vars == <<convertVars, migrationVars, chainVars, selectVars, daemonVars, faults>>

Networks == {"from", "to"}
Job == [step : 0 .. 5, complete : BOOLEAN, rejected : SUBSET Branches]
NewJob == [step |-> 0, complete |-> FALSE, rejected |-> {}]

WorkerPoints ==
    {"idle", "save", "advance", "finish", "failed",
     "prepare", "stopNodes", "inspect", "readTarget", "startSource", "reject",
     "tip", "invalidate", "stopCore", "convert", "converting",
     "selConf", "selRecord", "selPick", "selMemory", "startTarget", "online"}

MigrationTypeOK ==
    /\ disk \subseteq Job /\ mem \subseteq Job /\ job \in Job
    /\ workerAt \in WorkerPoints /\ daemonUp \in BOOLEAN
    /\ core \in {"none", "source", "target"} /\ branches \subseteq Branches
    /\ conf \in Networks /\ record \in Networks /\ ecashID \in Networks
    /\ pick \in Networks \cup {"none"}
    /\ boot \in {"idle", "waiting"}
    /\ refresh \in {"off", "fetching"} \cup Networks
    /\ faults \in 0 .. MaxFaults

(* An install on the source network whose daemon is about to start.  The   *)
(* pick names the target when a confirmed upgrade stopped before its job.  *)
MigrationInit ==
    /\ ConvertInit
    /\ disk = {} /\ mem = {} /\ job = NewJob /\ workerAt = "idle"
    /\ daemonUp = FALSE /\ boot = "idle" /\ refresh = "off"
    /\ core = "none" /\ branches \in SUBSET Branches
    /\ conf = "from" /\ record = "from" /\ ecashID = "from"
    /\ pick \in Networks \cup {"none"}
    /\ faults = 0

incomplete(saved) == \E j \in saved : ~j.complete

saveMigration(j) == disk' = {j} /\ mem' = {j}

-----------------------------------------------------------------------------
(* Requests *)

(* A request that finds an unfinished job of this pair resumes it.         *)
ResumeJob ==
    /\ daemonUp /\ workerAt = "idle"
    /\ \E j \in mem : ~j.complete /\ job' = j /\ disk' = {j}
    /\ workerAt' = "save"
    /\ UNCHANGED <<convertVars, mem, chainVars, selectVars, daemonVars, faults>>

(* The record names the source of a new job.                               *)
NewMigration ==
    /\ daemonUp /\ workerAt = "idle" /\ mem = {} /\ record = "from"
    /\ job' = NewJob /\ saveMigration(NewJob)
    /\ workerAt' = "save"
    /\ UNCHANGED <<convertVars, chainVars, selectVars, daemonVars, faults>>

-----------------------------------------------------------------------------
(* The loop of runMigrationSteps *)

goto(to) == workerAt' = to
firstPoint == <<"prepare", "stopNodes", "convert", "selConf", "startTarget", "finish">>

SaveStep ==
    /\ workerAt = "save"
    /\ saveMigration(job) /\ goto(firstPoint[job.step + 1])
    /\ UNCHANGED <<convertVars, job, chainVars, selectVars, daemonVars, faults>>

countsTwice == [job EXCEPT !.step = @ + 2]
nextStep == [job EXCEPT !.step = @ + 1]

Advance ==
    /\ workerAt = "advance"
    /\ job' = nextStep /\ saveMigration(nextStep) /\ goto("save")
    /\ UNCHANGED <<convertVars, chainVars, selectVars, daemonVars, faults>>

(* The save after a step may fail with the step already counted.           *)
AdvanceUnsaved ==
    /\ workerAt = "advance" /\ faults < MaxFaults
    /\ faults' = faults + 1
    /\ job' = nextStep /\ goto("failed")
    /\ UNCHANGED <<convertVars, disk, mem, chainVars, selectVars, daemonVars>>

unchangedButCore ==
    UNCHANGED <<convertVars, disk, mem, job, selectVars, daemonVars, faults>>

Prepare ==
    /\ workerAt = "prepare" /\ goto("advance")
    /\ UNCHANGED chainVars /\ unchangedButCore

-----------------------------------------------------------------------------
(* Rewind *)

StopNodes ==
    /\ workerAt = "stopNodes"
    /\ core' = "none" /\ goto("inspect")
    /\ UNCHANGED branches /\ unchangedButCore

atTarget == \A r \in Records : cached[r] = "to"

(* blocksAtTarget: a directory that holds target blocks only rolls back    *)
(* nothing.                                                                *)
Inspect ==
    /\ workerAt = "inspect" /\ core = "none" /\ accepts(journal)
    /\ goto(IF atTarget THEN "readTarget" ELSE "startSource")
    /\ UNCHANGED chainVars /\ unchangedButCore

(* startMigrationCore: a Core that runs already must be the wanted one.    *)
startMigrationCore(binary, next) ==
    /\ core \in {"none", binary}
    /\ core' = binary /\ goto(next)
    /\ UNCHANGED branches /\ unchangedButCore

ReadTargetChain == workerAt = "readTarget" /\ startMigrationCore("target", "stopCore")
StartSource     == workerAt = "startSource" /\ startMigrationCore("source", "reject")

(* What an earlier run meant to reject goes first, then the branch of the  *)
(* tip, one at a time, each on record before Core is told.                 *)
rejectsNothingAgain ==
    /\ workerAt = "reject" /\ core = "source"
    /\ goto("tip")
    /\ UNCHANGED chainVars /\ unchangedButCore

RejectRecorded ==
    /\ workerAt = "reject" /\ core = "source"
    /\ branches' = branches \ job.rejected /\ goto("tip")
    /\ UNCHANGED core /\ unchangedButCore

RewindTip ==
    /\ workerAt = "tip" /\ core = "source"
    /\ \E b \in branches \ job.rejected :
        LET j == [job EXCEPT !.rejected = @ \cup {b}]
        IN  job' = j /\ saveMigration(j)
    /\ goto("invalidate")
    /\ UNCHANGED <<convertVars, chainVars, selectVars, daemonVars, faults>>

InvalidateTip ==
    /\ workerAt = "invalidate" /\ core = "source"
    /\ branches' = branches \ job.rejected /\ goto("tip")
    /\ UNCHANGED core /\ unchangedButCore

TipIsCommon ==
    /\ workerAt = "tip" /\ core = "source" /\ branches = {}
    /\ goto("stopCore")
    /\ UNCHANGED chainVars /\ unchangedButCore

StopCore ==
    /\ workerAt = "stopCore"
    /\ core' = "none" /\ goto("advance")
    /\ UNCHANGED branches /\ unchangedButCore

-----------------------------------------------------------------------------
(* Convert *)

StartConvert ==
    /\ workerAt = "convert" /\ core = "none"
    /\ BeginRun /\ goto("converting")
    /\ UNCHANGED <<disk, mem, job, chainVars, selectVars, daemonVars, faults>>

RunConvert ==
    /\ workerAt = "converting"
    /\ \/ Preflight \/ PreflightRefuses \/ RenameJournal \/ FlushJournal
       \/ OpenFile \/ WriteRecord \/ SyncFile \/ EndRun
    /\ UNCHANGED <<migrationVars, chainVars, selectVars, daemonVars, faults>>

EndConvert ==
    /\ workerAt = "converting" /\ runAt = "done" /\ goto("advance")
    /\ UNCHANGED chainVars /\ unchangedButCore

-----------------------------------------------------------------------------
(* Select: bitcoin.conf, then the two records of the settings, then memory *)

unchangedButSelected ==
    UNCHANGED <<convertVars, disk, mem, job, chainVars, daemonVars, faults>>

SelectConf ==
    /\ workerAt = "selConf" /\ conf' = "to" /\ goto("selRecord")
    /\ UNCHANGED <<record, pick, ecashID>> /\ unchangedButSelected

SelectRecord ==
    /\ workerAt = "selRecord" /\ record' = "to" /\ goto("selPick")
    /\ UNCHANGED <<conf, pick, ecashID>> /\ unchangedButSelected

SelectPick ==
    /\ workerAt = "selPick" /\ pick' = "to" /\ goto("selMemory")
    /\ UNCHANGED <<conf, record, ecashID>> /\ unchangedButSelected

SelectMemory ==
    /\ workerAt = "selMemory" /\ ecashID' = "to" /\ goto("advance")
    /\ UNCHANGED <<conf, record, pick>> /\ unchangedButSelected

-----------------------------------------------------------------------------
(* Check, and the end of the job *)

StartTarget == workerAt = "startTarget" /\ startMigrationCore("target", "online")

CheckTarget ==
    /\ workerAt = "online" /\ core = "target" /\ goto("advance")
    /\ UNCHANGED chainVars /\ unchangedButCore

unchangedButJob == UNCHANGED <<convertVars, chainVars, selectVars, daemonVars>>

Finish ==
    /\ workerAt = "finish"
    /\ saveMigration([job EXCEPT !.complete = TRUE]) /\ goto("idle")
    /\ UNCHANGED <<job, faults>> /\ unchangedButJob

(* What each point needs of Core and of the files, or the step returns an  *)
(* error.                                                                  *)
blocked ==
    \/ workerAt \in {"reject", "tip", "invalidate"} /\ core # "source"
    \/ workerAt = "tip" /\ branches # {} /\ branches \subseteq job.rejected
    \/ workerAt = "inspect" /\ (core # "none" \/ ~accepts(journal))
    \/ workerAt = "startSource" /\ core = "target"
    \/ workerAt \in {"readTarget", "startTarget"} /\ core = "source"
    \/ workerAt = "convert" /\ core # "none"
    \/ workerAt = "converting" /\ runAt = "refused"
    \/ workerAt = "online" /\ core # "target"

StepFails ==
    /\ workerAt \notin {"idle", "finish", "failed"}
    /\ \/ blocked /\ UNCHANGED faults
       \/ faults < MaxFaults /\ faults' = faults + 1
    /\ goto("failed") /\ dropRun
    /\ UNCHANGED <<diskVars, disk, mem, job, chainVars, selectVars, daemonVars>>

(* endFailedStart forgets a job that only prepared; any other is saved.    *)
EndFailed ==
    /\ workerAt = "failed" /\ goto("idle")
    /\ IF job.step = 0 THEN disk' = {} /\ mem' = {} ELSE saveMigration(job)
    /\ UNCHANGED <<job, faults>> /\ unchangedButJob

(* The last save of a run may fail too; memory then runs ahead of the disk.*)
EndUnsaved ==
    /\ workerAt \in {"finish", "failed"} /\ job.step # 0 /\ faults < MaxFaults
    /\ mem' = {job} /\ goto("idle") /\ faults' = faults + 1
    /\ UNCHANGED <<disk, job>> /\ unchangedButJob

Worker ==
    \/ SaveStep \/ Advance \/ AdvanceUnsaved \/ Prepare
    \/ StopNodes \/ Inspect \/ ReadTargetChain \/ StartSource \/ RejectRecorded
    \/ RewindTip \/ InvalidateTip \/ TipIsCommon \/ StopCore
    \/ StartConvert \/ RunConvert \/ EndConvert
    \/ SelectConf \/ SelectRecord \/ SelectPick \/ SelectMemory
    \/ StartTarget \/ CheckTarget \/ Finish
    \/ StepFails \/ EndFailed \/ EndUnsaved

-----------------------------------------------------------------------------
(* Node starts: the gate is asked at the request and again at the fork,    *)
(* since downloads and a drain may take minutes in between.                *)

asksJobOnly == ~incomplete(mem)
gateOpen == ~incomplete(mem) /\ record = ecashID

unchangedButBoot ==
    UNCHANGED <<convertVars, migrationVars, selectVars, daemonUp, refresh, faults>>

BootRequest ==
    /\ daemonUp /\ boot = "idle" /\ gateOpen
    /\ boot' = "waiting"
    /\ UNCHANGED chainVars /\ unchangedButBoot

notAskedAgain == TRUE
beforeStart == gateOpen

BootStartsCore ==
    /\ boot = "waiting" /\ beforeStart /\ core = "none" /\ ~locked
    /\ core' = IF ecashID = "from" THEN "source" ELSE "target"
    /\ boot' = "idle"
    /\ UNCHANGED branches /\ unchangedButBoot

BootGivesUp ==
    /\ boot = "waiting" /\ (~beforeStart \/ core # "none" \/ locked)
    /\ boot' = "idle"
    /\ UNCHANGED chainVars /\ unchangedButBoot

(* The catalog refresh keeps the id it read in one lock section and writes *)
(* it back, with the configs, in another.                                  *)
RefreshReads ==
    /\ refresh = "fetching" /\ refresh' = ecashID
    /\ UNCHANGED <<convertVars, migrationVars, chainVars, selectVars, daemonUp, boot, faults>>

RefreshAdopts ==
    /\ refresh \in Networks /\ ecashID' = refresh /\ refresh' = "off"
    /\ UNCHANGED <<convertVars, migrationVars, chainVars, conf, record, pick, daemonUp, boot, faults>>

-----------------------------------------------------------------------------
(* The daemon, Core and the machine stop and start *)

daemonDies ==
    /\ daemonUp' = FALSE /\ mem' = {} /\ job' = NewJob /\ workerAt' = "idle"
    /\ boot' = "idle" /\ refresh' = "off"

daemonFails == daemonDies /\ faults < MaxFaults /\ faults' = faults + 1

(* A drain, which waits for a job: the worker holds the client lease.      *)
DaemonStops ==
    /\ daemonUp /\ workerAt = "idle"
    /\ daemonDies /\ core' = "none" /\ dropRun
    /\ UNCHANGED <<diskVars, disk, branches, selectVars, faults>>

DaemonCrash ==
    /\ daemonUp /\ daemonFails /\ dropRun
    /\ UNCHANGED <<diskVars, disk, chainVars, selectVars>>

(* bitcoin.conf is written without a sync, the settings and the job with.  *)
PowerLoss ==
    /\ daemonUp /\ daemonFails /\ losePower
    /\ core' = "none" /\ conf' \in {conf, "from"}
    /\ UNCHANGED <<disk, branches, record, pick, ecashID>>

CoreExits ==
    /\ core # "none" /\ core' = "none"
    /\ faults < MaxFaults /\ faults' = faults + 1
    /\ UNCHANGED <<convertVars, migrationVars, branches, selectVars, daemonVars>>

unstarted(j) == ~j.complete /\ j.step = 0

(* The start drops a job that only prepared, adopts a Core that survived   *)
(* and settles the network: the pick, else bitcoin.conf.                   *)
DaemonStart ==
    LET kept == {j \in disk : ~unstarted(j)}
        id   == IF pick = "none" THEN conf ELSE pick
    IN  /\ ~daemonUp /\ daemonUp' = TRUE
        /\ disk' = kept /\ mem' = kept
        /\ ecashID' = id
        /\ conf' = IF id = record /\ ~incomplete(kept) THEN id ELSE conf
        /\ refresh' = "fetching"
        /\ UNCHANGED <<convertVars, job, workerAt, chainVars, record, pick, boot, faults>>

Next ==
    \/ ResumeJob \/ NewMigration \/ Worker
    \/ BootRequest \/ BootStartsCore \/ BootGivesUp
    \/ RefreshReads \/ RefreshAdopts
    \/ DaemonStart \/ DaemonStops \/ DaemonCrash \/ PowerLoss \/ CoreExits

(* The worker goroutine runs on, a frontend starts its daemon again, and   *)
(* the user repeats the command that was interrupted.                      *)
Spec ==
    /\ MigrationInit /\ [][Next]_vars
    /\ WF_vars(Worker) /\ WF_vars(DaemonStart) /\ SF_vars(ResumeJob)

-----------------------------------------------------------------------------
(* Properties *)

(* Source Core never runs over a file the job rewrote, whoever starts it   *)
(* and whenever: it would append source blocks among target ones.  A boot  *)
(* that passed the gate before the job was saved asks it again in          *)
(* BeforeStart (sidechain_wallet_state.go:226-230).                        *)
SourceReadsSource == core = "source" => cached = original

(* Target Core never sees a source record, nor, once a job rolled back, a  *)
(* source branch it could take for its own chain: not when the pick named  *)
(* the target before the files did, and not when a catalog refresh wrote   *)
(* an old id back (the record in checkECashMigrationStart, 251-265).       *)
TargetReadsTarget ==
    core = "target" =>
        /\ \A r \in Records : cached[r] = "to"
        /\ branches = {} \/ \A r \in Records : original[r] = "to"

(* The job's record never runs ahead of the block files: when it says that *)
(* they are converted, no loss of power brings a source record back        *)
(* (runMigrationSteps, 643-678, over convertFile's sync).                  *)
StepFollowsFiles == \A j \in disk : j.step > 2 => \A r \in Records : stored[r] = "to"

(* Wherever it stopped, a repeated request ends the job: it completes, or  *)
(* is forgotten if it only prepared (StartECashMigration, 481-552).  No    *)
(* state that an interruption leaves makes every later run fail.           *)
JobEnds == incomplete(disk) ~> ~incomplete(disk)
=============================================================================
