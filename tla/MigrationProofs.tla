-------------------------- MODULE MigrationProofs --------------------------
(***************************************************************************)
(* The safety of the eCash migration for any set of files, records and     *)
(* source branches, and any number of errors, crashes and losses of power. *)
(* The argument: a step is counted only when its work is on the disk, and  *)
(* the saved job is never behind what was done to the files, so whoever    *)
(* reads it, and the record of the selected network with it, knows which   *)
(* Core the directory needs.                                               *)
(***************************************************************************)
EXTENDS ECashMigration, BlockConvertProofs

AllTo(magics) == \A r \in Records : magics[r] = "to"
Untouched == \A r \in Records : cached[r] = original[r] /\ stored[r] = original[r]

(* Core can no longer take a source block for its own chain. *)
RolledBack == branches = {} \/ AllTo(original)

(* What a job may claim. *)
Earned(j) ==
    /\ j.step > 1 => RolledBack
    /\ j.step > 2 => AllTo(stored)
    /\ j.step > 3 => record = "to"
    /\ j.complete => j.step = 5

JobsEarned ==
    /\ \A j \in disk \cup mem : Earned(j)
    /\ workerAt # "idle" => Earned(job)
    /\ workerAt = "advance" => job.step < 5 /\ Earned(nextStep)

(* The files and the record change only under a saved job that says so.    *)
ChangesOnRecord ==
    /\ Untouched \/ (disk # {} /\ \A j \in disk : j.step >= 2)
    /\ record = "from" \/ (disk # {} /\ \A j \in disk : j.step >= 3)

(* Memory runs ahead of the disk, the worker ahead of memory.              *)
CopiesInOrder ==
    /\ \A i \in disk, j \in disk : i = j
    /\ \A i \in mem, j \in mem : i = j
    /\ \A i \in disk, j \in mem : i.step <= j.step
    /\ daemonUp => (disk = {} <=> mem = {})
    /\ ~daemonUp => mem = {} /\ workerAt = "idle" /\ boot = "idle"
    /\ workerAt # "idle" =>
        /\ mem # {} /\ ~job.complete
        /\ \A j \in mem : ~j.complete /\ j.step <= job.step

rewindPoints ==
    {"stopNodes", "inspect", "readTarget", "startSource", "reject", "tip", "invalidate",
     "stopCore"}

(* What each point of the worker knows. *)
WorkerKnows ==
    /\ workerAt = "prepare" => job.step = 0
    /\ workerAt \in rewindPoints => job.step = 1
    /\ workerAt \in {"convert", "converting"} => job.step = 2
    /\ workerAt \in {"selConf", "selRecord", "selPick", "selMemory"} => job.step = 3
    /\ workerAt \in {"startTarget", "online"} => job.step = 4
    /\ workerAt = "finish" => job.step = 5
    /\ workerAt \notin {"idle", "save", "advance", "failed"} =>
           disk # {} /\ \A j \in disk : j.step = job.step
    /\ workerAt = "readTarget" => AllTo(cached)
    /\ workerAt = "stopCore" => RolledBack
    /\ workerAt \in {"selPick", "selMemory"} => record = "to"
    /\ workerAt = "converting" => core = "none"
    /\ locked => workerAt = "converting"

MigrationInv ==
    /\ MigrationTypeOK
    /\ ConvertInv
    /\ JobsEarned
    /\ ChangesOnRecord
    /\ CopiesInOrder
    /\ WorkerKnows
    /\ SourceReadsSource
    /\ TargetReadsTarget

-----------------------------------------------------------------------------
(* The install before the first start. *)
LEMMA MigrationInvInit == MigrationInit => MigrationInv
<1> SUFFICES ASSUME MigrationInit PROVE MigrationInv
    OBVIOUS
<1>1. ConvertInv
    BY ConvertInvInit DEF MigrationInit
<1>2. MigrationTypeOK
  <2>1. NewJob \in Job
      BY DEF NewJob, Job
  <2>2. daemonUp \in BOOLEAN
      BY Zenon DEF MigrationInit
  <2>3. QED
      BY <2>1, <2>2, MigrationAssumption DEF MigrationInit, MigrationTypeOK, WorkerPoints, Networks
<1>3. JobsEarned /\ CopiesInOrder
    BY DEF MigrationInit, JobsEarned, CopiesInOrder
<1>4. Untouched
    BY DEF MigrationInit, ConvertInit, Untouched
<1>5. ChangesOnRecord /\ WorkerKnows /\ SourceReadsSource /\ TargetReadsTarget
    BY <1>4 DEF MigrationInit, ConvertInit, ChangesOnRecord, WorkerKnows, rewindPoints,
           SourceReadsSource, TargetReadsTarget, locked
<1>6. QED
    BY <1>1, <1>2, <1>3, <1>5 DEF MigrationInv

(* What a step of the migration is to the converter. *)
LEMMA ConvertSees ==
    [Next]_vars => \/ PowerLoss /\ losePower
                   \/ RunConvert /\ ConvertStep
                   \/ UNCHANGED diskVars /\ (ConvertStep \/ Interrupt \/ UNCHANGED convertVars)
<1> SUFFICES ASSUME [Next]_vars
             PROVE  \/ PowerLoss /\ losePower
                    \/ RunConvert /\ ConvertStep
                    \/ UNCHANGED diskVars /\ (ConvertStep \/ Interrupt \/ UNCHANGED convertVars)
    OBVIOUS
<1> USE DEF convertVars, diskVars, runLocals
<1>1. CASE Worker
  <2> USE DEF unchangedButCore, unchangedButSelected, unchangedButJob
  <2>1. CASE StartConvert \/ RunConvert
      BY <2>1 DEF StartConvert, BeginRun, RunConvert, ConvertStep
  <2>2. CASE StepFails
      BY <2>2 DEF StepFails, Interrupt
  <2>3. CASE SaveStep \/ Advance \/ AdvanceUnsaved \/ Prepare \/ Finish \/ EndFailed \/ EndUnsaved
      BY <2>3 DEF SaveStep, Advance, AdvanceUnsaved, Prepare, Finish, EndFailed, EndUnsaved
  <2>4. CASE StopNodes \/ Inspect \/ ReadTargetChain \/ StartSource \/ RejectRecorded
             \/ RewindTip \/ InvalidateTip \/ TipIsCommon \/ StopCore
      BY <2>4 DEF StopNodes, Inspect, ReadTargetChain, StartSource, startMigrationCore,
             RejectRecorded, RewindTip, InvalidateTip, TipIsCommon, StopCore
  <2>5. CASE EndConvert \/ SelectConf \/ SelectRecord \/ SelectPick \/ SelectMemory
             \/ StartTarget \/ CheckTarget
      BY <2>5 DEF EndConvert, SelectConf, SelectRecord, SelectPick, SelectMemory,
             StartTarget, startMigrationCore, CheckTarget
  <2>6. QED
      BY <1>1, <2>1, <2>2, <2>3, <2>4, <2>5 DEF Worker
<1>2. CASE DaemonStops \/ DaemonCrash
    BY <1>2 DEF DaemonStops, DaemonCrash, Interrupt
<1>3. CASE PowerLoss
    BY <1>3 DEF PowerLoss
<1>4. CASE ResumeJob \/ NewMigration \/ BootRequest \/ BootStartsCore \/ BootGivesUp
           \/ RefreshReads \/ RefreshAdopts \/ DaemonStart \/ CoreExits
    BY <1>4 DEF ResumeJob, NewMigration, BootRequest, BootStartsCore, BootGivesUp,
           RefreshReads, RefreshAdopts, DaemonStart, CoreExits, unchangedButBoot
<1>5. CASE UNCHANGED vars
    BY <1>5 DEF vars
<1>6. QED
    BY <1>1, <1>2, <1>3, <1>4, <1>5 DEF Next

(* What a step does to the files: what is stored is not taken back, and    *)
(* what is written only by a loss of power.                                *)
LEMMA FilesKept ==
    ASSUME MigrationInv, [Next]_vars
    PROVE  /\ ConvertInv' /\ original' = original
           /\ PowerLoss \/ (AllTo(cached) => AllTo(cached'))
           /\ AllTo(stored) => AllTo(stored') /\ AllTo(cached)
<1> USE DEF MigrationInv
<1>1. ConvertInv'
    BY ConvertSees, ConvertInvKept DEF ConvertNext
<1>2. CASE PowerLoss
  <2>1. ASSUME NEW r \in Records, stored[r] = "to"
        PROVE  cached[r] = "to" /\ stored'[r] = "to"
      BY <1>2, <2>1 DEF PowerLoss, losePower, mayPersist, ConvertInv, RecordsMoveToTarget
  <2>2. QED
      BY <1>1, <1>2, <2>1 DEF PowerLoss, losePower, AllTo
<1>3. CASE ConvertStep \/ Interrupt \/ UNCHANGED convertVars
  <2> USE DEF ConvertInv
  <2>1. original' = original
      BY <1>3 DEF ConvertStep, BeginRun, Preflight, PreflightRefuses, RenameJournal,
             FlushJournal, OpenFile, WriteRecord, SyncFile, EndRun, Interrupt, convertVars, diskVars
  <2>2. ASSUME NEW r \in Records
        PROVE  /\ cached[r] = "to" => cached'[r] = "to"
               /\ stored[r] = "to" => stored'[r] = "to" /\ cached[r] = "to"
    <3> USE DEF RecordsMoveToTarget
    <3>1. CASE WriteRecord
        BY <3>1 DEF WriteRecord, ConvertTypeOK
    <3>2. CASE SyncFile
        BY <3>2 DEF SyncFile, synced
    <3>3. CASE \/ BeginRun \/ Preflight \/ PreflightRefuses \/ RenameJournal \/ FlushJournal
               \/ OpenFile \/ EndRun \/ Interrupt \/ UNCHANGED convertVars
        BY <3>3 DEF BeginRun, Preflight, PreflightRefuses, RenameJournal, FlushJournal,
               OpenFile, EndRun, Interrupt, convertVars, diskVars
    <3>4. QED
        BY <1>3, <3>1, <3>2, <3>3 DEF ConvertStep
  <2>3. QED
      BY <1>1, <2>1, <2>2 DEF AllTo
<1>4. QED
    BY <1>2, <1>3, ConvertSees

-----------------------------------------------------------------------------
(* Each conjunct over a step.  A step that neither the files, the job nor  *)
(* the record see is quiet: it moves Core, the network the configs are     *)
(* expanded for, a boot or a refresh, and at most the worker's place.      *)
quietWorker ==
    \/ StopNodes \/ Inspect \/ ReadTargetChain \/ StartSource \/ RejectRecorded
    \/ InvalidateTip \/ TipIsCommon \/ SelectConf \/ SelectPick \/ StartTarget

quietDaemon ==
    \/ BootRequest \/ BootStartsCore \/ BootGivesUp \/ RefreshReads \/ RefreshAdopts
    \/ CoreExits

stopped == DaemonStops \/ DaemonCrash \/ PowerLoss

(* What quiet steps leave alone. *)
LEMMA QuietKeeps ==
    ASSUME quietWorker \/ quietDaemon
    PROVE  /\ UNCHANGED <<convertVars, disk, mem, job, record, daemonUp>>
           /\ branches' \subseteq branches
           /\ quietWorker \/ workerAt' = workerAt
<1> USE DEF goto, unchangedButCore, unchangedButSelected, selectVars, daemonVars
<1>1. CASE quietWorker
    BY <1>1 DEF quietWorker, StopNodes, Inspect, ReadTargetChain, StartSource, startMigrationCore, RejectRecorded, InvalidateTip, TipIsCommon, SelectConf,
           SelectPick, StartTarget, chainVars
<1>2. CASE quietDaemon
    BY <1>2 DEF quietDaemon, BootRequest, BootStartsCore, BootGivesUp, RefreshReads,
           RefreshAdopts, CoreExits, unchangedButBoot, migrationVars, chainVars
<1>3. QED
    BY <1>1, <1>2

LEMMA TypesKept ==
    ASSUME MigrationInv, Next
    PROVE  MigrationTypeOK'
<1> USE DEF MigrationInv, MigrationTypeOK, goto, chainVars, selectVars, daemonVars,
            migrationVars, Networks, WorkerPoints
<1>1. CASE quietWorker
    BY <1>1 DEF quietWorker, StopNodes, Inspect, ReadTargetChain, StartSource,
           startMigrationCore, RejectRecorded, InvalidateTip, TipIsCommon, SelectConf,
           SelectPick, StartTarget, unchangedButCore, unchangedButSelected
<1>2. CASE quietDaemon
    BY <1>2, MigrationAssumption DEF quietDaemon, BootRequest, BootStartsCore, BootGivesUp,
           RefreshReads, RefreshAdopts, CoreExits, unchangedButBoot
<1>3. CASE Advance \/ AdvanceUnsaved
  <2>1. nextStep \in Job
      BY <1>3 DEF Advance, AdvanceUnsaved, JobsEarned, nextStep, Job
  <2>2. QED
      BY <1>3, <2>1, MigrationAssumption DEF Advance, AdvanceUnsaved, saveMigration
<1>4. CASE RewindTip
  <2>1. \A b \in Branches : [job EXCEPT !.rejected = @ \cup {b}] \in Job
      BY DEF Job
  <2>2. QED
      BY <1>4, <2>1 DEF RewindTip, saveMigration
<1>5. CASE Finish
  <2>1. [job EXCEPT !.complete = TRUE] \in Job
      BY DEF Job
  <2>2. QED
      BY <1>5, <2>1 DEF Finish, saveMigration, unchangedButJob
<1>6. CASE SaveStep
  <2>1. firstPoint[job.step + 1] \in WorkerPoints
      BY DEF firstPoint, Job
  <2>2. QED
      BY <1>6, <2>1 DEF SaveStep, saveMigration
<1>7. CASE Prepare \/ StopCore \/ StartConvert \/ RunConvert \/ EndConvert \/ SelectRecord
           \/ SelectMemory \/ CheckTarget
    BY <1>7 DEF Prepare, StopCore, StartConvert, RunConvert, EndConvert, SelectRecord,
           SelectMemory, CheckTarget, unchangedButCore, unchangedButSelected
<1>8. CASE StepFails \/ EndFailed \/ EndUnsaved
    BY <1>8, MigrationAssumption DEF StepFails, EndFailed, EndUnsaved, saveMigration,
           unchangedButJob
<1>9. CASE ResumeJob \/ NewMigration
  <2>1. NewJob \in Job
      BY DEF NewJob, Job
  <2>2. QED
      BY <1>9, <2>1 DEF ResumeJob, NewMigration, saveMigration
<1>10. CASE DaemonStart
  <2>1. daemonUp' \in BOOLEAN
      BY <1>10, Zenon DEF DaemonStart
  <2>2. QED
      BY <1>10, <2>1 DEF DaemonStart
<1>11. CASE stopped
  <2>1. daemonUp' \in BOOLEAN
    <3>1. daemonUp' = FALSE
        BY <1>11, Zenon DEF stopped, DaemonStops, DaemonCrash, PowerLoss, daemonFails, daemonDies
    <3>2. QED
        BY <3>1, Zenon
  <2>2. NewJob \in Job
      BY DEF NewJob, Job
  <2>3. QED
      BY <1>11, <2>1, <2>2, MigrationAssumption
         DEF stopped, DaemonStops, DaemonCrash, PowerLoss, daemonFails, daemonDies
<1>12. QED
    BY <1>1, <1>2, <1>3, <1>4, <1>5, <1>6, <1>7, <1>8, <1>9, <1>10, <1>11
       DEF Next, Worker, quietWorker, quietDaemon, stopped

(* What a job has earned it keeps. *)
LEMMA NothingLost ==
    ASSUME MigrationInv, Next
    PROVE  /\ RolledBack => RolledBack'
           /\ AllTo(stored) => AllTo(stored')
           /\ record = "to" => record' = "to"
<1>1. original' = original /\ (AllTo(stored) => AllTo(stored'))
    BY FilesKept
<1>2. branches' \subseteq branches /\ (record = "to" => record' = "to")
  <2> USE DEF chainVars, selectVars
  <2>1. CASE quietWorker \/ quietDaemon
      BY <2>1, QuietKeeps
  <2>2. CASE SaveStep \/ Advance \/ AdvanceUnsaved \/ Prepare \/ RewindTip \/ StopCore
             \/ StartConvert \/ RunConvert \/ EndConvert \/ SelectRecord \/ SelectMemory
      BY <2>2 DEF SaveStep, Advance, AdvanceUnsaved, Prepare, RewindTip, StopCore, StartConvert,
             RunConvert, EndConvert, SelectRecord, SelectMemory, unchangedButCore,
             unchangedButSelected
  <2>3. CASE CheckTarget \/ Finish \/ StepFails \/ EndFailed \/ EndUnsaved \/ ResumeJob
             \/ NewMigration \/ DaemonStart \/ stopped
      BY <2>3 DEF CheckTarget, Finish, StepFails, EndFailed, EndUnsaved, ResumeJob, NewMigration,
             DaemonStart, stopped, DaemonStops, DaemonCrash, PowerLoss, unchangedButCore,
             unchangedButJob
  <2>4. QED
      BY <2>1, <2>2, <2>3 DEF Next, Worker, quietWorker, quietDaemon, stopped
<1>3. RolledBack => RolledBack'
  <2>1. branches = {} => branches' = {}
      BY <1>2
  <2>2. AllTo(original) => AllTo(original')
      BY <1>1 DEF AllTo
  <2>3. QED
      BY <2>1, <2>2 DEF RolledBack, AllTo
<1>4. QED
    BY <1>1, <1>2, <1>3

LEMMA EarnedKept ==
    ASSUME MigrationInv, Next
    PROVE  JobsEarned'
<1> USE NothingLost DEF MigrationInv, JobsEarned, Earned, nextStep, saveMigration, goto
<1>1. CASE quietWorker
  <2>1. workerAt # "idle" /\ workerAt' # "advance"
      BY <1>1 DEF quietWorker, StopNodes, Inspect, ReadTargetChain, StartSource,
             startMigrationCore, RejectRecorded, InvalidateTip, TipIsCommon, SelectConf,
             SelectPick, StartTarget
  <2>2. QED
      BY <1>1, <2>1, QuietKeeps
<1>2. CASE quietDaemon
    BY <1>2, QuietKeeps DEF quietWorker, StopNodes, Inspect, ReadTargetChain, StartSource,
             startMigrationCore, RejectRecorded, InvalidateTip, TipIsCommon, SelectConf,
             SelectPick, StartTarget
<1>3. CASE SaveStep \/ Advance \/ AdvanceUnsaved
  <2>1. workerAt' # "advance"
      BY <1>3 DEF SaveStep, Advance, AdvanceUnsaved, firstPoint, MigrationTypeOK, Job
  <2>2. QED
      BY <1>3, <2>1 DEF SaveStep, Advance, AdvanceUnsaved, CopiesInOrder, MigrationTypeOK, Job
<1>4. CASE Prepare \/ StopCore \/ EndConvert \/ SelectMemory \/ CheckTarget
  <2>1. UNCHANGED <<disk, mem, job>> /\ workerAt # "idle"
      BY <1>4 DEF Prepare, StopCore, EndConvert, SelectMemory, CheckTarget, unchangedButCore,
             unchangedButSelected
  <2>2. job.step < 5 /\ Earned(nextStep)
      BY <1>4, <2>1 DEF Prepare, StopCore, EndConvert, SelectMemory, CheckTarget, WorkerKnows,
             rewindPoints, ConvertInv, DoneIsStored, AllTo, MigrationTypeOK, Job, CopiesInOrder
  <2>3. QED
      BY <2>1, <2>2
<1>5. CASE StartConvert \/ RunConvert \/ SelectRecord \/ StepFails
    BY <1>5 DEF StartConvert, RunConvert, SelectRecord, StepFails, unchangedButSelected,
           migrationVars
<1>6. CASE RewindTip \/ Finish
    BY <1>6 DEF RewindTip, Finish, WorkerKnows, MigrationTypeOK, Job, CopiesInOrder
<1>7. CASE EndFailed \/ EndUnsaved \/ ResumeJob \/ NewMigration
    BY <1>7 DEF EndFailed, EndUnsaved, ResumeJob, NewMigration, NewJob
<1>8. CASE DaemonStart \/ stopped
    BY <1>8 DEF DaemonStart, stopped, DaemonStops, DaemonCrash, PowerLoss, daemonFails,
           daemonDies, CopiesInOrder
<1>9. QED
    BY <1>1, <1>2, <1>3, <1>4, <1>5, <1>6, <1>7, <1>8
       DEF Next, Worker, quietWorker, quietDaemon, stopped

LEMMA OrderKept ==
    ASSUME MigrationInv, Next
    PROVE  CopiesInOrder'
<1> USE DEF MigrationInv, CopiesInOrder, saveMigration, goto
<1>1. CASE quietWorker
  <2>1. workerAt # "idle"
      BY <1>1 DEF quietWorker, StopNodes, Inspect, ReadTargetChain, StartSource,
             startMigrationCore, RejectRecorded, InvalidateTip, TipIsCommon, SelectConf,
             SelectPick, StartTarget
  <2>2. UNCHANGED boot
      BY <1>1 DEF quietWorker, StopNodes, Inspect, ReadTargetChain, StartSource,
             startMigrationCore, RejectRecorded, InvalidateTip, TipIsCommon, SelectConf,
             SelectPick, StartTarget, unchangedButCore, unchangedButSelected, daemonVars
  <2>3. QED
      BY <1>1, <2>1, <2>2, QuietKeeps
<1>2. CASE quietDaemon
  <2>1. workerAt' = workerAt /\ (daemonUp \/ boot' = boot \/ boot' = "idle")
      BY <1>2 DEF quietDaemon, BootRequest, BootStartsCore, BootGivesUp, RefreshReads,
             RefreshAdopts, CoreExits, unchangedButBoot, migrationVars, daemonVars
  <2>2. QED
      BY <1>2, <2>1, QuietKeeps
<1>3. CASE SaveStep
    BY <1>3 DEF SaveStep, daemonVars, MigrationTypeOK, Job
<1>4. CASE Advance \/ AdvanceUnsaved \/ RewindTip
  <2>1. ~job'.complete /\ job.step <= job'.step
      BY <1>4 DEF Advance, AdvanceUnsaved, RewindTip, nextStep, MigrationTypeOK, Job
  <2>2. CASE Advance
      BY <2>1, <2>2 DEF Advance, nextStep, daemonVars, MigrationTypeOK, Job
  <2>3. CASE AdvanceUnsaved
      BY <2>1, <2>3 DEF AdvanceUnsaved, nextStep, daemonVars, MigrationTypeOK, Job
  <2>4. CASE RewindTip
      BY <2>1, <2>4 DEF RewindTip, daemonVars, MigrationTypeOK, Job
  <2>5. QED
      BY <1>4, <2>2, <2>3, <2>4
<1>5. CASE Prepare \/ StopCore \/ EndConvert \/ SelectRecord \/ SelectMemory \/ CheckTarget
    BY <1>5 DEF Prepare, StopCore, EndConvert, SelectRecord, SelectMemory, CheckTarget,
           unchangedButCore, unchangedButSelected, daemonVars
<1>6. CASE StartConvert \/ RunConvert \/ StepFails
    BY <1>6 DEF StartConvert, RunConvert, StepFails, migrationVars, daemonVars
<1>7. CASE Finish \/ EndFailed \/ EndUnsaved
  <2> USE DEF unchangedButJob, daemonVars, MigrationTypeOK, Job
  <2>1. CASE Finish
      BY <2>1 DEF Finish
  <2>2. CASE EndFailed
      BY <2>2 DEF EndFailed
  <2>3. CASE EndUnsaved
      BY <2>3 DEF EndUnsaved
  <2>4. QED
      BY <1>7, <2>1, <2>2, <2>3
<1>8. CASE ResumeJob \/ NewMigration
  <2> USE DEF daemonVars, MigrationTypeOK, Job
  <2>1. CASE ResumeJob
      BY <2>1 DEF ResumeJob
  <2>2. CASE NewMigration
      BY <2>2 DEF NewMigration, NewJob
  <2>3. QED
      BY <1>8, <2>1, <2>2
<1>9. CASE DaemonStart
    BY <1>9 DEF DaemonStart, MigrationTypeOK, Job
<1>10. CASE stopped
    BY <1>10 DEF stopped, DaemonStops, DaemonCrash, PowerLoss, daemonFails, daemonDies
<1>11. QED
    BY <1>1, <1>2, <1>3, <1>4, <1>5, <1>6, <1>7, <1>8, <1>9, <1>10
       DEF Next, Worker, quietWorker, quietDaemon, stopped

(* Records change in the two steps that convert and select, whose start    *)
(* was saved.                                                              *)
LEMMA OnRecordKept ==
    ASSUME MigrationInv, Next
    PROVE  ChangesOnRecord'
<1> USE DEF MigrationInv, ChangesOnRecord, saveMigration, goto
<1>1. CASE quietWorker \/ quietDaemon
    BY <1>1, QuietKeeps DEF Untouched, convertVars, diskVars
<1>2. CASE SaveStep \/ Advance \/ RewindTip \/ Finish \/ EndUnsaved
  <2>1. UNCHANGED <<cached, stored, original, record>>
      BY <1>2 DEF SaveStep, Advance, RewindTip, Finish, EndUnsaved, unchangedButJob,
             convertVars, diskVars, selectVars
  <2>2. \A i \in disk, j \in disk' : i.step <= j.step
    <3>1. \A i \in disk : i.step <= job.step
        BY <1>2 DEF SaveStep, Advance, RewindTip, Finish, EndUnsaved, CopiesInOrder,
               MigrationTypeOK, Job
    <3>2. \A j \in disk' : j \in disk \/ j.step = job.step \/ j.step = job.step + 1
        BY <1>2 DEF SaveStep, Advance, nextStep, RewindTip, Finish, EndUnsaved,
               MigrationTypeOK, Job
    <3>3. QED
        BY <3>1, <3>2 DEF CopiesInOrder, MigrationTypeOK, Job
  <2>3. disk # {} => disk' # {}
      BY <1>2 DEF SaveStep, Advance, RewindTip, Finish, EndUnsaved
  <2>4. disk \subseteq Job /\ disk' \subseteq Job
      BY TypesKept DEF MigrationTypeOK
  <2>5. QED
      BY <2>1, <2>2, <2>3, <2>4 DEF Untouched, Job
<1>3. CASE AdvanceUnsaved \/ Prepare \/ StopCore \/ StartConvert \/ EndConvert \/ SelectMemory
           \/ CheckTarget \/ StepFails
    BY <1>3 DEF AdvanceUnsaved, Prepare, StopCore, StartConvert, BeginRun, EndConvert,
           SelectMemory, CheckTarget, StepFails, unchangedButCore, unchangedButSelected,
           convertVars, diskVars, selectVars, Untouched
<1>4. CASE RunConvert
    BY <1>4 DEF RunConvert, WorkerKnows, migrationVars, selectVars
<1>5. CASE SelectRecord
    BY <1>5 DEF SelectRecord, WorkerKnows, unchangedButSelected, convertVars, diskVars, Untouched
<1>6. CASE EndFailed
  <2>1. \A i \in disk : i.step <= job.step
      BY <1>6 DEF EndFailed, CopiesInOrder, MigrationTypeOK, Job
  <2>2. QED
      BY <1>6, <2>1 DEF EndFailed, unchangedButJob, convertVars, diskVars, selectVars, Untouched,
             MigrationTypeOK, Job, CopiesInOrder
<1>7. CASE ResumeJob \/ NewMigration
    BY <1>7 DEF ResumeJob, NewMigration, NewJob, convertVars, diskVars, selectVars, Untouched,
           CopiesInOrder, MigrationTypeOK, Job
<1>8. CASE DaemonStart
    BY <1>8 DEF DaemonStart, unstarted, convertVars, diskVars, Untouched, MigrationTypeOK, Job
<1>9. CASE DaemonStops \/ DaemonCrash
    BY <1>9 DEF DaemonStops, DaemonCrash, diskVars, selectVars, Untouched
<1>10. CASE PowerLoss
  <2>1. Untouched => Untouched'
      BY <1>10 DEF PowerLoss, losePower, mayPersist, Untouched
  <2>2. QED
      BY <1>10, <2>1 DEF PowerLoss
<1>11. QED
    BY <1>1, <1>2, <1>3, <1>4, <1>5, <1>6, <1>7, <1>8, <1>9, <1>10
       DEF Next, Worker, quietWorker, quietDaemon, stopped

LEMMA PointsKept ==
    ASSUME MigrationInv, Next
    PROVE  WorkerKnows'
<1> USE DEF MigrationInv, WorkerKnows, rewindPoints, saveMigration, goto, locked
<1>1. CASE quietWorker
  <2>1. /\ UNCHANGED <<original, cached, disk, job, record, runAt>>
        /\ branches' \subseteq branches
      BY <1>1, QuietKeeps DEF convertVars, diskVars, runLocals
  <2>2. CASE StopNodes \/ StartSource \/ RejectRecorded \/ InvalidateTip \/ SelectConf
             \/ SelectPick \/ StartTarget
      BY <2>1, <2>2 DEF StopNodes, StartSource, startMigrationCore, RejectRecorded, InvalidateTip,
             SelectConf, SelectPick, StartTarget
  <2>3. CASE Inspect
      BY <2>1, <2>3 DEF Inspect, atTarget, AllTo
  <2>4. CASE ReadTargetChain
    <3>1. Untouched
        BY <2>4 DEF ReadTargetChain, ChangesOnRecord
    <3>2. AllTo(original')
        BY <2>1, <2>4, <3>1 DEF ReadTargetChain, AllTo, Untouched
    <3>3. QED
        BY <2>1, <2>4, <3>2 DEF ReadTargetChain, startMigrationCore, RolledBack, AllTo
  <2>5. CASE TipIsCommon
      BY <2>1, <2>5 DEF TipIsCommon, unchangedButCore, RolledBack, chainVars
  <2>6. QED
      BY <1>1, <2>2, <2>3, <2>4, <2>5 DEF quietWorker
<1>2. CASE quietDaemon
  <2>1. /\ UNCHANGED <<original, cached, disk, job, record, runAt, workerAt>>
        /\ branches' \subseteq branches
      BY <1>2, QuietKeeps DEF quietDaemon, convertVars, diskVars, runLocals, BootRequest,
             BootStartsCore, BootGivesUp, RefreshReads, RefreshAdopts, CoreExits,
             unchangedButBoot, migrationVars
  <2>2. workerAt = "converting" => core' = "none"
      BY <1>2 DEF quietDaemon, BootRequest, BootStartsCore, BootGivesUp, RefreshReads,
             RefreshAdopts, CoreExits, unchangedButBoot, chainVars, gateOpen, beforeStart,
             incomplete, CopiesInOrder
  <2>3. workerAt = "stopCore" => RolledBack'
      BY NothingLost
  <2>4. QED
      BY <2>1, <2>2, <2>3 DEF AllTo
<1>3. CASE SaveStep
    BY <1>3 DEF SaveStep, firstPoint, MigrationTypeOK, Job, convertVars, runLocals
<1>4. CASE Advance \/ AdvanceUnsaved \/ Prepare \/ StopCore \/ EndConvert \/ SelectMemory
           \/ CheckTarget \/ Finish \/ EndFailed \/ EndUnsaved
    BY <1>4 DEF Advance, AdvanceUnsaved, Prepare, StopCore, EndConvert, SelectMemory, CheckTarget,
           Finish, EndFailed, EndUnsaved, unchangedButCore, unchangedButSelected,
           unchangedButJob, convertVars, runLocals
<1>5. CASE StepFails
    BY <1>5 DEF StepFails, dropRun
<1>6. CASE RewindTip
    BY <1>6 DEF RewindTip, convertVars, runLocals, MigrationTypeOK, Job
<1>7. CASE StartConvert \/ RunConvert
    BY <1>7 DEF StartConvert, RunConvert, migrationVars, chainVars
<1>8. CASE SelectRecord
    BY <1>8 DEF SelectRecord, unchangedButSelected, convertVars, runLocals
<1>9. CASE ResumeJob \/ NewMigration
    BY <1>9 DEF ResumeJob, NewMigration, convertVars, runLocals
<1>10. CASE DaemonStart
    BY <1>10 DEF DaemonStart, CopiesInOrder, convertVars, runLocals
<1>11. CASE stopped
    BY <1>11 DEF stopped, DaemonStops, DaemonCrash, PowerLoss, losePower, dropRun, daemonFails,
           daemonDies
<1>12. QED
    BY <1>1, <1>2, <1>3, <1>4, <1>5, <1>6, <1>7, <1>8, <1>9, <1>10, <1>11
       DEF Next, Worker, quietWorker, quietDaemon, stopped

(* What the two Cores need of the directory. *)
ForSource == cached = original
ForTarget == AllTo(cached) /\ RolledBack

LEMMA UntouchedIsSource == MigrationInv /\ Untouched => ForSource
BY DEF MigrationInv, ConvertInv, ConvertTypeOK, Untouched, ForSource

(* Whoever starts a Core starts one that fits. *)
LEMMA CoreStartsFit ==
    ASSUME MigrationInv, Next, core' # core
    PROVE  \/ core' = "none"
           \/ core' = "source" /\ ForSource
           \/ core' = "target" /\ ForTarget
<1> USE DEF MigrationInv, ConvertInv
<1>1. AllTo(stored) => AllTo(cached)
    BY DEF RecordsMoveToTarget, AllTo
<1>2. CASE StartSource
  <2>1. Untouched
      BY <1>2 DEF StartSource, WorkerKnows, rewindPoints, ChangesOnRecord
  <2>2. QED
      BY <1>2, <2>1, UntouchedIsSource DEF StartSource, startMigrationCore
<1>3. CASE ReadTargetChain
  <2>1. Untouched /\ AllTo(cached)
      BY <1>3 DEF ReadTargetChain, WorkerKnows, rewindPoints, ChangesOnRecord
  <2>2. AllTo(original)
      BY <2>1 DEF Untouched, AllTo
  <2>3. QED
      BY <1>3, <2>1, <2>2 DEF ReadTargetChain, startMigrationCore, ForTarget, RolledBack
<1>4. CASE StartTarget
    BY <1>1, <1>4 DEF StartTarget, startMigrationCore, WorkerKnows, JobsEarned, Earned, ForTarget
<1>5. CASE BootStartsCore
  <2>1. /\ \A j \in mem : j.complete
        /\ core' = IF record = "from" THEN "source" ELSE "target"
        /\ disk = {} <=> mem = {}
      BY <1>5 DEF BootStartsCore, beforeStart, gateOpen, incomplete, CopiesInOrder
  <2>2. CASE record = "from"
    <3>1. mem = {}
        BY <2>1, <2>2 DEF JobsEarned, Earned
    <3>2. QED
        BY <2>1, <2>2, <3>1, UntouchedIsSource DEF ChangesOnRecord
  <2>3. CASE record = "to"
    <3>1. ForTarget
        BY <1>1, <2>3 DEF ChangesOnRecord, JobsEarned, Earned, ForTarget, MigrationTypeOK, Job
    <3>2. QED
        BY <2>1, <2>3, <3>1
  <2>4. QED
      BY <2>2, <2>3 DEF MigrationTypeOK, Networks
<1>6. CASE StopNodes \/ StopCore \/ CoreExits \/ stopped
    BY <1>6 DEF StopNodes, StopCore, CoreExits, stopped, DaemonStops, DaemonCrash, PowerLoss,
           chainVars
<1>7. CASE \/ ResumeJob \/ NewMigration \/ SaveStep \/ Advance \/ AdvanceUnsaved \/ Prepare
           \/ Inspect \/ RejectRecorded \/ RewindTip \/ InvalidateTip \/ TipIsCommon
           \/ StartConvert \/ RunConvert \/ EndConvert \/ SelectConf \/ SelectRecord
           \/ SelectPick \/ SelectMemory \/ CheckTarget
    BY <1>7 DEF ResumeJob, NewMigration, SaveStep, Advance, AdvanceUnsaved, Prepare, Inspect,
           RejectRecorded, RewindTip, InvalidateTip, TipIsCommon, StartConvert, RunConvert,
           EndConvert, SelectConf, SelectRecord, SelectPick, SelectMemory, CheckTarget,
           unchangedButCore, unchangedButSelected, chainVars
<1>8. CASE \/ Finish \/ StepFails \/ EndFailed \/ EndUnsaved
           \/ BootRequest \/ BootGivesUp \/ RefreshReads \/ RefreshAdopts \/ DaemonStart
    BY <1>8 DEF Finish, StepFails, EndFailed, EndUnsaved, BootRequest, BootGivesUp, RefreshReads,
           RefreshAdopts, DaemonStart, unchangedButJob, unchangedButBoot, chainVars
<1>9. QED
    BY <1>2, <1>3, <1>4, <1>5, <1>6, <1>7, <1>8 DEF Next, Worker, stopped

(* The files change only while no Core runs. *)
LEMMA CoreKept ==
    ASSUME MigrationInv, Next
    PROVE  SourceReadsSource' /\ TargetReadsTarget'
<1> USE DEF MigrationInv
<1>1. core' = "source" => core = "source" \/ ForSource
    BY CoreStartsFit
<1>2. core' = "target" => core = "target" \/ ForTarget
    BY CoreStartsFit
<1>3. (core' = "source" => ForSource) /\ (core' = "target" => ForTarget)
    BY <1>1, <1>2 DEF SourceReadsSource, TargetReadsTarget, ForSource, ForTarget, RolledBack, AllTo
<1>4. core' # "none" => cached' = cached /\ original' = original
  <2>1. CASE RunConvert
      BY <2>1 DEF RunConvert, WorkerKnows, chainVars
  <2>2. CASE PowerLoss
      BY <2>2 DEF PowerLoss
  <2>3. CASE UNCHANGED diskVars
      BY <2>3 DEF diskVars
  <2>4. QED
      BY <2>1, <2>2, <2>3, ConvertSees
<1>5. RolledBack => RolledBack'
    BY NothingLost
<1>6. QED
    BY <1>3, <1>4, <1>5 DEF SourceReadsSource, TargetReadsTarget, ForSource, ForTarget,
       RolledBack, AllTo

(* The strengthening, over every behaviour of the migration. *)
THEOREM MigrationInvariant == Spec => []MigrationInv
<1>1. MigrationInv /\ [Next]_vars => MigrationInv'
  <2> SUFFICES ASSUME MigrationInv, [Next]_vars PROVE MigrationInv'
      OBVIOUS
  <2>1. CASE Next
    <3>1. ConvertInv'
        BY FilesKept
    <3>2. QED
        BY <2>1, <3>1, TypesKept, EarnedKept, OrderKept, OnRecordKept, PointsKept, CoreKept
           DEF MigrationInv
  <2>2. CASE UNCHANGED vars
    <3>1. ConvertInv'
        BY FilesKept
    <3>2. QED
        BY <2>2, <3>1 DEF vars, convertVars, diskVars, runLocals, migrationVars, chainVars,
           selectVars, daemonVars, MigrationInv, MigrationTypeOK, JobsEarned, Earned, nextStep,
           ChangesOnRecord, Untouched, CopiesInOrder, WorkerKnows, rewindPoints, locked,
           RolledBack, AllTo, SourceReadsSource, TargetReadsTarget
  <2>3. QED
      BY <2>1, <2>2
<1>2. QED
    BY <1>1, MigrationInvInit, PTL DEF Spec

(* The job's record never runs ahead of the block files, whichever save    *)
(* failed and wherever the power went (ecash_migration.go:643-678).        *)
THEOREM StepsAreStored == Spec => []StepFollowsFiles
<1>1. MigrationInv => StepFollowsFiles
    BY DEF MigrationInv, JobsEarned, Earned, StepFollowsFiles, AllTo
<1>2. QED
    BY <1>1, MigrationInvariant, PTL

(* No source Core runs on a file the job rewrote, whoever starts it        *)
(* (sidechain_wallet_state.go:226-230).                                    *)
THEOREM SourceFits == Spec => []SourceReadsSource
BY MigrationInvariant, PTL DEF MigrationInv

(* No target Core sees a source record or a source branch, whatever the    *)
(* pick or a stale catalog says (ecash_migration.go:251-265).              *)
THEOREM TargetFits == Spec => []TargetReadsTarget
BY MigrationInvariant, PTL DEF MigrationInv

(* A job can always resume its conversion, and what it has converted is on *)
(* the disk when Convert returns.                                          *)
THEOREM MigrationResumes == Spec => [](NeverRefuses /\ DoneIsStored)
BY MigrationInvariant, PTL DEF MigrationInv, ConvertInv

(* The types of the job, the worker, Core and the selected network.        *)
THEOREM MigrationTypes == Spec => []MigrationTypeOK
BY MigrationInvariant, PTL DEF MigrationInv
=============================================================================
