---------------------------- MODULE BlockConvert ----------------------------
(***************************************************************************)
(* The block file converter (blockfile/convert.go, journal.go, lock.go):   *)
(* it rewrites the four magic bytes of every block and undo record in      *)
(* place, under a journal that lets the next run pick up a conversion that *)
(* stopped anywhere.  What a process reads back (cached) and what a loss   *)
(* of power leaves (stored) are two things: only a sync brings them        *)
(* together.  Record sizes, payloads and the XOR key never change and are  *)
(* left out; so is the order of files and records, which no property needs.*)
(***************************************************************************)
CONSTANTS
    Files,   \* the blkNNNNN.dat and revNNNNN.dat files
    Records, \* the records of all of them
    FileOf   \* the file of each record

ASSUME ConvertAssumption == FileOf \in [Records -> Files]

Magic == {"from", "to", "torn"}  \* torn: some bytes of each

VARIABLES
    original,              \* history: the magics before the first run
    cached, stored,        \* the magic of each record: as read, as persisted
    journal, journalStored, \* at most one journal: as read, as persisted
    plan,                  \* the journal this run works from
    runAt,                 \* where run() is
    left,                  \* the files not converted yet
    opened,                \* the file being converted
    todo                   \* its records not written yet

diskVars    == <<original, cached, stored, journal, journalStored>>
runLocals   == <<plan, runAt, left, opened, todo>>
convertVars == <<diskVars, runLocals>>

RecordsOf(f) == {r \in Records : FileOf[r] = f}

(* A run holds the .lock of the Core directories from its start to its end. *)
locked == runAt \notin {"idle", "refused", "done"}

ConvertTypeOK ==
    /\ original \in [Records -> {"from", "to"}]
    /\ cached \in [Records -> Magic] /\ stored \in [Records -> Magic]
    /\ journal \subseteq [Records -> Magic]
    /\ journalStored \subseteq [Records -> Magic]
    /\ plan \subseteq [Records -> Magic]
    /\ runAt \in {"idle", "check", "save", "flush", "convert", "refused", "done"}
    /\ left \subseteq Files /\ opened \subseteq left
    /\ todo \subseteq {r \in Records : FileOf[r] \in opened}

ConvertInit ==
    /\ original \in [Records -> {"from", "to"}]
    /\ cached = original /\ stored = original
    /\ journal = {} /\ journalStored = {}
    /\ plan = {} /\ runAt = "idle"
    /\ left = {} /\ opened = {} /\ todo = {}

-----------------------------------------------------------------------------
(* The checks before the first write *)

BeginRun ==
    /\ ~locked
    /\ plan' = journal
    /\ runAt' = "check"
    /\ left' = {} /\ opened' = {} /\ todo' = {}
    /\ UNCHANGED diskVars

validPartial(actual, from) == actual \in {from, "to"} \/ from # "to"

(* Without a journal every record must name one of the two networks; with  *)
(* one, every byte must come from the original or from the target.         *)
accepts(saved) ==
    \A r \in Records :
        IF saved = {} THEN cached[r] # "torn"
        ELSE \A p \in saved : p[r] # "torn" /\ validPartial(cached[r], p[r])

Preflight ==
    /\ runAt = "check" /\ accepts(plan)
    /\ plan' = IF plan = {} THEN {cached} ELSE plan
    /\ runAt' = "save"
    /\ UNCHANGED <<diskVars, left, opened, todo>>

PreflightRefuses ==
    /\ runAt = "check" /\ ~accepts(plan)
    /\ runAt' = "refused"
    /\ UNCHANGED <<diskVars, plan, left, opened, todo>>

savesOnlyOnce ==
    /\ runAt = "save"
    /\ journal' = plan
    /\ runAt' = (IF journal = plan THEN "convert" ELSE "flush")
    /\ left' = (IF journal = plan THEN Files ELSE left)
    /\ UNCHANGED <<original, cached, stored, journalStored, plan, opened, todo>>

(* Resuming saves the journal once more: the run that wrote it may have    *)
(* stopped between the rename and the flush of the directory.              *)
RenameJournal ==
    /\ runAt = "save"
    /\ journal' = plan
    /\ runAt' = "flush"
    /\ UNCHANGED <<original, cached, stored, journalStored, plan, left, opened, todo>>

FlushJournal ==
    /\ runAt = "flush"
    /\ journalStored' = journal
    /\ runAt' = "convert" /\ left' = Files
    /\ UNCHANGED <<original, cached, stored, journal, plan, opened, todo>>

-----------------------------------------------------------------------------
(* The conversion *)

opensEveryRecord ==
    /\ runAt = "convert" /\ opened = {}
    /\ \E f \in left : opened' = {f} /\ todo' = Records
    /\ UNCHANGED <<diskVars, plan, runAt, left>>

OpenFile ==
    /\ runAt = "convert" /\ opened = {}
    /\ \E f \in left : opened' = {f} /\ todo' = RecordsOf(f)
    /\ UNCHANGED <<diskVars, plan, runAt, left>>

WriteRecord ==
    /\ runAt = "convert"
    /\ \E r \in todo :
        /\ \A p \in plan : validPartial(cached[r], p[r])
        /\ cached' = [cached EXCEPT ![r] = "to"]
        /\ todo' = todo \ {r}
    /\ UNCHANGED <<original, stored, journal, journalStored, plan, runAt, left, opened>>

(* The sync of the open file, after which every record is read once more.  *)
syncsNothing(f) == stored
synced(f) == [r \in Records |-> IF FileOf[r] = f THEN cached[r] ELSE stored[r]]

SyncFile ==
    /\ runAt = "convert" /\ todo = {}
    /\ \E f \in opened :
        /\ \A r \in RecordsOf(f) : cached[r] = "to"
        /\ stored' = synced(f)
        /\ left' = left \ {f}
    /\ opened' = {}
    /\ UNCHANGED <<original, cached, journal, journalStored, plan, runAt, todo>>

endsBeforeLastFile ==
    /\ runAt = "convert" /\ left # Files /\ opened = {}
    /\ runAt' = "done"
    /\ UNCHANGED <<diskVars, plan, left, opened, todo>>

EndRun ==
    /\ runAt = "convert" /\ left = {}
    /\ runAt' = "done"
    /\ UNCHANGED <<diskVars, plan, left, opened, todo>>

-----------------------------------------------------------------------------
(* What may stop a run *)

(* An error return, or the death of the process: the locks go, what was    *)
(* written stays readable.                                                 *)
dropRun ==
    /\ runAt' = "idle" /\ plan' = {}
    /\ left' = {} /\ opened' = {} /\ todo' = {}

Interrupt == dropRun /\ UNCHANGED diskVars

(* A write that was never synced reaches the disk in full, in part or not  *)
(* at all, and so does a rename whose directory was never flushed.         *)
mayPersist(old, new) == {old, new} \cup (IF old = new THEN {} ELSE {"torn"})

losePower ==
    /\ cached' \in [Records -> Magic]
    /\ \A r \in Records : cached'[r] \in mayPersist(stored[r], cached[r])
    /\ stored' = cached'
    /\ journal' \in {journal, journalStored}
    /\ journalStored' = journal'
    /\ dropRun
    /\ UNCHANGED original

ConvertStep ==
    \/ BeginRun \/ Preflight \/ PreflightRefuses \/ RenameJournal \/ FlushJournal
    \/ OpenFile \/ WriteRecord \/ SyncFile \/ EndRun

ConvertNext == ConvertStep \/ Interrupt \/ losePower

ConvertSpec == ConvertInit /\ [][ConvertNext]_convertVars

-----------------------------------------------------------------------------
(* Properties *)

(* The preflight accepts every directory that an earlier run left behind,  *)
(* wherever that run stopped and whatever a loss of power then kept of it: *)
(* a conversion can always be resumed (convert.go:130-148, 366-385).       *)
NeverRefuses == runAt # "refused"

(* When Convert returns, no loss of power can bring a source record back:  *)
(* the caller records its step as done on the strength of it.              *)
DoneIsStored == runAt = "done" => \A r \in Records : stored[r] = "to"
=============================================================================
