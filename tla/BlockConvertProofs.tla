------------------------- MODULE BlockConvertProofs -------------------------
(***************************************************************************)
(* Every conversion can be resumed and a finished one is on the disk, for  *)
(* any number of files and records and any number of interruptions.  The   *)
(* properties are not inductive: whether a preflight accepts what it finds *)
(* depends on the order in which the journal and the records reached the   *)
(* disk, which ConvertInv states.                                          *)
(***************************************************************************)
EXTENDS BlockConvert, TLAPS

(* Every journal there is lists the magics found before the first write.   *)
JournalsAreOriginal ==
    \A saved \in {plan, journal, journalStored} : saved = {} \/ saved = {original}

(* No record changes before the journal is on the disk; from there on a    *)
(* record only moves towards the target.                                   *)
RecordsMoveToTarget ==
    \A r \in Records :
        /\ original[r] = "to" => cached[r] = "to" /\ stored[r] = "to"
        /\ stored[r] = "to" => cached[r] = "to"
        /\ cached[r] # stored[r] => cached[r] = "to"
        /\ journalStored = {} => cached[r] = original[r] /\ stored[r] = original[r]

(* What each point of a run knows. *)
RunKnows ==
    /\ runAt = "check" => plan = journal
    /\ runAt \in {"save", "flush", "convert"} => plan = {original}
    /\ runAt = "flush" => journal = plan
    /\ runAt = "convert" => journalStored = plan

(* The files a run left behind are stored; the open one is written up to   *)
(* the records still to do.                                                *)
FilesDone ==
    runAt = "convert" =>
        \A r \in Records : FileOf[r] \notin left => stored[r] = "to"

ConvertInv ==
    /\ ConvertTypeOK
    /\ JournalsAreOriginal
    /\ journalStored \subseteq journal
    /\ RecordsMoveToTarget
    /\ RunKnows
    /\ FilesDone
    /\ NeverRefuses
    /\ DoneIsStored

(* The initial directory. *)
LEMMA ConvertInvInit == ConvertInit => ConvertInv
BY ConvertAssumption
   DEF ConvertInit, ConvertInv, ConvertTypeOK, JournalsAreOriginal, RecordsMoveToTarget,
       RunKnows, FilesDone, NeverRefuses, DoneIsStored, Magic

(* With or without a journal, the preflight accepts. *)
LEMMA PreflightAccepts == ConvertInv /\ runAt = "check" => accepts(plan)
<1> SUFFICES ASSUME ConvertInv, runAt = "check" PROVE accepts(plan)
    OBVIOUS
<1> USE DEF ConvertInv, ConvertTypeOK, JournalsAreOriginal, RecordsMoveToTarget, RunKnows, Magic
<1>1. CASE plan = {}
  <2>1. journalStored = {}
      BY <1>1
  <2>2. QED
      BY <1>1, <2>1 DEF accepts
<1>2. CASE plan = {original}
  <2>1. SUFFICES ASSUME NEW r \in Records
                 PROVE  original[r] # "torn" /\ validPartial(cached[r], original[r])
      BY <1>2 DEF accepts
  <2>2. QED
      BY DEF validPartial
<1>3. QED
    BY <1>1, <1>2

(* A loss of power keeps the order in which things reached the disk. *)
LEMMA LosePowerKeeps == ConvertInv /\ losePower => ConvertInv'
<1> SUFFICES ASSUME ConvertInv, losePower PROVE ConvertInv'
    OBVIOUS
<1> USE DEF ConvertInv, losePower, dropRun
<1>1. ConvertTypeOK'
    BY DEF ConvertTypeOK, Magic
<1>2. JournalsAreOriginal' /\ (journalStored \subseteq journal)'
    BY DEF JournalsAreOriginal
<1>3. RecordsMoveToTarget'
  <2> SUFFICES ASSUME NEW r \in Records
               PROVE  /\ original[r] = "to" => cached'[r] = "to"
                      /\ journalStored' = {} => cached'[r] = original[r]
      BY DEF RecordsMoveToTarget
  <2>1. cached'[r] \in mayPersist(stored[r], cached[r])
      OBVIOUS
  <2>2. original[r] = "to" => cached'[r] = "to"
      BY <2>1 DEF mayPersist, RecordsMoveToTarget
  <2>3. journalStored' = {} => cached'[r] = original[r]
      BY <2>1 DEF mayPersist, RecordsMoveToTarget
  <2>4. QED
      BY <2>2, <2>3
<1>4. RunKnows' /\ FilesDone' /\ NeverRefuses' /\ DoneIsStored'
    BY DEF RunKnows, FilesDone, NeverRefuses, DoneIsStored
<1>5. QED
    BY <1>1, <1>2, <1>3, <1>4

(* Each step of a run, and an interruption. *)
LEMMA ConvertStepKeeps ==
    ASSUME ConvertInv, ConvertStep \/ Interrupt
    PROVE  ConvertInv'
<1> USE ConvertAssumption
    DEF ConvertInv, ConvertTypeOK, JournalsAreOriginal, RecordsMoveToTarget,
        RunKnows, FilesDone, NeverRefuses, DoneIsStored, diskVars
<1>1. CASE BeginRun
    BY <1>1 DEF BeginRun, locked
<1>2. CASE Preflight
  <2>1. plan' = {original}
      BY <1>2 DEF Preflight
  <2>2. QED
      BY <1>2, <2>1 DEF Preflight
<1>3. CASE PreflightRefuses
    BY <1>3, PreflightAccepts DEF PreflightRefuses
<1>4. CASE RenameJournal
    BY <1>4 DEF RenameJournal
<1>5. CASE FlushJournal
    BY <1>5 DEF FlushJournal
<1>6. CASE OpenFile
    BY <1>6 DEF OpenFile, RecordsOf
<1>7. CASE WriteRecord
    BY <1>7 DEF WriteRecord, Magic
<1>8. CASE SyncFile
    BY <1>8 DEF SyncFile, synced, RecordsOf
<1>9. CASE EndRun
    BY <1>9 DEF EndRun
<1>10. CASE Interrupt
    BY <1>10 DEF Interrupt, dropRun
<1>11. QED
    BY <1>1, <1>2, <1>3, <1>4, <1>5, <1>6, <1>7, <1>8, <1>9, <1>10 DEF ConvertStep

(* Every step, and a stutter. *)
LEMMA ConvertInvKept == ConvertInv /\ [ConvertNext]_convertVars => ConvertInv'
<1> SUFFICES ASSUME ConvertInv, [ConvertNext]_convertVars PROVE ConvertInv'
    OBVIOUS
<1>1. CASE ConvertNext
    BY <1>1, ConvertStepKeeps, LosePowerKeeps DEF ConvertNext
<1>2. CASE UNCHANGED convertVars
    BY <1>2 DEF convertVars, diskVars, runLocals, ConvertInv, ConvertTypeOK,
           JournalsAreOriginal, RecordsMoveToTarget, RunKnows, FilesDone,
           NeverRefuses, DoneIsStored
<1>3. QED
    BY <1>1, <1>2

(* The strengthening, over every behaviour of the converter. *)
THEOREM ConvertInvariant == ConvertSpec => []ConvertInv
BY ConvertInvInit, ConvertInvKept, PTL DEF ConvertSpec

(* A conversion that stopped anywhere is accepted when it is taken up again *)
(* (convert.go:130-148 and 366-385).                                        *)
THEOREM AlwaysResumes == ConvertSpec => []NeverRefuses
BY ConvertInvariant, PTL DEF ConvertInv

(* A conversion that returned survives a loss of power (convert.go:511).   *)
THEOREM FinishedIsStored == ConvertSpec => []DoneIsStored
BY ConvertInvariant, PTL DEF ConvertInv

(* The types of the converter's state. *)
THEOREM ConvertTypes == ConvertSpec => []ConvertTypeOK
BY ConvertInvariant, PTL DEF ConvertInv
=============================================================================
