-------------------------- MODULE Recovery_proofs --------------------------
(***************************************************************************)
(* What holds of a cook across restarts, for every number of retries and   *)
(* of warm restarts, on a file system that does not bring unlinked files   *)
(* back.                                                                   *)
(***************************************************************************)
EXTENDS Recovery, TLAPS

\* The daemon has booted and not yet gone.
Running == pc \in {"run", "asked", "save", "exit", "unmark"}

\* What a snapshot says of the recoveries of its cook.
Counts(s) == s.mode \in Cooking => relit <= s.recoveries + handed

\* What it says of its fire: known to burn, or a light that is not proven.
Knows(s) == s.mode \in Cooking => lit \/ (s.mode = "Startup" /\ s.unproven)

\* It is the cook of the last clean exit.
Left(s) == s # None => was = [s EXCEPT !.recoveries = 0]

\* The files and what boot has read of them.
FilesOK ==
  /\ durable = disk
  /\ Counts(disk["checkpoint"]) /\ Knows(disk["checkpoint"])
  /\ Knows(disk["resume"]) /\ Left(disk["resume"])
  /\ (pc = "recover" => Counts(snap)) /\ Knows(snap)
  /\ Knows(resume) /\ Left(resume)

\* Where a file or a local is known to be empty.
Emptied ==
  /\ pc \notin {"unmark", "down", "resume"} => disk["resume"] = None
  /\ pc \in {"recover", "boot"} => disk["checkpoint"] = None
  /\ Running /\ ~on_disk => disk["checkpoint"] = None
  /\ Running => resume = None /\ snap = None
  /\ pc \in {"resume", "reason", "snap", "recover"} => mode = "Stop"

\* The cook in memory.
CookOK ==
  /\ relit <= 1 + handed
  /\ Running \/ pc = "boot" => Counts(Now) /\ Knows(Now)
  /\ pc \in {"exit", "unmark"} => was = Cook

IInv == TypeOK /\ FilesOK /\ Emptied /\ CookOK

-----------------------------------------------------------------------------
USE RecoveryAssumption DEF Lights, Burns, Cooking, Resumable, Mode, Leads, None,
    MaybeSnapshot, File, files, boot, light, counts, saving, cook, history

\* A file is replaced by something of its type.
LEMMA FileReplaced ==
  ASSUME NEW d, FileTypes(d), NEW f \in File, NEW v,
         f \in {"marker", "reason"} => v \in BOOLEAN,
         f \in {"resume", "checkpoint"} => v \in MaybeSnapshot
  PROVE  FileTypes([d EXCEPT ![f] = v])
  BY DEF FileTypes

\* A snapshot of a cook in a resumable mode.
LEMMA SnapshotTyped ==
  ASSUME TypeOK, mode \in Resumable
  PROVE  Now \in Snapshot
  BY DEF TypeOK, Now, Snapshot

\* Every action keeps the types: files are what was written, snapshots what
\* memory was.
LEMMA TypeInit == Init => TypeOK
  <1> SUFFICES ASSUME Init PROVE TypeOK
    OBVIOUS
  <1>1. FileTypes(disk) /\ FileTypes(durable)
    BY DEF Init, FileTypes
  <1>2. /\ unclean \in BOOLEAN /\ reason \in BOOLEAN /\ hot \in BOOLEAN
        /\ unproven \in BOOLEAN /\ recipe \in BOOLEAN /\ on_disk \in BOOLEAN
        /\ lit \in BOOLEAN
    BY Zenon DEF Init
  <1>3. QED
    BY <1>1, <1>2 DEF Init, TypeOK

LEMMA TypeStep == TypeOK /\ [Next]_vars => TypeOK'
  <1> SUFFICES ASSUME TypeOK, [Next]_vars PROVE TypeOK'
    OBVIOUS
  <1> USE DEF TypeOK
  <1>1. CASE AskLight
    BY <1>1 DEF AskLight, Asked, Enter
  <1>2. CASE AskBurn
    <2> PICK m \in Burns :
           IF mode \in Lights
             THEN /\ next' = IF mode = "Startup" THEN m ELSE next
                  /\ last' = IF mode = "Reignite" THEN m ELSE last
                  /\ UNCHANGED <<files, boot, mode, unproven, counts, recipe,
                                 saving, history>>
             ELSE Enter(m, "Stop") /\ UNCHANGED <<next, retries, cook>>
      BY <1>2 DEF AskBurn
    <2>1. CASE mode \in Lights
      BY <1>2, <2>1 DEF AskBurn, Asked
    <2>2. CASE mode \notin Lights
      BY <1>2, <2>2 DEF AskBurn, Asked, Enter
    <2>3. QED
      BY <2>1, <2>2
  <1>3. CASE AskStop
    BY <1>3 DEF AskStop, Put, Enter
  <1>4. CASE AskOther
    BY <1>4 DEF AskOther, Put, Enter
  <1>5. CASE Prove
    <2>1. unproven' \in BOOLEAN /\ lit' \in BOOLEAN
      BY <1>5, Zenon DEF Prove
    <2>2. QED
      BY <1>5, <2>1 DEF Prove, Decided
  <1>6. CASE StartupDone
    BY <1>6 DEF StartupDone, Decided, Enter
  <1>7. CASE FlameOut
    BY <1>7 DEF FlameOut, Decided, Enter
  <1>8. CASE Fail
    BY <1>8 DEF Fail, Decided, Enter
  <1>9. CASE RecipeOnOff
    BY <1>9 DEF RecipeOnOff, Asked
  <1>10. CASE IdleTick
    BY <1>10 DEF IdleTick
  <1>11. CASE CheckpointGoes
    <2>1. lit' \in BOOLEAN /\ on_disk' \in BOOLEAN
      BY <1>11, Zenon DEF CheckpointGoes
    <2>2. FileTypes(disk') /\ FileTypes(durable')
      BY <1>11, FileReplaced DEF CheckpointGoes, Unlink
    <2>3. QED
      BY <1>11, <2>1, <2>2 DEF CheckpointGoes
  <1>12. CASE CheckpointWritten
    <2>1. on_disk' \in BOOLEAN
      BY <1>12, Zenon DEF CheckpointWritten
    <2>2. FileTypes(disk') /\ FileTypes(durable')
      BY <1>12, FileReplaced, SnapshotTyped DEF CheckpointWritten, WriteFile
    <2>3. QED
      BY <1>12, <2>1, <2>2 DEF CheckpointWritten
  <1>13. CASE CheckpointNotDue
    BY <1>13 DEF CheckpointNotDue
  <1>14. CASE WriteReason
    <2>1. TRUE \in BOOLEAN
      OBVIOUS
    <2>2. FileTypes(disk') /\ FileTypes(durable')
      BY <1>14, <2>1, FileReplaced DEF WriteReason, WriteFile
    <2>3. QED
      BY <1>14, <2>2 DEF WriteReason
  <1>15. CASE StopThreads
    BY <1>15 DEF StopThreads
  <1>16. CASE WriteResume
    <2>1. FileTypes(disk') /\ FileTypes(durable')
      BY <1>16, FileReplaced, SnapshotTyped DEF WriteResume, WriteFile
    <2>2. QED
      BY <1>16, <2>1 DEF WriteResume
  <1>17. CASE WriteNoResume
    BY <1>17 DEF WriteNoResume
  <1>18. CASE UnlinkMarker
    <2>1. FALSE \in BOOLEAN
      OBVIOUS
    <2>2. FileTypes(disk') /\ FileTypes(durable')
      BY <1>18, <2>1, FileReplaced DEF UnlinkMarker, Unlink
    <2>3. QED
      BY <1>18, <2>2 DEF UnlinkMarker
  <1>19. CASE Die
    BY <1>19 DEF Die
  <1>20. CASE PowerCut
    <2>1. FileTypes(disk') /\ FileTypes(durable')
      BY <1>20 DEF PowerCut, FileTypes
    <2>2. QED
      BY <1>20, <2>1 DEF PowerCut
  <1>21. CASE Start
    <2>1. TRUE \in BOOLEAN
      OBVIOUS
    <2>2. FileTypes(disk') /\ FileTypes(durable')
      BY <1>21, <2>1, FileReplaced DEF Start, WriteFile
    <2>3. unclean' \in BOOLEAN
      BY <1>21 DEF Start, FileTypes
    <2>4. /\ unproven' \in BOOLEAN /\ recipe' \in BOOLEAN /\ reason' \in BOOLEAN
          /\ on_disk' \in BOOLEAN
      BY <1>21, Zenon DEF Start
    <2>5. QED
      BY <1>21, <2>2, <2>3, <2>4 DEF Start
  <1>22. CASE ReadResume
    <2>1. FileTypes(disk') /\ FileTypes(durable')
      BY <1>22, FileReplaced DEF ReadResume, Unlink
    <2>2. resume' \in MaybeSnapshot
      BY <1>22 DEF ReadResume, FileTypes
    <2>3. QED
      BY <1>22, <2>1, <2>2 DEF ReadResume
  <1>23. CASE ReadReason
    <2>1. FALSE \in BOOLEAN
      OBVIOUS
    <2>2. FileTypes(disk') /\ FileTypes(durable')
      BY <1>23, <2>1, FileReplaced DEF ReadReason, Unlink
    <2>3. reason' \in BOOLEAN
      BY <1>23 DEF ReadReason, FileTypes
    <2>4. QED
      BY <1>23, <2>2, <2>3 DEF ReadReason
  <1>24. CASE ReadCheckpoint
    <2>1. FileTypes(disk') /\ FileTypes(durable')
      BY <1>24, FileReplaced DEF ReadCheckpoint, Unlink
    <2>2. snap' \in MaybeSnapshot
      BY <1>24 DEF ReadCheckpoint, FileTypes
    <2>3. QED
      BY <1>24, <2>1, <2>2 DEF ReadCheckpoint
  <1>25. CASE Recover
    <2>1. unproven' \in BOOLEAN
      BY <1>25, Zenon DEF Recover, RelightFrom
    <2>2. snap \in Snapshot
      BY <1>25 DEF Recover, Judges
    <2>3. QED
      BY <1>25, <2>1, <2>2 DEF Recover, RelightFrom, Snapshot
  <1>26. CASE RecoverRefused
    BY <1>26 DEF RecoverRefused, Judges
  <1>27. CASE RecoverTuner
    BY <1>27 DEF RecoverTuner, Judges, Refuses
  <1>28. CASE BootCheck
    BY <1>28 DEF BootCheck
  <1>29. CASE Resume
    <2>1. /\ unclean' \in BOOLEAN /\ reason' \in BOOLEAN /\ hot' \in BOOLEAN
          /\ resume' = None /\ snap' = None
      BY <1>29, Zenon DEF Resume, Forget
    <2>2. resume \in Snapshot
      BY <1>29 DEF Resume
    <2>3. QED
      BY <1>29, <2>1, <2>2 DEF Resume, Snapshot
  <1>30. CASE Begin
    <2>1. /\ unclean' \in BOOLEAN /\ reason' \in BOOLEAN /\ hot' \in BOOLEAN
          /\ resume' = None /\ snap' = None
      BY <1>30, Zenon DEF Begin, Forget
    <2>2. QED
      BY <1>30, <2>1 DEF Begin
  <1>31. CASE UNCHANGED vars
    BY <1>31 DEF vars
  <1>32. QED
    BY <1>1, <1>2, <1>3, <1>4, <1>5, <1>6, <1>7, <1>8, <1>9, <1>10, <1>11, <1>12, <1>13, <1>14, <1>15, <1>16, <1>17, <1>18, <1>19, <1>20, <1>21, <1>22, <1>23, <1>24, <1>25, <1>26, <1>27, <1>28, <1>29, <1>30, <1>31 DEF Next, Tick, Exit, Boot

\* Every variable keeps its type, whatever crashes, power cuts and boots do.
THEOREM TypeCorrect == Spec => []TypeOK
  BY TypeInit, TypeStep, PTL DEF Spec

-----------------------------------------------------------------------------
(* The invariant.  A file can only say of its cook what memory said when it *)
(* was written, and every change that would make it a lie removes it first. *)

LEMMA InvInit == Init => IInv
  <1> SUFFICES ASSUME Init PROVE IInv
    OBVIOUS
  <1>1. QED
    BY TypeInit DEF Init, IInv, FilesOK, Emptied, CookOK, Counts, Knows, Left, Running

LEMMA InvStep == DurableUnlink /\ IInv /\ [Next]_vars => IInv'
  <1> SUFFICES ASSUME DurableUnlink, IInv, [Next]_vars PROVE IInv'
    OBVIOUS
  <1>0. TypeOK /\ TypeOK' /\ FilesOK /\ Emptied /\ CookOK
    BY TypeStep DEF IInv
  <1> SUFFICES FilesOK' /\ Emptied' /\ CookOK'
    BY <1>0 DEF IInv
  <1> USE DEF Running
  <1>1. CASE AskLight
    <2>1. FilesOK'
      BY <1>0, <1>1 DEF FilesOK, Emptied, CookOK, Counts, Knows, Left, AskLight, Asked, Enter, TypeOK, FileTypes, Snapshot
    <2>2. Emptied'
      BY <1>0, <1>1 DEF FilesOK, Emptied, AskLight, Asked, Enter
    <2>3. CookOK'
      <3>1. unproven' = ("Startup" \in Lights)
        BY <1>1, Zenon DEF AskLight, Enter
      <3>2. Knows(Now)'
        BY <1>1, <3>1 DEF Knows, Now, AskLight, Enter
      <3>3. QED
        BY <1>0, <1>1, <3>2 DEF CookOK, Counts, Now, AskLight, Asked, Enter, TypeOK
    <2>4. QED
      BY <2>1, <2>2, <2>3
  <1>2. CASE AskBurn
    <2>1. FilesOK'
      BY <1>0, <1>2 DEF FilesOK, Emptied, CookOK, Counts, Knows, Left, AskBurn, Asked, Enter
    <2>2. Emptied'
      BY <1>0, <1>2 DEF FilesOK, Emptied, AskBurn, Asked, Enter
    <2>3. CookOK'
      BY <1>0, <1>2 DEF FilesOK, Emptied, CookOK, Counts, Knows, Left, Now, AskBurn, Asked, Enter
    <2>4. QED
      BY <2>1, <2>2, <2>3
  <1>3. CASE AskStop
    <2>1. FilesOK'
      BY <1>0, <1>3 DEF FilesOK, Emptied, CookOK, Counts, Knows, Left, AskStop, Put, Enter
    <2>2. Emptied'
      BY <1>0, <1>3 DEF FilesOK, Emptied, AskStop, Put, Enter
    <2>3. CookOK'
      BY <1>0, <1>3 DEF FilesOK, Emptied, CookOK, Counts, Knows, Left, Now, AskStop, Put, Enter
    <2>4. QED
      BY <2>1, <2>2, <2>3
  <1>4. CASE AskOther
    <2>1. FilesOK'
      BY <1>0, <1>4 DEF FilesOK, Emptied, CookOK, Counts, Knows, Left, AskOther, Put, Enter
    <2>2. Emptied'
      BY <1>0, <1>4 DEF FilesOK, Emptied, AskOther, Put, Enter
    <2>3. CookOK'
      BY <1>0, <1>4 DEF FilesOK, Emptied, CookOK, Counts, Knows, Left, Now, AskOther, Put, Enter
    <2>4. QED
      BY <2>1, <2>2, <2>3
  <1>5. CASE Prove
    <2>1. FilesOK'
      BY <1>0, <1>5 DEF FilesOK, Emptied, CookOK, Counts, Knows, Left, Prove, Decided
    <2>2. Emptied'
      BY <1>0, <1>5 DEF FilesOK, Emptied, Prove, Decided
    <2>3. CookOK'
      BY <1>0, <1>5 DEF FilesOK, Emptied, CookOK, Counts, Knows, Left, Now, Prove, Decided
    <2>4. QED
      BY <2>1, <2>2, <2>3
  <1>6. CASE StartupDone
    <2>1. FilesOK'
      BY <1>0, <1>6 DEF FilesOK, Emptied, CookOK, Counts, Knows, Left, StartupDone, Decided, Enter
    <2>2. Emptied'
      BY <1>0, <1>6 DEF FilesOK, Emptied, StartupDone, Decided, Enter
    <2>3. CookOK'
      BY <1>0, <1>6 DEF FilesOK, Emptied, CookOK, Counts, Knows, Left, Now, StartupDone, Decided, Enter
    <2>4. QED
      BY <2>1, <2>2, <2>3
  <1>7. CASE FlameOut
    <2>1. FilesOK'
      BY <1>0, <1>7 DEF FilesOK, Emptied, CookOK, Counts, Knows, Left, FlameOut, Decided, Enter
    <2>2. Emptied'
      BY <1>0, <1>7 DEF FilesOK, Emptied, FlameOut, Decided, Enter
    <2>3. CookOK'
      BY <1>0, <1>7 DEF FilesOK, Emptied, CookOK, Counts, Knows, Left, Now, FlameOut, Decided, Enter
    <2>4. QED
      BY <2>1, <2>2, <2>3
  <1>8. CASE Fail
    <2>1. FilesOK'
      BY <1>0, <1>8 DEF FilesOK, Emptied, CookOK, Counts, Knows, Left, Fail, Decided, Enter
    <2>2. Emptied'
      BY <1>0, <1>8 DEF FilesOK, Emptied, Fail, Decided, Enter
    <2>3. CookOK'
      BY <1>0, <1>8 DEF FilesOK, Emptied, CookOK, Counts, Knows, Left, Now, Fail, Decided, Enter
    <2>4. QED
      BY <2>1, <2>2, <2>3
  <1>9. CASE RecipeOnOff
    <2>1. FilesOK'
      BY <1>0, <1>9 DEF FilesOK, Emptied, CookOK, Counts, Knows, Left, RecipeOnOff, Asked
    <2>2. Emptied'
      BY <1>0, <1>9 DEF FilesOK, Emptied, RecipeOnOff, Asked
    <2>3. CookOK'
      BY <1>0, <1>9 DEF FilesOK, Emptied, CookOK, Counts, Knows, Left, Now, RecipeOnOff, Asked
    <2>4. QED
      BY <2>1, <2>2, <2>3
  <1>10. CASE IdleTick
    <2>1. FilesOK'
      BY <1>0, <1>10 DEF FilesOK, Emptied, CookOK, Counts, Knows, Left, IdleTick
    <2>2. Emptied'
      BY <1>0, <1>10 DEF FilesOK, Emptied, IdleTick
    <2>3. CookOK'
      BY <1>0, <1>10 DEF FilesOK, Emptied, CookOK, Counts, Knows, Left, Now, IdleTick
    <2>4. QED
      BY <2>1, <2>2, <2>3
  <1>11. CASE CheckpointGoes
    <2>1. FilesOK'
      BY <1>0, <1>11 DEF FilesOK, Emptied, CookOK, Counts, Knows, Left, CheckpointGoes, Unlink, TypeOK, FileTypes, Snapshot
    <2>2. Emptied'
      BY <1>0, <1>11 DEF FilesOK, Emptied, CheckpointGoes, Unlink, TypeOK, FileTypes, Snapshot
    <2>3. CookOK'
      BY <1>0, <1>11 DEF FilesOK, Emptied, CookOK, Counts, Knows, Left, Now, CheckpointGoes, Unlink
    <2>4. QED
      BY <2>1, <2>2, <2>3
  <1>12. CASE CheckpointWritten
    <2>1. FilesOK'
      BY <1>0, <1>12 DEF FilesOK, Emptied, CookOK, Counts, Knows, Left, CheckpointWritten, WriteFile, Now
    <2>2. Emptied'
      BY <1>0, <1>12 DEF FilesOK, Emptied, CheckpointWritten, WriteFile, Now
    <2>3. CookOK'
      BY <1>0, <1>12 DEF FilesOK, Emptied, CookOK, Counts, Knows, Left, Now, CheckpointWritten, WriteFile, Now
    <2>4. QED
      BY <2>1, <2>2, <2>3
  <1>13. CASE CheckpointNotDue
    <2>1. FilesOK'
      BY <1>0, <1>13 DEF FilesOK, Emptied, CookOK, Counts, Knows, Left, CheckpointNotDue
    <2>2. Emptied'
      BY <1>0, <1>13 DEF FilesOK, Emptied, CheckpointNotDue
    <2>3. CookOK'
      BY <1>0, <1>13 DEF FilesOK, Emptied, CookOK, Counts, Knows, Left, Now, CheckpointNotDue
    <2>4. QED
      BY <2>1, <2>2, <2>3
  <1>14. CASE WriteReason
    <2>1. FilesOK'
      BY <1>0, <1>14 DEF FilesOK, Emptied, CookOK, Counts, Knows, Left, WriteReason, WriteFile
    <2>2. Emptied'
      BY <1>0, <1>14 DEF FilesOK, Emptied, WriteReason, WriteFile
    <2>3. CookOK'
      BY <1>0, <1>14 DEF FilesOK, Emptied, CookOK, Counts, Knows, Left, Now, WriteReason, WriteFile
    <2>4. QED
      BY <2>1, <2>2, <2>3
  <1>15. CASE StopThreads
    <2>1. FilesOK'
      BY <1>0, <1>15 DEF FilesOK, Emptied, CookOK, Counts, Knows, Left, StopThreads
    <2>2. Emptied'
      BY <1>0, <1>15 DEF FilesOK, Emptied, StopThreads
    <2>3. CookOK'
      BY <1>0, <1>15 DEF FilesOK, Emptied, CookOK, Counts, Knows, Left, Now, StopThreads, Cook
    <2>4. QED
      BY <2>1, <2>2, <2>3
  <1>16. CASE WriteResume
    <2>1. FilesOK'
      BY <1>0, <1>16 DEF FilesOK, Emptied, CookOK, Counts, Knows, Left, WriteResume, WriteFile, TypeOK, FileTypes, Snapshot, Cook, Now
    <2>2. Emptied'
      BY <1>0, <1>16 DEF FilesOK, Emptied, WriteResume, WriteFile, Now
    <2>3. CookOK'
      BY <1>0, <1>16 DEF FilesOK, Emptied, CookOK, Counts, Knows, Left, Now, WriteResume, WriteFile, Now, Cook, TypeOK, FileTypes, Snapshot
    <2>4. QED
      BY <2>1, <2>2, <2>3
  <1>17. CASE WriteNoResume
    <2>1. FilesOK'
      BY <1>0, <1>17 DEF FilesOK, Emptied, CookOK, Counts, Knows, Left, WriteNoResume
    <2>2. Emptied'
      BY <1>0, <1>17 DEF FilesOK, Emptied, WriteNoResume
    <2>3. CookOK'
      BY <1>0, <1>17 DEF FilesOK, Emptied, CookOK, Counts, Knows, Left, Now, WriteNoResume, Cook
    <2>4. QED
      BY <2>1, <2>2, <2>3
  <1>18. CASE UnlinkMarker
    <2>1. FilesOK'
      BY <1>0, <1>18 DEF FilesOK, Emptied, CookOK, Counts, Knows, Left, UnlinkMarker, Unlink
    <2>2. Emptied'
      BY <1>0, <1>18 DEF FilesOK, Emptied, UnlinkMarker, Unlink
    <2>3. CookOK'
      BY <1>0, <1>18 DEF FilesOK, Emptied, CookOK, Counts, Knows, Left, Now, UnlinkMarker, Unlink
    <2>4. QED
      BY <2>1, <2>2, <2>3
  <1>19. CASE Die
    <2>1. FilesOK'
      BY <1>0, <1>19 DEF FilesOK, Emptied, CookOK, Counts, Knows, Left, Die
    <2>2. Emptied'
      BY <1>0, <1>19 DEF FilesOK, Emptied, Die
    <2>3. CookOK'
      BY <1>0, <1>19 DEF FilesOK, Emptied, CookOK, Counts, Knows, Left, Now, Die
    <2>4. QED
      BY <2>1, <2>2, <2>3
  <1>20. CASE PowerCut
    <2>1. FilesOK'
      BY <1>0, <1>20 DEF FilesOK, Emptied, CookOK, Counts, Knows, Left, PowerCut
    <2>2. Emptied'
      BY <1>0, <1>20 DEF FilesOK, Emptied, PowerCut
    <2>3. CookOK'
      BY <1>0, <1>20 DEF FilesOK, Emptied, CookOK, Counts, Knows, Left, Now, PowerCut
    <2>4. QED
      BY <2>1, <2>2, <2>3
  <1>21. CASE Start
    <2>1. FilesOK'
      BY <1>0, <1>21 DEF FilesOK, Emptied, CookOK, Counts, Knows, Left, Start, WriteFile
    <2>2. Emptied'
      BY <1>0, <1>21 DEF FilesOK, Emptied, Start, WriteFile
    <2>3. CookOK'
      BY <1>0, <1>21 DEF FilesOK, Emptied, CookOK, Counts, Knows, Left, Now, Start, WriteFile
    <2>4. QED
      BY <2>1, <2>2, <2>3
  <1>22. CASE ReadResume
    <2>1. FilesOK'
      BY <1>0, <1>22 DEF FilesOK, Emptied, CookOK, Counts, Knows, Left, ReadResume, Unlink
    <2>2. Emptied'
      BY <1>0, <1>22 DEF FilesOK, Emptied, ReadResume, Unlink, TypeOK, FileTypes, Snapshot
    <2>3. CookOK'
      BY <1>0, <1>22 DEF FilesOK, Emptied, CookOK, Counts, Knows, Left, Now, ReadResume, Unlink
    <2>4. QED
      BY <2>1, <2>2, <2>3
  <1>23. CASE ReadReason
    <2>1. FilesOK'
      BY <1>0, <1>23 DEF FilesOK, Emptied, CookOK, Counts, Knows, Left, ReadReason, Unlink
    <2>2. Emptied'
      BY <1>0, <1>23 DEF FilesOK, Emptied, ReadReason, Unlink
    <2>3. CookOK'
      BY <1>0, <1>23 DEF FilesOK, Emptied, CookOK, Counts, Knows, Left, Now, ReadReason, Unlink
    <2>4. QED
      BY <2>1, <2>2, <2>3
  <1>24. CASE ReadCheckpoint
    <2>1. FilesOK'
      BY <1>0, <1>24 DEF FilesOK, Emptied, CookOK, Counts, Knows, Left, ReadCheckpoint, Unlink
    <2>2. Emptied'
      BY <1>0, <1>24 DEF FilesOK, Emptied, ReadCheckpoint, Unlink, TypeOK, FileTypes, Snapshot
    <2>3. CookOK'
      BY <1>0, <1>24 DEF FilesOK, Emptied, CookOK, Counts, Knows, Left, Now, ReadCheckpoint, Unlink
    <2>4. QED
      BY <2>1, <2>2, <2>3
  <1>25. CASE Recover
    <2>1. FilesOK'
      BY <1>0, <1>25 DEF FilesOK, Emptied, CookOK, Counts, Knows, Left, Recover, Judges, Refuses, RelightFrom
    <2>2. Emptied'
      BY <1>0, <1>25 DEF FilesOK, Emptied, Recover, Judges, Refuses, RelightFrom
    <2>3. CookOK'
      BY <1>0, <1>25 DEF FilesOK, Emptied, CookOK, Counts, Knows, Left, Now, Recover, Judges, Refuses, RelightFrom, TypeOK, FileTypes, Snapshot
    <2>4. QED
      BY <2>1, <2>2, <2>3
  <1>26. CASE RecoverRefused
    <2>1. FilesOK'
      BY <1>0, <1>26 DEF FilesOK, Emptied, CookOK, Counts, Knows, Left, RecoverRefused, Judges
    <2>2. Emptied'
      BY <1>0, <1>26 DEF FilesOK, Emptied, RecoverRefused, Judges
    <2>3. CookOK'
      BY <1>0, <1>26 DEF FilesOK, Emptied, CookOK, Counts, Knows, Left, Now, RecoverRefused, Judges
    <2>4. QED
      BY <2>1, <2>2, <2>3
  <1>27. CASE RecoverTuner
    <2>1. FilesOK'
      BY <1>0, <1>27 DEF FilesOK, Emptied, CookOK, Counts, Knows, Left, RecoverTuner, Judges, Refuses
    <2>2. Emptied'
      BY <1>0, <1>27 DEF FilesOK, Emptied, RecoverTuner, Judges, Refuses
    <2>3. CookOK'
      BY <1>0, <1>27 DEF FilesOK, Emptied, CookOK, Counts, Knows, Left, Now, RecoverTuner, Judges, Refuses
    <2>4. QED
      BY <2>1, <2>2, <2>3
  <1>28. CASE BootCheck
    <2>1. FilesOK'
      BY <1>0, <1>28 DEF FilesOK, Emptied, CookOK, Counts, Knows, Left, BootCheck
    <2>2. Emptied'
      BY <1>0, <1>28 DEF FilesOK, Emptied, BootCheck
    <2>3. CookOK'
      BY <1>0, <1>28 DEF FilesOK, Emptied, CookOK, Counts, Knows, Left, Now, BootCheck
    <2>4. QED
      BY <2>1, <2>2, <2>3
  <1>29. CASE Resume
    <2>1. FilesOK'
      BY <1>0, <1>29 DEF FilesOK, Emptied, CookOK, Counts, Knows, Left, Resume, Forget
    <2>2. Emptied'
      BY <1>0, <1>29 DEF FilesOK, Emptied, Resume, Forget
    <2>3. CookOK'
      BY <1>0, <1>29 DEF FilesOK, Emptied, CookOK, Counts, Knows, Left, Now, Resume, Forget, TypeOK, FileTypes, Snapshot
    <2>4. QED
      BY <2>1, <2>2, <2>3
  <1>30. CASE Begin
    <2>1. FilesOK'
      BY <1>0, <1>30 DEF FilesOK, Emptied, CookOK, Counts, Knows, Left, Begin, Forget
    <2>2. Emptied'
      BY <1>0, <1>30 DEF FilesOK, Emptied, Begin, Forget
    <2>3. CookOK'
      BY <1>0, <1>30 DEF FilesOK, Emptied, CookOK, Counts, Knows, Left, Now, Begin, Forget
    <2>4. QED
      BY <2>1, <2>2, <2>3
  <1>31. CASE UNCHANGED vars
    BY <1>0, <1>31 DEF vars, FilesOK, Emptied, CookOK, Counts, Knows, Left, Now, Cook
  <1>32. QED
    BY <1>1, <1>2, <1>3, <1>4, <1>5, <1>6, <1>7, <1>8, <1>9, <1>10, <1>11, <1>12, <1>13, <1>14, <1>15, <1>16, <1>17, <1>18, <1>19, <1>20, <1>21, <1>22, <1>23, <1>24, <1>25, <1>26, <1>27, <1>28, <1>29, <1>30, <1>31 DEF Next, Tick, Exit, Boot

LEMMA Invariance == DurableUnlink /\ Spec => []IInv
  <1> SUFFICES ASSUME DurableUnlink PROVE Spec => []IInv
    OBVIOUS
  <1>1. Init => IInv
    BY InvInit
  <1>2. IInv /\ [Next]_vars => IInv'
    BY InvStep
  <1>3. QED
    BY <1>1, <1>2, PTL DEF Spec

\* A cook is lit again by a recovery at most once between two warm restarts,
\* whatever the checkpoint it reads is worth and wherever boot is interrupted.
THEOREM RecoveredOnce == DurableUnlink /\ Spec => []OnceAnUpdate
  <1>1. IInv => OnceAnUpdate
    BY DEF IInv, CookOK, OnceAnUpdate
  <1>2. QED
    BY <1>1, Invariance, PTL

\* Only Recover adds to relit, and it refuses what the invariant does not know
\* to burn.
LEMMA RelightStep == IInv /\ [Next]_vars => (relit' > relit => lit)
  <1> SUFFICES ASSUME IInv, [Next]_vars, relit' > relit PROVE lit
    OBVIOUS
  <1>1. relit \in Nat /\ Knows(snap)
    BY DEF IInv, TypeOK, FilesOK
  <1>2. CASE Recover
    BY <1>1, <1>2 DEF Recover, Judges, Refuses, Knows
  <1>3. CASE relit' \in {0, relit}
    BY <1>1, <1>3
  <1>4. ~Recover => relit' \in {0, relit}
    <2> USE DEF Asked, Put, Decided
    <2>1. CASE Tick
      BY <2>1 DEF Tick, AskLight, AskBurn, AskStop, AskOther, Prove, StartupDone,
         FlameOut, Fail, RecipeOnOff, IdleTick, CheckpointGoes,
         CheckpointWritten, CheckpointNotDue, Enter
    <2>2. CASE Exit \/ Die \/ PowerCut \/ WriteReason
      BY <2>2 DEF Exit, Die, PowerCut, WriteReason, StopThreads, WriteResume,
         WriteNoResume, UnlinkMarker
    <2>3. CASE Boot
      BY <2>3 DEF Boot, Start, ReadResume, ReadReason, ReadCheckpoint,
         RecoverRefused, RecoverTuner, BootCheck, Resume, Begin
    <2>4. CASE UNCHANGED vars
      BY <2>4 DEF vars
    <2>5. QED
      BY <2>1, <2>2, <2>3, <2>4 DEF Next
  <1>5. QED
    BY <1>2, <1>3, <1>4

\* Boot lights only a pot that was known to burn in a cook that is still on.
THEOREM OnlyFireIsRelit == DurableUnlink /\ Spec => OnlyItsFireIsRelit
  <1>1. IInv /\ [Next]_vars => [relit' > relit => lit]_vars
    BY RelightStep
  <1>2. QED
    BY <1>1, Invariance, PTL DEF Spec, OnlyItsFireIsRelit

\* The one step that adds to handed restores the snapshot the last clean exit
\* wrote, which is the cook as it was.
LEMMA ResumeStep == IInv /\ [Next]_vars => (handed' > handed => Cook' = was)
  <1> SUFFICES ASSUME IInv, [Next]_vars, handed' > handed PROVE Cook' = was
    OBVIOUS
  <1>1. handed \in Nat /\ resume \in MaybeSnapshot /\ Left(resume)
        /\ recoveries \in Nat
    BY DEF IInv, TypeOK, FilesOK
  <1>2. CASE Resume
    <2>1. resume \in Snapshot /\ resume # None
      BY <1>1, <1>2 DEF Resume, Snapshot
    <2>2. was = [resume EXCEPT !.recoveries = 0]
      BY <1>1, <2>1 DEF Left
    <2>3. Cook' = [resume EXCEPT !.recoveries = 0]
      BY <1>2, <2>1 DEF Resume, Cook, Now, Snapshot
    <2>4. QED
      BY <2>2, <2>3
  <1>3. CASE handed' \in {0, handed}
    BY <1>1, <1>3
  <1>4. ~Resume => handed' \in {0, handed}
    <2> USE DEF Asked, Put, Decided
    <2>1. CASE Tick
      BY <2>1 DEF Tick, AskLight, AskBurn, AskStop, AskOther, Prove, StartupDone,
         FlameOut, Fail, RecipeOnOff, IdleTick, CheckpointGoes,
         CheckpointWritten, CheckpointNotDue, Enter
    <2>2. CASE Exit \/ Die \/ PowerCut \/ WriteReason
      BY <2>2 DEF Exit, Die, PowerCut, WriteReason, StopThreads, WriteResume,
         WriteNoResume, UnlinkMarker
    <2>3. CASE Boot
      BY <2>3 DEF Boot, Start, ReadResume, ReadReason, ReadCheckpoint, Recover,
         RecoverRefused, RecoverTuner, BootCheck, Begin
    <2>4. CASE UNCHANGED vars
      BY <2>4 DEF vars
    <2>5. QED
      BY <2>1, <2>2, <2>3, <2>4 DEF Next
  <1>5. QED
    BY <1>2, <1>3, <1>4

\* A warm restart gives back the cook it took over.
THEOREM WarmRestart == DurableUnlink /\ Spec => ResumeIsSeamless
  <1>1. IInv /\ [Next]_vars => [handed' > handed => Cook' = was]_vars
    BY ResumeStep
  <1>2. QED
    BY <1>1, Invariance, PTL DEF Spec, ResumeIsSeamless

-----------------------------------------------------------------------------
(* The budget of relights.  A checkpoint may be older than the last flame-  *)
(* out, but not than the last two, if a relight takes more ticks than lie   *)
(* between two checkpoints.                                                 *)

\* The cook of a snapshot has used its retries, but for n relights it does not know of.
Behind(s, n) ==
  s.mode \in Cooking =>
    /\ relights + s.retries <= Retries + relit + n
    /\ s.mode = "Startup" => relights <= relit + n

\* Decisions since the checkpoint was written, this tick's included.
Decisions == unsaved + IF pc = "save" THEN 1 ELSE 0

\* A checkpoint that misses a flame-out is of before the light that is on, or the one before.
Recent ==
  pc \in {"run", "asked", "save"} /\ mode \in Cooking =>
    \/ Behind(disk["checkpoint"], 0)
    \/ mode = "Reignite" /\ unproven /\ Decisions >= 1
    \/ mode = "Reignite" /\ ~unproven /\ Decisions >= 2
    \/ mode \in Burns /\ Decisions >= 3

BudgetOK ==
  /\ Behind(Now, 0) /\ Behind(disk["resume"], 0) /\ Behind(resume, 0)
  /\ Behind(disk["checkpoint"], 1) /\ Behind(snap, 1)
  /\ Recent

LEMMA BudgetInit == Init => BudgetOK
  BY RecoveryAssumption DEF Init, BudgetOK, Behind, Recent, Now

LEMMA BudgetStep ==
  DurableUnlink /\ Stale <= 2 /\ IInv /\ IInv' /\ BudgetOK /\ [Next]_vars => BudgetOK'
  <1> SUFFICES ASSUME DurableUnlink, Stale <= 2, IInv, IInv', BudgetOK, [Next]_vars
               PROVE  BudgetOK'
    OBVIOUS
  <1>1. TypeOK /\ Emptied /\ durable = disk /\ TypeOK' /\ Emptied'
    BY DEF IInv, FilesOK
  <1>2. CASE AskLight
    BY <1>1, <1>2 DEF AskLight, Asked, Enter, BudgetOK, Behind, Recent, Now, TypeOK, FileTypes, Snapshot
  <1>3. CASE AskBurn
    <2>1. UNCHANGED <<disk, resume, snap, relights, relit, retries, unsaved>> /\ pc # "save"
      BY <1>3 DEF AskBurn, Asked, Enter, files, boot, counts, saving, cook, history
    <2>2. \/ UNCHANGED <<mode, unproven>>
          \/ mode \in Burns /\ mode' \in Burns
      BY <1>3 DEF AskBurn, Enter
    <2>3. pc \in {"run", "asked"} /\ pc' = "asked" /\ mode \in Cooking
      BY <1>3 DEF AskBurn, Asked
    <2>4. Recent'
      BY <2>1, <2>2, <2>3 DEF BudgetOK, Behind, Recent, Decisions
    <2> QED
      BY <2>1, <2>2, <2>3, <2>4 DEF BudgetOK, Behind, Now
  <1>4. CASE AskStop \/ AskOther
    BY <1>1, <1>4 DEF AskStop, AskOther, Put, Enter, BudgetOK, Behind, Recent, Now
  <1>5. CASE Prove
    BY <1>1, <1>5 DEF Prove, Decided, BudgetOK, Behind, Recent, Decisions, Now, TypeOK
  <1>6. CASE StartupDone
    BY <1>1, <1>6 DEF StartupDone, Decided, Enter, BudgetOK, Behind, Recent, Decisions, Now, TypeOK
  <1>7. CASE FlameOut
    BY <1>1, <1>7 DEF FlameOut, Decided, Enter, BudgetOK, Behind, Recent, Decisions, Now, TypeOK,
                      Emptied, Running, FileTypes, Snapshot
  <1>8. CASE Fail \/ RecipeOnOff \/ IdleTick
    <2>1. UNCHANGED <<disk, resume, snap, relights, relit, retries, unsaved>>
      BY <1>8 DEF Fail, RecipeOnOff, IdleTick, Enter, files, boot, counts, saving, cook, history
    <2>2. \/ UNCHANGED <<mode, unproven>>
          \/ mode' = "Error"
      BY <1>8 DEF Fail, RecipeOnOff, IdleTick, Enter
    <2>3. pc \in {"run", "asked"}
      BY <1>8 DEF Fail, RecipeOnOff, IdleTick, Asked, Decided
    <2>4. Decisions' >= Decisions /\ Decisions \in Nat /\ Decisions' \in Nat
      BY <1>1, <2>1, <2>3 DEF Decisions, TypeOK
    <2>5. Recent'
      BY <2>1, <2>2, <2>3, <2>4 DEF BudgetOK, Behind, Recent
    <2> QED
      BY <2>1, <2>2, <2>5 DEF BudgetOK, Behind, Now
  <1>9. CASE CheckpointGoes
    BY <1>1, <1>9 DEF CheckpointGoes, Unlink, BudgetOK, Behind, Recent, Now, TypeOK, FileTypes
  <1>10. CASE CheckpointWritten
    BY <1>1, <1>10 DEF CheckpointWritten, WriteFile, BudgetOK, Behind, Recent, Now, TypeOK, FileTypes
  <1>11. CASE CheckpointNotDue
    BY <1>1, <1>11 DEF CheckpointNotDue, BudgetOK, Behind, Recent, Decisions, Now, TypeOK
  <1>12. CASE WriteReason
    BY <1>1, <1>12 DEF WriteReason, WriteFile, BudgetOK, Behind, Recent, Now, TypeOK, FileTypes
  <1>13. CASE StopThreads \/ WriteNoResume \/ Die
    BY <1>1, <1>13 DEF StopThreads, WriteNoResume, Die, BudgetOK, Behind, Recent, Now
  <1>14. CASE WriteResume \/ UnlinkMarker
    BY <1>1, <1>14 DEF WriteResume, UnlinkMarker, WriteFile, Unlink, BudgetOK, Behind, Recent, Now,
                       TypeOK, FileTypes
  <1>15. CASE PowerCut
    <2>1. disk' = disk
      BY <1>1, <1>15 DEF PowerCut, TypeOK, FileTypes
    <2> QED
      BY <1>1, <1>15, <2>1 DEF PowerCut, BudgetOK, Behind, Recent, Now
  <1>16. CASE Start
    BY <1>1, <1>16 DEF Start, WriteFile, BudgetOK, Behind, Recent, Now, TypeOK, FileTypes
  <1>17. CASE ReadResume \/ ReadReason \/ ReadCheckpoint
    BY <1>1, <1>17 DEF ReadResume, ReadReason, ReadCheckpoint, Unlink, BudgetOK, Behind, Recent, Now,
                       TypeOK, FileTypes
  <1>18. CASE Recover
    BY <1>1, <1>18 DEF Recover, Judges, RelightFrom, BudgetOK, Behind, Recent, Now, TypeOK, FileTypes,
                       Snapshot
  <1>19. CASE RecoverRefused \/ RecoverTuner \/ BootCheck
    BY <1>1, <1>19 DEF RecoverRefused, RecoverTuner, BootCheck, BudgetOK, Behind, Recent, Now
  <1>20. CASE Resume \/ Begin
    BY <1>1, <1>20 DEF Resume, Begin, Forget, BudgetOK, Behind, Recent, Now, Emptied, TypeOK, FileTypes
  <1>21. CASE UNCHANGED vars
    BY <1>21 DEF vars, BudgetOK, Behind, Recent, Decisions, Now
  <1> QED
    BY <1>2, <1>3, <1>4, <1>5, <1>6, <1>7, <1>8, <1>9, <1>10, <1>11, <1>12, <1>13, <1>14, <1>15,
       <1>16, <1>17, <1>18, <1>19, <1>20, <1>21 DEF Next, Tick, Exit, Boot

\* For every number of retries and of warm restarts, and any order of crashes and power cuts: a
\* cook is relit no more often than its retries and recoveries say, if a relight takes longer than a
\* checkpoint is old (safety.c:154, control.c:3105; ten seconds in the code, lights are minutes).
\* From three ticks on it is not so (README, Found).
THEOREM RelightsAreBudgeted == DurableUnlink /\ Stale <= 2 /\ Spec => []RelightBudget
  <1> SUFFICES ASSUME DurableUnlink, Stale <= 2 PROVE Spec => []RelightBudget
    OBVIOUS
  <1>1. Init => BudgetOK
    BY BudgetInit
  <1>2. IInv /\ IInv' /\ BudgetOK /\ [Next]_vars => BudgetOK'
    BY BudgetStep
  <1>3. IInv /\ BudgetOK => RelightBudget
    BY DEF IInv, TypeOK, BudgetOK, Behind, Now, RelightBudget
  <1> QED
    BY <1>1, <1>2, <1>3, Invariance, PTL DEF Spec
=============================================================================
