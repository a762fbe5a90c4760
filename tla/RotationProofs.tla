--------------------------- MODULE RotationProofs ---------------------------
(***************************************************************************)
(* Theorems about the rotation transaction, for every number of slots,     *)
(* rotations, files, crashes and failed calls.  Whatever fails: types, no  *)
(* kept file is lost, retention is honoured, and no file stands in front   *)
(* of a newer one.  Until the first failed call: what a directory looks    *)
(* like between two steps of a transaction, and from it that only a        *)
(* temporary manifest makes recovery refuse, that a transaction is         *)
(* finished before the next begins, and that the rotation implements the   *)
(* one-step rotation of AtomicRotation.                                    *)
(***************************************************************************)
EXTENDS Rotation, TLAPS

-----------------------------------------------------------------------------
(* What the directory operations do to a directory: they keep it a directory *)
(* and, with the guards of the code, lose no file.                           *)

LEMMA EmptyIsDirectory == EmptyDirectory \in Directory
  BY DEF EmptyDirectory, Directory, FileOrNone, NoManifest

\* Two views of Directory for the steps that change one field of one.
LEMMA DirectoryFields ==
  ASSUME NEW s \in Directory
  PROVE  /\ s.log \in [Slots -> FileOrNone]
         /\ s.stage \in [Txns -> [Slots -> FileOrNone]]
         /\ s.manifest \in Manifest \cup {NoManifest}
         /\ s.tmp \subseteq Txns
  BY DEF Directory

LEMMA StageFileKeepsFiles ==
  ASSUME NEW s \in Directory, NEW t \in Txns, NEW i \in Slots, s.stage[t][i] = NoFile
  PROVE  /\ StageFile(s, t, i) \in Directory
         /\ \A f \in Files : f \in Held(s) => f \in Held(StageFile(s, t, i))
<1> DEFINE r == StageFile(s, t, i)
<1>1. r \in Directory
  BY DEF StageFile, Directory, FileOrNone
<1>2. ASSUME NEW f \in Files, f \in Held(s) PROVE f \in Held(r)
  <2>1. \A j \in Slots : j # i => r.log[j] = s.log[j]
    BY DEF StageFile, Directory
  <2>2. r.stage[t][i] = s.log[i]
    BY DEF StageFile, Directory
  <2>3. \A u \in Txns, j \in Slots : u # t \/ j # i => r.stage[u][j] = s.stage[u][j]
    BY DEF StageFile, Directory
  <2>4. f # NoFile
    BY DEF Files, NoFile
  <2>5. CASE \E j \in Slots : f = s.log[j]
    BY <2>1, <2>2, <2>5 DEF Held
  <2>6. CASE \E u \in Txns, j \in Slots : f = s.stage[u][j]
    BY <2>3, <2>4, <2>6 DEF Held
  <2> QED BY <1>2, <2>5, <2>6 DEF Held
<1> QED BY <1>1, <1>2

LEMMA InstallFileKeepsFiles ==
  ASSUME NEW s \in Directory, NEW t \in Txns, NEW i \in Backups, s.log[i] = NoFile
  PROVE  /\ InstallFile(s, t, i) \in Directory
         /\ \A f \in Files : f \in Held(s) => f \in Held(InstallFile(s, t, i))
<1> DEFINE r == InstallFile(s, t, i)
<1>0. i \in Slots /\ i - 1 \in Slots
  BY SlotsAssumption DEF Backups, Slots
<1>1. r \in Directory
  <2>1. s.stage[t][i - 1] \in FileOrNone /\ NoFile \in FileOrNone
    BY <1>0 DEF Directory, FileOrNone
  <2>2. [s.log EXCEPT ![i] = s.stage[t][i - 1]] \in [Slots -> FileOrNone]
    BY <1>0, <2>1 DEF Directory
  <2>3. [s.stage EXCEPT ![t][i - 1] = NoFile] \in [Txns -> [Slots -> FileOrNone]]
    BY <1>0, <2>1 DEF Directory
  <2>4. r = [s EXCEPT !.log = [s.log EXCEPT ![i] = s.stage[t][i - 1]],
                      !.stage = [s.stage EXCEPT ![t][i - 1] = NoFile]]
    BY DEF InstallFile, Directory
  <2> QED BY <2>2, <2>3, <2>4 DEF Directory
<1>2. ASSUME NEW f \in Files, f \in Held(s) PROVE f \in Held(r)
  <2>1. \A j \in Slots : j # i => r.log[j] = s.log[j]
    BY DEF InstallFile, Directory
  <2>2. r.log[i] = s.stage[t][i - 1]
    BY <1>0 DEF InstallFile, Directory
  <2>3. \A u \in Txns, j \in Slots : u # t \/ j # i - 1 => r.stage[u][j] = s.stage[u][j]
    BY <1>0 DEF InstallFile, Directory
  <2>4. f # NoFile
    BY DEF Files, NoFile
  <2>5. CASE \E j \in Slots : f = s.log[j]
    BY <2>1, <2>4, <2>5 DEF Held
  <2>6. CASE \E u \in Txns, j \in Slots : f = s.stage[u][j]
    BY <1>0, <2>2, <2>3, <2>6 DEF Held
  <2> QED BY <1>2, <2>5, <2>6 DEF Held
<1> QED BY <1>1, <1>2

-----------------------------------------------------------------------------
(* Type correctness.  JobOK says what the locations of the transaction rely *)
(* on: a manifest in memory, an index of a backup, an active file to ack.   *)

Working == {"create", "publish", "stage", "install", "drop", "clear"}

JobOK ==
  /\ pc \in Working => job \in Manifest
  /\ pc \in {"install", "prune", "reprune"} => slot >= 1
  /\ pc = "ack" => fs.log[Active] # NoFile

TypeInv == TypeOK /\ JobOK

LEMMA ManifestFields ==
  ASSUME NEW m \in Manifest
  PROVE  /\ m.txn \in Txns /\ m.phase \in {"staging", "installing"}
         /\ m.max \in Backups /\ m.present \subseteq Backups
  BY DEF Manifest

LEMMA NoManifestIsNone == NoManifest \notin Manifest
  BY DEF Manifest, NoManifest, Txns

\* A change to a directory keeps the two directory variables in their types.
LEMMA ChangeType ==
  ASSUME TypeOK, NEW s \in Directory, Change(s)
  PROVE  fs' \in Directory /\ recoverable' \subseteq Directory /\ fs' \in recoverable'
  BY DEF TypeOK, Change

LEMMA InitType == Init => TypeInv
<1> SUFFICES ASSUME Init PROVE TypeInv
  OBVIOUS
<1>1. fs \in Directory /\ recoverable \subseteq Directory /\ fs \in recoverable
  BY EmptyIsDirectory DEF Init
<1>2. slot \in 0..(MaxSlots + 1) /\ txns \in 0..MaxTxns /\ files \in 0..MaxFiles
  BY SlotsAssumption, BoundsAssumption DEF Init
<1>3. crashes \in 0..MaxCrashes /\ faults \in 0..MaxFaults
  BY BoundsAssumption DEF Init
<1> QED BY <1>1, <1>2, <1>3 DEF Init, TypeInv, TypeOK, JobOK, Working, Locations, Outcomes

\* A step of append that leaves the directory alone, and one that changes it;
\* the other steps are crashes.
Quiet ==
  \/ Open \/ Close \/ BeginAppend \/ Sync \/ IoError \/ Recovery
  \/ KeepBackup \/ PruneDone \/ Decide \/ TemporaryExists
  \/ StageSkip \/ StageRefuse \/ StagingDone
  \/ InstallSkip \/ InstallRefuse \/ InstallingDone
  \/ NothingToDrop \/ Acknowledge

Changing ==
  \/ CreateTemporary \/ PublishManifest \/ StageMove \/ InstallMove
  \/ DropOldest \/ ClearManifest \/ WriteRecord
  \/ ExpireBackup

\* A failed append and a halted process drop the manifest in memory.
LEMMA FailType ==
  ASSUME TypeInv, NEW error \in {"io", "refused", "corrupt"}, Fail(error),
         crashes' \in 0..MaxCrashes, faults' \in 0..MaxFaults
  PROVE  TypeInv'
<1>1. slot' \in 0..(MaxSlots + 1)
  BY SlotsAssumption DEF Fail
<1>2. job' \in Manifest \cup {NoManifest}
  BY DEF Fail
<1>3. outcome' \in Outcomes
  BY DEF Fail, Outcomes
<1> QED BY <1>1, <1>2, <1>3 DEF Fail, TypeInv, TypeOK, JobOK, Working, Locations, Outcomes, At, dirVars, taskVars, hostVars, history, budget

LEMMA HaltType ==
  ASSUME TypeInv, Halt,
         fs' \in Directory, recoverable' \subseteq Directory, fs' \in recoverable'
  PROVE  TypeInv'
<1>1. slot' \in 0..(MaxSlots + 1)
  BY SlotsAssumption DEF Halt
<1>2. job' \in Manifest \cup {NoManifest}
  BY DEF Halt
<1>3. crashes' \in 0..MaxCrashes /\ faults' \in 0..MaxFaults
  BY BoundsAssumption DEF Halt, TypeInv, TypeOK
<1> QED BY <1>1, <1>2, <1>3 DEF Halt, TypeInv, TypeOK, JobOK, Working, Locations, Outcomes, At, dirVars, taskVars, hostVars, history, budget

\* Steps that leave the directory as it is.
LEMMA QuietStepType ==
  ASSUME TypeInv, Quiet
  PROVE  TypeInv'
<1> USE SlotsAssumption, BoundsAssumption
<1> USE DEF At, dirVars, taskVars, hostVars, history, budget
<1>1. CASE Open
  BY <1>1 DEF Open, TypeInv, TypeOK, JobOK, Working, Locations, Outcomes
<1>2. CASE Close
  BY <1>2 DEF Close, TypeInv, TypeOK, JobOK, Working, Locations, Outcomes
<1>3. CASE BeginAppend
  BY <1>3 DEF BeginAppend, TypeInv, TypeOK, JobOK, Working, Locations, Outcomes
<1>4. CASE Sync
  <2>1. /\ fs' = fs /\ recoverable' = {fs} /\ syncing' = FALSE
        /\ UNCHANGED <<pc, job, slot, limit, runtime, recovered, outcome, txns, files,
                       kept, dropped, expired, crashes, faults>>
    BY <1>4 DEF Sync
  <2> QED BY <2>1 DEF TypeInv, TypeOK, JobOK
<1>5. CASE IoError
  <2>1. crashes' \in 0..MaxCrashes /\ faults' \in 0..MaxFaults
    BY <1>5 DEF IoError, budget, TypeInv, TypeOK
  <2> QED BY <1>5, <2>1, FailType DEF IoError
<1>6. CASE ReadManifest
  <2>1. fs.manifest \in Manifest
    BY <1>6, DirectoryFields DEF ReadManifest, TypeInv, TypeOK
  <2>2. job' \in Manifest /\ slot' \in 0..(MaxSlots + 1)
    BY <1>6, <2>1, SlotsAssumption DEF ReadManifest, Active
  <2>3. JobOK'
    BY <1>6, <2>2 DEF ReadManifest, JobOK, Working
  <2> QED BY <1>6, <2>1, <2>2, <2>3 DEF ReadManifest, TypeInv, TypeOK, JobOK, Working, Locations, Outcomes
<1>7. CASE NoManifestFound
  BY <1>7 DEF NoManifestFound, TypeInv, TypeOK, JobOK, Working, Locations, Outcomes
<1>8. CASE Recovered
  BY <1>8 DEF Recovered, TypeInv, TypeOK, JobOK, Working, Locations, Outcomes
<1>9. CASE UnexplainedFiles
  <2>1. crashes' \in 0..MaxCrashes /\ faults' \in 0..MaxFaults
    BY <1>9 DEF UnexplainedFiles, budget, TypeInv, TypeOK
  <2> QED BY <1>9, <2>1, FailType DEF UnexplainedFiles
<1>10. CASE KeepBackup
  <2>1. slot' \in 0..(MaxSlots + 1) /\ slot' >= 1
    BY <1>10 DEF KeepBackup, TypeInv, TypeOK, JobOK
  <2> QED BY <1>10, <2>1 DEF KeepBackup, TypeInv, TypeOK, JobOK, Working, Locations, Outcomes
<1>11. CASE PruneDone
  BY <1>11 DEF PruneDone, TypeInv, TypeOK, JobOK, Working, Locations, Outcomes
<1>12. CASE NoRotation
  BY <1>12 DEF NoRotation, TypeInv, TypeOK, JobOK, Working, Locations, Outcomes
<1>13. CASE BeginRotation
  <2>1. job' \in Manifest
    BY <1>13, SlotsAssumption, BoundsAssumption DEF BeginRotation, NewManifest, Manifest, Txns, Backups, TypeInv, TypeOK
  <2>2. txns' \in 0..MaxTxns /\ slot' \in 0..(MaxSlots + 1)
    BY <1>13, SlotsAssumption, BoundsAssumption DEF BeginRotation, TypeInv, TypeOK
  <2> QED BY <1>13, <2>1, <2>2 DEF BeginRotation, TypeInv, TypeOK, JobOK, Working, Locations, Outcomes
<1>14. CASE RotationRefused
  <2>1. crashes' \in 0..MaxCrashes /\ faults' \in 0..MaxFaults
    BY <1>14 DEF RotationRefused, budget, TypeInv, TypeOK
  <2> QED BY <1>14, <2>1, FailType DEF RotationRefused
<1>15. CASE TemporaryExists
  <2>1. crashes' \in 0..MaxCrashes /\ faults' \in 0..MaxFaults
    BY <1>15 DEF TemporaryExists, budget, TypeInv, TypeOK
  <2> QED BY <1>15, <2>1, FailType DEF TemporaryExists
<1>16. CASE StageSkip
  <2>1. job \in Manifest /\ job.max \in Backups
    BY <1>16, ManifestFields DEF StageSkip, TypeInv, JobOK, Working, At
  <2>2. slot' \in 0..(MaxSlots + 1)
    BY <1>16, <2>1, SlotsAssumption DEF StageSkip, TypeInv, TypeOK, Backups
  <2> QED BY <1>16, <2>1, <2>2 DEF StageSkip, TypeInv, TypeOK, JobOK, Working, Locations, Outcomes
<1>17. CASE StageRefuse
  <2>1. crashes' \in 0..MaxCrashes /\ faults' \in 0..MaxFaults
    BY <1>17 DEF StageRefuse, budget, TypeInv, TypeOK
  <2> QED BY <1>17, <2>1, FailType DEF StageRefuse
<1>18. CASE StagingDone
  <2>1. job' \in Manifest
    BY <1>18 DEF StagingDone, TypeInv, JobOK, Working, At, Manifest
  <2>2. slot' \in 0..(MaxSlots + 1)
    BY <1>18, SlotsAssumption DEF StagingDone
  <2> QED BY <1>18, <2>1, <2>2 DEF StagingDone, TypeInv, TypeOK, JobOK, Working, Locations, Outcomes
<1>19. CASE InstallSkip
  <2>1. job \in Manifest /\ job.max \in Backups
    BY <1>19, ManifestFields DEF InstallSkip, TypeInv, JobOK, Working, At
  <2>2. slot' \in 0..(MaxSlots + 1) /\ slot' >= 1
    BY <1>19, <2>1, SlotsAssumption DEF InstallSkip, TypeInv, TypeOK, JobOK, At, Backups
  <2> QED BY <1>19, <2>1, <2>2 DEF InstallSkip, TypeInv, TypeOK, JobOK, Working, Locations, Outcomes
<1>20. CASE InstallRefuse
  <2>1. crashes' \in 0..MaxCrashes /\ faults' \in 0..MaxFaults
    BY <1>20 DEF InstallRefuse, budget, TypeInv, TypeOK
  <2> QED BY <1>20, <2>1, FailType DEF InstallRefuse
<1>21. CASE InstallingDone
  BY <1>21 DEF InstallingDone, TypeInv, TypeOK, JobOK, Working, Locations, Outcomes
<1>22. CASE NothingToDrop
  BY <1>22 DEF NothingToDrop, TypeInv, TypeOK, JobOK, Working, Locations, Outcomes
<1>23. CASE Acknowledge
  <2>1. fs.log[Active] \in Files
    BY <1>23, DirectoryFields, SlotsAssumption DEF Acknowledge, At, TypeInv, TypeOK, JobOK, FileOrNone, Slots, Active
  <2>2. kept' \subseteq Files
    BY <1>23, <2>1 DEF Acknowledge, TypeInv, TypeOK
  <2> QED BY <1>23, <2>1, <2>2 DEF Acknowledge, TypeInv, TypeOK, JobOK, Working, Locations, Outcomes
<1> QED BY <1>1, <1>2, <1>3, <1>4, <1>5, <1>6, <1>7, <1>8, <1>9, <1>10, <1>11, <1>12, <1>13, <1>14, <1>15, <1>16, <1>17, <1>18, <1>19, <1>20, <1>21, <1>22, <1>23
     DEF Quiet, Recovery, Decide

\* The remaining edits of a directory: one entry goes, one file appears, or
\* only the manifest and its temporary change.
LEMMA EntryKeepsFiles ==
  ASSUME NEW s \in Directory, NEW i \in Slots, NEW g \in FileOrNone
  PROVE  LET r == [s EXCEPT !.log[i] = g] IN
         /\ r \in Directory
         /\ \A f \in Files : f \in Held(s) => f \in Held(r) \/ f = s.log[i]
         /\ r.log[i] = g
<1> DEFINE r == [s EXCEPT !.log[i] = g]
<1>1. r \in Directory /\ r.log[i] = g
  BY DEF Directory
<1>2. (\A j \in Slots : j # i => r.log[j] = s.log[j]) /\ r.stage = s.stage
  BY DEF Directory
<1> QED BY <1>1, <1>2 DEF Held

LEMMA DropKeepsFiles ==
  ASSUME NEW s \in Directory, NEW t \in Txns, NEW i \in Slots
  PROVE  LET r == [s EXCEPT !.stage[t][i] = NoFile] IN
         /\ r \in Directory
         /\ \A f \in Files : f \in Held(s) => f \in Held(r) \/ f = s.stage[t][i]
<1> DEFINE r == [s EXCEPT !.stage[t][i] = NoFile]
<1>1. r \in Directory
  BY DEF Directory, FileOrNone
<1>2. \A u \in Txns, j \in Slots : u # t \/ j # i => r.stage[u][j] = s.stage[u][j]
  BY DEF Directory
<1>3. r.log = s.log
  BY DEF Directory
<1> QED BY <1>1, <1>2, <1>3 DEF Held

LEMMA ManifestKeepsFiles ==
  ASSUME NEW s \in Directory, NEW m \in Manifest \cup {NoManifest}, NEW T \in SUBSET Txns
  PROVE  LET r == [s EXCEPT !.manifest = m, !.tmp = T] IN
         r \in Directory /\ Held(r) = Held(s)
<1> DEFINE r == [s EXCEPT !.manifest = m, !.tmp = T]
<1>1. r \in Directory
  BY DEF Directory
<1>2. r.log = s.log /\ r.stage = s.stage
  BY DEF Directory
<1> QED BY <1>1, <1>2 DEF Held

\* What a step that changes the directory does to it.
Careful ==
  /\ fs' \in Directory /\ Change(fs') /\ kept' = kept
  /\ dropped \subseteq dropped' /\ expired \subseteq expired'
  /\ \A f \in Files : f \in Held(fs) => f \in Held(fs') \cup dropped' \cup expired'

\* The steps that change the directory keep every file, and the types.
LEMMA ChangingStep ==
  ASSUME TypeInv, Changing
  PROVE  TypeInv' /\ Careful
<1> USE SlotsAssumption, BoundsAssumption
<1> USE DEF At, dirVars, taskVars, hostVars, history, budget
<1>0. fs \in Directory
  BY DEF TypeInv, TypeOK
<1>a. ASSUME Careful PROVE recoverable' \subseteq Directory /\ fs' \in recoverable'
  BY <1>a DEF Careful, Change, TypeInv, TypeOK
<1>1. CASE CreateTemporary
  <2>1. job \in Manifest /\ job.txn \in Txns
    BY <1>1, ManifestFields DEF CreateTemporary, TypeInv, JobOK, Working, At
  <2>2. fs.manifest \in Manifest \cup {NoManifest} /\ fs.tmp \cup {job.txn} \in SUBSET Txns
    BY <1>0, <2>1, DirectoryFields
  <2>3. fs' = [fs EXCEPT !.manifest = fs.manifest, !.tmp = fs.tmp \cup {job.txn}]
    BY <1>0, <1>1 DEF CreateTemporary, Change, Directory
  <2>4. fs' \in Directory /\ Held(fs') = Held(fs)
    BY <1>0, <2>2, <2>3, ManifestKeepsFiles
  <2>5. Careful
    BY <1>1, <2>4 DEF CreateTemporary, Careful, Change, history
  <2>6. fs'.log = fs.log
    BY <1>0, <2>3 DEF Directory
  <2> QED BY <1>a, <1>1, <2>1, <2>4, <2>5, <2>6 DEF CreateTemporary, TypeInv, TypeOK, JobOK, Working, Locations, Outcomes
<1>2. CASE PublishManifest
  <2>1. job \in Manifest /\ job \in Manifest \cup {NoManifest}
    BY <1>2 DEF PublishManifest, TypeInv, JobOK, Working, At
  <2>2. fs.tmp \ {job.txn} \in SUBSET Txns
    BY <1>0, DirectoryFields
  <2>3. fs' = [fs EXCEPT !.manifest = job, !.tmp = fs.tmp \ {job.txn}]
    BY <1>0, <1>2 DEF PublishManifest, Change, Directory
  <2>4. fs' \in Directory /\ Held(fs') = Held(fs)
    BY <1>0, <2>1, <2>2, <2>3, ManifestKeepsFiles
  <2>5. Careful
    BY <1>2, <2>4 DEF PublishManifest, Careful, Change, history
  <2>6. slot' \in 0..(MaxSlots + 1) /\ pc' \in {"stage", "install"} /\ (pc' = "install" => slot' >= 1)
    BY <1>2 DEF PublishManifest, Active
  <2> QED BY <1>a, <1>2, <2>1, <2>4, <2>5, <2>6 DEF PublishManifest, TypeInv, TypeOK, JobOK, Working, Locations, Outcomes
<1>3. CASE StageMove
  <2>1. job \in Manifest /\ job.txn \in Txns /\ job.max \in Backups
    BY <1>3, ManifestFields DEF StageMove, TypeInv, JobOK, Working, At
  <2>2. slot \in Slots /\ slot' \in 0..(MaxSlots + 1)
    BY <1>3, <2>1 DEF StageMove, TypeInv, TypeOK, Slots, Backups
  <2>3. fs.stage[job.txn][slot] = NoFile
    BY <1>3 DEF StageMove, Staged
  <2>4. fs' = StageFile(fs, job.txn, slot)
    BY <1>3 DEF StageMove, Change
  <2>5. fs' \in Directory /\ \A f \in Files : f \in Held(fs) => f \in Held(fs')
    BY <1>0, <2>1, <2>2, <2>3, <2>4, StageFileKeepsFiles
  <2>6. Careful
    BY <1>3, <2>5 DEF StageMove, Careful, Change, history
  <2> QED BY <1>a, <1>3, <2>1, <2>2, <2>5, <2>6 DEF StageMove, TypeInv, TypeOK, JobOK, Working, Locations, Outcomes
<1>4. CASE InstallMove
  <2>1. job \in Manifest /\ job.txn \in Txns /\ job.max \in Backups
    BY <1>4, ManifestFields DEF InstallMove, TypeInv, JobOK, Working, At
  <2>2. slot \in Backups /\ slot' \in 0..(MaxSlots + 1) /\ slot' >= 1
    BY <1>4, <2>1 DEF InstallMove, TypeInv, TypeOK, JobOK, At, Backups
  <2>3. fs.log[slot] = NoFile
    BY <1>4 DEF InstallMove, Here
  <2>4. fs' = InstallFile(fs, job.txn, slot)
    BY <1>4 DEF InstallMove, Change
  <2>5. fs' \in Directory /\ \A f \in Files : f \in Held(fs) => f \in Held(fs')
    BY <1>0, <2>1, <2>2, <2>3, <2>4, InstallFileKeepsFiles
  <2>6. Careful
    BY <1>4, <2>5 DEF InstallMove, Careful, Change, history
  <2> QED BY <1>a, <1>4, <2>1, <2>2, <2>5, <2>6 DEF InstallMove, TypeInv, TypeOK, JobOK, Working, Locations, Outcomes
<1>5. CASE DropOldest
  <2>1. job \in Manifest /\ job.txn \in Txns /\ job.max \in Slots
    BY <1>5, ManifestFields DEF DropOldest, TypeInv, JobOK, Working, At, Backups, Slots
  <2>2. fs' = [fs EXCEPT !.stage[job.txn][job.max] = NoFile]
    BY <1>5 DEF DropOldest, Change
  <2>3. fs' \in Directory
        /\ \A f \in Files : f \in Held(fs) => f \in Held(fs') \/ f = fs.stage[job.txn][job.max]
    BY <1>0, <2>1, <2>2, DropKeepsFiles
  <2>4. dropped' = dropped \cup {fs.stage[job.txn][job.max]}
    BY <1>5 DEF DropOldest
  <2>5. Careful
    BY <1>5, <2>3, <2>4 DEF DropOldest, Careful, Change
  <2>6. fs.stage[job.txn][job.max] \in Files
    BY <1>0, <1>5, <2>1 DEF DropOldest, Staged, Directory, FileOrNone
  <2>7. dropped' \subseteq Files
    BY <2>4, <2>6 DEF TypeInv, TypeOK
  <2> QED BY <1>a, <1>5, <2>1, <2>3, <2>5, <2>7 DEF DropOldest, TypeInv, TypeOK, JobOK, Working, Locations, Outcomes
<1>6. CASE ClearManifest
  <2>1. fs.tmp \in SUBSET Txns
    BY <1>0, DirectoryFields
  <2>2. fs' = [fs EXCEPT !.manifest = NoManifest, !.tmp = fs.tmp]
    BY <1>0, <1>6 DEF ClearManifest, Change, Directory
  <2>3. fs' \in Directory /\ Held(fs') = Held(fs)
    BY <1>0, <2>1, <2>2, ManifestKeepsFiles
  <2>4. Careful
    BY <1>6, <2>3 DEF ClearManifest, Careful, Change, history
  <2>5. slot' \in 0..(MaxSlots + 1) /\ pc' \in {"reprune", "scan"}
    BY <1>6 DEF ClearManifest
  <2>6. job' \in Manifest \cup {NoManifest}
    BY <1>6 DEF ClearManifest
  <2> QED BY <1>a, <1>6, <2>3, <2>4, <2>5, <2>6 DEF ClearManifest, TypeInv, TypeOK, JobOK, Working, Locations, Outcomes
<1>7. CASE WriteRecord
  <2>1. CASE fs.log[Active] = NoFile
    <3>1. files' = files + 1 /\ files' \in 0..MaxFiles /\ files' \in FileOrNone /\ files' # NoFile
      BY <1>7, <2>1 DEF WriteRecord, TypeInv, TypeOK, FileOrNone, Files, NoFile
    <3>2. fs' = [fs EXCEPT !.log[Active] = files'] /\ Active \in Slots
      BY <1>7, <2>1, <3>1 DEF WriteRecord, Change, Active, Slots
    <3>3. /\ fs' \in Directory /\ fs'.log[Active] = files'
          /\ \A f \in Files : f \in Held(fs) => f \in Held(fs') \/ f = fs.log[Active]
      BY <1>0, <3>1, <3>2, EntryKeepsFiles
    <3>4. Careful
      BY <1>7, <2>1, <3>3 DEF WriteRecord, Careful, Change, history, Files, NoFile
    <3> QED BY <1>a, <1>7, <3>1, <3>3, <3>4 DEF WriteRecord, TypeInv, TypeOK, JobOK, Working, Locations, Outcomes
  <2>2. CASE fs.log[Active] # NoFile
    <3>1. UNCHANGED <<fs, recoverable, files>>
      BY <1>7, <2>2 DEF WriteRecord, dirVars
    <3>2. Careful
      BY <1>0, <1>7, <3>1 DEF WriteRecord, Careful, Change, history, TypeInv, TypeOK
    <3> QED BY <1>a, <1>7, <2>2, <3>1, <3>2 DEF WriteRecord, TypeInv, TypeOK, JobOK, Working, Locations, Outcomes
  <2> QED BY <2>1, <2>2
<1>8. CASE ExpireBackup
  <2>1. slot \in Slots /\ NoFile \in FileOrNone
    BY <1>8 DEF ExpireBackup, TypeInv, TypeOK, JobOK, Slots, FileOrNone
  <2>2. fs' = [fs EXCEPT !.log[slot] = NoFile]
    BY <1>8 DEF ExpireBackup, Change
  <2>3. fs' \in Directory /\ \A f \in Files : f \in Held(fs) => f \in Held(fs') \/ f = fs.log[slot]
    BY <1>0, <2>1, <2>2, EntryKeepsFiles
  <2>4. expired' = expired \cup {fs.log[slot]}
    BY <1>8 DEF ExpireBackup
  <2>5. Careful
    BY <1>8, <2>3, <2>4 DEF ExpireBackup, Careful, Change
  <2>6. fs.log[slot] \in Files
    BY <1>0, <1>8, <2>1 DEF ExpireBackup, Directory, FileOrNone
  <2>7. expired' \subseteq Files
    BY <2>4, <2>6 DEF TypeInv, TypeOK
  <2>8. slot' \in 0..(MaxSlots + 1) /\ slot' >= 1 /\ limit' = limit
    BY <1>8 DEF ExpireBackup, hostVars, TypeInv, TypeOK, JobOK
  <2> QED BY <1>a, <1>8, <2>3, <2>5, <2>7, <2>8 DEF ExpireBackup, TypeInv, TypeOK, JobOK, Working, Locations, Outcomes
<1> QED BY <1>1, <1>2, <1>3, <1>4, <1>5, <1>6, <1>7, <1>8 DEF Changing

\* Crashes: the directory is the one processes saw, or one a power loss leaves.
LEMMA CrashType == ASSUME TypeInv, Kill \/ PowerLoss PROVE TypeInv'
<1>1. CASE Kill
  <2>1. fs' \in Directory /\ recoverable' \subseteq Directory /\ fs' \in recoverable'
    BY <1>1 DEF Kill, dirVars, TypeInv, TypeOK
  <2> QED BY <1>1, <2>1, HaltType DEF Kill
<1>2. CASE PowerLoss
  <2>1. fs' \in Directory /\ recoverable' \subseteq Directory /\ fs' \in recoverable'
    BY <1>2 DEF PowerLoss, TypeInv, TypeOK
  <2> QED BY <1>2, <2>1, HaltType DEF PowerLoss
<1> QED BY <1>1, <1>2

\* Every step is of one of the kinds.
LEMMA StepKinds == Next => Quiet \/ Changing \/ Kill \/ PowerLoss
  BY DEF Next, AppendStep, Prune, WriteManifest, Stage, Install, Finish, Write, Quiet, Changing

LEMMA StepType == TypeInv /\ [Next]_vars => TypeInv'
<1> SUFFICES ASSUME TypeInv, [Next]_vars PROVE TypeInv'
  OBVIOUS
<1>1. CASE Quiet
  BY <1>1, QuietStepType
<1>2. CASE Changing
  BY <1>2, ChangingStep
<1>3. CASE Kill \/ PowerLoss
  BY <1>3, CrashType
<1>4. CASE UNCHANGED vars
  BY <1>4 DEF vars, TypeInv, TypeOK, JobOK
<1> QED BY <1>1, <1>2, <1>3, <1>4, StepKinds

\* Every variable of the rotation keeps its type.
THEOREM TypeCorrect == Spec => []TypeOK
<1>1. Init => TypeInv
  BY InitType
<1>2. TypeInv /\ [Next]_vars => TypeInv'
  BY StepType
<1>3. TypeInv => TypeOK
  BY DEF TypeInv
<1> QED BY <1>1, <1>2, <1>3, PTL DEF Spec

-----------------------------------------------------------------------------
(* No acknowledged file is lost.  Beside the property itself the invariant   *)
(* says why an acknowledgement is safe to give: the sync after the write has *)
(* left one directory for a power loss to find.                              *)

AckDurable == At("ack") => recoverable = {fs}

KeptInv == TypeInv /\ NothingLost /\ AckDurable

\* A step that changes the directory with care keeps what the others hold.
LEMMA CarefulKeeps ==
  ASSUME KeptInv, Careful
  PROVE  NothingLost'
<1> SUFFICES ASSUME NEW s \in recoverable', NEW f \in kept'
             PROVE  f \in Held(s) \cup dropped' \cup expired'
  BY DEF NothingLost
<1>1. f \in kept /\ f \in Files /\ fs \in recoverable
  BY DEF Careful, KeptInv, TypeInv, TypeOK
<1>2. CASE s \in recoverable
  BY <1>1, <1>2 DEF NothingLost, KeptInv, Careful
<1>3. CASE s = fs'
  BY <1>1, <1>3 DEF NothingLost, KeptInv, Careful
<1> QED BY <1>2, <1>3 DEF Careful, Change

\* A quiet step changes neither the directories nor the kept files, but for
\* the sync and the acknowledgement.
LEMMA QuietUnchanged ==
  ASSUME Quiet, ~Sync, ~Acknowledge
  PROVE  /\ UNCHANGED <<fs, recoverable, files, kept, dropped, expired>>
         /\ pc' # "ack"
  BY DEF Quiet, Open, Close, BeginAppend, IoError, Recovery, ReadManifest, NoManifestFound,
         Recovered, UnexplainedFiles, KeepBackup, PruneDone, Decide, NoRotation, BeginRotation,
         RotationRefused, TemporaryExists, StageSkip, StageRefuse, StagingDone, InstallSkip,
         InstallRefuse, InstallingDone, NothingToDrop, Fail, At, dirVars, history

LEMMA StepKeeps == KeptInv /\ [Next]_vars => KeptInv'
<1> SUFFICES ASSUME KeptInv, [Next]_vars PROVE NothingLost' /\ AckDurable'
  BY StepType DEF KeptInv
<1>0. fs \in recoverable
  BY DEF KeptInv, TypeInv, TypeOK
<1>1. CASE Sync
  <2>1. recoverable' = {fs} /\ UNCHANGED <<fs, kept, dropped, expired>>
    BY <1>1 DEF Sync, history
  <2> QED BY <1>0, <2>1 DEF KeptInv, NothingLost, AckDurable
<1>2. CASE Acknowledge
  <2>1. recoverable = {fs} /\ UNCHANGED <<fs, recoverable, dropped, expired>>
    BY <1>2 DEF Acknowledge, KeptInv, AckDurable, dirVars
  <2>2. kept' = kept \cup {fs.log[Active]} /\ pc' = "idle"
    BY <1>2 DEF Acknowledge
  <2>3. fs.log[Active] \in Held(fs)
    BY SlotsAssumption DEF Held, Active, Slots
  <2> QED BY <2>1, <2>2, <2>3 DEF KeptInv, NothingLost, AckDurable, At
<1>3. CASE Quiet /\ ~Sync /\ ~Acknowledge
  <2>1. UNCHANGED <<fs, recoverable, kept, dropped, expired>> /\ pc' # "ack"
    BY <1>3, QuietUnchanged
  <2> QED BY <2>1 DEF KeptInv, NothingLost, AckDurable, At
<1>4. CASE Changing
  <2>1. Careful
    BY <1>4, ChangingStep DEF KeptInv
  <2>2. pc' # "ack" \/ syncing'
    BY <1>4 DEF Changing, CreateTemporary, PublishManifest, StageMove, InstallMove,
                DropOldest, ClearManifest, WriteRecord, ExpireBackup, At
  <2> QED BY <2>1, <2>2, CarefulKeeps DEF AckDurable, At
<1>5. CASE Kill \/ PowerLoss
  <2>1. pc' = "down" /\ UNCHANGED <<kept, dropped, expired>>
    BY <1>5 DEF Kill, PowerLoss, Halt, history
  <2>2. recoverable' \subseteq recoverable
    BY <1>5 DEF Kill, PowerLoss, dirVars
  <2> QED BY <2>1, <2>2 DEF KeptInv, NothingLost, AckDurable, At
<1>6. CASE UNCHANGED vars
  BY <1>6 DEF vars, KeptInv, NothingLost, AckDurable, At
<1> QED BY <1>1, <1>2, <1>3, <1>4, <1>5, <1>6, StepKinds

\* For every number of slots, crashes and failed calls: a file that holds an
\* acknowledged record is in every directory a power loss may leave, unless a
\* rotation dropped it or it expired.
THEOREM NothingIsLost == Spec => []NothingLost
<1>1. Init => KeptInv
  BY InitType DEF Init, KeptInv, NothingLost, AckDurable, At
<1>2. KeptInv /\ [Next]_vars => KeptInv'
  BY StepKeeps
<1>3. KeptInv => NothingLost
  BY DEF KeptInv
<1> QED BY <1>1, <1>2, <1>3, PTL DEF Spec

-----------------------------------------------------------------------------
(* The edits of a directory, field by field. *)

LEMMA StageFileFields ==
  ASSUME NEW s \in Directory, NEW t \in Txns, NEW i \in Slots,
         NEW r, r = StageFile(s, t, i)
  PROVE  /\ r.manifest = s.manifest /\ r.tmp = s.tmp
         /\ \A j \in Slots : r.log[j] = IF j = i THEN NoFile ELSE s.log[j]
         /\ \A u \in Txns, j \in Slots :
              r.stage[u][j] = IF u = t /\ j = i THEN s.log[i] ELSE s.stage[u][j]
  BY DEF StageFile, Directory

LEMMA InstallFileFields ==
  ASSUME NEW s \in Directory, NEW t \in Txns, NEW i \in Backups,
         NEW r, r = InstallFile(s, t, i)
  PROVE  /\ r.manifest = s.manifest /\ r.tmp = s.tmp
         /\ \A j \in Slots : r.log[j] = IF j = i THEN s.stage[t][i - 1] ELSE s.log[j]
         /\ \A u \in Txns, j \in Slots :
              r.stage[u][j] = IF u = t /\ j = i - 1 THEN NoFile ELSE s.stage[u][j]
<1>1. i \in Slots /\ i - 1 \in Slots
  BY SlotsAssumption DEF Backups, Slots
<1> QED BY <1>1 DEF InstallFile, Directory

LEMMA EntryFields ==
  ASSUME NEW s \in Directory, NEW i \in Slots, NEW g,
         NEW r, r = [s EXCEPT !.log[i] = g]
  PROVE  /\ r.manifest = s.manifest /\ r.tmp = s.tmp /\ r.stage = s.stage
         /\ \A j \in Slots : r.log[j] = IF j = i THEN g ELSE s.log[j]
  BY DEF Directory

-----------------------------------------------------------------------------
(* The transaction, as long as no file-system call has failed.  Every        *)
(* directory a power loss may leave has a shape the manifest explains, and   *)
(* where the lease holder is says how far its rotation has come.             *)

\* One place of two holds a file, if one is expected there at all.
Single(a, b, expected) ==
  IF expected THEN (a # NoFile) <=> (b = NoFile) ELSE a = NoFile /\ b = NoFile

Unstaged(s, t) == \A i \in Slots : s.stage[t][i] = NoFile

\* Only the transaction of the manifest has staging files.  Each file it
\* expects is in one place: not yet staged or staged, then staged or installed.
Shape(s) ==
  LET m == s.manifest IN
  /\ \A t \in Txns : t # m.txn => Unstaged(s, t)
  /\ m # NoManifest => \A i \in Slots : i > m.max => s.stage[m.txn][i] = NoFile
  /\ m.phase = "staging" =>
       \A i \in 0..m.max : Single(s.log[i], s.stage[m.txn][i], Expected(m, i))
  /\ m.phase = "installing" =>
       /\ s.log[Active] = NoFile
       /\ \A i \in 1..m.max : Single(s.log[i], s.stage[m.txn][i - 1], Expected(m, i - 1))

Settled == {"scan", "prune", "decide", "reprune", "write", "ack"}

Progress ==
  /\ pc \in Settled => fs.manifest = NoManifest
  /\ pc = "idle" /\ recovered => fs.manifest = NoManifest
  /\ pc \in {"create", "publish"} /\ job.phase = "staging" =>
       /\ fs.manifest = NoManifest /\ recovered
       /\ fs.log[Active] # NoFile
       /\ job.max = limit /\ job.present = {i \in 1..limit : fs.log[i] # NoFile}
  /\ pc \in {"create", "publish"} /\ job.phase = "installing" =>
       /\ fs.manifest = [job EXCEPT !.phase = "staging"]
       /\ \A i \in 0..job.max : fs.log[i] = NoFile
  /\ pc \in {"stage", "install", "drop", "clear"} => fs.manifest = job
  /\ pc = "stage" =>
       /\ job.phase = "staging"
       /\ \A i \in 0..job.max : i < slot => fs.log[i] = NoFile
  /\ pc \in {"install", "drop", "clear"} => job.phase = "installing"
  /\ pc = "install" => \A i \in 1..job.max : i < slot => fs.stage[job.txn][i - 1] = NoFile
  /\ pc \in {"drop", "clear"} => \A i \in 1..job.max : fs.stage[job.txn][i - 1] = NoFile
  /\ pc = "clear" => fs.stage[job.txn][job.max] = NoFile

\* A process that has recovered meets no temporary but its own.
Lifecycle ==
  /\ pc \in {"recover", "scan", "down"} => ~recovered
  /\ pc \in {"prune", "decide", "reprune", "write", "ack"} => recovered
  /\ recovered => fs.tmp \subseteq IF pc = "publish" THEN {job.txn} ELSE {}
  /\ outcome = "refused" => pc = "idle" /\ ~syncing /\ fs.tmp # {}

TxnInv == (\A s \in recoverable : Shape(s)) /\ Progress /\ Lifecycle

CleanInv == faults = 0 => TxnInv

LEMMA ManifestOrNone ==
  ASSUME NEW m \in Manifest \cup {NoManifest}, m # NoManifest
  PROVE  /\ m \in Manifest /\ m.txn \in Txns /\ m.phase \in {"staging", "installing"}
         /\ m.max \in Backups /\ m.present \subseteq Backups
         /\ \A i \in 0..m.max : i \in Slots
         /\ \A i \in 1..m.max : i \in Backups /\ i \in Slots /\ i - 1 \in Slots /\ i - 1 \in 0..m.max
         /\ 0 \in 0..m.max /\ m.max \in Slots /\ m.max \in Nat
<1>1. m.txn \in Txns /\ m.phase \in {"staging", "installing"}
      /\ m.max \in Backups /\ m.present \subseteq Backups /\ m \in Manifest
  BY DEF Manifest
<1> QED BY <1>1, SlotsAssumption DEF Backups, Slots

LEMMA StagePreservesShape ==
  ASSUME NEW s \in Directory, Shape(s), s.manifest # NoManifest,
         s.manifest.phase = "staging", NEW i \in 0..s.manifest.max, s.log[i] # NoFile,
         s.stage[s.manifest.txn][i] = NoFile,
         NEW r, r = StageFile(s, s.manifest.txn, i)
  PROVE  Shape(r)
<1> DEFINE m == s.manifest
<1>1. m \in Manifest \cup {NoManifest}
  BY DEF Directory
<1>2. m.txn \in Txns /\ m.max \in Nat /\ \A j \in 0..m.max : j \in Slots
  BY <1>1, ManifestOrNone
<1>3. /\ r.manifest = m
      /\ \A j \in Slots : r.log[j] = IF j = i THEN NoFile ELSE s.log[j]
      /\ \A u \in Txns, j \in Slots :
           r.stage[u][j] = IF u = m.txn /\ j = i THEN s.log[i] ELSE s.stage[u][j]
  BY <1>2, StageFileFields
<1>4. ASSUME NEW t \in Txns, t # m.txn PROVE Unstaged(r, t)
  BY <1>3, <1>4 DEF Shape, Unstaged
<1>5. ASSUME NEW j \in Slots, j > m.max PROVE r.stage[m.txn][j] = NoFile
  BY <1>2, <1>3, <1>5 DEF Shape
<1>6. ASSUME NEW j \in 0..m.max PROVE Single(r.log[j], r.stage[m.txn][j], Expected(m, j))
  BY <1>2, <1>3 DEF Shape, Single
<1> QED
  BY <1>3, <1>4, <1>5, <1>6 DEF Shape

LEMMA InstallPreservesShape ==
  ASSUME NEW s \in Directory, Shape(s), s.manifest # NoManifest,
         s.manifest.phase = "installing", NEW i \in 1..s.manifest.max, s.log[i] = NoFile,
         s.stage[s.manifest.txn][i - 1] # NoFile,
         NEW r, r = InstallFile(s, s.manifest.txn, i)
  PROVE  Shape(r)
<1> DEFINE m == s.manifest
<1>1. m \in Manifest \cup {NoManifest}
  BY DEF Directory
<1>2. /\ m.txn \in Txns /\ m.max \in Nat /\ i \in Backups /\ 0 \in Slots
      /\ \A j \in 1..m.max : j \in Slots /\ j - 1 \in Slots
  BY <1>1, ManifestOrNone
<1>3. /\ r.manifest = m
      /\ \A j \in Slots : r.log[j] = IF j = i THEN s.stage[m.txn][i - 1] ELSE s.log[j]
      /\ \A u \in Txns, j \in Slots :
           r.stage[u][j] = IF u = m.txn /\ j = i - 1 THEN NoFile ELSE s.stage[u][j]
  BY <1>2, InstallFileFields
<1>4. ASSUME NEW t \in Txns, t # m.txn PROVE Unstaged(r, t)
  BY <1>3, <1>4 DEF Shape, Unstaged
<1>5. ASSUME NEW j \in Slots, j > m.max PROVE r.stage[m.txn][j] = NoFile
  BY <1>2, <1>3, <1>5 DEF Shape
<1>6. ASSUME NEW j \in 1..m.max PROVE Single(r.log[j], r.stage[m.txn][j - 1], Expected(m, j - 1))
  BY <1>2, <1>3 DEF Shape, Single
<1>7. r.log[Active] = NoFile
  BY <1>2, <1>3 DEF Shape, Active
<1> QED
  BY <1>3, <1>4, <1>5, <1>6, <1>7 DEF Shape

LEMMA DropPreservesShape ==
  ASSUME NEW s \in Directory, Shape(s), s.manifest # NoManifest,
         s.manifest.phase = "installing",
         NEW r, r = [s EXCEPT !.stage[s.manifest.txn][s.manifest.max] = NoFile]
  PROVE  Shape(r) /\ r.manifest = s.manifest /\ r.tmp = s.tmp /\ r.log = s.log
         /\ r.stage[s.manifest.txn][s.manifest.max] = NoFile
         /\ \A i \in 1..s.manifest.max :
              r.stage[s.manifest.txn][i - 1] = s.stage[s.manifest.txn][i - 1]
<1> DEFINE m == s.manifest
<1>1. m \in Manifest \cup {NoManifest}
  BY DEF Directory
<1>2. /\ m.txn \in Txns /\ m.max \in Slots /\ m.max \in Nat
      /\ \A j \in 1..m.max : j \in Slots /\ j - 1 \in Slots
  BY <1>1, ManifestOrNone
<1>3. /\ r.manifest = m /\ r.log = s.log /\ r.tmp = s.tmp
      /\ \A u \in Txns, j \in Slots :
           r.stage[u][j] = IF u = m.txn /\ j = m.max THEN NoFile ELSE s.stage[u][j]
  BY <1>2 DEF Directory
<1>4. ASSUME NEW t \in Txns, t # m.txn PROVE Unstaged(r, t)
  BY <1>3, <1>4 DEF Shape, Unstaged
<1>5. ASSUME NEW j \in Slots, j > m.max PROVE r.stage[m.txn][j] = NoFile
  BY <1>2, <1>3, <1>5 DEF Shape
<1>6. ASSUME NEW j \in 1..m.max PROVE r.stage[m.txn][j - 1] = s.stage[m.txn][j - 1]
  BY <1>2, <1>3
<1>7. \A j \in 1..m.max : Single(r.log[j], r.stage[m.txn][j - 1], Expected(m, j - 1))
  BY <1>3, <1>6 DEF Shape
<1>8. r.log[Active] = NoFile
  BY <1>3 DEF Shape
<1> QED
  BY <1>2, <1>3, <1>4, <1>5, <1>6, <1>7, <1>8 DEF Shape

\* Without a manifest nothing is staged, and any edit of the log is in shape.
LEMMA NoneShape ==
  ASSUME NEW s \in Directory, s.manifest = NoManifest
  PROVE  Shape(s) <=> \A t \in Txns : Unstaged(s, t)
  BY DEF Shape, NoManifest, Txns

LEMMA EntryPreservesShape ==
  ASSUME NEW s \in Directory, Shape(s), s.manifest = NoManifest, NEW i \in Slots, NEW g \in FileOrNone,
         NEW r, r = [s EXCEPT !.log[i] = g]
  PROVE  Shape(r)
<1>1. r.manifest = s.manifest /\ r.stage = s.stage
  BY EntryFields
<1>2. r \in Directory
  BY EntryKeepsFiles
<1>3. \A t \in Txns : Unstaged(s, t)
  BY NoneShape
<1>4. \A t \in Txns : Unstaged(r, t)
  BY <1>1, <1>3 DEF Unstaged
<1> QED BY <1>1, <1>2, <1>4, NoneShape

\* A manifest that lists what is in the log begins a rotation.
LEMMA RotationShape ==
  ASSUME NEW s \in Directory, Shape(s), s.manifest = NoManifest,
         NEW m \in Manifest, m.phase = "staging", s.log[Active] # NoFile,
         m.present = {i \in 1..m.max : s.log[i] # NoFile},
         NEW r, r.manifest = m, r.log = s.log, r.stage = s.stage
  PROVE  Shape(r)
<1>1. m.txn \in Txns /\ m.max \in Nat /\ \A j \in 0..m.max : j \in Slots
  BY ManifestOrNone, NoManifestIsNone
<1>2. \A t \in Txns, i \in Slots : r.stage[t][i] = NoFile
  BY NoneShape DEF Unstaged
<1>3. ASSUME NEW j \in 0..m.max PROVE Single(r.log[j], r.stage[m.txn][j], Expected(m, j))
  <2>1. r.stage[m.txn][j] = NoFile
    BY <1>1, <1>2
  <2>2. j = Active \/ j \in 1..m.max
    BY <1>1 DEF Active
  <2> QED
    BY <2>1, <2>2 DEF Single, Expected
<1> QED
  BY <1>1, <1>2, <1>3 DEF Shape, Unstaged

\* The second manifest, once everything is staged.
LEMMA InstallationShape ==
  ASSUME NEW s \in Directory, Shape(s), NEW m \in Manifest, m.phase = "installing",
         s.manifest = [m EXCEPT !.phase = "staging"], \A i \in 0..m.max : s.log[i] = NoFile,
         NEW r, r.manifest = m, r.log = s.log, r.stage = s.stage
  PROVE  Shape(r)
<1>1. /\ s.manifest.txn = m.txn /\ s.manifest.max = m.max /\ s.manifest.present = m.present
      /\ s.manifest.phase = "staging" /\ s.manifest \in Manifest /\ s.manifest # NoManifest
  BY NoManifestIsNone DEF Manifest
<1>2. /\ m.max \in Nat /\ 0 \in 0..m.max /\ \A i \in 1..m.max : i \in 0..m.max /\ i - 1 \in 0..m.max
  BY ManifestOrNone, NoManifestIsNone
<1>3. ASSUME NEW j \in 0..m.max PROVE Single(s.log[j], s.stage[m.txn][j], Expected(m, j))
  BY <1>1 DEF Shape, Expected
<1>4. ASSUME NEW j \in 1..m.max PROVE Single(r.log[j], r.stage[m.txn][j - 1], Expected(m, j - 1))
  BY <1>2, <1>3 DEF Single
<1>5. r.log[Active] = NoFile
  BY <1>2 DEF Active
<1> QED
  BY <1>1, <1>4, <1>5 DEF Shape, Unstaged

\* The manifest is removed when nothing is staged any more.
LEMMA ClearedShape ==
  ASSUME NEW s \in Directory, Shape(s), s.manifest # NoManifest,
         \A i \in 0..s.manifest.max : s.stage[s.manifest.txn][i] = NoFile,
         NEW r \in Directory, r.manifest = NoManifest, r.stage = s.stage
  PROVE  Shape(r)
<1>1. s.manifest.max \in Nat /\ s.manifest.txn \in Txns
  BY ManifestOrNone DEF Directory
<1>2. ASSUME NEW t \in Txns PROVE Unstaged(s, t)
  <2>1. CASE t # s.manifest.txn
    BY <2>1 DEF Shape
  <2>2. CASE t = s.manifest.txn
    <3>1. ASSUME NEW i \in Slots PROVE s.stage[t][i] = NoFile
      BY <1>1, <2>2 DEF Shape, Slots
    <3> QED BY <3>1 DEF Unstaged
  <2> QED BY <2>1, <2>2
<1> QED
  BY <1>2, NoneShape DEF Unstaged

\* What the lease holder knows of its manifest while it works on it.
LEMMA AtWork ==
  ASSUME TypeInv, pc \in Working
  PROVE  /\ job \in Manifest /\ job # NoManifest /\ job.txn \in Txns
         /\ job.phase \in {"staging", "installing"} /\ job.max \in Backups
         /\ \A i \in 0..job.max : i \in Slots
         /\ \A i \in 1..job.max : i \in Backups /\ i \in Slots /\ i - 1 \in Slots /\ i - 1 \in 0..job.max
         /\ 0 \in 0..job.max /\ job.max \in Slots /\ job.max \in Nat
  BY ManifestOrNone, NoManifestIsNone DEF TypeInv, JobOK

\* At a move of the loops over the slots the expected file is there to move,
\* so the code finds nothing to refuse.
LEMMA NothingRefused ==
  ASSUME TypeInv, TxnInv
  PROVE  ~StageRefuse /\ ~InstallRefuse /\ ~RotationRefused
<1>1. fs \in Directory /\ Shape(fs)
  BY DEF TypeInv, TypeOK, TxnInv
<1>2. ASSUME StageRefuse PROVE FALSE
  <2>1. pc = "stage" /\ slot <= job.max /\ fs.manifest = job /\ job.phase = "staging"
    BY <1>2 DEF StageRefuse, At, TxnInv, Progress
  <2>2. slot \in 0..job.max
    BY <2>1, AtWork DEF TypeInv, TypeOK, Working
  <2>3. Single(fs.log[slot], fs.stage[job.txn][slot], Expected(job, slot))
    BY <1>1, <2>1, <2>2 DEF Shape
  <2> QED BY <1>2, <2>3 DEF StageRefuse, Single, Here, Staged
<1>3. ASSUME InstallRefuse PROVE FALSE
  <2>1. pc = "install" /\ slot <= job.max /\ fs.manifest = job /\ job.phase = "installing"
    BY <1>3 DEF InstallRefuse, At, TxnInv, Progress
  <2>2. slot \in 1..job.max
    BY <2>1, AtWork DEF TypeInv, TypeOK, JobOK, Working
  <2>3. Single(fs.log[slot], fs.stage[job.txn][slot - 1], Expected(job, slot - 1))
    BY <1>1, <2>1, <2>2 DEF Shape
  <2> QED BY <1>3, <2>3 DEF InstallRefuse, Single, Here, Staged
<1>4. ASSUME RotationRefused PROVE FALSE
  BY <1>4 DEF RotationRefused, ManifestInTheWay, At, TxnInv, Progress, Settled
<1> QED BY <1>2, <1>3, <1>4

\* Before the manifest is there and once it is gone: the steps that leave the
\* directory alone.
LEMMA QuietOutside ==
  ASSUME TypeInv, TxnInv,
         \/ Open \/ Close \/ BeginAppend \/ Recovery \/ KeepBackup \/ PruneDone \/ Decide
         \/ TemporaryExists \/ Acknowledge
  PROVE  Progress' /\ Lifecycle'
<1>0. fs \in Directory /\ Shape(fs)
  BY DEF TypeInv, TypeOK, TxnInv
<1> USE DEF At, dirVars, taskVars, hostVars, history, budget
<1>1. CASE Open
  BY <1>1 DEF Open, TxnInv, Progress, Lifecycle, Settled
<1>2. CASE Close
  BY <1>2 DEF Close, TxnInv, Progress, Lifecycle, Settled
<1>3. CASE BeginAppend
  BY <1>3 DEF BeginAppend, TxnInv, Progress, Lifecycle, Settled
<1>4. CASE ReadManifest
  <2>1. fs.manifest \in Manifest /\ fs.manifest.phase \in {"staging", "installing"} /\ fs.manifest.max \in Nat
    BY <1>0, <1>4, ManifestOrNone DEF ReadManifest, Directory
  <2>2. CASE fs.manifest.phase = "staging"
    <3>1. pc' = "stage" /\ slot' = 0 /\ fs' = fs /\ job' = fs.manifest /\ recovered' = recovered /\ outcome' = outcome
      BY <1>4, <2>2 DEF ReadManifest, Active
    <3> QED BY <1>4, <2>1, <2>2, <3>1 DEF ReadManifest, TxnInv, Progress, Lifecycle, Settled
  <2>3. CASE fs.manifest.phase = "installing"
    <3>1. pc' = "install" /\ slot' = 1 /\ fs' = fs /\ job' = fs.manifest /\ recovered' = recovered /\ outcome' = outcome
      BY <1>4, <2>3 DEF ReadManifest
    <3> QED BY <1>4, <2>1, <2>3, <3>1 DEF ReadManifest, TxnInv, Progress, Lifecycle, Settled
  <2> QED BY <2>1, <2>2, <2>3
<1>5. CASE NoManifestFound
  BY <1>5 DEF NoManifestFound, TxnInv, Progress, Lifecycle, Settled
<1>6. CASE Recovered
  BY <1>6 DEF Recovered, Leftovers, TxnInv, Progress, Lifecycle, Settled
<1>7. CASE UnexplainedFiles
  <2>1. fs.manifest = NoManifest /\ ~recovered
    BY <1>7 DEF UnexplainedFiles, TxnInv, Progress, Lifecycle, Settled
  <2>2. \A t \in Txns, i \in Slots : fs.stage[t][i] = NoFile
    BY <1>0, <2>1, NoneShape DEF Unstaged
  <2>3. fs.tmp # {}
    BY <1>7, <2>2 DEF UnexplainedFiles, Leftovers
  <2> QED BY <1>7, <2>1, <2>3 DEF UnexplainedFiles, Fail, TxnInv, Progress, Lifecycle, Settled
<1>8. CASE KeepBackup
  BY <1>8 DEF KeepBackup, TxnInv, Progress, Lifecycle, Settled
<1>9. CASE PruneDone
  BY <1>9 DEF PruneDone, TxnInv, Progress, Lifecycle, Settled
<1>10. CASE NoRotation
  BY <1>10 DEF NoRotation, TxnInv, Progress, Lifecycle, Settled
<1>11. CASE BeginRotation
  BY <1>11 DEF BeginRotation, NewManifest, TxnInv, Progress, Lifecycle, Settled
<1>12. CASE RotationRefused
  BY <1>12, NothingRefused
<1>13. CASE TemporaryExists
  <2>1. fs.tmp # {} /\ ~recovered
    BY <1>13 DEF TemporaryExists, TxnInv, Lifecycle
  <2> QED BY <1>13, <2>1 DEF TemporaryExists, Fail, TxnInv, Progress, Lifecycle, Settled
<1>14. CASE Acknowledge
  BY <1>14 DEF Acknowledge, TxnInv, Progress, Lifecycle, Settled
<1> QED BY <1>1, <1>2, <1>3, <1>4, <1>5, <1>6, <1>7, <1>8, <1>9, <1>10, <1>11, <1>12, <1>13, <1>14
     DEF Recovery, Decide

\* The loops over the slots, where they move nothing.
LEMMA QuietInside ==
  ASSUME TypeInv, TxnInv,
         \/ StageSkip \/ StageRefuse \/ StagingDone
         \/ InstallSkip \/ InstallRefuse \/ InstallingDone \/ NothingToDrop
  PROVE  Progress' /\ Lifecycle'
<1> USE DEF At, dirVars, taskVars, hostVars, history, budget
<1>0. slot \in Int
  BY DEF TypeInv, TypeOK
<1>1. CASE StageSkip
  <2>1. /\ pc = "stage" /\ pc' = "stage" /\ slot' = slot + 1 /\ fs.log[slot] = NoFile
        /\ fs' = fs /\ job' = job /\ recovered' = recovered /\ outcome' = outcome /\ syncing' = syncing
    BY <1>1 DEF StageSkip, Here
  <2>2. \A i \in 0..job.max : i < slot + 1 => fs.log[i] = NoFile
    BY <1>0, <2>1, AtWork DEF TxnInv, Progress, Working
  <2> QED BY <2>1, <2>2 DEF TxnInv, Progress, Lifecycle, Settled
<1>2. CASE StagingDone
  <2>1. /\ pc = "stage" /\ pc' = "create" /\ slot > job.max /\ job' = [job EXCEPT !.phase = "installing"]
        /\ fs' = fs /\ recovered' = recovered /\ outcome' = outcome /\ syncing' = syncing
    BY <1>2 DEF StagingDone
  <2>2. job \in Manifest /\ job.max \in Nat /\ job.phase = "staging" /\ fs.manifest = job
    BY <2>1, AtWork DEF TxnInv, Progress, Working
  <2>3. job'.phase = "installing" /\ job'.max = job.max /\ [job' EXCEPT !.phase = "staging"] = job
    BY <2>1, <2>2 DEF Manifest
  <2>4. \A i \in 0..job.max : fs.log[i] = NoFile
    BY <1>0, <2>1, <2>2 DEF TxnInv, Progress
  <2> QED BY <2>1, <2>2, <2>3, <2>4 DEF TxnInv, Progress, Lifecycle, Settled
<1>3. CASE InstallSkip
  <2>1. /\ pc = "install" /\ pc' = "install" /\ slot' = slot + 1 /\ fs.stage[job.txn][slot - 1] = NoFile
        /\ fs' = fs /\ job' = job /\ recovered' = recovered /\ outcome' = outcome /\ syncing' = syncing
    BY <1>3 DEF InstallSkip, Staged
  <2>2. \A i \in 1..job.max : i < slot + 1 => fs.stage[job.txn][i - 1] = NoFile
    BY <1>0, <2>1, AtWork DEF TxnInv, Progress, Working
  <2> QED BY <2>1, <2>2 DEF TxnInv, Progress, Lifecycle, Settled
<1>4. CASE InstallingDone
  <2>1. /\ pc = "install" /\ pc' = "drop" /\ slot > job.max
        /\ fs' = fs /\ job' = job /\ recovered' = recovered /\ outcome' = outcome /\ syncing' = syncing
    BY <1>4 DEF InstallingDone
  <2>2. \A i \in 1..job.max : fs.stage[job.txn][i - 1] = NoFile
    BY <1>0, <2>1, AtWork DEF TxnInv, Progress, Working
  <2> QED BY <2>1, <2>2 DEF TxnInv, Progress, Lifecycle, Settled
<1>5. CASE NothingToDrop
  BY <1>5 DEF NothingToDrop, Staged, TxnInv, Progress, Lifecycle, Settled
<1> QED BY <1>1, <1>2, <1>3, <1>4, <1>5, NothingRefused

\* The steps that change the directory, each with the shape it leaves.
LEMMA ChangingTransaction ==
  ASSUME TypeInv, TxnInv, Changing
  PROVE  Shape(fs') /\ Progress' /\ Lifecycle'
<1> USE DEF At, dirVars, taskVars, hostVars, history, budget
<1>0. fs \in Directory /\ Shape(fs) /\ slot \in Int /\ outcome # "refused"
  BY DEF TypeInv, TypeOK, TxnInv, Lifecycle, Changing, CreateTemporary, PublishManifest,
         StageMove, InstallMove, DropOldest, ClearManifest, WriteRecord, ExpireBackup
<1>1. CASE CreateTemporary
  <2>1. fs' = [fs EXCEPT !.manifest = fs.manifest, !.tmp = fs.tmp \cup {job.txn}]
    BY <1>0, <1>1 DEF CreateTemporary, Change, Directory
  <2>2. fs'.manifest = fs.manifest /\ fs'.tmp = fs.tmp \cup {job.txn} /\ fs'.log = fs.log /\ fs'.stage = fs.stage
    BY <1>0, <2>1 DEF Directory
  <2>3. Shape(fs')
    BY <1>0, <2>2 DEF Shape, Unstaged
  <2> QED BY <1>0, <1>1, <2>2, <2>3 DEF CreateTemporary, TxnInv, Progress, Lifecycle, Settled
<1>2. CASE PublishManifest
  <2>1. fs' = [fs EXCEPT !.manifest = job, !.tmp = fs.tmp \ {job.txn}]
    BY <1>0, <1>2 DEF PublishManifest, Change, Directory
  <2>2. fs'.manifest = job /\ fs'.tmp = fs.tmp \ {job.txn} /\ fs'.log = fs.log /\ fs'.stage = fs.stage
    BY <1>0, <2>1 DEF Directory
  <2>3. /\ job \in Manifest /\ job.phase \in {"staging", "installing"} /\ job.max \in Nat /\ pc = "publish"
        /\ job' = job /\ recovered' = recovered /\ outcome' = outcome
    BY <1>2, AtWork DEF PublishManifest, Working
  <2>4. CASE job.phase = "staging"
    <3>1. Shape(fs')
      BY <1>0, <2>2, <2>3, <2>4, RotationShape DEF TxnInv, Progress
    <3>2. pc' = "stage" /\ slot' = 0
      BY <1>2, <2>4 DEF PublishManifest, Active
    <3> QED BY <1>0, <2>2, <2>3, <2>4, <3>1, <3>2 DEF TxnInv, Progress, Lifecycle, Settled
  <2>5. CASE job.phase = "installing"
    <3>1. Shape(fs')
      BY <1>0, <2>2, <2>3, <2>5, InstallationShape DEF TxnInv, Progress
    <3>2. pc' = "install" /\ slot' = 1
      BY <1>2, <2>5 DEF PublishManifest
    <3> QED BY <1>0, <2>2, <2>3, <2>5, <3>1, <3>2 DEF TxnInv, Progress, Lifecycle, Settled
  <2> QED BY <2>3, <2>4, <2>5
<1>3. CASE StageMove
  <2>1. /\ pc = "stage" /\ pc' = "stage" /\ slot' = slot + 1 /\ job' = job /\ job.max \in Nat
        /\ job # NoManifest /\ job.txn \in Txns /\ \A i \in 0..job.max : i \in Slots
        /\ fs.manifest = job /\ job.phase = "staging" /\ recovered' = recovered /\ outcome' = outcome
    BY <1>3, AtWork DEF StageMove, Working, TxnInv, Progress
  <2>2. slot \in 0..job.max /\ fs.log[slot] # NoFile /\ fs.stage[job.txn][slot] = NoFile
    BY <1>3, <2>1 DEF StageMove, Here, Staged, TypeInv, TypeOK
  <2>3. fs' = StageFile(fs, job.txn, slot)
    BY <1>3 DEF StageMove, Change
  <2>4. Shape(fs')
    BY <1>0, <2>1, <2>2, <2>3, StagePreservesShape
  <2>5. /\ fs'.manifest = job /\ fs'.tmp = fs.tmp
        /\ \A j \in Slots : fs'.log[j] = IF j = slot THEN NoFile ELSE fs.log[j]
    BY <1>0, <2>1, <2>2, <2>3, StageFileFields
  <2>6. \A i \in 0..job.max : i < slot + 1 => fs'.log[i] = NoFile
    BY <1>0, <2>1, <2>5 DEF TxnInv, Progress
  <2> QED BY <1>0, <2>1, <2>4, <2>5, <2>6 DEF TxnInv, Progress, Lifecycle, Settled
<1>4. CASE InstallMove
  <2>1. /\ pc = "install" /\ pc' = "install" /\ slot' = slot + 1 /\ job' = job /\ job.max \in Nat
        /\ job # NoManifest /\ job.txn \in Txns
        /\ \A i \in 1..job.max : i \in Slots /\ i \in Backups /\ i - 1 \in Slots
        /\ fs.manifest = job /\ job.phase = "installing" /\ recovered' = recovered /\ outcome' = outcome
    BY <1>4, AtWork DEF InstallMove, Working, TxnInv, Progress
  <2>2. slot \in 1..job.max /\ fs.log[slot] = NoFile /\ fs.stage[job.txn][slot - 1] # NoFile
    BY <1>0, <1>4, <2>1 DEF InstallMove, Here, Staged, TypeInv, JobOK
  <2>3. fs' = InstallFile(fs, job.txn, slot)
    BY <1>4 DEF InstallMove, Change
  <2>4. Shape(fs')
    BY <1>0, <2>1, <2>2, <2>3, InstallPreservesShape
  <2>5. /\ fs'.manifest = job /\ fs'.tmp = fs.tmp
        /\ \A u \in Txns, j \in Slots :
             fs'.stage[u][j] = IF u = job.txn /\ j = slot - 1 THEN NoFile ELSE fs.stage[u][j]
    BY <1>0, <2>1, <2>2, <2>3, InstallFileFields
  <2>6. \A i \in 1..job.max : i < slot + 1 => fs'.stage[job.txn][i - 1] = NoFile
    BY <1>0, <2>1, <2>5 DEF TxnInv, Progress
  <2> QED BY <1>0, <2>1, <2>4, <2>5, <2>6 DEF TxnInv, Progress, Lifecycle, Settled
<1>5. CASE DropOldest
  <2>1. /\ pc = "drop" /\ pc' = "clear" /\ job' = job
        /\ job # NoManifest /\ fs.manifest = job /\ job.phase = "installing"
        /\ recovered' = recovered /\ outcome' = outcome
    BY <1>5, AtWork DEF DropOldest, Working, TxnInv, Progress
  <2>2. fs' = [fs EXCEPT !.stage[fs.manifest.txn][fs.manifest.max] = NoFile] /\ fs.manifest # NoManifest
    BY <1>5, <2>1 DEF DropOldest, Change
  <2>3. /\ Shape(fs') /\ fs'.manifest = job /\ fs'.tmp = fs.tmp
        /\ fs'.stage[job.txn][job.max] = NoFile
        /\ \A i \in 1..job.max : fs'.stage[job.txn][i - 1] = fs.stage[job.txn][i - 1]
    <3>1. /\ Shape(fs') /\ fs'.manifest = fs.manifest /\ fs'.tmp = fs.tmp
          /\ fs'.stage[fs.manifest.txn][fs.manifest.max] = NoFile
          /\ \A i \in 1..fs.manifest.max :
               fs'.stage[fs.manifest.txn][i - 1] = fs.stage[fs.manifest.txn][i - 1]
      BY <1>0, <2>1, <2>2, DropPreservesShape
    <3> QED BY <2>1, <3>1
  <2> QED BY <1>0, <2>1, <2>3 DEF TxnInv, Progress, Lifecycle, Settled
<1>6. CASE ClearManifest
  <2>1. /\ pc = "clear" /\ pc' \in {"reprune", "scan"} /\ (pc' = "reprune" <=> recovered)
        /\ job # NoManifest /\ job.max \in Nat /\ fs.manifest = job
        /\ recovered' = recovered /\ outcome' = outcome
    BY <1>6, AtWork DEF ClearManifest, Working, TxnInv, Progress
  <2>2. fs' = [fs EXCEPT !.manifest = NoManifest, !.tmp = fs.tmp]
    BY <1>0, <1>6 DEF ClearManifest, Change, Directory
  <2>3. fs'.manifest = NoManifest /\ fs'.tmp = fs.tmp /\ fs'.stage = fs.stage
    BY <1>0, <2>2 DEF Directory
  <2>4. ASSUME NEW i \in 0..job.max PROVE fs.stage[job.txn][i] = NoFile
    <3>1. i = job.max \/ (i + 1 \in 1..job.max /\ i = (i + 1) - 1)
      BY <2>1
    <3> QED BY <2>1, <3>1 DEF TxnInv, Progress
  <2>5. fs' \in Directory
    BY <1>6, ChangingStep DEF Changing, Careful
  <2>6. Shape(fs')
    BY <1>0, <2>1, <2>3, <2>4, <2>5, ClearedShape
  <2> QED BY <1>0, <2>1, <2>3, <2>6 DEF TxnInv, Progress, Lifecycle, Settled
<1>7. CASE WriteRecord
  <2>1. pc = "write" /\ pc' = "ack" /\ fs.manifest = NoManifest /\ recovered' = recovered /\ outcome' = outcome
    BY <1>7 DEF WriteRecord, TxnInv, Progress, Settled
  <2>2. Shape(fs') /\ fs'.manifest = NoManifest /\ fs'.tmp = fs.tmp
    <3>1. CASE fs.log[Active] # NoFile
      BY <1>0, <1>7, <2>1, <3>1 DEF WriteRecord
    <3>2. CASE fs.log[Active] = NoFile
      <4>1. fs' = [fs EXCEPT !.log[Active] = files + 1] /\ Active \in Slots /\ files + 1 \in FileOrNone
        BY <1>7, <3>2, SlotsAssumption, BoundsAssumption
           DEF WriteRecord, Change, Active, Slots, TypeInv, TypeOK, FileOrNone, Files
      <4> QED BY <1>0, <2>1, <4>1, EntryPreservesShape, EntryFields
    <3> QED BY <3>1, <3>2
  <2> QED BY <1>0, <2>1, <2>2 DEF TxnInv, Progress, Lifecycle, Settled
<1>8. CASE ExpireBackup
  <2>1. /\ pc \in {"prune", "reprune"} /\ pc' = pc /\ fs.manifest = NoManifest
        /\ recovered' = recovered /\ outcome' = outcome
    BY <1>8 DEF ExpireBackup, TxnInv, Progress, Settled
  <2>2. slot \in Slots /\ NoFile \in FileOrNone
    BY <1>8, SlotsAssumption DEF ExpireBackup, TypeInv, TypeOK, JobOK, Slots, FileOrNone
  <2>3. fs' = [fs EXCEPT !.log[slot] = NoFile]
    BY <1>8 DEF ExpireBackup, Change
  <2>4. Shape(fs') /\ fs'.manifest = NoManifest /\ fs'.tmp = fs.tmp
    BY <1>0, <2>1, <2>2, <2>3, EntryPreservesShape, EntryFields
  <2> QED BY <1>0, <2>1, <2>4 DEF TxnInv, Progress, Lifecycle, Settled
<1> QED BY <1>1, <1>2, <1>3, <1>4, <1>5, <1>6, <1>7, <1>8 DEF Changing

\* A changed directory joins those a power loss may leave.
LEMMA ChangedShapes ==
  ASSUME TypeInv, TxnInv, Changing
  PROVE  TxnInv'
<1>1. Change(fs')
  BY ChangingStep DEF Careful
<1>2. \A s \in recoverable' : Shape(s)
  BY <1>1, ChangingTransaction DEF Change, TxnInv
<1> QED BY <1>2, ChangingTransaction DEF TxnInv

\* Failed calls are counted and never forgotten.
LEMMA FaultsGrow == ASSUME TypeInv, [Next]_vars PROVE faults' = 0 => faults = 0
<1>1. faults \in Nat
  BY BoundsAssumption DEF TypeInv, TypeOK
<1>2. CASE Quiet
  BY <1>1, <1>2 DEF Quiet, Open, Close, BeginAppend, Sync, IoError, Recovery, ReadManifest,
       NoManifestFound, Recovered, UnexplainedFiles, KeepBackup, PruneDone, Decide, NoRotation,
       BeginRotation, RotationRefused, TemporaryExists, StageSkip, StageRefuse, StagingDone,
       InstallSkip, InstallRefuse, InstallingDone, NothingToDrop, Acknowledge, budget
<1>3. CASE Changing
  BY <1>3 DEF Changing, CreateTemporary, PublishManifest, StageMove, InstallMove, DropOldest,
       ClearManifest, WriteRecord, ExpireBackup, budget
<1>4. CASE Kill \/ PowerLoss
  BY <1>4 DEF Kill, PowerLoss, Halt
<1>5. CASE UNCHANGED vars
  BY <1>5 DEF vars
<1> QED BY <1>2, <1>3, <1>4, <1>5, StepKinds

LEMMA CleanStep == TypeInv /\ CleanInv /\ [Next]_vars => CleanInv'
<1> SUFFICES ASSUME TypeInv, CleanInv, [Next]_vars, faults' = 0 PROVE TxnInv'
  BY DEF CleanInv
<1>0. TxnInv /\ fs \in recoverable
  BY FaultsGrow DEF CleanInv, TypeInv, TypeOK
<1>1. CASE Sync
  <2>1. /\ recoverable' = {fs} /\ ~syncing'
        /\ UNCHANGED <<fs, pc, job, slot, limit, recovered, outcome>> /\ syncing
    BY <1>1 DEF Sync, taskVars, hostVars
  <2> QED BY <1>0, <2>1 DEF TxnInv, Progress, Lifecycle, Settled
<1>2. CASE Open \/ Close \/ BeginAppend \/ Recovery \/ KeepBackup \/ PruneDone \/ Decide
           \/ TemporaryExists \/ Acknowledge
  <2>1. ~Sync => recoverable' = recoverable
    BY <1>2, QuietUnchanged DEF Quiet, Acknowledge, dirVars
  <2> QED BY <1>0, <1>1, <1>2, <2>1, QuietOutside DEF TxnInv
<1>3. CASE StageSkip \/ StageRefuse \/ StagingDone \/ InstallSkip \/ InstallRefuse
           \/ InstallingDone \/ NothingToDrop
  <2>1. ~Sync => recoverable' = recoverable
    BY <1>3, QuietUnchanged DEF Quiet, Acknowledge, dirVars
  <2> QED BY <1>0, <1>1, <1>3, <2>1, QuietInside DEF TxnInv
<1>4. CASE IoError
  BY <1>4, BoundsAssumption DEF IoError, TypeInv, TypeOK
<1>5. CASE Changing
  BY <1>0, <1>5, ChangedShapes
<1>6. CASE Kill \/ PowerLoss
  <2>1. /\ pc' = "down" /\ recovered' = FALSE /\ outcome' = "none" /\ recoverable' \subseteq recoverable
    BY <1>6 DEF Kill, PowerLoss, Halt, dirVars
  <2> QED BY <1>0, <2>1 DEF TxnInv, Progress, Lifecycle, Settled
<1>7. CASE UNCHANGED vars
  BY <1>0, <1>7 DEF vars, TxnInv, Progress, Lifecycle, Settled
<1> QED BY <1>1, <1>2, <1>3, <1>4, <1>5, <1>6, <1>7, StepKinds DEF Quiet

LEMMA InitClean == Init => CleanInv
<1> SUFFICES ASSUME Init PROVE TxnInv
  BY DEF CleanInv
<1>1. fs = EmptyDirectory /\ recoverable = {EmptyDirectory} /\ pc = "down" /\ ~recovered /\ outcome = "none"
  BY DEF Init
<1>2. EmptyDirectory.manifest = NoManifest /\ \A t \in Txns : Unstaged(EmptyDirectory, t)
  BY DEF EmptyDirectory, Unstaged
<1>3. Shape(EmptyDirectory)
  BY <1>2, EmptyIsDirectory, NoneShape
<1> QED BY <1>1, <1>2, <1>3 DEF TxnInv, Progress, Lifecycle, Settled

\* Without a failed call the code refuses to open a log only when a crash left a
\* temporary manifest behind: what is staged is always explained by the
\* manifest, and every place of a rotation holds what recovery looks for.
THEOREM RefusalsAreExplained == Spec => []RefusedOnlyForTemporary
<1>1. Init => TypeInv /\ CleanInv
  BY InitType, InitClean
<1>2. TypeInv /\ CleanInv /\ [Next]_vars => (TypeInv /\ CleanInv)'
  BY StepType, CleanStep
<1>3. CleanInv => RefusedOnlyForTemporary
  BY DEF CleanInv, TxnInv, Lifecycle, RefusedOnlyForTemporary
<1> QED BY <1>1, <1>2, <1>3, PTL DEF Spec

-----------------------------------------------------------------------------
(* Whose manifest is there.  With failed calls the manifest of another       *)
(* rotation may lie in the way; only a rotation the Rust runtime begins      *)
(* publishes over it, since the Python runtime looks before it begins one.   *)

Owned ==
  /\ pc = "stage" => fs.manifest = job
  /\ pc \in {"create", "publish"} =>
       IF job.phase = "staging" THEN runtime = "python" => fs.manifest = NoManifest
       ELSE fs.manifest.txn = job.txn

LEMMA OwnedStep == TypeInv /\ Owned /\ [Next]_vars => Owned'
<1> SUFFICES ASSUME TypeInv, Owned, Next \/ UNCHANGED vars PROVE Owned'
  BY DEF vars
<1> USE DEF At, dirVars, taskVars, hostVars, history, budget
<1>0. fs \in Directory
  BY DEF TypeInv, TypeOK
<1>1. CASE Quiet
  <2>1. CASE ReadManifest
    BY <2>1 DEF ReadManifest, Owned
  <2>2. CASE BeginRotation
    BY <2>2 DEF BeginRotation, ManifestInTheWay, NewManifest, Owned
  <2>3. CASE StagingDone
    <3>1. job \in Manifest /\ fs.manifest = job /\ pc' = "create" /\ fs' = fs
          /\ job' = [job EXCEPT !.phase = "installing"]
      BY <2>3 DEF StagingDone, Owned, TypeInv, JobOK, Working
    <3>2. job'.phase = "installing" /\ job'.txn = job.txn
      BY <3>1 DEF Manifest
    <3> QED BY <3>1, <3>2 DEF Owned
  <2>4. CASE StageSkip \/ Sync
    BY <2>4 DEF StageSkip, Sync, Owned
  <2>5. CASE ~ReadManifest /\ ~BeginRotation /\ ~StagingDone /\ ~StageSkip /\ ~Sync
    <3>1. pc' \notin {"stage", "create", "publish"}
      BY <1>1, <2>5 DEF Quiet, Open, Close, BeginAppend, IoError, Recovery, NoManifestFound,
           Recovered, UnexplainedFiles, KeepBackup, PruneDone, Decide, NoRotation, RotationRefused,
           TemporaryExists, StageRefuse, InstallSkip, InstallRefuse, InstallingDone,
           NothingToDrop, Acknowledge, Fail
    <3> QED BY <3>1 DEF Owned
  <2> QED BY <2>1, <2>2, <2>3, <2>4, <2>5
<1>2. CASE Changing
  <2>1. CASE CreateTemporary
    <3>1. fs'.manifest = fs.manifest
      BY <1>0, <2>1 DEF CreateTemporary, Change, Directory
    <3> QED BY <2>1, <3>1 DEF CreateTemporary, Owned
  <2>2. CASE PublishManifest
    <3>1. fs'.manifest = job
      BY <1>0, <2>2 DEF PublishManifest, Change, Directory
    <3> QED BY <2>2, <3>1 DEF PublishManifest, Owned
  <2>3. CASE StageMove
    <3>1. fs'.manifest = fs.manifest
      BY <1>0, <2>3 DEF StageMove, StageFile, Change, Directory
    <3> QED BY <2>3, <3>1 DEF StageMove, Owned
  <2>4. CASE InstallMove \/ DropOldest \/ ClearManifest \/ WriteRecord \/ ExpireBackup
    <3>1. pc' \notin {"stage", "create", "publish"}
      BY <2>4 DEF InstallMove, DropOldest, ClearManifest, WriteRecord, ExpireBackup
    <3> QED BY <3>1 DEF Owned
  <2> QED BY <1>2, <2>1, <2>2, <2>3, <2>4 DEF Changing
<1>3. CASE Kill \/ PowerLoss
  BY <1>3 DEF Kill, PowerLoss, Halt, Owned
<1>4. CASE UNCHANGED vars
  BY <1>4 DEF vars, Owned
<1> QED BY <1>1, <1>2, <1>3, <1>4, StepKinds

\* An append succeeds only after the rotation is complete, and a manifest that
\* is still there is never overwritten, unless a call failed and, for the
\* second, the process is of the Rust runtime.
THEOREM TransactionIsRespected == Spec => TransactionRespected
<1> DEFINE Inv == TypeInv /\ CleanInv /\ Owned
<1> DEFINE Respected ==
      /\ Acknowledge /\ fs.manifest # NoManifest => faults > 0
      /\ PublishManifest /\ fs.manifest # NoManifest
           /\ fs.manifest.txn # job.txn
         => faults > 0 /\ runtime = "rust"
<1>1. Init => Inv
  BY InitType, InitClean DEF Init, Owned
<1>2. Inv /\ [Next]_vars => Inv'
  BY StepType, CleanStep, OwnedStep
<1>3. Inv /\ [Next]_vars => [Respected]_vars
  <2> SUFFICES ASSUME Inv PROVE Respected
    OBVIOUS
  <2>1. faults \in Nat /\ runtime \in {"rust", "python"}
    BY BoundsAssumption, RuntimesAssumption DEF TypeInv, TypeOK
  <2>2. ASSUME Acknowledge, fs.manifest # NoManifest PROVE faults > 0
    <3>1. faults # 0
      BY <2>2 DEF Acknowledge, At, CleanInv, TxnInv, Progress, Settled
    <3> QED BY <2>1, <3>1
  <2>3. ASSUME PublishManifest, fs.manifest # NoManifest, fs.manifest.txn # job.txn
        PROVE  faults > 0 /\ runtime = "rust"
    <3>1. pc = "publish" /\ job \in Manifest
      BY <2>3 DEF PublishManifest, At, TypeInv, JobOK, Working
    <3>2. job.phase = "staging"
      BY <2>3, <3>1 DEF Owned
    <3>3. runtime = "rust"
      BY <2>1, <2>3, <3>1, <3>2 DEF Owned
    <3>4. faults # 0
      BY <2>3, <3>1, <3>2 DEF CleanInv, TxnInv, Progress
    <3> QED BY <2>1, <3>3, <3>4
  <2> QED BY <2>2, <2>3
<1>4. [][Respected]_vars => TransactionRespected
  BY DEF TransactionRespected
<1> QED BY <1>1, <1>2, <1>3, <1>4, PTL DEF Spec

-----------------------------------------------------------------------------
(* The rotation is atomic.  What the edits of a directory make of the layout *)
(* it stands for: the first manifest shifts it, everything up to the removal *)
(* of the second manifest leaves it alone.                                   *)

LEMMA MaxIsNatural ==
  ASSUME NEW s \in Directory
  PROVE  s.manifest.max \in Nat
<1>1. s.manifest = NoManifest \/ s.manifest \in Manifest
  BY DEF Directory
<1>2. NoManifest.max = 0
  BY DEF NoManifest
<1> QED BY <1>1, <1>2, ManifestFields DEF Backups

LEMMA LogicalEntry ==
  ASSUME NEW s, s.manifest.max \in Nat, NEW i \in Slots
  PROVE  Logical(s)[i] = IF i \in 1..s.manifest.max THEN Source(s, i)
                         ELSE IF i = Active /\ s.manifest.phase = "staging" THEN NoFile
                         ELSE s.log[i]
<1>1. CASE i \in 1..s.manifest.max
  <2>1. i # Active
    BY <1>1 DEF Active
  <2> QED BY <1>1, <2>1 DEF Logical
<1>2. CASE i \notin 1..s.manifest.max /\ i = Active /\ s.manifest.phase = "staging"
  BY <1>2 DEF Logical
<1>3. CASE i \notin 1..s.manifest.max /\ ~(i = Active /\ s.manifest.phase = "staging")
  BY <1>3 DEF Logical
<1> QED BY <1>1, <1>2, <1>3

\* Two directories with the same entries stand for the same layout.
LEMMA SameLogical ==
  ASSUME NEW s, NEW r, \A i \in Slots : Logical(r)[i] = Logical(s)[i]
  PROVE  Logical(r) = Logical(s)
  BY DEF Logical

LEMMA LogicalNone ==
  ASSUME NEW s \in Directory, s.manifest = NoManifest
  PROVE  Logical(s) = s.log
<1>1. Logical(s) = [i \in Slots |-> s.log[i]]
  BY DEF Logical, NoManifest
<1> QED BY <1>1 DEF Directory

LEMMA LogicalRotated ==
  ASSUME NEW s \in Directory, Shape(s), s.manifest = NoManifest,
         NEW m \in Manifest, m.phase = "staging",
         NEW r, r.manifest = m, r.log = s.log, r.stage = s.stage
  PROVE  Logical(r) = Atomic!Shifted(Logical(s), m.max)
<1>1. /\ m.txn \in Txns /\ m.max \in Nat
      /\ \A i \in 1..m.max : i \in Slots /\ i - 1 \in Slots
  BY ManifestOrNone, NoManifestIsNone
<1>2. \A i \in Slots : r.stage[m.txn][i] = NoFile
  BY <1>1, NoneShape DEF Unstaged
<1>3. ASSUME NEW i \in Slots
      PROVE  Logical(r)[i] = Atomic!Shifted(Logical(s), m.max)[i]
  <2>1. CASE i \in 1..m.max
    <3>1. Logical(r)[i] = s.log[i - 1]
      BY <1>1, <1>2, <2>1, MaxIsNatural, LogicalEntry DEF Source
    <3> QED BY <2>1, <3>1, LogicalNone DEF Atomic!Shifted, Atomic!Slots, Atomic!Active, Slots
  <2>2. CASE i = 0
    <3>1. Logical(r)[i] = NoFile
      BY <1>1, <2>2, LogicalEntry DEF Active
    <3> QED BY <2>2, <3>1 DEF Atomic!Shifted, Atomic!Slots, Atomic!Active, Atomic!NoFile, Slots, NoFile
  <2>3. CASE i # 0 /\ i \notin 1..m.max
    <3>1. Logical(r)[i] = s.log[i]
      BY <1>1, <2>3, LogicalEntry DEF Active
    <3> QED BY <2>3, <3>1, LogicalNone DEF Atomic!Shifted, Atomic!Slots, Atomic!Active, Slots
  <2> QED BY <2>1, <2>2, <2>3
<1> QED BY <1>3 DEF Logical, Atomic!Shifted, Atomic!Slots, Slots

LEMMA LogicalInstalling ==
  ASSUME NEW s \in Directory, Shape(s), NEW m \in Manifest, m.phase = "installing",
         s.manifest = [m EXCEPT !.phase = "staging"], \A i \in 0..m.max : s.log[i] = NoFile,
         NEW r, r.manifest = m, r.log = s.log, r.stage = s.stage
  PROVE  Logical(r) = Logical(s)
<1>1. /\ s.manifest.txn = m.txn /\ s.manifest.max = m.max /\ s.manifest.phase = "staging"
  BY DEF Manifest
<1>2. /\ m.max \in Nat /\ 0 \in 0..m.max /\ \A i \in 1..m.max : i \in 0..m.max /\ i - 1 \in 0..m.max
  BY ManifestOrNone, NoManifestIsNone
<1>3. ASSUME NEW i \in Slots PROVE Logical(r)[i] = Logical(s)[i]
  <2>1. CASE i \in 1..m.max
    <3>1. Source(r, i) = Source(s, i)
      BY <1>1, <1>2, <2>1 DEF Source
    <3>2. Logical(r)[i] = Source(r, i)
      BY <1>2, <2>1, LogicalEntry
    <3>3. Logical(s)[i] = Source(s, i)
      BY <1>1, <1>2, <2>1, LogicalEntry
    <3> QED BY <3>1, <3>2, <3>3
  <2>2. CASE i \notin 1..m.max
    <3>1. Logical(r)[i] = s.log[i]
      BY <1>2, <2>2, LogicalEntry
    <3>2. Logical(s)[i] = IF i = Active THEN NoFile ELSE s.log[i]
      BY <1>1, <1>2, <2>2, LogicalEntry
    <3>3. s.log[Active] = NoFile
      BY <1>2 DEF Active
    <3> QED BY <3>1, <3>2, <3>3
  <2> QED BY <2>1, <2>2
<1> QED BY <1>3, SameLogical

LEMMA LogicalStaged ==
  ASSUME NEW s \in Directory, s.manifest # NoManifest,
         s.manifest.phase = "staging", NEW i \in 0..s.manifest.max, s.log[i] # NoFile,
         s.stage[s.manifest.txn][i] = NoFile,
         NEW r, r = StageFile(s, s.manifest.txn, i)
  PROVE  Logical(r) = Logical(s)
<1> DEFINE m == s.manifest
<1>1. m \in Manifest \cup {NoManifest}
  BY DEF Directory
<1>2. /\ m.txn \in Txns /\ m.max \in Nat /\ \A j \in 0..m.max : j \in Slots
      /\ \A j \in 1..m.max : j \in 0..m.max /\ j - 1 \in 0..m.max
  BY <1>1, ManifestOrNone
<1>3. /\ r.manifest = m
      /\ \A j \in Slots : r.log[j] = IF j = i THEN NoFile ELSE s.log[j]
      /\ \A u \in Txns, j \in Slots :
           r.stage[u][j] = IF u = m.txn /\ j = i THEN s.log[i] ELSE s.stage[u][j]
  BY <1>2, StageFileFields
<1>4. ASSUME NEW j \in Slots PROVE Logical(r)[j] = Logical(s)[j]
  <2>1. CASE j \in 1..m.max
    <3>1. Source(r, j) = Source(s, j)
      BY <1>2, <1>3, <2>1 DEF Source
    <3> QED BY <1>3, <2>1, <3>1, MaxIsNatural, LogicalEntry
  <2>2. CASE j \notin 1..m.max
    <3>1. j # Active => r.log[j] = s.log[j]
      BY <1>2, <1>3, <2>2 DEF Active, Slots
    <3> QED BY <1>3, <2>2, <3>1, MaxIsNatural, LogicalEntry
  <2> QED BY <2>1, <2>2
<1> QED BY <1>4, SameLogical

LEMMA LogicalInstalled ==
  ASSUME NEW s \in Directory, s.manifest # NoManifest,
         s.manifest.phase = "installing", NEW i \in 1..s.manifest.max, s.log[i] = NoFile,
         s.stage[s.manifest.txn][i - 1] # NoFile,
         NEW r, r = InstallFile(s, s.manifest.txn, i)
  PROVE  Logical(r) = Logical(s)
<1> DEFINE m == s.manifest
<1>1. m \in Manifest \cup {NoManifest}
  BY DEF Directory
<1>2. /\ m.txn \in Txns /\ m.max \in Nat /\ i \in Backups
      /\ \A j \in 1..m.max : j \in Slots /\ j - 1 \in Slots
  BY <1>1, ManifestOrNone
<1>3. /\ r.manifest = m
      /\ \A j \in Slots : r.log[j] = IF j = i THEN s.stage[m.txn][i - 1] ELSE s.log[j]
      /\ \A u \in Txns, j \in Slots :
           r.stage[u][j] = IF u = m.txn /\ j = i - 1 THEN NoFile ELSE s.stage[u][j]
  BY <1>2, InstallFileFields
<1>4. ASSUME NEW j \in Slots PROVE Logical(r)[j] = Logical(s)[j]
  <2>1. CASE j \in 1..m.max
    <3>1. Source(r, j) = Source(s, j)
      BY <1>2, <1>3, <2>1 DEF Source
    <3> QED BY <1>3, <2>1, <3>1, MaxIsNatural, LogicalEntry
  <2>2. CASE j \notin 1..m.max
    <3>1. r.log[j] = s.log[j]
      BY <1>2, <1>3, <2>2
    <3> QED BY <1>3, <2>2, <3>1, MaxIsNatural, LogicalEntry
  <2> QED BY <2>1, <2>2
<1> QED BY <1>4, SameLogical

LEMMA LogicalDropped ==
  ASSUME NEW s \in Directory, s.manifest # NoManifest, s.manifest.phase = "installing",
         NEW r, r.manifest = s.manifest, r.log = s.log,
         \A i \in 1..s.manifest.max : r.stage[s.manifest.txn][i - 1] = s.stage[s.manifest.txn][i - 1]
  PROVE  Logical(r) = Logical(s)
<1>1. ASSUME NEW j \in Slots PROVE Logical(r)[j] = Logical(s)[j]
  BY MaxIsNatural, LogicalEntry DEF Source
<1> QED BY <1>1, SameLogical

LEMMA LogicalCleared ==
  ASSUME NEW s \in Directory, s.manifest # NoManifest, s.manifest.phase = "installing",
         \A i \in 1..s.manifest.max : s.stage[s.manifest.txn][i - 1] = NoFile,
         NEW r \in Directory, r.manifest = NoManifest, r.log = s.log
  PROVE  Logical(r) = Logical(s)
<1>1. ASSUME NEW j \in Slots PROVE Logical(r)[j] = Logical(s)[j]
  <2>1. Logical(r)[j] = s.log[j]
    BY LogicalNone
  <2> QED BY <2>1, MaxIsNatural, LogicalEntry DEF Source
<1> QED BY <1>1, SameLogical

LEMMA LogicalSameFields ==
  ASSUME NEW s \in Directory, NEW r, r.manifest = s.manifest, r.log = s.log, r.stage = s.stage
  PROVE  Logical(r) = Logical(s)
<1>1. ASSUME NEW j \in Slots PROVE Logical(r)[j] = Logical(s)[j]
  BY MaxIsNatural, LogicalEntry DEF Source
<1> QED BY <1>1, SameLogical

\* A change of the directory adds one layout to those a power loss may leave.
LEMMA ChangeBecomes ==
  ASSUME NEW l, Change(fs'), Logical(fs') = l
  PROVE  Atomic!Become(l)
<1>1. {Logical(s) : s \in recoverable'} = {Logical(s) : s \in recoverable} \cup {l}
  BY DEF Change
<1> QED BY <1>1 DEF Atomic!Become, Logical

\* None if the layout is the same.
LEMMA ChangeStutters ==
  ASSUME fs \in recoverable, Change(fs'), Logical(fs') = Logical(fs), files' = files
  PROVE  UNCHANGED Atomic!vars
<1>1. {Logical(s) : s \in recoverable'} = {Logical(s) : s \in recoverable}
  BY DEF Change
<1> QED BY <1>1 DEF Atomic!vars, Logical

\* The changes behind the first manifest and in front of the next append.
LEMMA ChangingStutters ==
  ASSUME TypeInv, TxnInv,
         \/ CreateTemporary \/ StageMove \/ InstallMove \/ DropOldest \/ ClearManifest
         \/ PublishManifest /\ job.phase = "installing"
  PROVE  UNCHANGED Atomic!vars
<1> USE DEF At, dirVars, taskVars, hostVars, history, budget
<1>a. Changing
  BY DEF Changing
<1>b. fs' \in Directory /\ Change(fs')
  BY <1>a, ChangingStep DEF Careful
<1>c. files' = files
  BY DEF CreateTemporary, PublishManifest, StageMove, InstallMove, DropOldest, ClearManifest
<1>0. /\ fs \in Directory /\ Shape(fs) /\ slot \in Int /\ fs \in recoverable
      /\ fs' \in Directory /\ Change(fs') /\ files' = files
  BY <1>b, <1>c DEF TypeInv, TypeOK, TxnInv
<1>1. CASE CreateTemporary
  <2>1. fs'.manifest = fs.manifest /\ fs'.log = fs.log /\ fs'.stage = fs.stage
    BY <1>0, <1>1 DEF CreateTemporary, Change, Directory
  <2> QED BY <1>0, <2>1, LogicalSameFields, ChangeStutters
<1>2. CASE PublishManifest /\ job.phase = "installing"
  <2>1. fs'.manifest = job /\ fs'.log = fs.log /\ fs'.stage = fs.stage
    BY <1>0, <1>2 DEF PublishManifest, Change, Directory
  <2>2. /\ job \in Manifest /\ fs.manifest = [job EXCEPT !.phase = "staging"]
        /\ \A i \in 0..job.max : fs.log[i] = NoFile
    BY <1>2, AtWork DEF PublishManifest, Working, TxnInv, Progress
  <2>3. Logical(fs') = Logical(fs)
    BY <1>0, <1>2, <2>1, <2>2, LogicalInstalling
  <2> QED BY <1>0, <2>3, ChangeStutters
<1>3. CASE StageMove
  <2>1. job # NoManifest /\ fs.manifest = job /\ job.phase = "staging" /\ job.max \in Nat
    BY <1>3, AtWork DEF StageMove, Working, TxnInv, Progress
  <2>2. slot \in 0..fs.manifest.max /\ fs.log[slot] # NoFile /\ fs.stage[fs.manifest.txn][slot] = NoFile
    BY <1>3, <2>1 DEF StageMove, Here, Staged, TypeInv, TypeOK
  <2>3. fs' = StageFile(fs, fs.manifest.txn, slot)
    BY <1>3, <2>1 DEF StageMove, Change
  <2>4. Logical(fs') = Logical(fs)
    BY <1>0, <2>1, <2>2, <2>3, LogicalStaged
  <2> QED BY <1>0, <2>4, ChangeStutters
<1>4. CASE InstallMove
  <2>1. job # NoManifest /\ fs.manifest = job /\ job.phase = "installing" /\ job.max \in Nat
    BY <1>4, AtWork DEF InstallMove, Working, TxnInv, Progress
  <2>2. slot \in 1..fs.manifest.max /\ fs.log[slot] = NoFile /\ fs.stage[fs.manifest.txn][slot - 1] # NoFile
    BY <1>0, <1>4, <2>1 DEF InstallMove, Here, Staged, TypeInv, JobOK
  <2>3. fs' = InstallFile(fs, fs.manifest.txn, slot)
    BY <1>4, <2>1 DEF InstallMove, Change
  <2>4. Logical(fs') = Logical(fs)
    BY <1>0, <2>1, <2>2, <2>3, LogicalInstalled
  <2> QED BY <1>0, <2>4, ChangeStutters
<1>5. CASE DropOldest
  <2>1. job # NoManifest /\ fs.manifest = job /\ job.phase = "installing"
    BY <1>5, AtWork DEF DropOldest, Working, TxnInv, Progress
  <2>2. fs' = [fs EXCEPT !.stage[fs.manifest.txn][fs.manifest.max] = NoFile]
    BY <1>5, <2>1 DEF DropOldest, Change
  <2>3. /\ fs'.manifest = fs.manifest /\ fs'.log = fs.log
        /\ \A i \in 1..fs.manifest.max :
             fs'.stage[fs.manifest.txn][i - 1] = fs.stage[fs.manifest.txn][i - 1]
    BY <1>0, <2>1, <2>2, DropPreservesShape
  <2>4. Logical(fs') = Logical(fs)
    BY <1>0, <2>1, <2>3, LogicalDropped
  <2> QED BY <1>0, <2>4, ChangeStutters
<1>6. CASE ClearManifest
  <2>1. /\ job # NoManifest /\ fs.manifest = job /\ job.phase = "installing"
        /\ \A i \in 1..fs.manifest.max : fs.stage[fs.manifest.txn][i - 1] = NoFile
    BY <1>6, AtWork DEF ClearManifest, Working, TxnInv, Progress
  <2>2. fs'.manifest = NoManifest /\ fs'.log = fs.log
    BY <1>0, <1>6 DEF ClearManifest, Change, Directory
  <2>3. Logical(fs') = Logical(fs)
    BY <1>0, <2>1, <2>2, LogicalCleared
  <2> QED BY <1>0, <2>3, ChangeStutters
<1> QED BY <1>1, <1>2, <1>3, <1>4, <1>5, <1>6

\* A write creates the active file or leaves the layout alone.
LEMMA WriteIsAtomic ==
  ASSUME TypeInv, CleanInv, WriteRecord, faults = 0
  PROVE  Atomic!Create \/ UNCHANGED Atomic!vars
<1> USE DEF At, dirVars
<1>0. TxnInv /\ fs \in recoverable /\ fs \in Directory
  BY DEF CleanInv, TxnInv, TypeInv, TypeOK
<1>1. fs.manifest = NoManifest /\ Logical(fs) = fs.log
  BY <1>0, LogicalNone DEF WriteRecord, TxnInv, Progress, Settled
<1>2. CASE fs.log[Active] # NoFile
  BY <1>2 DEF WriteRecord, Atomic!vars, Logical
<1>3. CASE fs.log[Active] = NoFile
  <2>1. /\ fs' = [fs EXCEPT !.log[Active] = files + 1] /\ files' = files + 1 /\ files < MaxFiles
        /\ Change(fs') /\ fs' \in Directory
    BY <1>3, ChangingStep DEF WriteRecord, Change, Changing, Careful
  <2>2. fs'.manifest = NoManifest /\ fs'.log = [fs.log EXCEPT ![Active] = files + 1]
    BY <1>0, <1>1, <2>1 DEF Directory
  <2>3. Logical(fs') = [Logical(fs) EXCEPT ![Active] = files + 1]
    BY <1>1, <2>1, <2>2, LogicalNone
  <2>4. Atomic!Become([Logical(fs) EXCEPT ![Active] = files + 1])
    BY <2>1, <2>3, ChangeBecomes
  <2> QED BY <1>1, <1>3, <2>1, <2>4 DEF Atomic!Create, Atomic!Active, Atomic!NoFile, Active, NoFile
<1> QED BY <1>2, <1>3

\* A power loss leaves one of the possible layouts, and no other one.
LEMMA PowerIsAtomic == PowerLoss => Atomic!PowerLoss
<1> SUFFICES ASSUME PowerLoss PROVE Atomic!PowerLoss
  OBVIOUS
<1>1. fs' \in recoverable /\ recoverable' = {fs'} /\ files' = files
  BY DEF PowerLoss, Halt
<1>2. /\ Logical(fs') \in {Logical(s) : s \in recoverable}
      /\ {Logical(s) : s \in recoverable'} = {Logical(fs')}
  BY <1>1
<1> QED BY <1>1, <1>2 DEF Atomic!PowerLoss, Logical

\* As long as no call has failed, every step of the code is a step of the
\* atomic rotation or none, and only the pruning expires a file.
LEMMA AtomicKinds ==
  ASSUME TypeInv, CleanInv, [Next]_vars, faults' = 0
  PROVE  \/ Atomic!Create \/ Atomic!Rotate \/ Atomic!Sync \/ Atomic!PowerLoss \/ UNCHANGED Atomic!vars
         \/ ExpireBackup /\ Atomic!Expire
<1> USE DEF At, dirVars, taskVars, hostVars, history, budget
<1>0. TxnInv /\ fs \in recoverable /\ fs \in Directory /\ Shape(fs)
  BY FaultsGrow DEF CleanInv, TxnInv, TypeInv, TypeOK
<1>1. CASE Sync
  <2>1. recoverable' = {fs} /\ fs' = fs /\ files' = files
    BY <1>1 DEF Sync
  <2>2. {Logical(s) : s \in recoverable'} = {Logical(fs)}
    BY <2>1
  <2> QED BY <2>1, <2>2 DEF Atomic!Sync, Logical
<1>2. CASE Quiet /\ ~Sync
  <2>1. UNCHANGED <<fs, recoverable, files>>
    BY <1>2, QuietUnchanged DEF Acknowledge
  <2> QED BY <2>1 DEF Atomic!vars, Logical
<1>3. CASE \/ CreateTemporary \/ StageMove \/ InstallMove \/ DropOldest \/ ClearManifest
           \/ PublishManifest /\ job.phase = "installing"
  BY <1>0, <1>3, ChangingStutters
<1>4. CASE PublishManifest /\ job.phase = "staging"
  <2>1. fs'.manifest = job /\ fs'.log = fs.log /\ fs'.stage = fs.stage /\ files' = files
    BY <1>0, <1>4 DEF PublishManifest, Change, Directory
  <2>2. /\ job \in Manifest /\ fs.manifest = NoManifest /\ fs.log[Active] # NoFile
        /\ job.max = limit /\ limit \in Limits
    BY <1>0, <1>4, AtWork DEF PublishManifest, Working, TxnInv, Progress, TypeInv, TypeOK
  <2>3. Logical(fs') = Atomic!Shifted(Logical(fs), limit)
    BY <1>0, <1>4, <2>1, <2>2, LogicalRotated
  <2>4. Change(fs')
    BY <1>4, ChangingStep DEF Changing, Careful
  <2>5. Atomic!Become(Atomic!Shifted(Logical(fs), limit))
    BY <2>3, <2>4, ChangeBecomes
  <2>6. Logical(fs)[Active] # NoFile
    BY <1>0, <2>2, LogicalNone
  <2> QED BY <2>1, <2>2, <2>5, <2>6 DEF Atomic!Rotate, Atomic!Active, Atomic!NoFile, Active, NoFile
<1>5. CASE WriteRecord
  BY <1>5, FaultsGrow, WriteIsAtomic
<1>6. CASE ExpireBackup
  <2>1. fs.manifest = NoManifest /\ Logical(fs) = fs.log
    BY <1>0, <1>6, LogicalNone DEF ExpireBackup, TxnInv, Progress, Settled
  <2>2. /\ fs' = [fs EXCEPT !.log[slot] = NoFile] /\ files' = files
        /\ Change(fs') /\ fs' \in Directory
    BY <1>6, ChangingStep DEF ExpireBackup, Change, Changing, Careful
  <2>3. slot \in Atomic!Slots \ {Atomic!Active}
    BY <1>6, SlotsAssumption DEF ExpireBackup, TypeInv, TypeOK, JobOK, Atomic!Slots, Atomic!Active
  <2>4. fs'.manifest = NoManifest /\ fs'.log = [fs.log EXCEPT ![slot] = NoFile]
    BY <1>0, <2>1, <2>2 DEF Directory
  <2>5. Logical(fs') = [Logical(fs) EXCEPT ![slot] = NoFile]
    BY <2>1, <2>2, <2>4, LogicalNone
  <2>6. Atomic!Become([Logical(fs) EXCEPT ![slot] = NoFile])
    BY <2>2, <2>5, ChangeBecomes
  <2>7. Atomic!Expire
    BY <2>2, <2>3, <2>6 DEF Atomic!Expire, Atomic!NoFile, NoFile
  <2> QED BY <1>6, <2>7
<1>7. CASE Kill
  BY <1>7 DEF Kill, Halt, Atomic!vars, Logical
<1>8. CASE PowerLoss
  BY <1>8, PowerIsAtomic
<1>9. CASE UNCHANGED vars
  BY <1>9 DEF vars, Atomic!vars, Logical
<1>10. PublishManifest => job.phase \in {"staging", "installing"}
  BY AtWork DEF PublishManifest, Working
<1> QED BY <1>1, <1>2, <1>3, <1>4, <1>5, <1>6, <1>7, <1>8, <1>9, <1>10, StepKinds DEF Changing

LEMMA AtomicStep ==
  ASSUME TypeInv, CleanInv, [Next]_vars, faults' = 0
  PROVE  [Atomic!Next]_(Atomic!vars)
  BY AtomicKinds DEF Atomic!Next

\* The manifest, the staging names and the syncs implement a rotation that
\* happens in one step: until a file-system call fails, no process and no power
\* loss ever meets one half done.
THEOREM RotationRefinesAtomic == Spec => RotationIsAtomic
<1> DEFINE Inv == TypeInv /\ CleanInv
<1>1. Init => Inv
  BY InitType, InitClean
<1>2. Inv /\ [Next]_vars => Inv'
  BY StepType, CleanStep
<1>3. Init => Atomic!Init
  <2> SUFFICES ASSUME Init PROVE Atomic!Init
    OBVIOUS
  <2>1. fs = EmptyDirectory /\ recoverable = {EmptyDirectory} /\ files = 0
    BY DEF Init
  <2>2. EmptyDirectory.manifest = NoManifest /\ EmptyDirectory.log = [i \in Slots |-> NoFile]
    BY DEF EmptyDirectory
  <2>3. Logical(EmptyDirectory) = [i \in Slots |-> NoFile]
    BY <2>2, EmptyIsDirectory, LogicalNone
  <2> QED BY <2>1, <2>3 DEF Atomic!Init, Atomic!EmptyLayout, Atomic!Slots, Atomic!NoFile, Slots, NoFile
<1>4. Inv /\ [Next]_vars => [faults' = 0 => [Atomic!Next]_(Atomic!vars)]_vars
  BY AtomicStep
<1> QED BY <1>1, <1>2, <1>3, <1>4, PTL DEF Spec, RotationIsAtomic

-----------------------------------------------------------------------------
(* Retention, whatever fails.  Files are numbered in order of creation, so a *)
(* file with n newer ones has a number of at most files - n.  The file in    *)
(* slot i has at least i newer ones, one less while the active file is       *)
(* missing; a staged file is counted by the slot it was taken from.          *)

Newer(f, n, created) == f # NoFile => f + n <= created

Aged(s, created) ==
  LET m == s.manifest
      open == s.log[Active] # NoFile IN
  /\ \A i \in Slots : Newer(s.log[i], i, created + 1)
  /\ open \/ m.phase = "staging" => \A i \in Slots : Newer(s.log[i], i, created)
  /\ \A t \in Txns, i \in Slots : Newer(s.stage[t][i], i, created)
  /\ open /\ m.phase = "installing" =>
       \A i \in Slots : Newer(s.stage[m.txn][i], i, created - 1)
  /\ m # NoManifest => m.max \in Limits

\* The job is what the manifest says, and a rotation that carries it out has
\* taken the active file away before it installs anything.
Ordered ==
  /\ job # NoManifest => job.max \in Limits
  /\ pc \in {"stage", "install", "drop", "clear"} => fs.manifest = job
  /\ pc = "stage" => job.phase = "staging"
  /\ pc = "install" => job.phase = "installing"
  /\ pc = "stage" /\ slot > 0 => fs.log[Active] = NoFile
  /\ pc \in {"create", "publish"} => (fs.log[Active] # NoFile <=> job.phase = "staging")

AgeInv == (\A s \in recoverable : Aged(s, files)) /\ Ordered /\ RetentionHonoured

LEMMA FileNumbers ==
  ASSUME NEW s \in Directory
  PROVE  /\ \A i \in Slots : s.log[i] \in Nat
         /\ \A t \in Txns, i \in Slots : s.stage[t][i] \in Nat
  BY BoundsAssumption DEF Directory, FileOrNone, Files, NoFile

LEMMA AgedLonger ==
  ASSUME NEW s \in Directory, NEW n \in Nat, Aged(s, n)
  PROVE  Aged(s, n + 1)
<1>1. \A i \in Slots : i \in Nat
  BY SlotsAssumption DEF Slots
<1>2. ASSUME NEW i \in Slots
      PROVE /\ Newer(s.log[i], i, n + 1 + 1)
            /\ s.log[Active] # NoFile \/ s.manifest.phase = "staging" => Newer(s.log[i], i, n + 1)
  BY <1>1, FileNumbers DEF Aged, Newer
<1>3. ASSUME NEW t \in Txns, NEW i \in Slots PROVE Newer(s.stage[t][i], i, n + 1)
  BY <1>1, FileNumbers DEF Aged, Newer
<1>4. ASSUME s.manifest.phase = "installing", s.log[Active] # NoFile, NEW i \in Slots
      PROVE  Newer(s.stage[s.manifest.txn][i], i, n + 1 - 1)
  <2>1. s.manifest.txn \in Txns
    BY <1>4, ManifestOrNone DEF Directory, NoManifest
  <2> QED BY <1>1, <1>4, <2>1, FileNumbers DEF Aged, Newer
<1> QED BY <1>2, <1>3, <1>4 DEF Aged

\* The directory the step leaves is aged, and a removed file was old enough.
LEMMA ChangingAged ==
  ASSUME TypeInv, AgeInv, Changing
  PROVE  Aged(fs', files') /\ RetentionHonoured'
<1> USE DEF At, dirVars, taskVars, hostVars, history, budget
<1>0. /\ fs \in Directory /\ Aged(fs, files) /\ files \in Nat /\ slot \in Int
      /\ 0 \in Slots /\ \A i \in Slots : i \in Nat
  BY SlotsAssumption, BoundsAssumption DEF TypeInv, TypeOK, AgeInv, Slots
<1>a. ASSUME files' = files, dropped' = dropped PROVE RetentionHonoured'
  BY <1>a DEF AgeInv, RetentionHonoured
<1>1. CASE CreateTemporary
  <2>1. /\ fs'.manifest = fs.manifest /\ fs'.log = fs.log /\ fs'.stage = fs.stage
        /\ files' = files /\ dropped' = dropped
    BY <1>0, <1>1 DEF CreateTemporary, Change, Directory
  <2> QED BY <1>0, <1>a, <2>1 DEF Aged
<1>2. CASE PublishManifest
  <2>1. /\ fs'.manifest = job /\ fs'.log = fs.log /\ fs'.stage = fs.stage
        /\ files' = files /\ dropped' = dropped
    BY <1>0, <1>2 DEF PublishManifest, Change, Directory
  <2>2. job # NoManifest /\ job.max \in Limits /\ (fs.log[Active] # NoFile <=> job.phase = "staging")
    BY <1>2, AtWork DEF PublishManifest, Working, AgeInv, Ordered
  <2> QED BY <1>0, <1>a, <2>1, <2>2 DEF Aged
<1>3. CASE StageMove
  <2>1. /\ pc = "stage" /\ fs.manifest = job /\ job.phase = "staging" /\ job.txn \in Txns
        /\ job # NoManifest /\ job.max \in Nat /\ \A i \in 0..job.max : i \in Slots
        /\ files' = files /\ dropped' = dropped
    BY <1>3, AtWork DEF StageMove, Working, AgeInv, Ordered
  <2>2. slot \in Slots /\ fs' = StageFile(fs, job.txn, slot)
    BY <1>3, <2>1 DEF StageMove, Change, TypeInv, TypeOK
  <2>3. /\ fs'.manifest = fs.manifest
        /\ \A j \in Slots : fs'.log[j] = IF j = slot THEN NoFile ELSE fs.log[j]
        /\ \A u \in Txns, j \in Slots :
             fs'.stage[u][j] = IF u = job.txn /\ j = slot THEN fs.log[slot] ELSE fs.stage[u][j]
    BY <1>0, <2>1, <2>2, StageFileFields
  <2>4. \A j \in Slots : Newer(fs'.log[j], j, files + 1) /\ Newer(fs'.log[j], j, files)
    BY <1>0, <2>1, <2>3 DEF Aged, Newer
  <2>5. \A u \in Txns, j \in Slots : Newer(fs'.stage[u][j], j, files)
    BY <1>0, <2>1, <2>2, <2>3 DEF Aged, Newer
  <2> QED BY <1>0, <1>a, <2>1, <2>3, <2>4, <2>5 DEF Aged
<1>4. CASE InstallMove
  <2>1. /\ pc = "install" /\ fs.manifest = job /\ job.phase = "installing" /\ job.txn \in Txns
        /\ job # NoManifest /\ job.max \in Nat
        /\ \A i \in 1..job.max : i \in Slots /\ i \in Backups /\ i - 1 \in Slots
        /\ files' = files /\ dropped' = dropped
    BY <1>4, AtWork DEF InstallMove, Working, AgeInv, Ordered
  <2>2. /\ slot \in Backups /\ slot \in Slots /\ slot - 1 \in Slots /\ slot # Active
        /\ fs' = InstallFile(fs, job.txn, slot)
    BY <1>0, <1>4, <2>1 DEF InstallMove, Change, TypeInv, JobOK, Active
  <2>3. /\ fs'.manifest = fs.manifest
        /\ \A j \in Slots : fs'.log[j] = IF j = slot THEN fs.stage[job.txn][slot - 1] ELSE fs.log[j]
        /\ \A u \in Txns, j \in Slots :
             fs'.stage[u][j] = IF u = job.txn /\ j = slot - 1 THEN NoFile ELSE fs.stage[u][j]
    BY <1>0, <2>1, <2>2, InstallFileFields
  <2>4. fs'.log[Active] = fs.log[Active]
    BY <1>0, <2>2, <2>3 DEF Active
  <2>5. fs.stage[job.txn][slot - 1] \in Nat
    BY <1>0, <2>1, <2>2, FileNumbers
  <2>6. \A j \in Slots : Newer(fs'.log[j], j, files + 1)
    BY <1>0, <2>1, <2>2, <2>3, <2>5 DEF Aged, Newer
  <2>7. fs.log[Active] # NoFile => \A j \in Slots : Newer(fs'.log[j], j, files)
    BY <1>0, <2>1, <2>2, <2>3, <2>5 DEF Aged, Newer
  <2>8. \A u \in Txns, j \in Slots : Newer(fs'.stage[u][j], j, files)
    BY <1>0, <2>1, <2>3 DEF Aged, Newer
  <2>9. fs.log[Active] # NoFile => \A j \in Slots : Newer(fs'.stage[job.txn][j], j, files - 1)
    BY <1>0, <2>1, <2>3 DEF Aged, Newer
  <2> QED BY <1>0, <1>a, <2>1, <2>3, <2>4, <2>6, <2>7, <2>8, <2>9 DEF Aged
<1>5. CASE DropOldest
  <2>1. /\ fs.manifest = job /\ job.txn \in Txns /\ job.max \in Slots /\ job.max \in Limits
        /\ job # NoManifest /\ files' = files
    BY <1>5, AtWork DEF DropOldest, Working, AgeInv, Ordered
  <2>2. /\ fs' = [fs EXCEPT !.stage[job.txn][job.max] = NoFile]
        /\ dropped' = dropped \cup {fs.stage[job.txn][job.max]}
        /\ fs.stage[job.txn][job.max] # NoFile
    BY <1>5 DEF DropOldest, Staged, Change
  <2>3. /\ fs'.manifest = fs.manifest /\ fs'.log = fs.log
        /\ \A u \in Txns, j \in Slots :
              fs'.stage[u][j] = IF u = job.txn /\ j = job.max THEN NoFile ELSE fs.stage[u][j]
    BY <1>0, <2>1, <2>2 DEF Directory
  <2>4. fs.stage[job.txn][job.max] + job.max <= files
    BY <1>0, <2>1, <2>2 DEF Aged, Newer
  <2>5. RetentionHonoured'
    BY <2>1, <2>2, <2>4 DEF AgeInv, RetentionHonoured
  <2>6. \A u \in Txns, j \in Slots : Newer(fs'.stage[u][j], j, files)
    BY <1>0, <2>3 DEF Aged, Newer
  <2>7. fs.log[Active] # NoFile /\ job.phase = "installing" =>
          \A j \in Slots : Newer(fs'.stage[job.txn][j], j, files - 1)
    BY <1>0, <2>1, <2>3 DEF Aged, Newer
  <2> QED BY <1>0, <2>1, <2>3, <2>5, <2>6, <2>7 DEF Aged
<1>6. CASE ClearManifest
  <2>1. /\ fs'.manifest = NoManifest /\ fs'.log = fs.log /\ fs'.stage = fs.stage
        /\ files' = files /\ dropped' = dropped
    BY <1>0, <1>6 DEF ClearManifest, Change, Directory
  <2>2. NoManifest.phase = "none"
    BY DEF NoManifest
  <2> QED BY <1>0, <1>a, <2>1, <2>2 DEF Aged
<1>7. CASE WriteRecord
  <2>1. CASE fs.log[Active] # NoFile
    <3>1. fs' = fs /\ files' = files /\ dropped' = dropped
      BY <1>7, <2>1 DEF WriteRecord
    <3> QED BY <1>0, <1>a, <3>1
  <2>2. CASE fs.log[Active] = NoFile
    <3>1. /\ fs' = [fs EXCEPT !.log[0] = files + 1] /\ files' = files + 1 /\ dropped' = dropped
      BY <1>7, <2>2 DEF WriteRecord, Change, Active
    <3>2. /\ fs'.manifest = fs.manifest /\ fs'.stage = fs.stage
          /\ \A j \in Slots : fs'.log[j] = IF j = 0 THEN files + 1 ELSE fs.log[j]
      BY <1>0, <3>1 DEF Directory
    <3>3. \A j \in Slots : Newer(fs'.log[j], j, files + 1)
      BY <1>0, <3>2 DEF Aged, Newer
    <3>4. \A j \in Slots : Newer(fs'.log[j], j, files + 1 + 1)
      <4>1. \A j \in Slots : fs'.log[j] \in Nat
        BY <1>0, <3>2, FileNumbers
      <4> QED BY <1>0, <3>3, <4>1 DEF Newer
    <3>5. \A u \in Txns, j \in Slots : Newer(fs.stage[u][j], j, files + 1)
      BY <1>0, FileNumbers DEF Aged, Newer
    <3>6. fs.manifest.phase = "installing" =>
            \A j \in Slots : Newer(fs.stage[fs.manifest.txn][j], j, files + 1 - 1)
      <4>1. fs.manifest.phase = "installing" => fs.manifest.txn \in Txns
        BY <1>0, ManifestOrNone DEF Directory, NoManifest
      <4> QED BY <1>0, <4>1 DEF Aged, Newer
    <3>7. Aged(fs', files')
      BY <1>0, <3>1, <3>2, <3>3, <3>4, <3>5, <3>6 DEF Aged
    <3>8. RetentionHonoured'
      <4>1. \A f \in dropped : f \in Nat
        BY BoundsAssumption DEF TypeInv, TypeOK, Files
      <4>2. \A n \in Limits : n \in Nat
        BY SlotsAssumption
      <4> QED BY <1>0, <3>1, <4>1, <4>2 DEF AgeInv, RetentionHonoured
    <3> QED BY <3>7, <3>8
  <2> QED BY <2>1, <2>2
<1>8. CASE ExpireBackup
  <2>1. slot \in Slots /\ slot # 0 /\ files' = files /\ dropped' = dropped
    BY <1>8, SlotsAssumption DEF ExpireBackup, TypeInv, TypeOK, JobOK, Slots
  <2>2. fs' = [fs EXCEPT !.log[slot] = NoFile]
    BY <1>8 DEF ExpireBackup, Change
  <2>3. /\ fs'.manifest = fs.manifest /\ fs'.stage = fs.stage
        /\ \A j \in Slots : fs'.log[j] = IF j = slot THEN NoFile ELSE fs.log[j]
    BY <1>0, <2>1, <2>2 DEF Directory
  <2>4. fs'.log[Active] = fs.log[Active]
    BY <1>0, <2>1, <2>3 DEF Active
  <2>5. \A j \in Slots : Newer(fs'.log[j], j, files + 1)
    BY <1>0, <2>3 DEF Aged, Newer
  <2>6. fs.log[Active] # NoFile \/ fs.manifest.phase = "staging" =>
          \A j \in Slots : Newer(fs'.log[j], j, files)
    BY <1>0, <2>3 DEF Aged, Newer
  <2> QED BY <1>0, <1>a, <2>1, <2>3, <2>4, <2>5, <2>6 DEF Aged
<1> QED BY <1>1, <1>2, <1>3, <1>4, <1>5, <1>6, <1>7, <1>8 DEF Changing

LEMMA OrderedStep ==
  ASSUME TypeInv, AgeInv, Next
  PROVE  Ordered'
<1> USE DEF At, dirVars, taskVars, hostVars, history, budget
<1>0. /\ fs \in Directory /\ Aged(fs, files) /\ slot \in Int /\ slot >= 0 /\ limit \in Limits
      /\ 0 \in Slots
  BY SlotsAssumption DEF TypeInv, TypeOK, AgeInv, Slots
<1>1. CASE Quiet
  <2>1. CASE ReadManifest
    <3>1. fs.manifest # NoManifest /\ fs.manifest.max \in Limits
      BY <1>0, <2>1 DEF ReadManifest, Aged
    <3>2. fs.manifest.phase \in {"staging", "installing"}
      BY <1>0, <3>1, ManifestOrNone DEF Directory
    <3> QED BY <2>1, <3>1, <3>2 DEF ReadManifest, Ordered, Active
  <2>2. CASE BeginRotation
    BY <1>0, <2>2 DEF BeginRotation, NewManifest, Ordered
  <2>3. CASE StagingDone
    <3>1. /\ job \in Manifest /\ job.max \in Nat /\ job.max \in Limits /\ slot > 0
          /\ fs.log[Active] = NoFile
          /\ pc' = "create" /\ fs' = fs /\ job' = [job EXCEPT !.phase = "installing"]
      BY <1>0, <2>3, AtWork DEF StagingDone, AgeInv, Ordered, Working
    <3>2. job'.phase = "installing" /\ job'.max = job.max
      BY <3>1 DEF Manifest
    <3> QED BY <3>1, <3>2 DEF Ordered
  <2>4. CASE StageSkip
    <3>1. slot = 0 \/ slot > 0
      BY <1>0
    <3>2. fs.log[Active] = NoFile
      BY <2>4, <3>1 DEF StageSkip, Here, Active, AgeInv, Ordered
    <3> QED BY <2>4, <3>2 DEF StageSkip, AgeInv, Ordered
  <2>5. CASE Sync \/ InstallSkip \/ InstallingDone \/ NothingToDrop
    BY <2>5 DEF Sync, InstallSkip, InstallingDone, NothingToDrop, AgeInv, Ordered
  <2>6. CASE \/ Open \/ Close \/ BeginAppend \/ IoError \/ NoManifestFound \/ Recovered
             \/ UnexplainedFiles \/ KeepBackup \/ PruneDone \/ NoRotation \/ RotationRefused
             \/ TemporaryExists \/ StageRefuse \/ InstallRefuse \/ Acknowledge
    <3>1. /\ pc' \notin {"stage", "install", "drop", "clear", "create", "publish"}
          /\ job' = job \/ job' = NoManifest
      BY <2>6 DEF Open, Close, BeginAppend, IoError, NoManifestFound, Recovered,
           UnexplainedFiles, KeepBackup, PruneDone, NoRotation, RotationRefused,
           TemporaryExists, StageRefuse, InstallRefuse, Acknowledge, Fail
    <3> QED BY <3>1 DEF AgeInv, Ordered
  <2> QED BY <1>1, <2>1, <2>2, <2>3, <2>4, <2>5, <2>6 DEF Quiet, Recovery, Decide
<1>2. CASE Changing
  <2>1. CASE CreateTemporary
    <3>1. fs'.manifest = fs.manifest /\ fs'.log = fs.log
      BY <1>0, <2>1 DEF CreateTemporary, Change, Directory
    <3> QED BY <2>1, <3>1 DEF CreateTemporary, AgeInv, Ordered
  <2>2. CASE PublishManifest
    <3>1. fs'.manifest = job /\ fs'.log = fs.log
      BY <1>0, <2>2 DEF PublishManifest, Change, Directory
    <3>2. job.phase \in {"staging", "installing"}
      BY <2>2, AtWork DEF PublishManifest, Working
    <3> QED BY <2>2, <3>1, <3>2 DEF PublishManifest, AgeInv, Ordered, Active
  <2>3. CASE StageMove
    <3>1. /\ pc = "stage" /\ fs.manifest = job /\ job.txn \in Txns /\ slot \in 0..job.max
          /\ slot \in Slots
      BY <1>0, <2>3, AtWork DEF StageMove, AgeInv, Ordered, Working
    <3>2. /\ fs'.manifest = fs.manifest
          /\ \A j \in Slots : fs'.log[j] = IF j = slot THEN NoFile ELSE fs.log[j]
      <4>1. fs' = StageFile(fs, job.txn, slot)
        BY <2>3 DEF StageMove, Change
      <4> QED BY <1>0, <3>1, <4>1, StageFileFields
    <3>3. fs'.log[Active] = NoFile
      <4>1. slot = 0 \/ slot > 0
        BY <1>0
      <4> QED BY <1>0, <3>1, <3>2, <4>1 DEF AgeInv, Ordered, Active
    <3> QED BY <2>3, <3>1, <3>2, <3>3 DEF StageMove, AgeInv, Ordered
  <2>4. CASE InstallMove
    <3>1. fs'.manifest = fs.manifest
      BY <1>0, <2>4 DEF InstallMove, InstallFile, Change, Directory
    <3> QED BY <2>4, <3>1 DEF InstallMove, AgeInv, Ordered
  <2>5. CASE DropOldest
    <3>1. fs'.manifest = fs.manifest
      BY <1>0, <2>5 DEF DropOldest, Change, Directory
    <3> QED BY <2>5, <3>1 DEF DropOldest, AgeInv, Ordered
  <2>6. CASE ClearManifest \/ WriteRecord \/ ExpireBackup
    <3>1. /\ pc' \notin {"stage", "install", "drop", "clear", "create", "publish"}
          /\ job' = job \/ job' = NoManifest
      BY <2>6 DEF ClearManifest, WriteRecord, ExpireBackup
    <3> QED BY <3>1 DEF AgeInv, Ordered
  <2> QED BY <1>2, <2>1, <2>2, <2>3, <2>4, <2>5, <2>6 DEF Changing
<1>3. CASE Kill \/ PowerLoss
  BY <1>3 DEF Kill, PowerLoss, Halt, Ordered
<1> QED BY <1>1, <1>2, <1>3, StepKinds

LEMMA AgeStep == TypeInv /\ AgeInv /\ [Next]_vars => AgeInv'
<1> SUFFICES ASSUME TypeInv, AgeInv, Next \/ UNCHANGED vars PROVE AgeInv'
  BY DEF vars
<1>0. fs \in recoverable /\ recoverable \subseteq Directory /\ files \in Nat
  BY BoundsAssumption DEF TypeInv, TypeOK
<1>1. CASE Quiet
  <2>1. files' = files /\ dropped' = dropped /\ recoverable' \subseteq recoverable
    <3>1. CASE Sync \/ Acknowledge
      BY <1>0, <3>1 DEF Sync, Acknowledge, history, dirVars
    <3>2. CASE ~Sync /\ ~Acknowledge
      BY <1>1, <3>2, QuietUnchanged
    <3> QED BY <3>1, <3>2
  <2>2. Ordered'
    BY <1>1, OrderedStep DEF Next, AppendStep, Prune, WriteManifest, Stage, Install, Finish, Write, Quiet
  <2> QED BY <2>1, <2>2 DEF AgeInv, RetentionHonoured
<1>2. CASE Changing
  <2>1. Change(fs')
    BY <1>2, ChangingStep DEF Careful
  <2>2. Aged(fs', files') /\ RetentionHonoured'
    BY <1>2, ChangingAged
  <2>3. files' = files \/ files' = files + 1
    BY <1>2 DEF Changing, CreateTemporary, PublishManifest, StageMove, InstallMove,
                DropOldest, ClearManifest, WriteRecord, ExpireBackup
  <2>4. ASSUME NEW s \in recoverable PROVE Aged(s, files')
    BY <1>0, <2>3, AgedLonger DEF AgeInv
  <2>5. \A s \in recoverable' : Aged(s, files')
    BY <2>1, <2>2, <2>4 DEF Change
  <2>6. Ordered'
    BY <1>2, OrderedStep DEF Next, AppendStep, Prune, WriteManifest, Stage, Install, Finish, Write, Changing
  <2> QED BY <2>2, <2>5, <2>6 DEF AgeInv
<1>3. CASE Kill \/ PowerLoss
  <2>1. files' = files /\ dropped' = dropped /\ recoverable' \subseteq recoverable
    BY <1>3 DEF Kill, PowerLoss, Halt, history, dirVars
  <2>2. Ordered'
    BY <1>3, OrderedStep DEF Next
  <2> QED BY <2>1, <2>2 DEF AgeInv, RetentionHonoured
<1>4. CASE UNCHANGED vars
  BY <1>4 DEF vars, AgeInv, Ordered, RetentionHonoured
<1> QED BY <1>1, <1>2, <1>3, <1>4, StepKinds

LEMMA InitAge == Init => AgeInv
<1> SUFFICES ASSUME Init PROVE AgeInv
  OBVIOUS
<1>1. /\ fs = EmptyDirectory /\ recoverable = {EmptyDirectory} /\ files = 0 /\ dropped = {}
      /\ pc = "down" /\ job = NoManifest
  BY DEF Init
<1>2. Aged(EmptyDirectory, 0)
  BY DEF EmptyDirectory, Aged, Newer, NoManifest
<1> QED BY <1>1, <1>2 DEF AgeInv, Ordered, RetentionHonoured

\* Whatever crashes or fails, a rotation removes a file only after as many newer
\* ones exist as some process was configured to retain.
THEOREM RetentionIsHonoured == Spec => []RetentionHonoured
<1>1. Init => TypeInv /\ AgeInv
  BY InitType, InitAge
<1>2. TypeInv /\ AgeInv /\ [Next]_vars => (TypeInv /\ AgeInv)'
  BY StepType, AgeStep
<1>3. AgeInv => RetentionHonoured
  BY DEF AgeInv
<1> QED BY <1>1, <1>2, <1>3, PTL DEF Spec

-----------------------------------------------------------------------------
(* The order of the files, whatever fails.  A rotation carries a file from   *)
(* log[i] to stage[i] and on to log[i + 1], and only to a place that is      *)
(* empty; so from log[0] over stage[0], log[1], stage[1] ... to the last     *)
(* backup the files are always met from the newest to the oldest, also in a  *)
(* directory two rotations have left half done.  What a rotation that is no  *)
(* longer the manifest's has staged is not read and not in this order.       *)

Above(f, g) == f # NoFile /\ g # NoFile => g < f

Descending(s) ==
  LET staged == s.stage[s.manifest.txn] IN
  /\ \A i, j \in Slots : i < j => Above(s.log[i], s.log[j])
  /\ s.manifest # NoManifest =>
       \A i, j \in Slots :
         /\ i < j => Above(staged[i], staged[j]) /\ Above(staged[i], s.log[j])
         /\ j <= i => Above(s.log[j], staged[i])

Live(s) ==
  ({s.log[i] : i \in Slots}
     \cup {s.stage[t][i] : t \in Txns \cap {s.manifest.txn}, i \in Slots}) \ {NoFile}

Living == UNION {Live(s) : s \in recoverable}

\* A new rotation finds its staging names unused.
Ahead ==
  /\ \A s \in recoverable : s.manifest.txn <= txns /\ \A t \in Txns : t > txns => Unstaged(s, t)
  /\ job.txn <= txns
  /\ pc \in {"create", "publish"} /\ job.phase = "staging" => Unstaged(fs, job.txn)

NewestOnTop == fs.log[Active] # NoFile => \A f \in Living : f <= fs.log[Active]

DescentInv ==
  /\ Owned /\ Ahead /\ NewestOnTop
  /\ \A s \in recoverable : Descending(s)

LEMMA SameDescent ==
  ASSUME NEW s, NEW r, r.log = s.log, r.stage = s.stage, r.manifest = s.manifest
  PROVE  (Descending(s) => Descending(r)) /\ Live(r) = Live(s)
  BY DEF Descending, Live

\* A step that changes the directory keeps the order of its files.
LEMMA ChangingDescends ==
  ASSUME TypeInv, AgeInv, DescentInv, Changing
  PROVE  Descending(fs')
<1> USE DEF At
<1>0. /\ fs \in Directory /\ Descending(fs) /\ Aged(fs, files) /\ files \in Nat
      /\ \A i \in Slots : fs.log[i] \in Nat
      /\ \A t \in Txns, i \in Slots : fs.stage[t][i] \in Nat
      /\ \A i \in Slots : i \in Nat
      /\ NoFile = 0 /\ Active = 0 /\ 0 \in Slots
  BY FileNumbers, SlotsAssumption, BoundsAssumption
     DEF TypeInv, TypeOK, AgeInv, DescentInv, Slots, NoFile, Active
<1>1. CASE CreateTemporary
  <2>1. fs'.manifest = fs.manifest /\ fs'.log = fs.log /\ fs'.stage = fs.stage
    BY <1>0, <1>1 DEF CreateTemporary, Change, Directory
  <2> QED BY <1>0, <2>1, SameDescent
<1>2. CASE PublishManifest
  <2>1. fs'.manifest = job /\ fs'.log = fs.log /\ fs'.stage = fs.stage
    BY <1>0, <1>2 DEF PublishManifest, Change, Directory
  <2>2. job \in Manifest /\ job.txn \in Txns /\ job.phase \in {"staging", "installing"}
    BY <1>2, AtWork DEF PublishManifest, Working
  <2>3. CASE job.phase = "staging"
    <3>1. \A i \in Slots : fs.stage[job.txn][i] = NoFile
      BY <1>2, <2>3 DEF PublishManifest, DescentInv, Ahead, Unstaged
    <3> QED BY <1>0, <2>1, <3>1 DEF Descending, Above
  <2>4. CASE job.phase = "installing"
    <3>1. fs.manifest.txn = job.txn
      BY <1>2, <2>4 DEF PublishManifest, DescentInv, Owned
    <3>2. fs.manifest # NoManifest
      BY <2>2, <3>1 DEF NoManifest, Txns
    <3> QED BY <1>0, <2>1, <3>1, <3>2 DEF Descending
  <2> QED BY <2>2, <2>3, <2>4
<1>3. CASE StageMove
  <2>1. /\ fs.manifest = job /\ job.txn \in Txns /\ job # NoManifest
        /\ job.max \in Nat /\ \A i \in 0..job.max : i \in Slots
    BY <1>3, AtWork DEF StageMove, Working, AgeInv, Ordered
  <2>2. /\ slot \in Slots /\ fs' = StageFile(fs, job.txn, slot)
        /\ fs.log[slot] # NoFile /\ fs.stage[job.txn][slot] = NoFile
    BY <1>3, <2>1 DEF StageMove, Change, Here, Staged, TypeInv, TypeOK
  <2>3. /\ fs'.manifest = fs.manifest
        /\ \A j \in Slots : fs'.log[j] = IF j = slot THEN NoFile ELSE fs.log[j]
        /\ \A j \in Slots :
             fs'.stage[job.txn][j] = IF j = slot THEN fs.log[slot] ELSE fs.stage[job.txn][j]
    BY <1>0, <2>1, <2>2, StageFileFields
  <2> QED BY <1>0, <2>1, <2>2, <2>3 DEF Descending, Above
<1>4. CASE InstallMove
  <2>1. /\ fs.manifest = job /\ job.txn \in Txns /\ job # NoManifest
        /\ job.max \in Nat /\ \A i \in 1..job.max : i \in Backups /\ i \in Slots /\ i - 1 \in Slots
    BY <1>4, AtWork DEF InstallMove, Working, AgeInv, Ordered
  <2>2. /\ slot \in Slots /\ slot - 1 \in Slots /\ slot \in Backups
        /\ fs' = InstallFile(fs, job.txn, slot)
        /\ fs.log[slot] = NoFile /\ fs.stage[job.txn][slot - 1] # NoFile
    BY <1>4, <2>1 DEF InstallMove, Change, Here, Staged, TypeInv, TypeOK, JobOK
  <2>3. /\ fs'.manifest = fs.manifest
        /\ \A j \in Slots : fs'.log[j] = IF j = slot THEN fs.stage[job.txn][slot - 1] ELSE fs.log[j]
        /\ \A j \in Slots :
             fs'.stage[job.txn][j] = IF j = slot - 1 THEN NoFile ELSE fs.stage[job.txn][j]
    BY <1>0, <2>1, <2>2, InstallFileFields
  <2> DEFINE f == fs.stage[job.txn][slot - 1]
  <2>4. \A j \in Slots : (j < slot => Above(fs.log[j], f)) /\ (slot < j => Above(f, fs.log[j]))
    BY <1>0, <2>1, <2>2 DEF Descending
  <2>5. \A i, j \in Slots : i < j => Above(fs'.log[i], fs'.log[j])
    BY <1>0, <2>2, <2>3, <2>4 DEF Descending, Above
  <2>6. ASSUME NEW i \in Slots, NEW j \in Slots
        PROVE  /\ i < j => Above(fs'.stage[job.txn][i], fs'.stage[job.txn][j])
               /\ i < j => Above(fs'.stage[job.txn][i], fs'.log[j])
               /\ j <= i => Above(fs'.log[j], fs'.stage[job.txn][i])
    <3>1. i < j => Above(fs'.stage[job.txn][i], fs'.stage[job.txn][j])
      BY <1>0, <2>1, <2>3 DEF Descending, Above
    <3>2. i < j => Above(fs'.stage[job.txn][i], fs'.log[j])
      BY <1>0, <2>1, <2>2, <2>3 DEF Descending, Above
    <3>3. j <= i => Above(fs'.log[j], fs'.stage[job.txn][i])
      BY <1>0, <2>1, <2>2, <2>3 DEF Descending, Above
    <3> QED BY <3>1, <3>2, <3>3
  <2> QED BY <2>1, <2>3, <2>5, <2>6 DEF Descending
<1>5. CASE DropOldest
  <2>1. fs.manifest = job /\ job.txn \in Txns /\ job.max \in Slots
    BY <1>5, AtWork DEF DropOldest, Working, AgeInv, Ordered
  <2>2. fs' = [fs EXCEPT !.stage[job.txn][job.max] = NoFile]
    BY <1>5 DEF DropOldest, Change
  <2>3. /\ fs'.manifest = fs.manifest /\ fs'.log = fs.log
        /\ \A j \in Slots :
             fs'.stage[job.txn][j] = IF j = job.max THEN NoFile ELSE fs.stage[job.txn][j]
    BY <1>0, <2>1, <2>2 DEF Directory
  <2> QED BY <1>0, <2>1, <2>3 DEF Descending, Above
<1>6. CASE ClearManifest
  <2>1. fs'.manifest = NoManifest /\ fs'.log = fs.log
    BY <1>0, <1>6 DEF ClearManifest, Change, Directory
  <2> QED BY <1>0, <2>1 DEF Descending
<1>7. CASE WriteRecord
  <2>1. CASE fs.log[Active] # NoFile
    BY <1>0, <1>7, <2>1 DEF WriteRecord, dirVars
  <2>2. CASE fs.log[Active] = NoFile
    <3>1. fs' = [fs EXCEPT !.log[0] = files + 1]
      BY <1>7, <2>2 DEF WriteRecord, Change, Active
    <3>2. /\ fs'.manifest = fs.manifest /\ fs'.stage = fs.stage
          /\ \A j \in Slots : fs'.log[j] = IF j = 0 THEN files + 1 ELSE fs.log[j]
      BY <1>0, <3>1 DEF Directory
    <3>3. \A j \in Slots : j # 0 => fs.log[j] < files + 1
      BY <1>0 DEF Aged, Newer
    <3>4. \A t \in Txns, j \in Slots : fs.stage[t][j] < files + 1
      BY <1>0 DEF Aged, Newer
    <3>5. fs.manifest # NoManifest => fs.manifest.txn \in Txns
      BY <1>0, ManifestOrNone, DirectoryFields
    <3> QED BY <1>0, <3>2, <3>3, <3>4, <3>5 DEF Descending, Above
  <2> QED BY <2>1, <2>2
<1>8. CASE ExpireBackup
  <2>1. slot \in Slots
    BY <1>8, SlotsAssumption DEF ExpireBackup, TypeInv, TypeOK, Slots
  <2>2. fs' = [fs EXCEPT !.log[slot] = NoFile]
    BY <1>8 DEF ExpireBackup, Change
  <2>3. /\ fs'.manifest = fs.manifest /\ fs'.stage = fs.stage
        /\ \A j \in Slots : fs'.log[j] = IF j = slot THEN NoFile ELSE fs.log[j]
    BY <1>0, <2>1, <2>2 DEF Directory
  <2> QED BY <1>0, <2>1, <2>3 DEF Descending, Above
<1> QED BY <1>1, <1>2, <1>3, <1>4, <1>5, <1>6, <1>7, <1>8 DEF Changing

LEMMA LiveFiles ==
  ASSUME NEW s \in Directory, NEW n \in Nat, Aged(s, n)
  PROVE  \A f \in Live(s) : f \in Nat /\ f <= n
<1>1. \A i \in Slots : i \in Nat /\ (i = Active \/ i >= 1)
  BY SlotsAssumption DEF Slots, Active
<1>2. ASSUME NEW i \in Slots, s.log[i] # NoFile PROVE s.log[i] <= n
  BY <1>1, <1>2, FileNumbers DEF Aged, Newer, Active
<1>3. ASSUME NEW t \in Txns, NEW i \in Slots, s.stage[t][i] # NoFile PROVE s.stage[t][i] <= n
  BY <1>1, <1>3, FileNumbers DEF Aged, Newer
<1> QED BY <1>2, <1>3, FileNumbers DEF Live

\* A step makes no file live but the one it creates, as the active one.
LEMMA ChangingLive ==
  ASSUME TypeInv, AgeInv, DescentInv, Changing
  PROVE  \/ /\ Live(fs') \subseteq Live(fs) /\ files' = files
            /\ fs'.log[Active] \in {fs.log[Active], NoFile}
         \/ /\ Live(fs') \subseteq Live(fs) \cup {files'} /\ files' = files + 1
            /\ fs'.log[Active] = files' /\ WriteRecord
<1> USE DEF At
<1>0. fs \in Directory /\ 0 \in Slots /\ Active = 0
  BY SlotsAssumption DEF TypeInv, TypeOK, Slots, Active
<1>a. ASSUME NEW r, \A i \in Slots : r.log[i] \in Live(fs) \cup {NoFile},
             \A t \in Txns \cap {r.manifest.txn}, i \in Slots : r.stage[t][i] \in Live(fs) \cup {NoFile}
      PROVE  Live(r) \subseteq Live(fs)
  BY <1>a DEF Live
<1>b. /\ \A i \in Slots : fs.log[i] \in Live(fs) \cup {NoFile}
      /\ \A t \in Txns \cap {fs.manifest.txn}, i \in Slots : fs.stage[t][i] \in Live(fs) \cup {NoFile}
  BY DEF Live
<1>1. CASE CreateTemporary
  <2>1. fs'.manifest = fs.manifest /\ fs'.log = fs.log /\ fs'.stage = fs.stage /\ files' = files
    BY <1>0, <1>1 DEF CreateTemporary, Change, Directory
  <2> QED BY <2>1, SameDescent
<1>2. CASE PublishManifest
  <2>1. fs'.manifest = job /\ fs'.log = fs.log /\ fs'.stage = fs.stage /\ files' = files
    BY <1>0, <1>2 DEF PublishManifest, Change, Directory
  <2>2. job.phase \in {"staging", "installing"}
    BY <1>2, AtWork DEF PublishManifest, Working
  <2>3. \/ \A i \in Slots : fs.stage[job.txn][i] = NoFile
        \/ job.txn = fs.manifest.txn
    BY <1>2, <2>2 DEF PublishManifest, DescentInv, Ahead, Unstaged, Owned
  <2>4. \A t \in Txns \cap {job.txn}, i \in Slots : fs.stage[t][i] \in Live(fs) \cup {NoFile}
    BY <1>b, <2>3
  <2>5. Live(fs') \subseteq Live(fs)
    BY <1>a, <1>b, <2>1, <2>4
  <2> QED BY <2>1, <2>5
<1>3. CASE StageMove
  <2>1. /\ fs.manifest = job /\ job.txn \in Txns /\ \A i \in 0..job.max : i \in Slots
        /\ job.max \in Nat /\ files' = files
    BY <1>3, AtWork DEF StageMove, Working, AgeInv, Ordered
  <2>2. slot \in Slots /\ fs' = StageFile(fs, job.txn, slot)
    BY <1>3, <2>1 DEF StageMove, Change, TypeInv, TypeOK
  <2>3. /\ fs'.manifest = fs.manifest
        /\ \A j \in Slots : fs'.log[j] = IF j = slot THEN NoFile ELSE fs.log[j]
        /\ \A t \in Txns, j \in Slots :
             fs'.stage[t][j] = IF t = job.txn /\ j = slot THEN fs.log[slot] ELSE fs.stage[t][j]
    BY <1>0, <2>1, <2>2, StageFileFields
  <2>4. \A t \in Txns \cap {fs'.manifest.txn}, i \in Slots : fs'.stage[t][i] \in Live(fs) \cup {NoFile}
    BY <1>b, <2>2, <2>3
  <2>5. \A i \in Slots : fs'.log[i] \in Live(fs) \cup {NoFile}
    BY <1>b, <2>3
  <2>6. Live(fs') \subseteq Live(fs)
    BY <1>a, <2>4, <2>5
  <2> QED BY <1>0, <2>1, <2>3, <2>6
<1>4. CASE InstallMove
  <2>1. /\ fs.manifest = job /\ job.txn \in Txns /\ job.max \in Nat /\ files' = files
        /\ \A i \in 1..job.max : i \in Backups /\ i \in Slots /\ i - 1 \in Slots
    BY <1>4, AtWork DEF InstallMove, Working, AgeInv, Ordered
  <2>2. /\ slot \in Slots /\ slot - 1 \in Slots /\ slot \in Backups /\ slot # 0
        /\ fs' = InstallFile(fs, job.txn, slot)
    BY <1>4, <2>1 DEF InstallMove, Change, TypeInv, TypeOK, JobOK
  <2>3. /\ fs'.manifest = fs.manifest
        /\ \A j \in Slots : fs'.log[j] = IF j = slot THEN fs.stage[job.txn][slot - 1] ELSE fs.log[j]
        /\ \A t \in Txns, j \in Slots :
             fs'.stage[t][j] = IF t = job.txn /\ j = slot - 1 THEN NoFile ELSE fs.stage[t][j]
    BY <1>0, <2>1, <2>2, InstallFileFields
  <2>4. \A t \in Txns \cap {fs'.manifest.txn}, i \in Slots : fs'.stage[t][i] \in Live(fs) \cup {NoFile}
    BY <1>b, <2>3
  <2>5. \A i \in Slots : fs'.log[i] \in Live(fs) \cup {NoFile}
    BY <1>b, <2>1, <2>2, <2>3
  <2>6. Live(fs') \subseteq Live(fs)
    BY <1>a, <2>4, <2>5
  <2> QED BY <1>0, <2>1, <2>2, <2>3, <2>6
<1>5. CASE DropOldest
  <2>1. job.txn \in Txns /\ job.max \in Slots /\ files' = files
    BY <1>5, AtWork DEF DropOldest, Working
  <2>2. fs' = [fs EXCEPT !.stage[job.txn][job.max] = NoFile]
    BY <1>5 DEF DropOldest, Change
  <2>3. /\ fs'.manifest = fs.manifest /\ fs'.log = fs.log
        /\ \A t \in Txns, j \in Slots :
             fs'.stage[t][j] = IF t = job.txn /\ j = job.max THEN NoFile ELSE fs.stage[t][j]
    BY <1>0, <2>1, <2>2 DEF Directory
  <2>4. Live(fs') \subseteq Live(fs)
    BY <1>a, <1>b, <2>3
  <2> QED BY <2>1, <2>3, <2>4
<1>6. CASE ClearManifest
  <2>1. fs'.manifest = NoManifest /\ fs'.log = fs.log /\ files' = files
    BY <1>0, <1>6 DEF ClearManifest, Change, Directory
  <2>2. Txns \cap {fs'.manifest.txn} = {}
    BY <2>1 DEF Txns, NoManifest
  <2>3. Live(fs') \subseteq Live(fs)
    BY <1>a, <1>b, <2>1, <2>2
  <2> QED BY <2>1, <2>3
<1>7. CASE WriteRecord
  <2>1. CASE fs.log[Active] # NoFile
    BY <1>7, <2>1 DEF WriteRecord, dirVars
  <2>2. CASE fs.log[Active] = NoFile
    <3>1. fs' = [fs EXCEPT !.log[0] = files + 1] /\ files' = files + 1
      BY <1>7, <2>2 DEF WriteRecord, Change, Active
    <3>2. /\ fs'.manifest = fs.manifest /\ fs'.stage = fs.stage
          /\ \A j \in Slots : fs'.log[j] = IF j = 0 THEN files + 1 ELSE fs.log[j]
      BY <1>0, <3>1 DEF Directory
    <3>3. Live(fs') \subseteq Live(fs) \cup {files'}
      BY <3>1, <3>2 DEF Live
    <3> QED BY <1>0, <1>7, <3>1, <3>2, <3>3
  <2> QED BY <2>1, <2>2
<1>8. CASE ExpireBackup
  <2>1. slot \in Slots /\ files' = files
    BY <1>8, SlotsAssumption DEF ExpireBackup, TypeInv, TypeOK, Slots
  <2>2. fs' = [fs EXCEPT !.log[slot] = NoFile]
    BY <1>8 DEF ExpireBackup, Change
  <2>3. /\ fs'.manifest = fs.manifest /\ fs'.stage = fs.stage
        /\ \A j \in Slots : fs'.log[j] = IF j = slot THEN NoFile ELSE fs.log[j]
    BY <1>0, <2>1, <2>2 DEF Directory
  <2>4. Live(fs') \subseteq Live(fs)
    BY <1>a, <1>b, <2>3
  <2> QED BY <1>0, <2>1, <2>3, <2>4
<1> QED BY <1>1, <1>2, <1>3, <1>4, <1>5, <1>6, <1>7, <1>8 DEF Changing

\* What the job is taken from, and the place it is taken to.
LEMMA AheadStep ==
  ASSUME TypeInv, AgeInv, DescentInv, Next
  PROVE  Ahead'
<1> USE DEF At, dirVars, taskVars, hostVars, history, budget
<1>0. /\ fs \in recoverable /\ recoverable \subseteq Directory /\ txns \in Nat /\ fs \in Directory
      /\ \A t \in Txns : t \in Nat
      /\ NoManifest.txn = 0
  BY BoundsAssumption DEF TypeInv, TypeOK, Txns, NoManifest
<1>1. CASE Quiet
  <2>1. recoverable' \subseteq recoverable /\ fs' = fs
    <3>1. CASE Sync \/ Acknowledge
      BY <1>0, <3>1 DEF Sync, Acknowledge
    <3>2. CASE ~Sync /\ ~Acknowledge
      BY <1>1, <3>2, QuietUnchanged
    <3> QED BY <3>1, <3>2
  <2>2. CASE BeginRotation
    <3>1. /\ job'.txn = txns + 1 /\ txns' = txns + 1 /\ txns + 1 \in Txns /\ recoverable' = recoverable
      BY <1>0, <2>2, BoundsAssumption DEF BeginRotation, NewManifest, Txns
    <3>2. Unstaged(fs, txns + 1)
      BY <1>0, <3>1 DEF DescentInv, Ahead
    <3>3. ASSUME NEW s \in recoverable
          PROVE  s.manifest.txn <= txns + 1 /\ \A t \in Txns : t > txns + 1 => Unstaged(s, t)
      <4>1. s.manifest.txn \in Nat
        BY <1>0, ManifestOrNone, DirectoryFields DEF Txns
      <4> QED BY <1>0, <4>1 DEF DescentInv, Ahead
    <3> QED BY <1>0, <2>1, <3>1, <3>2, <3>3 DEF Ahead
  <2>3. CASE ~BeginRotation
    <3>1. txns' = txns
      BY <1>1, <2>3 DEF Quiet, Open, Close, BeginAppend, Sync, IoError, Recovery, ReadManifest,
           NoManifestFound, Recovered, UnexplainedFiles, KeepBackup, PruneDone, Decide, NoRotation,
           RotationRefused, TemporaryExists, StageSkip, StageRefuse, StagingDone, InstallSkip,
           InstallRefuse, InstallingDone, NothingToDrop, Acknowledge, Fail
    <3>2. CASE ReadManifest
      BY <1>0, <2>1, <3>1, <3>2 DEF ReadManifest, DescentInv, Ahead
    <3>3. CASE StagingDone
      <4>1. job \in Manifest
        BY <3>3, AtWork DEF StagingDone, Working
      <4>2. job'.txn = job.txn /\ job'.phase = "installing"
        BY <3>3, <4>1 DEF StagingDone, Manifest
      <4> QED BY <2>1, <3>1, <4>2 DEF DescentInv, Ahead
    <3>4. CASE ~ReadManifest /\ ~StagingDone
      <4>1. job' \in {job, NoManifest}
        BY <1>1, <2>3, <3>4 DEF Quiet, Open, Close, BeginAppend, Sync, IoError, Recovery,
           NoManifestFound, Recovered, UnexplainedFiles, KeepBackup, PruneDone, Decide, NoRotation,
           RotationRefused, TemporaryExists, StageSkip, StageRefuse, InstallSkip,
           InstallRefuse, InstallingDone, NothingToDrop, Acknowledge, Fail
      <4>2. pc' \in {"create", "publish"} => pc' = pc /\ job' = job
        BY <1>1, <2>3, <3>4 DEF Quiet, Open, Close, BeginAppend, Sync, IoError, Recovery,
           NoManifestFound, Recovered, UnexplainedFiles, KeepBackup, PruneDone, Decide, NoRotation,
           RotationRefused, TemporaryExists, StageSkip, StageRefuse, InstallSkip,
           InstallRefuse, InstallingDone, NothingToDrop, Acknowledge, Fail
      <4> QED BY <1>0, <2>1, <3>1, <4>1, <4>2 DEF DescentInv, Ahead
    <3> QED BY <3>2, <3>3, <3>4
  <2> QED BY <2>2, <2>3
<1>2. CASE Changing
  <2>1. Change(fs') /\ fs' \in Directory /\ txns' = txns
    BY <1>2, ChangingStep DEF Careful, Changing, CreateTemporary, PublishManifest, StageMove,
         InstallMove, DropOldest, ClearManifest, WriteRecord, ExpireBackup
  <2>2. job' \in {job, NoManifest} /\ (pc' \in {"create", "publish"} => CreateTemporary)
    BY <1>2 DEF Changing, CreateTemporary, PublishManifest, StageMove,
         InstallMove, DropOldest, ClearManifest, WriteRecord, ExpireBackup
  <2>3. pc \in Working => job.txn \in Txns /\ job.txn <= txns /\ \A i \in 0..job.max : i \in Slots
    BY AtWork DEF DescentInv, Ahead
  <2>4. fs'.manifest.txn <= txns /\ \A t \in Txns : t > txns => Unstaged(fs', t)
    <3>1. fs'.manifest \in {fs.manifest, job, NoManifest}
      BY <1>0, <1>2 DEF Changing, CreateTemporary, PublishManifest, StageMove, StageFile,
         InstallMove, InstallFile, DropOldest, ClearManifest, WriteRecord, ExpireBackup, Change, Directory
    <3>2. \A t \in Txns : t # job.txn \/ pc \notin Working => fs'.stage[t] = fs.stage[t]
      <4>1. CASE \/ CreateTemporary \/ PublishManifest \/ ClearManifest \/ WriteRecord \/ ExpireBackup
        BY <1>0, <4>1 DEF CreateTemporary, PublishManifest, ClearManifest, WriteRecord,
                          ExpireBackup, Change, Directory
      <4>2. CASE StageMove
        BY <1>0, <4>2 DEF StageMove, StageFile, Working, Change, Directory
      <4>3. CASE InstallMove
        BY <1>0, <4>3 DEF InstallMove, InstallFile, Working, Change, Directory
      <4>4. CASE DropOldest
        BY <1>0, <4>4 DEF DropOldest, Working, Change, Directory
      <4> QED BY <1>2, <4>1, <4>2, <4>3, <4>4 DEF Changing
    <3> QED BY <1>0, <2>3, <3>1, <3>2 DEF DescentInv, Ahead, Unstaged
  <2>5. CreateTemporary => fs'.stage = fs.stage /\ pc = "create" /\ job' = job
    BY <1>0 DEF CreateTemporary, Change, Directory
  <2>6. \A s \in recoverable' : s.manifest.txn <= txns /\ \A t \in Txns : t > txns => Unstaged(s, t)
    BY <2>1, <2>4 DEF Change, DescentInv, Ahead
  <2> QED BY <1>0, <2>1, <2>2, <2>5, <2>6 DEF DescentInv, Ahead, Unstaged
<1>3. CASE Kill \/ PowerLoss
  <2>1. /\ recoverable' \subseteq recoverable /\ txns' = txns /\ job' = NoManifest /\ pc' = "down"
    BY <1>0, <1>3 DEF Kill, PowerLoss, Halt
  <2> QED BY <1>0, <2>1 DEF DescentInv, Ahead
<1> QED BY <1>1, <1>2, <1>3, StepKinds

LEMMA DescentStep == TypeInv /\ AgeInv /\ DescentInv /\ [Next]_vars => DescentInv'
<1> SUFFICES ASSUME TypeInv, AgeInv, DescentInv, [Next]_vars PROVE DescentInv'
  OBVIOUS
<1>0. /\ fs \in recoverable /\ recoverable \subseteq Directory /\ files \in Nat
      /\ 0 \in Slots /\ Active = 0 /\ NoFile = 0
  BY BoundsAssumption, SlotsAssumption DEF TypeInv, TypeOK, Slots, Active, NoFile
<1>1. Owned'
  BY OwnedStep DEF DescentInv
<1>2. ASSUME recoverable' \subseteq recoverable, fs'.log[Active] = fs.log[Active]
      PROVE  NewestOnTop' /\ \A s \in recoverable' : Descending(s)
  BY <1>2 DEF DescentInv, NewestOnTop, Living
<1>3. CASE Quiet
  <2>1. recoverable' \subseteq recoverable /\ fs' = fs
    <3>1. CASE Sync \/ Acknowledge
      BY <1>0, <3>1 DEF Sync, Acknowledge, dirVars
    <3>2. CASE ~Sync /\ ~Acknowledge
      BY <1>3, <3>2, QuietUnchanged
    <3> QED BY <3>1, <3>2
  <2>2. Ahead'
    BY <1>3, AheadStep DEF Next, AppendStep, Prune, WriteManifest, Stage, Install, Finish, Write, Quiet
  <2> QED BY <1>1, <1>2, <2>1, <2>2 DEF DescentInv
<1>4. CASE Changing
  <2>1. recoverable' = recoverable \cup {fs'}
    BY <1>4, ChangingStep DEF Careful, Change
  <2>2. Ahead'
    BY <1>4, AheadStep DEF Next, AppendStep, Prune, WriteManifest, Stage, Install, Finish, Write, Changing
  <2>3. \A s \in recoverable' : Descending(s)
    BY <1>4, <2>1, ChangingDescends DEF DescentInv
  <2>4. Living' = Living \cup Live(fs') /\ Live(fs) \subseteq Living
    BY <1>0, <2>1 DEF Living
  <2>5. \A f \in Living : f \in Nat /\ f <= files
    BY <1>0, LiveFiles DEF Living, AgeInv
  <2>6. NewestOnTop'
    BY <1>0, <1>4, <2>4, <2>5, ChangingLive DEF DescentInv, NewestOnTop
  <2> QED BY <1>1, <2>2, <2>3, <2>6 DEF DescentInv
<1>5. CASE Kill \/ PowerLoss
  <2>1. Ahead'
    BY <1>5, AheadStep DEF Next
  <2>2. CASE Kill
    BY <1>1, <1>2, <2>1, <2>2 DEF Kill, Halt, dirVars, DescentInv
  <2>3. CASE PowerLoss
    <3>1. fs' \in recoverable /\ recoverable' = {fs'} /\ Descending(fs') /\ fs' \in Directory
      BY <1>0, <2>3 DEF PowerLoss, DescentInv
    <3>2. Living' = Live(fs')
      BY <3>1 DEF Living
    <3>3. \A i \in Slots : i \in Nat /\ (i = 0 \/ 0 < i) /\ 0 <= i
      BY SlotsAssumption DEF Slots
    <3>4. \A t \in Txns \cap {fs'.manifest.txn} : fs'.manifest # NoManifest /\ t = fs'.manifest.txn
      BY DEF NoManifest, Txns
    <3>5. ASSUME fs'.log[Active] # NoFile, NEW f \in Live(fs') PROVE f <= fs'.log[Active]
      <4>0. fs'.log[0] \in Nat
        BY <1>0, <3>1, FileNumbers
      <4>1. CASE \E i \in Slots : f = fs'.log[i]
        BY <1>0, <3>1, <3>3, <3>5, <4>0, <4>1, FileNumbers DEF Descending, Above, Live
      <4>2. CASE \E t \in Txns \cap {fs'.manifest.txn}, i \in Slots : f = fs'.stage[t][i]
        BY <1>0, <3>1, <3>3, <3>4, <3>5, <4>0, <4>2, FileNumbers DEF Descending, Above, Live
      <4> QED BY <4>1, <4>2 DEF Live
    <3>6. NewestOnTop'
      BY <3>2, <3>5 DEF NewestOnTop
    <3> QED BY <1>1, <2>1, <3>1, <3>6 DEF DescentInv
  <2> QED BY <1>5, <2>2, <2>3
<1>6. CASE UNCHANGED vars
  BY <1>6 DEF vars, DescentInv, Owned, Ahead, NewestOnTop, Living
<1> QED BY <1>3, <1>4, <1>5, <1>6, StepKinds

LEMMA InitDescent == Init => DescentInv
<1> SUFFICES ASSUME Init PROVE DescentInv
  OBVIOUS
<1>1. /\ fs = EmptyDirectory /\ recoverable = {EmptyDirectory} /\ txns = 0
      /\ pc = "down" /\ job = NoManifest
  BY DEF Init
<1>2. Descending(EmptyDirectory) /\ \A t \in Txns : Unstaged(EmptyDirectory, t)
  BY DEF EmptyDirectory, Descending, Above, Unstaged
<1>3. EmptyDirectory.manifest.txn = 0 /\ EmptyDirectory.log[Active] = NoFile
  BY SlotsAssumption DEF EmptyDirectory, NoManifest, Slots, Active
<1> QED BY <1>1, <1>2, <1>3 DEF DescentInv, Owned, Ahead, NewestOnTop, NoManifest

\* Where the file of a slot of the layout is found.
LEMMA LogicalPlace ==
  ASSUME NEW s \in Directory, NEW i \in Slots, Logical(s)[i] # NoFile
  PROVE  \/ /\ Logical(s)[i] = s.log[i]
            /\ s.manifest.phase = "staging" => i > s.manifest.max /\ i # Active
         \/ /\ i \in 1..s.manifest.max /\ i - 1 \in Slots /\ s.manifest.txn \in Txns
            /\ s.manifest # NoManifest
            /\ Logical(s)[i] \in {s.log[i - 1], s.stage[s.manifest.txn][i - 1]}
            /\ s.manifest.phase # "staging" => Logical(s)[i] = s.stage[s.manifest.txn][i - 1]
<1>1. s.manifest.max \in Nat /\ i \in Nat /\ Active = 0
  BY MaxIsNatural, SlotsAssumption DEF Slots, Active
<1>2. i \in 1..s.manifest.max => s.manifest # NoManifest
  BY DEF NoManifest
<1>3. i \in 1..s.manifest.max => s.manifest.txn \in Txns /\ i - 1 \in Slots
  BY <1>2, ManifestOrNone, DirectoryFields
<1> QED BY <1>1, <1>2, <1>3, LogicalEntry DEF Source

\* So a reader who goes from the oldest backup to the active file reads the
\* files in the order in which they were made, also before recovery.
LEMMA LogicalDescends ==
  ASSUME NEW s \in Directory, Descending(s)
  PROVE  /\ \A i, j \in Slots : i < j => Above(Logical(s)[i], Logical(s)[j])
         /\ \A i \in Slots : Logical(s)[i] # NoFile => Logical(s)[i] \in Live(s)
         /\ Logical(s)[Active] # NoFile => Logical(s)[Active] = s.log[Active]
<1>0. \A i \in Slots : i \in Nat
  BY SlotsAssumption DEF Slots
<1>1. ASSUME NEW i \in Slots, NEW j \in Slots, i < j, Logical(s)[i] # NoFile, Logical(s)[j] # NoFile
      PROVE  Logical(s)[j] < Logical(s)[i]
  <2>0. s.manifest.max \in Nat
    BY MaxIsNatural
  <2>1. CASE /\ Logical(s)[i] = s.log[i]
             /\ s.manifest.phase = "staging" => i > s.manifest.max /\ i # Active
    <3>1. CASE Logical(s)[j] = s.log[j]
      BY <1>1, <2>1, <3>1 DEF Descending, Above
    <3>2. CASE /\ j \in 1..s.manifest.max /\ j - 1 \in Slots /\ s.manifest # NoManifest
               /\ Logical(s)[j] \in {s.log[j - 1], s.stage[s.manifest.txn][j - 1]}
               /\ s.manifest.phase # "staging" => Logical(s)[j] = s.stage[s.manifest.txn][j - 1]
      <4>1. i \in Nat /\ j \in Nat
        BY <1>0
      <4>2. i <= j - 1 /\ ~(i > s.manifest.max)
        BY <1>1, <2>0, <3>2, <4>1
      <4>3. s.manifest.phase # "staging"
        BY <2>1, <4>2
      <4> QED BY <1>1, <2>1, <3>2, <4>2, <4>3 DEF Descending, Above
    <3> QED BY <1>1, <3>1, <3>2, LogicalPlace
  <2>2. CASE /\ i \in 1..s.manifest.max /\ i - 1 \in Slots /\ s.manifest # NoManifest
             /\ Logical(s)[i] \in {s.log[i - 1], s.stage[s.manifest.txn][i - 1]}
    <3>1. CASE Logical(s)[j] = s.log[j]
      <4>1. i - 1 < j
        BY <1>0, <1>1
      <4> QED BY <1>1, <2>2, <3>1, <4>1 DEF Descending, Above
    <3>2. CASE /\ j - 1 \in Slots
               /\ Logical(s)[j] \in {s.log[j - 1], s.stage[s.manifest.txn][j - 1]}
      <4>1. i - 1 < j - 1 /\ i - 1 <= j - 1
        BY <1>0, <1>1
      <4> QED BY <1>1, <2>2, <3>2, <4>1 DEF Descending, Above
    <3> QED BY <1>1, <3>1, <3>2, LogicalPlace
  <2> QED BY <1>1, <2>1, <2>2, LogicalPlace
<1>2. ASSUME NEW i \in Slots, Logical(s)[i] # NoFile PROVE Logical(s)[i] \in Live(s)
  BY <1>2, LogicalPlace DEF Live
<1>3. ASSUME Logical(s)[Active] # NoFile PROVE Logical(s)[Active] = s.log[Active]
  <2>1. Active \in Slots /\ Active \notin 1..s.manifest.max
    BY MaxIsNatural, SlotsAssumption DEF Slots, Active
  <2> QED BY <1>3, <2>1, LogicalPlace
<1> QED BY <1>1, <1>2, <1>3 DEF Above
=============================================================================
