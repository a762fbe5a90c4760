------------------------------ MODULE Rotation ------------------------------
(***************************************************************************)
(* The rotation transaction of the durable audit log (src/src/audit.rs and *)
(* src/src/hp_guard/audit.py): the manifest, the staging names, the        *)
(* directory syncs, and the recovery an opening process runs.  One process *)
(* holds the lease; files are opaque and numbered in order of creation,    *)
(* so a larger number is a newer file.  What the files contain, and when a *)
(* rotation or a pruning is due, is decided in module AuditLog; here every *)
(* decision is possible.                                                   *)
(*                                                                         *)
(* Slot 0 is the active file and slot i the backup i.  A rename or removal *)
(* is visible at once and durable after the next sync_parent; a power loss *)
(* leaves the directory after some prefix of the unsynced operations.      *)
(***************************************************************************)
EXTENDS Integers, FiniteSets

CONSTANTS MaxSlots,    \* the largest backup index any process is configured with
          Limits,      \* the values of max_rotated_files processes run with
          Runtimes,    \* the runtimes that open the log
          MaxTxns,     \* bound: rotations begun
          MaxFiles,    \* bound: active files created
          MaxCrashes,  \* bound: kills and power losses
          MaxFaults    \* bound: file-system calls that return an error

ASSUME SlotsAssumption == MaxSlots \in Nat \ {0} /\ Limits \subseteq 1..MaxSlots
ASSUME RuntimesAssumption == Runtimes \subseteq {"rust", "python"}
ASSUME BoundsAssumption ==
  MaxTxns \in Nat /\ MaxFiles \in Nat /\ MaxCrashes \in Nat /\ MaxFaults \in Nat

NoFile == 0
Active == 0
Backups == 1..MaxSlots
Slots == 0..MaxSlots
Files == 1..MaxFiles
Txns == 1..MaxTxns
FileOrNone == Files \cup {NoFile}

NoManifest == [txn |-> 0, phase |-> "none", max |-> 0, present |-> {}]

Manifest == [txn : Txns, phase : {"staging", "installing"},
             max : Backups, present : SUBSET Backups]

Directory == [log      : [Slots -> FileOrNone],
              stage    : [Txns -> [Slots -> FileOrNone]],
              manifest : Manifest \cup {NoManifest},
              tmp      : SUBSET Txns]

EmptyDirectory == [log      |-> [i \in Slots |-> NoFile],
                   stage    |-> [t \in Txns |-> [i \in Slots |-> NoFile]],
                   manifest |-> NoManifest,
                   tmp      |-> {}]

Locations == {"down", "idle", "recover", "scan", "prune", "decide", "create",
              "publish", "stage", "install", "drop", "clear", "reprune",
              "write", "ack"}

\* "corrupt" is for what module AuditLog adds: the contents of the files.
Outcomes == {"none", "ok", "io", "refused", "corrupt"}

VARIABLES
  fs,           \* the directory as processes see it
  recoverable,  \* the directories a power loss may leave
  pc,           \* where the lease holder is in append
  syncing,      \* a sync_parent is due before the next step
  job,          \* the manifest the lease holder works on
  slot,         \* its loop index
  limit,        \* its max_rotated_files
  runtime,      \* the runtime it is written in
  recovered,    \* its recovery_complete
  outcome,      \* how the last append ended
  txns,         \* rotations begun so far
  files,        \* files created so far
  kept,         \* history: files that hold a record whose append succeeded
  dropped,      \* history: files removed because a rotation pushed them out
  expired,      \* history: files removed by age pruning
  crashes, faults

dirVars == <<fs, recoverable>>
taskVars == <<job, slot>>
hostVars == <<limit, runtime>>
history == <<kept, dropped, expired>>
budget == <<crashes, faults>>
vars == <<fs, recoverable, pc, syncing, job, slot, limit, runtime, recovered,
          outcome, txns, files, kept, dropped, expired, crashes, faults>>

-----------------------------------------------------------------------------
(* Directories and the operations on them. *)

Held(s) == {s.log[i] : i \in Slots} \cup {s.stage[t][i] : t \in Txns, i \in Slots}

Expected(m, i) == i = Active \/ i \in m.present

StageFile(s, t, i) == [s EXCEPT !.stage[t][i] = s.log[i], !.log[i] = NoFile]

InstallFile(s, t, i) == [s EXCEPT !.log[i] = s.stage[t][i - 1], !.stage[t][i - 1] = NoFile]

Leftovers(s) == s.tmp # {} \/ \E t \in Txns, i \in Slots : s.stage[t][i] # NoFile

\* A change is visible at once; the directory before it may still be what a
\* power loss leaves.
Change(s) == fs' = s /\ recoverable' = recoverable \cup {s}

-----------------------------------------------------------------------------
Init ==
  /\ fs = EmptyDirectory
  /\ recoverable = {EmptyDirectory}
  /\ pc = "down" /\ syncing = FALSE
  /\ job = NoManifest /\ slot = 0
  /\ limit \in Limits /\ runtime \in Runtimes
  /\ recovered = FALSE /\ outcome = "none"
  /\ txns = 0 /\ files = 0
  /\ kept = {} /\ dropped = {} /\ expired = {}
  /\ crashes = 0 /\ faults = 0

\* A process opens the log and holds the lease until it closes or dies.
Open ==
  /\ pc = "down"
  /\ pc' = "idle" /\ recovered' = FALSE /\ outcome' = "none"
  /\ limit' \in Limits /\ runtime' \in Runtimes
  /\ UNCHANGED <<dirVars, syncing, taskVars, txns, files, history, budget>>

Close ==
  /\ pc = "idle"
  /\ pc' = "down" /\ recovered' = FALSE /\ outcome' = "none"
  /\ UNCHANGED <<dirVars, syncing, taskVars, hostVars, txns, files, history, budget>>

\* append enters ensure_ready, which recovers the log on its first success.
\* MaxFiles leaves room for the file this append may have to create.
BeginAppend ==
  /\ pc = "idle" /\ files < MaxFiles
  /\ pc' = IF recovered THEN "prune" ELSE "recover"
  /\ slot' = 1 /\ outcome' = "none"
  /\ UNCHANGED <<dirVars, syncing, job, hostVars, recovered, txns, files, history, budget>>

\* Mutant of Sync: sync_parent is forgotten.
SyncForgotten ==
  /\ syncing
  /\ syncing' = FALSE
  /\ UNCHANGED <<dirVars, pc, taskVars, hostVars, recovered, outcome, txns, files, history, budget>>

\* sync_parent: what processes see is now durable.
Sync ==
  /\ syncing
  /\ syncing' = FALSE /\ recoverable' = {fs}
  /\ UNCHANGED <<fs, pc, taskVars, hostVars, recovered, outcome, txns, files, history, budget>>

\* The append returns an error; the process stays up.
Fail(error) ==
  /\ pc' = "idle" /\ outcome' = error /\ syncing' = FALSE
  /\ job' = NoManifest /\ slot' = 0
  /\ UNCHANGED <<dirVars, hostVars, recovered, txns, files, history>>

\* A file-system call returns an error: an operation that then did not happen,
\* or the sync after an operation that did.
IoError ==
  /\ pc \notin {"down", "idle"} /\ (pc = "ack" => syncing)
  /\ faults < MaxFaults
  /\ faults' = faults + 1 /\ Fail("io") /\ UNCHANGED crashes

-----------------------------------------------------------------------------
(* recover_tails: complete a manifest, then refuse what it does not explain. *)

At(location) == pc = location /\ ~syncing

\* Mutant of ReadManifest: recovery forgets that files may still need staging.
ReadManifestNoStaging ==
  /\ At("recover") /\ fs.manifest # NoManifest
  /\ job' = fs.manifest
  /\ pc' = "install" /\ slot' = 1
  /\ UNCHANGED <<dirVars, syncing, hostVars, recovered, outcome, txns, files, history, budget>>

ReadManifest ==
  /\ At("recover") /\ fs.manifest # NoManifest
  /\ job' = fs.manifest
  /\ pc' = (IF fs.manifest.phase = "staging" THEN "stage" ELSE "install")
  /\ slot' = (IF fs.manifest.phase = "staging" THEN Active ELSE 1)
  /\ UNCHANGED <<dirVars, syncing, hostVars, recovered, outcome, txns, files, history, budget>>

\* Mutant of NoManifestFound: a manifest may be overlooked.
ManifestOverlooked ==
  /\ At("recover")
  /\ pc' = "scan" /\ slot' = 0
  /\ UNCHANGED <<dirVars, syncing, job, hostVars, recovered, outcome, txns, files, history, budget>>

NoManifestFound ==
  /\ At("recover") /\ fs.manifest = NoManifest
  /\ pc' = "scan" /\ slot' = 0
  /\ UNCHANGED <<dirVars, syncing, job, hostVars, recovered, outcome, txns, files, history, budget>>

Recovered ==
  /\ At("scan") /\ ~Leftovers(fs)
  /\ recovered' = TRUE /\ pc' = "prune" /\ slot' = 1
  /\ UNCHANGED <<dirVars, syncing, job, hostVars, outcome, txns, files, history, budget>>

UnexplainedFiles ==
  /\ At("scan") /\ Leftovers(fs)
  /\ Fail("refused") /\ UNCHANGED budget

-----------------------------------------------------------------------------
(* prune_expired_backups: called before the rotation and again after it. *)

ExpireBackup ==
  /\ pc \in {"prune", "reprune"} /\ ~syncing
  /\ slot <= limit /\ fs.log[slot] # NoFile
  /\ Change([fs EXCEPT !.log[slot] = NoFile])
  /\ syncing' = TRUE /\ slot' = slot + 1
  /\ expired' = expired \cup {fs.log[slot]}
  /\ UNCHANGED <<pc, job, hostVars, recovered, outcome, txns, files, kept, dropped, budget>>

KeepBackup ==
  /\ pc \in {"prune", "reprune"} /\ ~syncing
  /\ slot <= limit
  /\ slot' = slot + 1
  /\ UNCHANGED <<dirVars, pc, syncing, job, hostVars, recovered, outcome, txns, files, history, budget>>

PruneDone ==
  /\ pc \in {"prune", "reprune"} /\ ~syncing
  /\ slot > limit
  /\ pc' = (IF pc = "prune" THEN "decide" ELSE "write")
  /\ slot' = 0
  /\ UNCHANGED <<dirVars, syncing, job, hostVars, recovered, outcome, txns, files, history, budget>>

-----------------------------------------------------------------------------
(* rotate_before_append and rotate_current. *)

NoRotation ==
  /\ At("decide")
  /\ pc' = "write"
  /\ UNCHANGED <<dirVars, syncing, taskVars, hostVars, recovered, outcome, txns, files, history, budget>>

\* The Rust runtime does not look for a manifest that is already there.
ManifestInTheWay == runtime = "python" /\ fs.manifest # NoManifest

\* Mutants of NewManifest: one backup too many, one too few.
NewManifestTooMany ==
  [txn |-> txns + 1, phase |-> "staging", max |-> limit + 1,
   present |-> {i \in 1..limit : fs.log[i] # NoFile}]

NewManifestTooFew ==
  [txn |-> txns + 1, phase |-> "staging", max |-> IF limit = 1 THEN 1 ELSE limit - 1,
   present |-> {i \in 1..(limit - 1) : fs.log[i] # NoFile}]

NewManifest ==
  [txn |-> txns + 1, phase |-> "staging", max |-> limit,
   present |-> {i \in 1..limit : fs.log[i] # NoFile}]

BeginRotation ==
  /\ At("decide") /\ fs.log[Active] # NoFile /\ txns < MaxTxns
  /\ ~ManifestInTheWay
  /\ txns' = txns + 1
  /\ job' = NewManifest
  /\ pc' = "create" /\ slot' = 0
  /\ UNCHANGED <<dirVars, syncing, hostVars, recovered, outcome, files, history, budget>>

RotationRefused ==
  /\ At("decide") /\ fs.log[Active] # NoFile
  /\ ManifestInTheWay
  /\ Fail("refused") /\ UNCHANGED budget

\* write_manifest: the temporary is created (and, in Rust, the directory
\* synced), written, synced and renamed over the manifest.
CreateTemporary ==
  /\ At("create") /\ job.txn \notin fs.tmp
  /\ Change([fs EXCEPT !.tmp = @ \cup {job.txn}])
  /\ syncing' = (runtime = "rust")
  /\ pc' = "publish"
  /\ UNCHANGED <<taskVars, hostVars, recovered, outcome, txns, files, history, budget>>

TemporaryExists ==
  /\ At("create") /\ job.txn \in fs.tmp
  /\ Fail("refused") /\ UNCHANGED budget

PublishManifest ==
  /\ At("publish")
  /\ Change([fs EXCEPT !.manifest = job, !.tmp = @ \ {job.txn}])
  /\ syncing' = TRUE
  /\ pc' = (IF job.phase = "staging" THEN "stage" ELSE "install")
  /\ slot' = (IF job.phase = "staging" THEN Active ELSE 1)
  /\ UNCHANGED <<job, hostVars, recovered, outcome, txns, files, history, budget>>

-----------------------------------------------------------------------------
(* recover_manifest: also how a new rotation is carried out. *)

Here == fs.log[slot] # NoFile
Staged(i) == fs.stage[job.txn][i] # NoFile

\* Mutant of StageMove: a staged file of the same name is not looked for.
StageMoveUnchecked ==
  /\ At("stage") /\ slot <= job.max
  /\ Expected(job, slot) /\ Here
  /\ Change(StageFile(fs, job.txn, slot))
  /\ syncing' = TRUE /\ slot' = slot + 1
  /\ UNCHANGED <<pc, job, hostVars, recovered, outcome, txns, files, history, budget>>

StageMove ==
  /\ At("stage") /\ slot <= job.max
  /\ Expected(job, slot) /\ Here /\ ~Staged(slot)
  /\ Change(StageFile(fs, job.txn, slot))
  /\ syncing' = TRUE /\ slot' = slot + 1
  /\ UNCHANGED <<pc, job, hostVars, recovered, outcome, txns, files, history, budget>>

\* Mutant of StageSkip: the loop does not go on.
StageSkipStuck ==
  /\ At("stage") /\ slot <= job.max
  /\ ~Here /\ (Expected(job, slot) <=> Staged(slot))
  /\ UNCHANGED vars

StageSkip ==
  /\ At("stage") /\ slot <= job.max
  /\ ~Here /\ (Expected(job, slot) <=> Staged(slot))
  /\ slot' = slot + 1
  /\ UNCHANGED <<dirVars, pc, syncing, job, hostVars, recovered, outcome, txns, files, history, budget>>

StageRefuse ==
  /\ At("stage") /\ slot <= job.max
  /\ IF Expected(job, slot) THEN Here <=> Staged(slot) ELSE Here \/ Staged(slot)
  /\ Fail("refused") /\ UNCHANGED budget

\* Mutant of StagingDone: installation begins without the second manifest.
StagingDoneSilently ==
  /\ At("stage") /\ slot > job.max
  /\ job' = [job EXCEPT !.phase = "installing"]
  /\ pc' = "install" /\ slot' = 1
  /\ UNCHANGED <<dirVars, syncing, hostVars, recovered, outcome, txns, files, history, budget>>

StagingDone ==
  /\ At("stage") /\ slot > job.max
  /\ job' = [job EXCEPT !.phase = "installing"]
  /\ pc' = "create" /\ slot' = 0
  /\ UNCHANGED <<dirVars, syncing, hostVars, recovered, outcome, txns, files, history, budget>>

InstallMove ==
  /\ At("install") /\ slot <= job.max
  /\ Expected(job, slot - 1) /\ Staged(slot - 1) /\ ~Here
  /\ Change(InstallFile(fs, job.txn, slot))
  /\ syncing' = TRUE /\ slot' = slot + 1
  /\ UNCHANGED <<pc, job, hostVars, recovered, outcome, txns, files, history, budget>>

InstallSkip ==
  /\ At("install") /\ slot <= job.max
  /\ ~Staged(slot - 1) /\ (Expected(job, slot - 1) <=> Here)
  /\ slot' = slot + 1
  /\ UNCHANGED <<dirVars, pc, syncing, job, hostVars, recovered, outcome, txns, files, history, budget>>

InstallRefuse ==
  /\ At("install") /\ slot <= job.max
  /\ IF Expected(job, slot - 1) THEN Staged(slot - 1) <=> Here ELSE Staged(slot - 1) \/ Here
  /\ Fail("refused") /\ UNCHANGED budget

InstallingDone ==
  /\ At("install") /\ slot > job.max
  /\ pc' = "drop" /\ slot' = 0
  /\ UNCHANGED <<dirVars, syncing, job, hostVars, recovered, outcome, txns, files, history, budget>>

\* The file the rotation pushed past its last backup is removed.
DropOldest ==
  /\ At("drop") /\ Staged(job.max)
  /\ Change([fs EXCEPT !.stage[job.txn][job.max] = NoFile])
  /\ dropped' = dropped \cup {fs.stage[job.txn][job.max]}
  /\ syncing' = TRUE /\ pc' = "clear"
  /\ UNCHANGED <<taskVars, hostVars, recovered, outcome, txns, files, kept, expired, budget>>

NothingToDrop ==
  /\ At("drop") /\ ~Staged(job.max)
  /\ pc' = "clear"
  /\ UNCHANGED <<dirVars, syncing, taskVars, hostVars, recovered, outcome, txns, files, history, budget>>

ClearManifest ==
  /\ At("clear")
  /\ Change([fs EXCEPT !.manifest = NoManifest])
  /\ syncing' = TRUE
  /\ pc' = (IF recovered THEN "reprune" ELSE "scan")
  /\ job' = NoManifest /\ slot' = (IF recovered THEN 1 ELSE 0)
  /\ UNCHANGED <<hostVars, recovered, outcome, txns, files, history, budget>>

-----------------------------------------------------------------------------
(* The append itself. *)

WriteRecord ==
  /\ At("write")
  /\ IF fs.log[Active] = NoFile
       THEN /\ files < MaxFiles
            /\ files' = files + 1
            /\ Change([fs EXCEPT !.log[Active] = files + 1])
       ELSE UNCHANGED <<dirVars, files>>
  /\ syncing' = TRUE /\ pc' = "ack"
  /\ UNCHANGED <<taskVars, hostVars, recovered, outcome, txns, history, budget>>

Acknowledge ==
  /\ At("ack")
  /\ kept' = kept \cup {fs.log[Active]}
  /\ pc' = "idle" /\ outcome' = "ok"
  /\ UNCHANGED <<dirVars, syncing, taskVars, hostVars, recovered, txns, files, dropped, expired, budget>>

-----------------------------------------------------------------------------
(* Crashes.  A killed process leaves the directory as processes see it, with *)
(* its unsynced operations still unsynced; a power loss keeps a prefix.      *)

Halt ==
  /\ crashes < MaxCrashes
  /\ crashes' = crashes + 1
  /\ pc' = "down" /\ syncing' = FALSE /\ recovered' = FALSE /\ outcome' = "none"
  /\ job' = NoManifest /\ slot' = 0
  /\ UNCHANGED <<hostVars, txns, files, history, faults>>

Kill == pc # "down" /\ Halt /\ UNCHANGED dirVars

PowerLoss ==
  /\ Halt
  /\ fs' \in recoverable /\ recoverable' = {fs'}

-----------------------------------------------------------------------------
Recovery == ReadManifest \/ NoManifestFound \/ Recovered \/ UnexplainedFiles
Prune == ExpireBackup \/ KeepBackup \/ PruneDone
Decide == NoRotation \/ BeginRotation \/ RotationRefused
WriteManifest == CreateTemporary \/ TemporaryExists \/ PublishManifest
Stage == StageMove \/ StageSkip \/ StageRefuse \/ StagingDone
Install == InstallMove \/ InstallSkip \/ InstallRefuse \/ InstallingDone
Finish == DropOldest \/ NothingToDrop \/ ClearManifest
Write == WriteRecord \/ Acknowledge

\* What a running append does by itself.
AppendStep ==
  \/ Sync \/ Recovery \/ Prune \/ Decide \/ WriteManifest \/ Stage \/ Install
  \/ Finish \/ Write

Next ==
  \/ Open \/ Close \/ BeginAppend \/ AppendStep
  \/ IoError \/ Kill \/ PowerLoss

Spec == Init /\ [][Next]_vars

-----------------------------------------------------------------------------
(* Properties. *)

TypeOK ==
  /\ fs \in Directory /\ recoverable \subseteq Directory /\ fs \in recoverable
  /\ pc \in Locations /\ syncing \in BOOLEAN
  /\ job \in Manifest \cup {NoManifest} /\ slot \in 0..(MaxSlots + 1)
  /\ limit \in Limits /\ runtime \in Runtimes /\ recovered \in BOOLEAN
  /\ outcome \in Outcomes
  /\ txns \in 0..MaxTxns /\ files \in 0..MaxFiles
  /\ kept \subseteq Files /\ dropped \subseteq Files /\ expired \subseteq Files
  /\ crashes \in 0..MaxCrashes /\ faults \in 0..MaxFaults

\* No crash, failed call or later rotation loses or overwrites a file with an
\* acknowledged record: in every directory a power loss may leave it is under
\* some managed name, unless retention or age removed it.
NothingLost ==
  \A s \in recoverable : kept \subseteq Held(s) \cup dropped \cup expired

\* The layout a directory stands for: what recovery will make of it.
Source(s, i) ==
  LET m == s.manifest IN
  IF m.phase = "staging"
    THEN IF s.log[i - 1] # NoFile THEN s.log[i - 1] ELSE s.stage[m.txn][i - 1]
    ELSE IF s.stage[m.txn][i - 1] # NoFile THEN s.stage[m.txn][i - 1] ELSE s.log[i]

Logical(s) ==
  [i \in Slots |->
     CASE i \in 1..s.manifest.max -> Source(s, i)
       [] i = Active /\ s.manifest.phase = "staging" -> NoFile
       [] OTHER -> s.log[i]]

\* The transaction implements a rotation that happens in one step, at the
\* rename of its first manifest.
Atomic == INSTANCE AtomicRotation
            WITH layout <- Logical(fs),
                 possible <- {Logical(s) : s \in recoverable},
                 created <- files

\* No process and no power loss ever exposes a rotation half done: as long as no
\* file-system call has failed, every directory that can be met stands for a
\* layout between rotations, and every step of the code for one of the rotation.
RotationIsAtomic == Atomic!Init /\ [][faults' = 0 => [Atomic!Next]_(Atomic!vars)]_vars

\* A rotation removes a file only after as many newer ones exist as the
\* smallest configured retention count asks for.
RetentionHonoured ==
  \A f \in dropped : \E n \in Limits : f + n <= files

\* durable-log-recovery.md: recovery completes a transaction interrupted
\* before staging, during staging, during installation or before the manifest
\* is removed; so reopening the log is never refused.
InterruptedRotationRecovers == ~(outcome = "refused" /\ ~recovered)

\* What the code does deliver: without a failed call, reopening is refused only
\* when a crash left a temporary manifest behind.
RefusedOnlyForTemporary == outcome = "refused" /\ faults = 0 => fs.tmp # {}

\* durable-log-recovery.md: an append succeeds only after any rotation
\* transaction is complete.
AckAfterRotation == [][Acknowledge => fs.manifest = NoManifest]_vars

\* durable-log-recovery.md: another transaction's manifest is never overwritten.
\* The code keeps to this and to the line above until a call fails, and the
\* Python runtime keeps to this one even then: it looks before it rotates.
TransactionRespected ==
  [][/\ Acknowledge /\ fs.manifest # NoManifest => faults > 0
     /\ PublishManifest /\ fs.manifest # NoManifest
          /\ fs.manifest.txn # job.txn
        => faults > 0 /\ runtime = "rust"]_vars
=============================================================================
