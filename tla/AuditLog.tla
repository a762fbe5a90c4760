------------------------------ MODULE AuditLog ------------------------------
(***************************************************************************)
(* The durable audit log: module Rotation with the contents of the files,  *)
(* the clock that decides rotation and pruning, torn writes, and the       *)
(* recovery of the tails of the managed files.                             *)
(*                                                                         *)
(* A record is a number, given in the order of the append calls.  A file   *)
(* holds newline-terminated lines and perhaps bytes after the last newline *)
(* (its tail).  A line is a record, or Garbage when it does not parse.     *)
(***************************************************************************)
EXTENDS Rotation, Sequences, SequencesExt

CONSTANTS MaxBytes,    \* max_bytes counted in records; 0: not configured
          MaxAge,      \* max_age in clock ticks; 0: not configured
          Tails,       \* what a partial write may leave: see TailKinds
          MaxRecords,  \* bound: append calls
          MaxTime      \* bound: clock ticks

\* "torn": does not parse; "whole": a record without its newline;
\* "cut": ends inside a UTF-8 character.
TailKinds == {"torn", "whole", "cut"}

ASSUME TailsAssumption == Tails \subseteq TailKinds
ASSUME SizesAssumption == MaxBytes \in Nat /\ MaxAge \in Nat
ASSUME AuditBoundsAssumption == MaxRecords \in Nat /\ MaxTime \in Nat

Garbage == 0
Records == 1..MaxRecords
Contents == [lines : Seq(Records \cup {Garbage}), tail : TailKinds \cup {"none"}]
EmptyContent == [lines |-> <<>>, tail |-> "none"]

VARIABLES
  content,  \* what the file holds
  synced,   \* what a power loss cannot take from it
  mtime,    \* its modification time
  now,
  record,   \* the record being appended
  stamp,    \* the timestamp of each record
  acked     \* history: records whose append succeeded

dataVars == <<content, synced, mtime>>
auditVars == <<content, synced, mtime, now, record, stamp, acked>>
allVars == <<vars, auditVars>>

-----------------------------------------------------------------------------
(* Contents. *)

\* Mutant of WithLine: the wrong record is written.
WithNextLine(c, r) == [lines |-> Append(c.lines, r + 1), tail |-> "none"]

\* Bytes written after a tail join it: the line they complete does not parse.
WithLine(c, r) ==
  [lines |-> Append(c.lines, IF c.tail = "none" THEN r ELSE Garbage), tail |-> "none"]

WithPart(c, kind) ==
  [c EXCEPT !.tail = IF "cut" \in {c.tail, kind} THEN "cut"
                     ELSE IF c.tail = "none" THEN kind ELSE "torn"]

Size(c) == Len(c.lines) + (IF c.tail = "none" THEN 0 ELSE 1)

ActiveContent == content[fs.log[Active]]

AuditInit ==
  /\ Init
  /\ content = [f \in Files |-> EmptyContent]
  /\ synced = content
  /\ mtime = [f \in Files |-> 0]
  /\ now = 0 /\ record = 0 /\ acked = {}
  /\ stamp = [r \in Records |-> 0]

-----------------------------------------------------------------------------
(* What the clock and the sizes decide. *)

Old(f) == MaxAge > 0 /\ now - mtime[f] >= MaxAge

TooBig(c) == MaxBytes > 0 /\ Size(c) > 0 /\ Size(c) + 1 > MaxBytes

\* The Python runtime rotates an empty file that is old enough.
RotationDue ==
  /\ fs.log[Active] # NoFile
  /\ \/ TooBig(ActiveContent)
     \/ Old(fs.log[Active]) /\ (runtime = "rust" => Size(ActiveContent) > 0)

\* The caller stamps the record and calls append.  MaxTxns leaves room for
\* the rotation this append may begin.
StartAppend ==
  /\ BeginAppend /\ record < MaxRecords /\ txns < MaxTxns
  /\ record' = record + 1
  /\ stamp' = [stamp EXCEPT ![record'] = now]
  /\ UNCHANGED <<dataVars, now, acked>>

\* Mutant of PruneExpired: nothing is pruned after the rotation.
PruneBeforeRotationOnly ==
  /\ \/ ExpireBackup /\ pc = "prune" /\ Old(fs.log[slot])
     \/ KeepBackup /\ ~(pc = "prune" /\ fs.log[slot] # NoFile /\ Old(fs.log[slot]))
     \/ PruneDone
  /\ UNCHANGED auditVars

PruneExpired ==
  /\ \/ ExpireBackup /\ Old(fs.log[slot])
     \/ KeepBackup /\ ~(fs.log[slot] # NoFile /\ Old(fs.log[slot]))
     \/ PruneDone
  /\ UNCHANGED auditVars

RotateBeforeAppend ==
  /\ IF RotationDue THEN BeginRotation \/ RotationRefused ELSE NoRotation
  /\ UNCHANGED auditVars

RunTransaction ==
  /\ WriteManifest \/ Stage \/ Install \/ Finish
  /\ UNCHANGED auditVars

-----------------------------------------------------------------------------
(* recover_tails, once no manifest and no leftover is there. *)

\* Mutant of Corrupt: any tail is refused.
CorruptAnyTail(c) == Garbage \in ToSet(c.lines) \/ c.tail # "none"

\* To the Rust runtime a file without a newline has one line, an empty one: it
\* refuses an empty file, and one whose only content is a torn tail.
Corrupt(c) ==
  \/ Garbage \in ToSet(c.lines) \/ c.tail \in {"whole", "cut"}
  \/ runtime = "rust" /\ c.lines = <<>>

\* The Rust runtime visits the backups it is configured with, the Python
\* runtime every numbered file.
Visited == {Active} \cup (IF runtime = "rust" THEN 1..limit ELSE Backups)

Dirty(i) == fs.log[i] # NoFile /\ content[fs.log[i]].tail # "none"
Broken(i) == fs.log[i] # NoFile /\ Corrupt(content[fs.log[i]])

\* Slot i is the first one recovery stops at.
FirstAt(i) ==
  /\ i \in Visited /\ (Dirty(i) \/ Broken(i))
  /\ \A j \in Visited : j < i => ~Dirty(j) /\ ~Broken(j)

Truncate(i) ==
  /\ At("scan") /\ ~Leftovers(fs)
  /\ FirstAt(i) /\ ~Broken(i)
  /\ LET f == fs.log[i] IN
       /\ content' = [content EXCEPT ![f].tail = "none"]
       /\ synced' = [synced EXCEPT ![f] = content'[f]]
       /\ mtime' = [mtime EXCEPT ![f] = now]
  /\ syncing' = TRUE
  /\ UNCHANGED <<dirVars, pc, taskVars, hostVars, recovered, outcome, txns, files,
                 history, budget, now, record, stamp, acked>>

CorruptFile(i) ==
  /\ At("scan") /\ ~Leftovers(fs)
  /\ FirstAt(i) /\ Broken(i)
  /\ Fail("corrupt") /\ UNCHANGED <<budget, auditVars>>

TailsRecovered ==
  /\ Recovered
  /\ \A i \in Visited : ~Dirty(i) /\ ~Broken(i)
  /\ UNCHANGED auditVars

Recover ==
  \/ (ReadManifest \/ NoManifestFound \/ UnexplainedFiles) /\ UNCHANGED auditVars
  \/ TailsRecovered
  \/ \E i \in Slots : Truncate(i) \/ CorruptFile(i)

-----------------------------------------------------------------------------
(* Writing the record. *)

\* Mutant of WriteTo: the age of a file counts from its creation.
WriteToKeepingAge(f, c) ==
  /\ content' = [content EXCEPT ![f] = c]
  /\ mtime' = [mtime EXCEPT ![f] = IF Size(content[f]) = 0 THEN now ELSE @]
  /\ UNCHANGED <<synced, now, record, stamp, acked>>

WriteTo(f, c) ==
  /\ content' = [content EXCEPT ![f] = c]
  /\ mtime' = [mtime EXCEPT ![f] = now]
  /\ UNCHANGED <<synced, now, record, stamp, acked>>

WriteLine ==
  /\ WriteRecord
  /\ WriteTo(fs'.log[Active], WithLine(content[fs'.log[Active]], record))

\* Some bytes are written; then the write fails or the process stops.
WritePart ==
  /\ WriteRecord
  /\ faults < MaxFaults \/ crashes < MaxCrashes
  /\ \E kind \in Tails :
       WriteTo(fs'.log[Active], WithPart(content[fs'.log[Active]], kind))

\* sync_data and sync_parent after the whole line is written; anywhere else
\* sync_parent alone.
SyncWritten ==
  /\ Sync
  /\ IF pc = "ack"
       THEN /\ ActiveContent.tail = "none"
            /\ synced' = [synced EXCEPT ![fs.log[Active]] = ActiveContent]
       ELSE UNCHANGED synced
  /\ UNCHANGED <<content, mtime, now, record, stamp, acked>>

ReturnOk ==
  /\ Acknowledge
  /\ acked' = acked \cup {record}
  /\ UNCHANGED <<dataVars, now, record, stamp>>

-----------------------------------------------------------------------------
(* The world: the clock, failing calls, crashes, other processes. *)

Tick ==
  /\ now < MaxTime
  /\ now' = now + 1
  /\ UNCHANGED <<vars, dataVars, record, stamp, acked>>

\* A failed sync_parent may come after a sync_data that succeeded.
CallFails ==
  /\ IoError
  /\ \/ UNCHANGED synced
     \/ /\ pc = "ack" /\ ActiveContent.tail = "none"
        /\ synced' = [synced EXCEPT ![fs.log[Active]] = ActiveContent]
  /\ UNCHANGED <<content, mtime, now, record, stamp, acked>>

ProcessDies == Kill /\ UNCHANGED auditVars

OpenOrClose == (Open \/ Close) /\ UNCHANGED auditVars

\* Bytes not yet synced survive a power loss whole, in part, or not at all.
Survives(f) ==
  {synced[f], content[f]}
    \cup {WithPart(synced[f], kind) : kind \in IF content[f] = synced[f] THEN {} ELSE Tails}

PowerFails ==
  /\ PowerLoss
  /\ content' \in {c \in [Files -> UNION {Survives(f) : f \in Files}] :
                     \A f \in Files : c[f] \in Survives(f)}
  /\ synced' = content'
  /\ UNCHANGED <<mtime, now, record, stamp, acked>>

AuditStep ==
  \/ Recover \/ PruneExpired \/ RotateBeforeAppend \/ RunTransaction
  \/ WriteLine \/ WritePart \/ SyncWritten \/ ReturnOk

AuditNext ==
  \/ OpenOrClose \/ StartAppend \/ AuditStep
  \/ Tick \/ CallFails \/ ProcessDies \/ PowerFails

AuditSpec == AuditInit /\ [][AuditNext]_allVars

\* A write that stopped part-way has failed, or its process is dead.
WriteStops ==
  /\ pc = "ack" /\ ActiveContent.tail # "none"
  /\ CallFails \/ ProcessDies \/ PowerFails

\* The thread inside append keeps running; nothing is asked of the host.
FairAuditSpec == AuditSpec /\ WF_allVars(AuditStep) /\ WF_allVars(WriteStops)

-----------------------------------------------------------------------------
(* Properties. *)

AuditTypeOK ==
  /\ content \in [Files -> Contents] /\ synced \in [Files -> Contents]
  /\ mtime \in [Files -> 0..MaxTime] /\ now \in 0..MaxTime
  /\ stamp \in [Records -> 0..MaxTime]
  /\ record \in 0..MaxRecords /\ acked \subseteq Records

\* The records a reader finds in file f, and the files retention removed.
Readable(f) == ToSet(synced[f].lines) \ {Garbage}
Removed == dropped \cup expired

\* A success is a promise: whatever crash comes next, the acknowledged record
\* is a complete line that no crash can take, in a file of the directory the
\* crash leaves, unless retention removed that file.
AckedRecordsSurvive ==
  \A r \in acked, s \in recoverable :
    \E f \in Held(s) \cup Removed : f # NoFile /\ r \in Readable(f)

\* What no failing call can undo, not even a half line with the next record
\* behind it: the whole records of a file with an acknowledged one stay whole,
\* and the file under a managed name, until retention removes it.
WholeStaysWhole ==
  [][\A f \in kept : f \notin Removed' =>
       /\ Readable(f) \subseteq Readable(f)'
       /\ \A s \in recoverable' : f \in Held(s)]_allVars

\* Read from the oldest backup to the active file, the log lists records in
\* the order of their appends and no record twice.
RecordsInOrder ==
  LET Line(i, n) == content[Logical(fs)[i]].lines[n]
      Lines(i) == IF Logical(fs)[i] = NoFile THEN {}
                  ELSE {n \in DOMAIN content[Logical(fs)[i]].lines : Line(i, n) # Garbage} IN
  \A i, j \in Slots : \A m \in Lines(i), n \in Lines(j) :
    i > j \/ (i = j /\ m < n) => Line(i, m) < Line(j, n)

\* The records a reader finds in the layout that directory s stands for.
Legible(s) ==
  {r \in Records : \E i \in Slots :
     Logical(s)[i] # NoFile /\ r \in ToSet(content[Logical(s)[i]].lines)}

\* The records cut from the log that a power loss may bring back.
Fading == (UNION {Legible(s) : s \in recoverable}) \ Legible(fs)

\* Every process keeps the same number of backups and prunes none.  Otherwise
\* one with fewer backups drops a file between two that stay, and the pruning
\* removes the newest of the expired backups first.
SameRetention == MaxAge = 0 /\ Limits = {MaxSlots}

Promise == INSTANCE DurableLog
             WITH Contiguous <- SameRetention,
                  log <- Legible(fs), fading <- Fading, issued <- record, acked <- acked

\* durable-log-recovery.md: as long as no file-system call fails, rotation,
\* recovery and crashes together keep what DurableLog promises a reader, and
\* at all times the order of the records: none twice, none invented, none lost
\* but to retention.
LogIsDurable ==
  /\ Promise!Init /\ [][faults' = 0 => [Promise!Next]_(Promise!vars)]_allVars
  /\ []RecordsInOrder

\* What recovery refuses as corrupt: a record without its newline or half a
\* character at the end of a file and, in the Rust runtime, a file without a
\* complete line.  A log that crashes and torn writes left is opened otherwise,
\* and a file that holds an acknowledged record is refused for its tail only.
CorruptExplained ==
  outcome = "corrupt" =>
    \E i \in Slots : LET f == fs.log[i] IN
      /\ f # NoFile
      /\ \/ content[f].tail \in {"whole", "cut"}
         \/ runtime = "rust" /\ content[f].lines = <<>> /\ f \notin kept

\* durable-log-recovery.md: if all earlier lines are valid, a suffix that does
\* not parse is truncated.  The Rust runtime does so only when there are any.
TornTailTruncated ==
  [][\A i \in Slots : CorruptFile(i) =>
       LET c == content[fs.log[i]] IN c.tail = "torn" => Garbage \in ToSet(c.lines)]_allVars

\* durable-log-recovery.md: pruning must not remove a record younger than
\* max_age; the age of a file is that of its newest record.
YoungRecordsKept ==
  [][\A f \in expired' \ expired : \A r \in Readable(f) : now - stamp[r] >= MaxAge]_allVars

\* A successful append leaves no backup of the configured ones that was already
\* expired when the append began, the file it rotated out included.
ExpiredRemoved ==
  [][ReturnOk /\ MaxAge > 0 => \A i \in 1..limit :
       fs.log[i] # NoFile => stamp[record] - mtime[fs.log[i]] < MaxAge]_allVars

\* durable-log-recovery.md: a successful append has written exactly one
\* newline-terminated JSON object.
OneLinePerSuccess ==
  [][ReturnOk => /\ Last(ActiveContent.lines) = record
                 /\ Cardinality({n \in DOMAIN ActiveContent.lines :
                                   ActiveContent.lines[n] = record}) = 1]_allVars

\* How far an append is from its end: the locations still ahead of it, recovery
\* with its transaction before the append's own, then the rest of its loop (in
\* the scan, the tails to repair), then a sync that is due.
LocationsAhead ==
  LET after == IF recovered THEN 3 ELSE 14 IN
  CASE pc \in {"down", "idle"} -> 0
    [] pc = "ack" -> 1
    [] pc = "write" -> 2
    [] pc = "reprune" -> 3
    [] pc = "clear" -> after + 1
    [] pc = "drop" -> after + 2
    [] pc = "install" -> after + 3
    [] pc = "publish" -> IF job.phase = "staging" THEN after + 7 ELSE after + 4
    [] pc = "create" -> IF job.phase = "staging" THEN after + 8 ELSE after + 5
    [] pc = "stage" -> after + 6
    [] pc = "decide" -> 12
    [] pc = "prune" -> 13
    [] pc = "scan" -> 14
    [] pc = "recover" -> 23

RestOfLoop ==
  IF pc = "scan" THEN Cardinality({i \in Slots : Dirty(i)}) ELSE MaxSlots + 1 - slot

StepsLeft ==
  IF pc \in {"down", "idle"} THEN 0
  ELSE 2 * ((MaxSlots + 2) * LocationsAhead + RestOfLoop) + (IF syncing THEN 1 ELSE 0)

\* An append never goes round in circles: whatever it finds, every step of its
\* own brings it closer to its end, and nothing but the next call sets it back.
AppendShortens ==
  [][/\ AuditStep => StepsLeft' < StepsLeft
     /\ ~StartAppend => StepsLeft' <= StepsLeft]_allVars

\* An append that started comes back to its caller, unless its process dies.
AppendReturns == pc \notin {"down", "idle"} ~> pc \in {"down", "idle"}
=============================================================================
