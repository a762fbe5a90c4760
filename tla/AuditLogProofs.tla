--------------------------- MODULE AuditLogProofs ---------------------------
(***************************************************************************)
(* Proofs about the durable audit log with contents, clock, torn writes    *)
(* and tails.  The invariants of the rotation carry over, since a step of  *)
(* this module is one of the rotation or one of the two ways in which the  *)
(* recovery of the tails stops; the contents need invariants of their own, *)
(* each resting on the one before: times (TimeInv), tails and what is      *)
(* synced (FileInv), the order of lines and files, whatever crashes and    *)
(* fails (OrderInv), and what a power loss leaves of the acknowledged      *)
(* records (DurableInv), from which the log implements module DurableLog.  *)
(***************************************************************************)
EXTENDS AuditLog, RotationProofs, FiniteSetTheorems

-----------------------------------------------------------------------------
(* The rotation inside the log. *)

\* Recovery repairs a tail, or gives up on a file, and leaves the directory
\* alone.
Repairing ==
  /\ At("scan") /\ syncing' = TRUE
  /\ UNCHANGED <<dirVars, pc, taskVars, hostVars, recovered, outcome, txns, files,
                 history, budget>>

Rejecting == At("scan") /\ Fail("corrupt") /\ UNCHANGED budget

LEMMA AuditSteps ==
  ASSUME [AuditNext]_allVars
  PROVE  [Next]_vars \/ Repairing \/ Rejecting
<1>1. CASE OpenOrClose \/ StartAppend \/ CallFails \/ ProcessDies \/ PowerFails
  BY <1>1 DEF OpenOrClose, StartAppend, CallFails, ProcessDies, PowerFails, Next
<1>2. CASE Tick \/ UNCHANGED allVars
  BY <1>2 DEF Tick, allVars
<1>3. CASE PruneExpired \/ RotateBeforeAppend \/ RunTransaction \/ WriteLine \/ WritePart
           \/ SyncWritten \/ ReturnOk
  BY <1>3 DEF PruneExpired, RotateBeforeAppend, RunTransaction, WriteLine, WritePart, SyncWritten,
       ReturnOk, Next, AppendStep, Prune, Decide, Write
<1>4. CASE Recover
  <2>1. CASE \E i \in Slots : Truncate(i)
    BY <2>1 DEF Truncate, Repairing
  <2>2. CASE \E i \in Slots : CorruptFile(i)
    BY <2>2 DEF CorruptFile, Rejecting
  <2>3. CASE ReadManifest \/ NoManifestFound \/ UnexplainedFiles \/ TailsRecovered
    BY <2>3 DEF TailsRecovered, Recovery, AppendStep, Next
  <2> QED BY <1>4, <2>1, <2>2, <2>3 DEF Recover
<1> QED BY <1>1, <1>2, <1>3, <1>4 DEF AuditNext, AuditStep

RotationInv == KeptInv /\ CleanInv /\ AgeInv /\ DescentInv

LEMMA RotationInvInit == Init => RotationInv
<1> SUFFICES ASSUME Init PROVE RotationInv
  OBVIOUS
<1>1. NothingLost /\ AckDurable
  BY DEF Init, NothingLost, AckDurable, At
<1> QED BY <1>1, InitType, InitClean, InitAge, InitDescent DEF RotationInv, KeptInv

LEMMA RotationInvStep == RotationInv /\ [AuditNext]_allVars => RotationInv'
<1> SUFFICES ASSUME RotationInv, [AuditNext]_allVars PROVE RotationInv'
  OBVIOUS
<1>0. TypeInv
  BY DEF RotationInv, KeptInv
<1>1. CASE [Next]_vars
  BY <1>0, <1>1, StepKeeps, CleanStep, AgeStep, DescentStep DEF RotationInv
<1>2. CASE Repairing
  <2>1. /\ pc = "scan" /\ syncing' = TRUE
        /\ UNCHANGED <<fs, recoverable, pc, job, slot, limit, runtime, recovered, outcome, txns,
                       files, kept, dropped, expired, crashes, faults>>
    BY <1>2 DEF Repairing, At, dirVars, taskVars, hostVars, history, budget
  <2>2. TypeInv'
    BY <1>0, <2>1 DEF TypeInv, TypeOK, JobOK
  <2>3. NothingLost' /\ AckDurable'
    BY <2>1 DEF RotationInv, KeptInv, NothingLost, AckDurable, At
  <2>4. CleanInv'
    <3> SUFFICES ASSUME TxnInv PROVE TxnInv'
      BY <2>1 DEF RotationInv, CleanInv
    <3>1. outcome # "refused"
      BY <2>1 DEF TxnInv, Lifecycle
    <3> QED BY <2>1, <3>1 DEF TxnInv, Progress, Lifecycle
  <2>5. AgeInv'
    BY <2>1 DEF RotationInv, AgeInv, Ordered, RetentionHonoured
  <2>6. DescentInv'
    BY <2>1 DEF RotationInv, DescentInv, Owned, Ahead, NewestOnTop, Living, NoManifest
  <2> QED BY <2>2, <2>3, <2>4, <2>5, <2>6 DEF RotationInv, KeptInv
<1>3. CASE Rejecting
  <2>1. /\ pc = "scan" /\ pc' = "idle" /\ outcome' = "corrupt" /\ ~syncing' /\ job' = NoManifest
        /\ UNCHANGED <<fs, recoverable, limit, runtime, recovered, txns, files, kept, dropped,
                       expired, crashes, faults>>
    BY <1>3 DEF Rejecting, Fail, At, dirVars, hostVars, history, budget
  <2>2. TypeInv'
    <3>1. Fail("corrupt") /\ crashes' \in 0..MaxCrashes /\ faults' \in 0..MaxFaults
      BY <1>0, <1>3, <2>1 DEF Rejecting, TypeInv, TypeOK
    <3> QED BY <1>0, <3>1, FailType
  <2>3. NothingLost' /\ AckDurable'
    BY <2>1 DEF RotationInv, KeptInv, NothingLost, AckDurable, At
  <2>4. CleanInv'
    <3> SUFFICES ASSUME TxnInv PROVE TxnInv'
      BY <2>1 DEF RotationInv, CleanInv
    <3>1. ~recovered
      BY <2>1 DEF TxnInv, Lifecycle
    <3> QED BY <2>1, <3>1 DEF TxnInv, Progress, Lifecycle, Settled
  <2>5. AgeInv'
    BY <2>1 DEF RotationInv, AgeInv, Ordered, RetentionHonoured
  <2>6. DescentInv'
    <3>1. txns \in Nat /\ NoManifest.txn = 0
      BY <1>0, BoundsAssumption DEF TypeInv, TypeOK, NoManifest
    <3>2. Owned'
      BY <2>1 DEF RotationInv, DescentInv, Owned, NoManifest
    <3>3. Ahead'
      BY <2>1, <3>1 DEF RotationInv, DescentInv, Ahead
    <3>4. NewestOnTop' /\ \A s \in recoverable' : Descending(s)
      BY <2>1 DEF RotationInv, DescentInv, NewestOnTop, Living
    <3> QED BY <3>2, <3>3, <3>4 DEF DescentInv
  <2> QED BY <2>2, <2>3, <2>4, <2>5, <2>6 DEF RotationInv, KeptInv
<1> QED BY <1>1, <1>2, <1>3, AuditSteps

-----------------------------------------------------------------------------
(* Contents: what a line and a part of a line make of them. *)

LEMMA EmptyIsContent == EmptyContent \in Contents /\ ToSet(EmptyContent.lines) = {}
  BY DEF EmptyContent, Contents, ToSet

LEMMA AppendRange ==
  ASSUME NEW S, NEW q \in Seq(S), NEW e \in S
  PROVE  /\ Append(q, e) \in Seq(S)
         /\ ToSet(Append(q, e)) = ToSet(q) \cup {e}
<1>1. /\ Append(q, e) \in Seq(S) /\ DOMAIN q = 1..Len(q) /\ Len(q) \in Nat
      /\ DOMAIN Append(q, e) = 1..(Len(q) + 1)
      /\ \A i \in 1..Len(q) : Append(q, e)[i] = q[i]
      /\ Append(q, e)[Len(q) + 1] = e
  OBVIOUS
<1>2. \A i \in 1..(Len(q) + 1) : i \in 1..Len(q) \/ i = Len(q) + 1
  BY <1>1
<1>3. 1..Len(q) \subseteq 1..(Len(q) + 1) /\ Len(q) + 1 \in 1..(Len(q) + 1)
  BY <1>1
<1> QED BY <1>1, <1>2, <1>3 DEF ToSet

LEMMA LineContent ==
  ASSUME NEW c \in Contents, NEW r \in Records \cup {Garbage}
  PROVE  LET e == IF c.tail = "none" THEN r ELSE Garbage IN
         /\ WithLine(c, r) \in Contents
         /\ WithLine(c, r).tail = "none"
         /\ WithLine(c, r).lines = Append(c.lines, e)
         /\ ToSet(WithLine(c, r).lines) = ToSet(c.lines) \cup {e}
<1> DEFINE e == IF c.tail = "none" THEN r ELSE Garbage
<1>1. c.lines \in Seq(Records \cup {Garbage}) /\ e \in Records \cup {Garbage}
  BY DEF Contents
<1>2. Append(c.lines, e) \in Seq(Records \cup {Garbage}) /\ ToSet(Append(c.lines, e)) = ToSet(c.lines) \cup {e}
  BY <1>1, AppendRange
<1>3. WithLine(c, r) = [lines |-> Append(c.lines, e), tail |-> "none"]
  BY DEF WithLine
<1> QED BY <1>2, <1>3 DEF Contents

LEMMA PartContent ==
  ASSUME NEW c \in Contents, NEW kind \in Tails
  PROVE  /\ WithPart(c, kind) \in Contents
         /\ WithPart(c, kind).lines = c.lines /\ WithPart(c, kind).tail # "none"
  BY TailsAssumption DEF WithPart, Contents, TailKinds

LEMMA RepairedContent ==
  ASSUME NEW c \in Contents, NEW d, d = [c EXCEPT !.tail = "none"]
  PROVE  d \in Contents /\ d.lines = c.lines /\ d.tail = "none"
  BY DEF Contents

\* What a power loss may leave of a file.
LEMMA SurvivorContent ==
  ASSUME content \in [Files -> Contents], synced \in [Files -> Contents],
         NEW f \in Files, NEW c \in Survives(f)
  PROVE  /\ c \in Contents
         /\ c.lines = content[f].lines \/ c.lines = synced[f].lines
         /\ c.tail = content[f].tail \/ c.tail = synced[f].tail \/ (c.tail # "none" /\ Tails # {})
         /\ content[f] = synced[f] => c = content[f]
<1>1. content[f] \in Contents /\ synced[f] \in Contents
  OBVIOUS
<1>2. CASE c = synced[f] \/ c = content[f]
  BY <1>1, <1>2
<1>3. CASE content[f] # synced[f] /\ \E kind \in Tails : c = WithPart(synced[f], kind)
  BY <1>1, <1>3, PartContent
<1> QED BY <1>2, <1>3 DEF Survives

-----------------------------------------------------------------------------
(* Types, and the record an append under way has been given. *)

Begun == pc \notin {"down", "idle"} => record \in Records

DataType == AuditTypeOK /\ Begun

LEMMA ActiveIsFile ==
  ASSUME TypeInv, pc = "ack"
  PROVE  fs.log[Active] \in Files
<1>1. fs.log[Active] \in FileOrNone /\ fs.log[Active] # NoFile
  BY DirectoryFields, SlotsAssumption DEF TypeInv, TypeOK, JobOK, Active, Slots
<1> QED BY <1>1 DEF FileOrNone

LEMMA WrittenIsFile ==
  ASSUME TypeInv, WriteRecord
  PROVE  fs'.log[Active] \in Files /\ pc = "write" /\ pc' = "ack"
<1>1. TypeInv' /\ pc = "write" /\ pc' = "ack"
  BY ChangingStep DEF Changing, WriteRecord, At
<1>2. fs' \in Directory /\ fs'.log[Active] # NoFile
  BY <1>1 DEF TypeInv, TypeOK, JobOK
<1>3. fs'.log[Active] \in FileOrNone
  BY <1>2, DirectoryFields, SlotsAssumption DEF Active, Slots
<1> QED BY <1>1, <1>2, <1>3 DEF FileOrNone

\* Only appends under way give pc a value beyond the two resting places.
LEMMA WorkBegins ==
  ASSUME [AuditNext]_allVars, pc' \notin {"down", "idle"}
  PROVE  StartAppend \/ pc \notin {"down", "idle"}
<1>1. CASE OpenOrClose \/ CallFails \/ ProcessDies \/ PowerFails \/ Tick \/ UNCHANGED allVars
  BY <1>1 DEF OpenOrClose, Open, Close, CallFails, IoError, Fail, ProcessDies, Kill, PowerFails,
              PowerLoss, Halt, Tick, allVars, vars
<1>2. CASE PruneExpired \/ RotateBeforeAppend \/ RunTransaction
  BY <1>2 DEF PruneExpired, ExpireBackup, KeepBackup, PruneDone, RotateBeforeAppend, BeginRotation,
              RotationRefused, NoRotation, RunTransaction, WriteManifest, CreateTemporary,
              TemporaryExists, PublishManifest, Stage, StageMove, StageSkip, StageRefuse, StagingDone,
              Install, InstallMove, InstallSkip, InstallRefuse, InstallingDone, Finish, DropOldest,
              NothingToDrop, ClearManifest, At
<1>3. CASE WriteLine \/ WritePart \/ ReturnOk
  BY <1>3 DEF WriteLine, WritePart, WriteRecord, ReturnOk, Acknowledge, At
<1>4. CASE Recover
  BY <1>4 DEF Recover, ReadManifest, NoManifestFound, UnexplainedFiles, TailsRecovered, Recovered,
              Truncate, CorruptFile, At
<1>5. CASE SyncWritten
  BY <1>5 DEF SyncWritten, Sync
<1> QED BY <1>1, <1>2, <1>3, <1>4, <1>5 DEF AuditNext, AuditStep

\* The steps that leave the contents alone.
Calm ==
  \/ OpenOrClose \/ PruneExpired \/ RotateBeforeAppend \/ RunTransaction \/ ProcessDies
  \/ (ReadManifest \/ NoManifestFound \/ UnexplainedFiles) /\ UNCHANGED auditVars
  \/ TailsRecovered \/ (\E i \in Slots : CorruptFile(i)) \/ UNCHANGED allVars

LEMMA CalmUnchanged == Calm => UNCHANGED auditVars
  BY DEF Calm, OpenOrClose, PruneExpired, RotateBeforeAppend, RunTransaction, ProcessDies,
         TailsRecovered, CorruptFile, allVars

LEMMA DataSteps ==
  ASSUME [AuditNext]_allVars
  PROVE  \/ Calm \/ StartAppend \/ Tick \/ (\E i \in Slots : Truncate(i)) \/ WriteLine \/ WritePart
         \/ SyncWritten \/ CallFails \/ PowerFails \/ ReturnOk
  BY DEF AuditNext, AuditStep, Recover, Calm

\* What the steps that touch the contents do to them.
LEMMA WriteEffect ==
  ASSUME TypeInv, DataType, WriteLine \/ WritePart
  PROVE  LET f == fs'.log[Active] IN
         /\ pc = "write" /\ pc' = "ack" /\ f \in Files /\ record \in Records
         /\ \/ WriteLine /\ WriteTo(f, WithLine(content[f], record))
            \/ \E kind \in Tails : WriteTo(f, WithPart(content[f], kind))
  BY WrittenIsFile DEF WriteLine, WritePart, DataType, Begun

LEMMA TruncateEffect ==
  ASSUME TypeInv, DataType, NEW i \in Slots, Truncate(i)
  PROVE  \E f \in Files :
         /\ f = fs.log[i] /\ content[f].tail # "none"
         /\ content' = [content EXCEPT ![f].tail = "none"]
         /\ synced' = [synced EXCEPT ![f] = content'[f]]
         /\ mtime' = [mtime EXCEPT ![f] = now]
         /\ UNCHANGED <<now, record, stamp, acked>>
<1>1. fs.log[i] \in FileOrNone
  BY DirectoryFields DEF TypeInv, TypeOK
<1>2. Dirty(i)
  BY DEF Truncate, FirstAt, Broken, Dirty
<1>3. fs.log[i] \in Files /\ content[fs.log[i]].tail # "none"
  BY <1>1, <1>2 DEF Dirty, FileOrNone
<1> QED BY <1>3 DEF Truncate

LEMMA SyncEffect ==
  ASSUME TypeInv, DataType, SyncWritten \/ CallFails
  PROVE  /\ UNCHANGED <<content, mtime, now, record, stamp, acked>>
         /\ \/ synced' = synced
            \/ /\ pc = "ack" /\ fs.log[Active] \in Files /\ ActiveContent.tail = "none"
               /\ synced' = [synced EXCEPT ![fs.log[Active]] = ActiveContent]
  BY ActiveIsFile DEF SyncWritten, CallFails

LEMMA PowerEffect ==
  ASSUME DataType, PowerFails
  PROVE  /\ content' \in [Files -> Contents] /\ synced' = content'
         /\ \A f \in Files : content'[f] \in Survives(f)
         /\ UNCHANGED <<mtime, now, record, stamp, acked>>
<1>1. \A f \in Files : content'[f] \in Survives(f)
  BY DEF PowerFails
<1>2. \A f \in Files : content'[f] \in Contents
  BY <1>1, SurvivorContent DEF DataType, AuditTypeOK
<1>3. \E S : content' \in [Files -> S]
  BY DEF PowerFails
<1> QED BY <1>1, <1>2, <1>3 DEF PowerFails

LEMMA DataTypeStep == TypeInv /\ DataType /\ [AuditNext]_allVars => DataType'
<1> SUFFICES ASSUME TypeInv, DataType, [AuditNext]_allVars PROVE DataType'
  OBVIOUS
<1> USE AuditBoundsAssumption
<1>1. CASE Calm
  <2>1. UNCHANGED auditVars
    BY <1>1, CalmUnchanged
  <2>2. StartAppend => record' \in Records
    BY DEF StartAppend, DataType, AuditTypeOK, Records
  <2> QED BY <2>1, <2>2, WorkBegins DEF auditVars, DataType, AuditTypeOK, Begun
<1>2. CASE StartAppend
  <2>1. /\ record' = record + 1 /\ record' \in Records /\ record' \in 0..MaxRecords
        /\ stamp' = [stamp EXCEPT ![record'] = now] /\ UNCHANGED <<content, synced, mtime, now, acked>>
    BY <1>2 DEF StartAppend, dataVars, DataType, AuditTypeOK, Records
  <2>2. stamp' \in [Records -> 0..MaxTime]
    BY <2>1 DEF DataType, AuditTypeOK
  <2> QED BY <2>1, <2>2 DEF DataType, AuditTypeOK, Begun
<1>3. CASE Tick
  BY <1>3 DEF Tick, vars, dataVars, DataType, AuditTypeOK, Begun
<1>4. ASSUME NEW i \in Slots, Truncate(i) PROVE DataType'
  <2>1. PICK f \in Files :
         /\ content' = [content EXCEPT ![f].tail = "none"]
         /\ synced' = [synced EXCEPT ![f] = content'[f]]
         /\ mtime' = [mtime EXCEPT ![f] = now]
         /\ UNCHANGED <<now, record, stamp, acked>>
    BY <1>4, TruncateEffect
  <2>2. content[f] \in Contents /\ [content[f] EXCEPT !.tail = "none"] \in Contents
    BY RepairedContent DEF DataType, AuditTypeOK
  <2>3. content' = [content EXCEPT ![f] = [content[f] EXCEPT !.tail = "none"]]
    BY <2>1 DEF DataType, AuditTypeOK
  <2>4. content' \in [Files -> Contents] /\ synced' \in [Files -> Contents] /\ mtime' \in [Files -> 0..MaxTime]
    BY <2>1, <2>2, <2>3 DEF DataType, AuditTypeOK
  <2>5. pc' = pc /\ pc = "scan"
    BY <1>4 DEF Truncate, At
  <2> QED BY <2>1, <2>4, <2>5 DEF DataType, AuditTypeOK, Begun
<1>5. CASE WriteLine \/ WritePart
  <2> DEFINE f == fs'.log[Active]
  <2>1. PICK c \in Contents : f \in Files /\ record \in Records /\ WriteTo(f, c)
    <3>1. f \in Files /\ record \in Records /\ content[f] \in Contents
      BY <1>5, WriteEffect DEF DataType, AuditTypeOK
    <3> QED BY <1>5, <3>1, WriteEffect, LineContent, PartContent
  <2>2. content' \in [Files -> Contents] /\ mtime' \in [Files -> 0..MaxTime]
    BY <2>1 DEF WriteTo, DataType, AuditTypeOK
  <2> QED BY <2>1, <2>2 DEF WriteTo, DataType, AuditTypeOK, Begun
<1>6. CASE SyncWritten \/ CallFails
  <2>1. synced' \in [Files -> Contents]
    <3>1. synced \in [Files -> Contents] /\ content \in [Files -> Contents]
      BY DEF DataType, AuditTypeOK
    <3>2. CASE synced' = synced
      BY <3>1, <3>2
    <3>3. CASE /\ fs.log[Active] \in Files
               /\ synced' = [synced EXCEPT ![fs.log[Active]] = content[fs.log[Active]]]
      BY <3>1, <3>3
    <3> QED BY <1>6, <3>2, <3>3, SyncEffect DEF ActiveContent
  <2>2. ~StartAppend \/ record' \in Records
    BY DEF StartAppend, DataType, AuditTypeOK, Records
  <2> QED BY <1>6, <2>1, <2>2, SyncEffect, WorkBegins DEF DataType, AuditTypeOK, Begun
<1>7. CASE PowerFails
  <2>1. pc' = "down"
    BY <1>7 DEF PowerFails, PowerLoss, Halt
  <2> QED BY <1>7, <2>1, PowerEffect DEF DataType, AuditTypeOK, Begun
<1>8. CASE ReturnOk
  <2>1. /\ acked' = acked \cup {record} /\ record \in Records /\ pc' = "idle"
        /\ UNCHANGED <<content, synced, mtime, now, record, stamp>>
    BY <1>8 DEF ReturnOk, Acknowledge, At, dataVars, DataType, Begun
  <2> QED BY <2>1 DEF DataType, AuditTypeOK, Begun
<1> QED BY <1>1, <1>2, <1>3, <1>4, <1>5, <1>6, <1>7, <1>8, DataSteps

LEMMA DataTypeInit == AuditInit => DataType
<1> SUFFICES ASSUME AuditInit PROVE DataType
  OBVIOUS
<1>1. content \in [Files -> Contents] /\ synced \in [Files -> Contents]
  BY EmptyIsContent DEF AuditInit
<1>2. 0 \in 0..MaxTime /\ 0 \in 0..MaxRecords
  BY AuditBoundsAssumption
<1> QED BY <1>1, <1>2 DEF AuditInit, Init, DataType, AuditTypeOK, Begun

-----------------------------------------------------------------------------
(* Times.  A file is at least as young as every record in it, so a record    *)
(* goes with its file only when it is old itself; a slot that the pruning    *)
(* has passed holds no file that was old when the append began.              *)

Recorded(f) == ToSet(content[f].lines) \cup ToSet(synced[f].lines)

Dated ==
  /\ \A f \in Files : mtime[f] <= now
  /\ \A r \in Records : stamp[r] <= now
  /\ \A f \in Files : \A r \in Recorded(f) : r <= record /\ (r # Garbage => stamp[r] <= mtime[f])

Fresh(i) == fs.log[i] # NoFile => stamp[record] - mtime[fs.log[i]] < MaxAge

Pruned ==
  MaxAge > 0 =>
    /\ pc \in {"prune", "reprune"} => \A i \in 1..limit : i < slot => Fresh(i)
    /\ pc \in {"decide", "write", "ack"} => \A i \in 1..limit : Fresh(i)

LEMMA RecordedType ==
  ASSUME AuditTypeOK, NEW f \in Files, NEW r \in Recorded(f)
  PROVE  r \in Records \cup {Garbage}
<1>1. content[f] \in Contents /\ synced[f] \in Contents
  BY DEF AuditTypeOK
<1>2. content[f].lines \in Seq(Records \cup {Garbage}) /\ synced[f].lines \in Seq(Records \cup {Garbage})
  BY <1>1 DEF Contents
<1>3. ASSUME NEW q \in Seq(Records \cup {Garbage}), r \in ToSet(q) PROVE r \in Records \cup {Garbage}
  BY <1>3 DEF ToSet
<1> QED BY <1>2, <1>3 DEF Recorded

\* The one line that is added to a file is the one that is written.
LEMMA LineSteps ==
  ASSUME TypeInv, DataType, [AuditNext]_allVars, NEW f \in Files
  PROVE  /\ synced'[f].lines \in {content[f].lines, synced[f].lines}
         /\ \/ content'[f].lines = content[f].lines
            \/ PowerFails /\ content'[f].lines = synced[f].lines
            \/ /\ WriteLine /\ f = fs'.log[Active] /\ UNCHANGED <<synced, record>>
               /\ content'[f].lines
                    = Append(content[f].lines, IF content[f].tail = "none" THEN record ELSE Garbage)
<1>0. content \in [Files -> Contents] /\ synced \in [Files -> Contents]
  BY DEF DataType, AuditTypeOK
<1>1. CASE Calm \/ StartAppend \/ Tick \/ ReturnOk
  <2>1. UNCHANGED <<content, synced>>
    BY <1>1, CalmUnchanged DEF auditVars, StartAppend, Tick, ReturnOk, dataVars
  <2> QED BY <2>1
<1>2. ASSUME NEW i \in Slots, Truncate(i)
      PROVE  /\ synced'[f].lines \in {content[f].lines, synced[f].lines}
             /\ content'[f].lines = content[f].lines
  <2>1. PICK g \in Files :
         /\ content' = [content EXCEPT ![g].tail = "none"]
         /\ synced' = [synced EXCEPT ![g] = content'[g]]
    BY <1>2, TruncateEffect
  <2>2. content'[g] = [content[g] EXCEPT !.tail = "none"] /\ \A h \in Files : h # g => content'[h] = content[h]
    BY <1>0, <2>1
  <2>3. content'[g].lines = content[g].lines
    BY <1>0, <2>2, RepairedContent
  <2>4. synced'[f].lines = content[f].lines \/ synced'[f].lines = synced[f].lines
    BY <1>0, <2>1, <2>3
  <2>5. content'[f].lines = content[f].lines
    BY <2>2, <2>3
  <2> QED BY <2>4, <2>5
<1>3. CASE WriteLine \/ WritePart
  <2> DEFINE a == fs'.log[Active]
  <2>1. a \in Files /\ record \in Records \cup {Garbage} /\ content[a] \in Contents
    BY <1>0, <1>3, WriteEffect
  <2>2. CASE WriteLine /\ WriteTo(a, WithLine(content[a], record))
    <3>1. /\ content'[a] = WithLine(content[a], record) /\ \A h \in Files : h # a => content'[h] = content[h]
          /\ UNCHANGED <<synced, record>>
      BY <1>0, <2>1, <2>2 DEF WriteTo
    <3>2. WithLine(content[a], record).lines
            = Append(content[a].lines, IF content[a].tail = "none" THEN record ELSE Garbage)
      BY DEF WithLine
    <3> QED BY <2>2, <3>1, <3>2
  <2>3. ASSUME NEW kind \in Tails, WriteTo(a, WithPart(content[a], kind))
        PROVE  content'[f].lines = content[f].lines /\ synced' = synced
    BY <1>0, <2>1, <2>3, PartContent DEF WriteTo
  <2> QED BY <1>3, <2>2, <2>3, WriteEffect
<1>4. CASE SyncWritten \/ CallFails
  <2>1. content' = content
    BY <1>4, SyncEffect
  <2>2. synced'[f] = synced[f] \/ synced'[f] = content[f]
    BY <1>0, <1>4, SyncEffect DEF ActiveContent
  <2> QED BY <2>1, <2>2
<1>5. CASE PowerFails
  <2>1. content'[f] \in Survives(f) /\ synced' = content'
    BY <1>5, PowerEffect
  <2>2. content'[f].lines = content[f].lines \/ content'[f].lines = synced[f].lines
    BY <1>0, <2>1, SurvivorContent
  <2> QED BY <1>5, <2>1, <2>2
<1> QED BY <1>1, <1>2, <1>3, <1>4, <1>5, DataSteps

\* Nothing is recorded that was not there, but for the line that is written.
LEMMA RecordedGrows ==
  ASSUME TypeInv, DataType, [AuditNext]_allVars, NEW f \in Files, NEW r \in Recorded(f)'
  PROVE  \/ r \in Recorded(f)
         \/ WriteLine /\ f = fs'.log[Active] /\ r \in {record, Garbage}
<1>1. r \in ToSet(content'[f].lines) \/ r \in ToSet(synced'[f].lines)
  BY DEF Recorded
<1>2. ASSUME WriteLine, NEW e \in {record, Garbage}, r \in ToSet(Append(content[f].lines, e))
      PROVE  r \in ToSet(content[f].lines) \cup {record, Garbage}
  <2>1. content[f].lines \in Seq(Records \cup {Garbage}) /\ e \in Records \cup {Garbage}
    BY <1>2, WriteEffect DEF DataType, AuditTypeOK, Contents
  <2> QED BY <1>2, <2>1, AppendRange
<1> QED BY <1>1, <1>2, LineSteps DEF Recorded

LEMMA ClockSteps ==
  ASSUME TypeInv, DataType, [AuditNext]_allVars
  PROVE  /\ now' >= now
         /\ \A f \in Files : mtime'[f] = mtime[f] \/ mtime'[f] = now
         /\ \/ record' = record /\ stamp' = stamp
            \/ record' = record + 1 /\ stamp' = [stamp EXCEPT ![record + 1] = now]
<1>0. mtime \in [Files -> 0..MaxTime] /\ now \in Nat
  BY AuditBoundsAssumption DEF DataType, AuditTypeOK
<1>1. CASE Calm \/ StartAppend \/ Tick \/ ReturnOk
  <2>1. UNCHANGED mtime /\ now' >= now
    BY <1>0, <1>1, CalmUnchanged DEF auditVars, StartAppend, Tick, ReturnOk, dataVars
  <2>2. \/ record' = record /\ stamp' = stamp
        \/ record' = record + 1 /\ stamp' = [stamp EXCEPT ![record + 1] = now]
    BY <1>1, CalmUnchanged DEF auditVars, StartAppend, Tick, ReturnOk, dataVars
  <2> QED BY <2>1, <2>2
<1>2. ASSUME NEW i \in Slots, Truncate(i)
      PROVE  /\ now' = now /\ record' = record /\ stamp' = stamp
             /\ \A f \in Files : mtime'[f] = mtime[f] \/ mtime'[f] = now
  <2>1. PICK f \in Files : mtime' = [mtime EXCEPT ![f] = now] /\ UNCHANGED <<now, record, stamp, acked>>
    BY <1>2, TruncateEffect
  <2> QED BY <1>0, <2>1
<1>3. CASE WriteLine \/ WritePart
  <2>1. fs'.log[Active] \in Files
    BY <1>3, WriteEffect
  <2>2. mtime' = [mtime EXCEPT ![fs'.log[Active]] = now] /\ UNCHANGED <<now, record, stamp>>
    BY <1>3 DEF WriteLine, WritePart, WriteTo
  <2> QED BY <1>0, <2>1, <2>2
<1>4. CASE SyncWritten \/ CallFails \/ PowerFails
  <2>1. UNCHANGED <<mtime, now, record, stamp>>
    BY <1>4 DEF SyncWritten, CallFails, PowerFails
  <2> QED BY <1>0, <2>1
<1> QED BY <1>0, <1>1, <1>2, <1>3, <1>4, DataSteps

LEMMA DatedStep == TypeInv /\ DataType /\ Dated /\ [AuditNext]_allVars => Dated'
<1> SUFFICES ASSUME TypeInv, DataType, Dated, [AuditNext]_allVars PROVE Dated'
  OBVIOUS
<1>a. now' \in Nat
  BY AuditBoundsAssumption, DataTypeStep DEF DataType, AuditTypeOK
<1>b. now' >= now
  BY ClockSteps
<1>0. /\ now \in Nat /\ now' \in Nat /\ record \in Nat /\ now' >= now
      /\ \A f \in Files : mtime[f] \in Nat
      /\ \A r \in Records : stamp[r] \in Nat /\ r \in Nat
      /\ stamp \in [Records -> 0..MaxTime]
  BY <1>a, <1>b, AuditBoundsAssumption DEF DataType, AuditTypeOK, Records
<1>1. ASSUME NEW f \in Files PROVE mtime'[f] <= now' /\ mtime'[f] >= mtime[f] /\ mtime'[f] \in Nat
  BY <1>0, ClockSteps DEF Dated
<1>2. ASSUME NEW r \in Records PROVE stamp'[r] <= now' /\ (r <= record => stamp'[r] = stamp[r])
  BY <1>0, ClockSteps DEF Dated
<1>3. ASSUME NEW f \in Files, NEW r \in Recorded(f)'
      PROVE  r <= record' /\ (r # Garbage => stamp'[r] <= mtime'[f])
  <2>1. record' >= record
    BY <1>0, ClockSteps
  <2>2. CASE r \in Recorded(f)
    <3>1. r \in Records \cup {Garbage} /\ r <= record
      BY <2>2, RecordedType DEF Dated, DataType
    <3>2. r # Garbage => r \in Records /\ stamp[r] <= mtime[f]
      BY <2>2, <3>1 DEF Dated
    <3> QED BY <1>0, <1>1, <1>2, <2>1, <3>1, <3>2, ClockSteps DEF Garbage, Records
  <2>3. CASE WriteLine /\ f = fs'.log[Active] /\ r \in {record, Garbage}
    <3>1. record \in Records /\ record' = record /\ stamp' = stamp
      BY <2>3, WriteEffect DEF WriteLine, WriteTo
    <3>2. mtime'[f] = now
      <4>1. mtime' = [mtime EXCEPT ![f] = now]
        BY <2>3 DEF WriteLine, WriteTo
      <4> QED BY <4>1 DEF DataType, AuditTypeOK
    <3> QED BY <1>0, <2>3, <3>1, <3>2 DEF Dated, Garbage
  <2> QED BY <2>2, <2>3, RecordedGrows
<1>4. \A f \in Files : mtime'[f] <= now'
  BY <1>1
<1> QED BY <1>2, <1>3, <1>4 DEF Dated

\* Only the pruning takes files away for their age, one that is old at a time.
LEMMA ExpiredByAge ==
  ASSUME [AuditNext]_allVars, NEW f \in expired' \ expired
  PROVE  ExpireBackup /\ Old(fs.log[slot]) /\ f = fs.log[slot] /\ UNCHANGED auditVars
<1> USE DEF history
<1>1. CASE OpenOrClose \/ StartAppend \/ CallFails \/ ProcessDies \/ PowerFails \/ Tick \/ UNCHANGED allVars
  BY <1>1 DEF OpenOrClose, Open, Close, StartAppend, BeginAppend, CallFails, IoError, Fail, ProcessDies,
              Kill, PowerFails, PowerLoss, Halt, Tick, allVars, vars
<1>2. CASE RotateBeforeAppend \/ RunTransaction
  BY <1>2 DEF RotateBeforeAppend, BeginRotation, RotationRefused, NoRotation, RunTransaction,
              WriteManifest, CreateTemporary, TemporaryExists, PublishManifest, Stage, StageMove,
              StageSkip, StageRefuse, StagingDone, Install, InstallMove, InstallSkip, InstallRefuse,
              InstallingDone, Finish, DropOldest, NothingToDrop, ClearManifest, Fail
<1>3. CASE WriteLine \/ WritePart \/ ReturnOk \/ SyncWritten
  BY <1>3 DEF WriteLine, WritePart, WriteRecord, ReturnOk, Acknowledge, SyncWritten, Sync
<1>4. CASE Recover
  BY <1>4 DEF Recover, ReadManifest, NoManifestFound, UnexplainedFiles, TailsRecovered, Recovered,
              Truncate, CorruptFile, Fail
<1>5. CASE PruneExpired
  BY <1>5 DEF PruneExpired, ExpireBackup, KeepBackup, PruneDone
<1> QED BY <1>1, <1>2, <1>3, <1>4, <1>5 DEF AuditNext, AuditStep

LEMMA PrunedStep == TypeInv /\ DataType /\ Dated /\ Pruned /\ [AuditNext]_allVars => Pruned'
<1> SUFFICES ASSUME TypeInv, DataType, Dated, Pruned, [AuditNext]_allVars, MaxAge > 0
             PROVE  /\ pc' \in {"prune", "reprune"} => \A i \in 1..limit' : i < slot' => Fresh(i)'
                    /\ pc' \in {"decide", "write", "ack"} => \A i \in 1..limit' : Fresh(i)'
  BY DEF Pruned
<1>0. /\ slot \in Int /\ limit \in Nat /\ now \in Nat /\ fs \in Directory /\ MaxAge \in Nat
      /\ \A i \in 1..limit : i \in Slots
      /\ \A f \in Files : mtime[f] \in Nat /\ mtime[f] <= now
      /\ \A r \in Records : stamp[r] \in Nat /\ stamp[r] <= now
      /\ \A i \in Slots : fs.log[i] # NoFile => fs.log[i] \in Files
  BY SlotsAssumption, SizesAssumption, AuditBoundsAssumption
     DEF TypeInv, TypeOK, DataType, AuditTypeOK, Dated, Slots, Directory, FileOrNone
<1> USE DEF At, dirVars, taskVars, hostVars
<1>1. CASE OpenOrClose \/ StartAppend \/ CallFails \/ ProcessDies \/ PowerFails
  <2>1. pc' \in {"idle", "down", "recover"} \/ (pc' = "prune" /\ slot' = 1)
    BY <1>1 DEF OpenOrClose, Open, Close, StartAppend, BeginAppend, CallFails, IoError, Fail,
                ProcessDies, Kill, PowerFails, PowerLoss, Halt
  <2> QED BY <2>1
<1>2. CASE Recover
  <2>1. pc' \in {"idle", "stage", "install", "scan"} \/ (pc' = "prune" /\ slot' = 1)
    BY <1>2 DEF Recover, ReadManifest, NoManifestFound, UnexplainedFiles, TailsRecovered, Recovered,
                Truncate, CorruptFile, Fail
  <2> QED BY <2>1
<1>3. CASE RunTransaction
  <2>1. \/ pc' \in {"idle", "create", "publish", "stage", "install", "drop", "clear", "scan"}
        \/ pc' = "reprune" /\ slot' = 1
    BY <1>3 DEF RunTransaction, WriteManifest, CreateTemporary, TemporaryExists, PublishManifest,
                Stage, StageMove, StageSkip, StageRefuse, StagingDone, Install, InstallMove,
                InstallSkip, InstallRefuse, InstallingDone, Finish, DropOldest, NothingToDrop,
                ClearManifest, Fail
  <2> QED BY <2>1
<1>4. CASE RotateBeforeAppend
  <2>1. \/ pc' \in {"idle", "create"}
        \/ pc = "decide" /\ pc' = "write" /\ UNCHANGED <<fs, limit, mtime, stamp, record>>
    BY <1>4 DEF RotateBeforeAppend, BeginRotation, RotationRefused, NoRotation, Fail, auditVars
  <2> QED BY <2>1 DEF Pruned, Fresh
<1>5. CASE ReturnOk
  BY <1>5 DEF ReturnOk, Acknowledge
<1>6. CASE SyncWritten \/ Tick \/ UNCHANGED allVars
  <2>1. UNCHANGED <<pc, slot, limit, fs, mtime, stamp, record>>
    BY <1>6 DEF SyncWritten, Sync, Tick, allVars, auditVars, dataVars, vars
  <2> QED BY <2>1 DEF Pruned, Fresh
<1>7. CASE WriteLine \/ WritePart
  <2>1. pc = "write" /\ pc' = "ack" /\ UNCHANGED <<limit, stamp, record>>
    BY <1>7 DEF WriteLine, WritePart, WriteRecord, WriteTo
  <2>2. fs'.log[Active] \in Files /\ record \in Records
    BY <1>7, WriteEffect
  <2>3. \A f \in Files : mtime'[f] = mtime[f] \/ mtime'[f] = now
    BY ClockSteps
  <2>4. ASSUME NEW i \in 1..limit PROVE fs'.log[i] = fs.log[i]
    <3>1. i \in Slots /\ i # Active
      BY <1>0 DEF Active
    <3> QED BY <1>0, <1>7, <3>1 DEF WriteLine, WritePart, WriteRecord, Change, Directory
  <2>5. ASSUME NEW i \in 1..limit PROVE Fresh(i)'
    <3>1. fs.log[i] # NoFile => fs.log[i] \in Files /\ stamp[record] - mtime[fs.log[i]] < MaxAge
      BY <1>0, <2>1 DEF Pruned, Fresh
    <3> QED BY <1>0, <2>1, <2>2, <2>3, <2>4, <3>1 DEF Fresh
  <2> QED BY <2>1, <2>5
<1>8. CASE PruneExpired
  <2>1. /\ pc \in {"prune", "reprune"} /\ record \in Records
        /\ UNCHANGED <<limit, mtime, stamp, record>>
    BY <1>8 DEF PruneExpired, ExpireBackup, KeepBackup, PruneDone, auditVars, DataType, Begun
  <2>2. CASE ExpireBackup
    <3>1. pc' = pc /\ slot' = slot + 1 /\ slot \in 1..limit /\ fs' = [fs EXCEPT !.log[slot] = NoFile]
      BY <1>0, <2>1, <2>2 DEF ExpireBackup, Change, TypeInv, JobOK
    <3>2. \A i \in 1..limit : fs'.log[i] = IF i = slot THEN NoFile ELSE fs.log[i]
      BY <1>0, <3>1 DEF Directory
    <3>3. \A i \in 1..limit : i < slot' => Fresh(i)'
      BY <1>0, <2>1, <3>1, <3>2 DEF Pruned, Fresh
    <3> QED BY <2>1, <3>1, <3>3
  <2>3. CASE KeepBackup /\ ~(fs.log[slot] # NoFile /\ Old(fs.log[slot]))
    <3>1. pc' = pc /\ slot' = slot + 1 /\ slot \in 1..limit /\ fs' = fs
      BY <1>0, <2>1, <2>3 DEF KeepBackup, TypeInv, JobOK
    <3>2. fs.log[slot] # NoFile => stamp[record] - mtime[fs.log[slot]] < MaxAge
      BY <1>0, <2>1, <2>3, <3>1 DEF Old
    <3>3. \A i \in 1..limit : i < slot' => Fresh(i)'
      BY <1>0, <2>1, <3>1, <3>2 DEF Pruned, Fresh
    <3> QED BY <2>1, <3>1, <3>3
  <2>4. CASE PruneDone
    <3>1. pc' \in {"decide", "write"} /\ slot > limit /\ fs' = fs
      BY <2>4 DEF PruneDone
    <3>2. \A i \in 1..limit : Fresh(i)'
      BY <1>0, <2>1, <3>1 DEF Pruned, Fresh
    <3> QED BY <2>1, <3>1, <3>2
  <2> QED BY <1>8, <2>2, <2>3, <2>4 DEF PruneExpired
<1> QED BY <1>1, <1>2, <1>3, <1>4, <1>5, <1>6, <1>7, <1>8 DEF AuditNext, AuditStep

TimeInv == RotationInv /\ DataType /\ Dated /\ Pruned

LEMMA TimeInvInit == AuditInit => TimeInv
<1> SUFFICES ASSUME AuditInit PROVE TimeInv
  OBVIOUS
<1>1. RotationInv
  BY RotationInvInit DEF AuditInit
<1>2. DataType
  BY DataTypeInit
<1>3. Dated
  BY EmptyIsContent DEF AuditInit, Dated, Recorded
<1>4. pc = "down"
  BY DEF AuditInit, Init
<1> QED BY <1>1, <1>2, <1>3, <1>4 DEF TimeInv, Pruned

LEMMA TimeInvStep == TimeInv /\ [AuditNext]_allVars => TimeInv'
<1> SUFFICES ASSUME TimeInv, [AuditNext]_allVars PROVE TimeInv'
  OBVIOUS
<1>1. TypeInv /\ RotationInv /\ DataType /\ Dated /\ Pruned
  BY DEF TimeInv, RotationInv, KeptInv
<1> QED BY <1>1, RotationInvStep, DataTypeStep, DatedStep, PrunedStep DEF TimeInv

\* The files, their contents and the clock keep their types.
THEOREM AuditTypeCorrect == AuditSpec => []AuditTypeOK
<1>1. TimeInv => AuditTypeOK
  BY DEF TimeInv, DataType
<1> QED BY <1>1, TimeInvInit, TimeInvStep, PTL DEF AuditSpec

\* With contents, clocks and tails too, no file leaves the log before as many
\* newer ones exist as some process was configured to retain.
THEOREM LogRetentionIsHonoured == AuditSpec => []RetentionHonoured
<1>1. TimeInv => RetentionHonoured
  BY DEF TimeInv, RotationInv, AgeInv
<1> QED BY <1>1, TimeInvInit, TimeInvStep, PTL DEF AuditSpec

\* Pruning goes by the modification time of the file, and yet takes no record
\* that is younger than max_age: whatever was appended, truncated, lost or
\* rotated, a file is never older than a record that is in it.
THEOREM YoungRecordsAreKept == AuditSpec => YoungRecordsKept
<1> DEFINE Young == \A f \in expired' \ expired : \A r \in Readable(f) : now - stamp[r] >= MaxAge
<1>1. TimeInv /\ [AuditNext]_allVars => [Young]_allVars
  <2> SUFFICES ASSUME TimeInv, [AuditNext]_allVars, NEW f \in expired' \ expired, NEW r \in Readable(f)
               PROVE  now - stamp[r] >= MaxAge
    OBVIOUS
  <2>1. TypeInv /\ DataType /\ Dated
    BY DEF TimeInv, RotationInv, KeptInv
  <2>2. Old(f) /\ f = fs.log[slot] /\ ExpireBackup
    BY ExpiredByAge
  <2>3. f \in Files
    <3>1. f \in expired'
      OBVIOUS
    <3>2. expired' \subseteq Files
      BY <2>1, <2>2, ChangingStep DEF Changing, TypeInv, TypeOK
    <3> QED BY <3>1, <3>2
  <2>4. r \in Recorded(f) /\ r # Garbage
    BY DEF Readable, Recorded
  <2>5. r \in Records /\ stamp[r] <= mtime[f]
    BY <2>1, <2>3, <2>4, RecordedType DEF Dated, DataType
  <2>6. now \in Nat /\ mtime[f] \in Nat /\ stamp[r] \in Nat /\ MaxAge \in Nat
    BY <2>1, <2>3, <2>5, AuditBoundsAssumption, SizesAssumption DEF DataType, AuditTypeOK
  <2> QED BY <2>2, <2>5, <2>6 DEF Old
<1>2. [][Young]_allVars => YoungRecordsKept
  BY DEF YoungRecordsKept
<1> QED BY <1>1, <1>2, TimeInvInit, TimeInvStep, PTL DEF AuditSpec

\* When an append returns, no configured backup is left that was old when the
\* append began: the second pruning sees what the rotation has shifted in.
THEOREM ExpiredAreRemoved == AuditSpec => ExpiredRemoved
<1> DEFINE Expired ==
      ReturnOk /\ MaxAge > 0 => \A i \in 1..limit :
        fs.log[i] # NoFile => stamp[record] - mtime[fs.log[i]] < MaxAge
<1>1. TimeInv /\ [AuditNext]_allVars => [Expired]_allVars
  <2>1. ReturnOk => pc = "ack"
    BY DEF ReturnOk, Acknowledge, At
  <2> QED BY <2>1 DEF TimeInv, Pruned, Fresh
<1>2. [][Expired]_allVars => ExpiredRemoved
  BY DEF ExpiredRemoved
<1> QED BY <1>1, <1>2, TimeInvInit, TimeInvStep, PTL DEF AuditSpec

-----------------------------------------------------------------------------
(* The length of an append.  It recovers first and works afterwards, and each *)
(* location lies ahead of those it leads to (LocationsAhead); a loop counts   *)
(* its slots down, and the scan the tails it has yet to repair.               *)

Phased ==
  /\ pc \in {"recover", "scan"} => ~recovered
  /\ pc \in {"prune", "decide", "reprune", "write", "ack"} => recovered
  /\ pc \in {"down", "idle"} => ~syncing

PhaseInv == TimeInv /\ Phased

LEMMA PhasedStep ==
  ASSUME TypeInv, Phased, [AuditNext]_allVars
  PROVE  Phased'
<1>1. CASE Repairing \/ Rejecting
  BY <1>1 DEF Repairing, Rejecting, Fail, At, Phased
<1>2. CASE Open \/ Close \/ BeginAppend \/ Sync \/ IoError \/ Kill \/ PowerLoss \/ UNCHANGED vars
  BY <1>2 DEF Open, Close, BeginAppend, Sync, IoError, Fail, Kill, PowerLoss, Halt, vars, hostVars, Phased
<1>3. CASE Recovery \/ Prune \/ Decide \/ Write
  BY <1>3 DEF Recovery, ReadManifest, NoManifestFound, Recovered, UnexplainedFiles, Prune, ExpireBackup,
     KeepBackup, PruneDone, Decide, NoRotation, BeginRotation, RotationRefused, Write, WriteRecord,
     Acknowledge, Fail, At, Phased
<1>4. CASE WriteManifest \/ Stage \/ Install \/ Finish
  BY <1>4 DEF WriteManifest, CreateTemporary, TemporaryExists, PublishManifest, Stage, StageMove,
     StageSkip, StageRefuse, StagingDone, Install, InstallMove, InstallSkip, InstallRefuse,
     InstallingDone, Finish, DropOldest, NothingToDrop, ClearManifest, Fail, At, Phased
<1> QED BY <1>1, <1>2, <1>3, <1>4, AuditSteps DEF Next, AppendStep

LEMMA PhaseInvInit == AuditInit => PhaseInv
  BY TimeInvInit DEF AuditInit, Init, PhaseInv, Phased

LEMMA PhaseInvStep == PhaseInv /\ [AuditNext]_allVars => PhaseInv'
<1> SUFFICES ASSUME PhaseInv, [AuditNext]_allVars PROVE PhaseInv'
  OBVIOUS
<1>1. TypeInv /\ TimeInv /\ Phased
  BY DEF PhaseInv, TimeInv, RotationInv, KeptInv
<1> QED BY <1>1, PhasedStep, TimeInvStep DEF PhaseInv

LEMMA PlaceNow ==
  ASSUME pc \in Locations
  PROVE  LocationsAhead \in 0..23 /\ (pc \notin {"down", "idle"} => LocationsAhead >= 1)
<1>1. LocationsAhead \in 0..23
  BY DEF Locations, LocationsAhead
<1>2. ASSUME pc \notin {"down", "idle"}
      PROVE  LocationsAhead >= 1
  BY <1>2 DEF Locations, LocationsAhead
<1> QED BY <1>1, <1>2

LEMMA PlaceNext ==
  ASSUME pc' \in Locations
  PROVE  LocationsAhead' \in 0..23 /\ (pc' \notin {"down", "idle"} => LocationsAhead' >= 1)
<1>1. LocationsAhead' \in 0..23
  BY DEF Locations, LocationsAhead
<1>2. ASSUME pc' \notin {"down", "idle"}
      PROVE  LocationsAhead' >= 1
  BY <1>2 DEF Locations, LocationsAhead
<1> QED BY <1>1, <1>2

LEMMA AheadIsNat ==
  /\ TypeInv => LocationsAhead \in Nat /\ (pc \notin {"down", "idle"} => LocationsAhead >= 1)
  /\ TypeInv' => LocationsAhead' \in Nat /\ (pc' \notin {"down", "idle"} => LocationsAhead' >= 1)
<1>1. (TypeInv => pc \in Locations) /\ (TypeInv' => pc' \in Locations)
  BY DEF TypeInv, TypeOK
<1> QED BY <1>1, PlaceNow, PlaceNext

LEMMA SomeSlots ==
  ASSUME NEW D \in SUBSET Slots
  PROVE  IsFiniteSet(D) /\ Cardinality(D) \in 0..(MaxSlots + 1)
<1>1. IsFiniteSet(Slots) /\ Cardinality(Slots) = MaxSlots + 1
  BY SlotsAssumption, FS_Interval DEF Slots
<1>2. IsFiniteSet(D) /\ Cardinality(D) <= MaxSlots + 1 /\ Cardinality(D) \in Nat
  BY <1>1, FS_Subset, FS_CardinalityType
<1> QED BY <1>2, SlotsAssumption

LEMMA LoopIsBounded ==
  /\ TypeInv => RestOfLoop \in 0..(MaxSlots + 1)
  /\ TypeInv' => RestOfLoop' \in 0..(MaxSlots + 1)
<1>1. MaxSlots \in Nat
  BY SlotsAssumption
<1>2. /\ Cardinality({i \in Slots : Dirty(i)}) \in 0..(MaxSlots + 1)
      /\ Cardinality({i \in Slots : Dirty(i)}') \in 0..(MaxSlots + 1)
  BY SomeSlots
<1>3. /\ TypeInv => slot \in 0..(MaxSlots + 1)
      /\ TypeInv' => slot' \in 0..(MaxSlots + 1)
  BY DEF TypeInv, TypeOK
<1> QED BY <1>1, <1>2, <1>3 DEF RestOfLoop

LEMMA Weighed ==
  ASSUME NEW w \in Nat, NEW a \in Nat, NEW p \in 0..(w + 1)
  PROVE  /\ (w + 2) * a + p \in Nat
         /\ a >= 1 => (w + 2) * a + p >= 1
<1>1. (w + 2) * a \in Nat /\ (a >= 1 => (w + 2) * a >= 1)
  BY SMTT(20)
<1> QED BY <1>1

LEMMA Farther ==
  ASSUME NEW w \in Nat, NEW a \in Nat, NEW b \in Nat, b < a,
         NEW p \in 0..(w + 1), NEW q \in 0..(w + 1)
  PROVE  (w + 2) * b + q < (w + 2) * a + p
<1>1. (w + 2) * (b + 1) <= (w + 2) * a
  BY SMTT(20)
<1>2. (w + 2) * (b + 1) = (w + 2) * b + w + 2
  BY SMTT(20)
<1>3. (w + 2) * a \in Int /\ (w + 2) * b \in Int
  BY SMTT(20)
<1> QED BY <1>1, <1>2, <1>3

LEMMA StepsLeftIsNat ==
  /\ TypeInv => StepsLeft \in Nat
  /\ TypeInv' => StepsLeft' \in Nat
<1> DEFINE before == (MaxSlots + 2) * LocationsAhead + RestOfLoop
<1>1. (TypeInv => before \in Nat) /\ (TypeInv' => before' \in Nat)
  BY SlotsAssumption, Weighed, AheadIsNat, LoopIsBounded
<1>2. /\ StepsLeft = IF pc \in {"down", "idle"} THEN 0
                     ELSE 2 * before + (IF syncing THEN 1 ELSE 0)
      /\ StepsLeft' = IF pc' \in {"down", "idle"} THEN 0
                      ELSE 2 * before' + (IF syncing' THEN 1 ELSE 0)
  BY DEF StepsLeft
<1> HIDE DEF before
<1> QED BY <1>1, <1>2

\* A step to a location that lies closer to the end, or round a loop.
LEMMA Nearer ==
  ASSUME TypeInv, TypeInv', pc \notin {"down", "idle"}, ~syncing,
         \/ pc' \in {"down", "idle"}
         \/ LocationsAhead' < LocationsAhead
         \/ LocationsAhead' = LocationsAhead /\ RestOfLoop' < RestOfLoop
  PROVE  StepsLeft' < StepsLeft
<1> DEFINE W == MaxSlots + 2
           before == W * LocationsAhead + RestOfLoop
           after == W * LocationsAhead' + RestOfLoop'
<1>1. /\ LocationsAhead \in Nat /\ LocationsAhead' \in Nat /\ LocationsAhead >= 1
      /\ RestOfLoop \in 0..(MaxSlots + 1) /\ RestOfLoop' \in 0..(MaxSlots + 1)
      /\ MaxSlots \in Nat
  BY AheadIsNat, LoopIsBounded, SlotsAssumption
<1>2. before \in Nat /\ after \in Nat /\ before >= 1
  BY <1>1, Weighed
<1>3. pc' \in {"down", "idle"} \/ after < before
  <2>1. CASE LocationsAhead' < LocationsAhead
    BY <1>1, <2>1, Farther
  <2>2. CASE LocationsAhead' = LocationsAhead /\ RestOfLoop' < RestOfLoop
    <3>1. \A n \in Int : \A p, q \in 0..(MaxSlots + 1) : q < p => n + q < n + p
      BY <1>1
    <3>2. W * LocationsAhead \in Int
      BY <1>1, SMTT(20)
    <3>3. after = W * LocationsAhead + RestOfLoop'
      BY <2>2
    <3> HIDE DEF W, after
    <3> QED BY <1>1, <2>2, <3>1, <3>2, <3>3
  <2> QED BY <2>1, <2>2
<1>4. /\ StepsLeft = 2 * before
      /\ StepsLeft' = IF pc' \in {"down", "idle"} THEN 0
                      ELSE 2 * after + (IF syncing' THEN 1 ELSE 0)
  BY <1>2 DEF StepsLeft
<1> HIDE DEF before, after
<1> QED BY <1>2, <1>3, <1>4

\* Every step of the append itself is one of those, or the sync that is due.
LEMMA Advances ==
  ASSUME PhaseInv, PhaseInv', AuditStep, ~SyncWritten
  PROVE  /\ pc \notin {"down", "idle"} /\ ~syncing
         /\ \/ pc' \in {"down", "idle"}
            \/ LocationsAhead' < LocationsAhead
            \/ LocationsAhead' = LocationsAhead /\ RestOfLoop' < RestOfLoop
<1>0. /\ Phased /\ TypeInv /\ TypeInv' /\ MaxSlots \in Nat
      /\ slot \in 0..(MaxSlots + 1) /\ slot' \in 0..(MaxSlots + 1)
  BY SlotsAssumption DEF PhaseInv, TimeInv, RotationInv, KeptInv, TypeInv, TypeOK
<1>1. CASE \E i \in Slots : Truncate(i)
  <2>1. PICK i \in Slots : Truncate(i)
    BY <1>1
  <2> DEFINE D == {j \in Slots : Dirty(j)}
             f == fs.log[i]
  <2>2. pc = "scan" /\ pc' = "scan" /\ ~syncing /\ fs' = fs /\ recovered' = recovered /\ job' = job
        /\ content' = [content EXCEPT ![f].tail = "none"] /\ Dirty(i) /\ ~Broken(i)
    BY <2>1 DEF Truncate, At, FirstAt, dirVars, taskVars
  <2>3. content \in [Files -> Contents] /\ f \in Files
    BY <1>0, <2>2 DEF PhaseInv, TimeInv, DataType, AuditTypeOK, TypeInv, TypeOK, Directory, FileOrNone,
       Dirty
  <2>4. D' \subseteq D /\ i \in D /\ i \notin D'
    BY <2>2, <2>3 DEF Dirty, Contents
  <2> HIDE DEF D
  <2>5. Cardinality(D') < Cardinality(D)
    <3>1. D \in SUBSET Slots /\ IsFiniteSet(D) /\ Cardinality(D) \in Nat
      BY SomeSlots DEF D
    <3>2. IsFiniteSet(D') /\ Cardinality(D') \in Nat
      BY <2>4, <3>1, FS_Subset, FS_CardinalityType
    <3> QED BY <2>4, <3>1, <3>2, FS_Subset
  <2>6. RestOfLoop = Cardinality(D) /\ RestOfLoop' = Cardinality(D')
    BY <2>2 DEF RestOfLoop, D
  <2>7. LocationsAhead' = LocationsAhead
    BY <2>2 DEF LocationsAhead
  <2> QED BY <2>2, <2>5, <2>6, <2>7
<1>2. CASE (\E i \in Slots : CorruptFile(i)) \/ ReadManifest \/ NoManifestFound \/ UnexplainedFiles
           \/ TailsRecovered
  BY <1>0, <1>2 DEF CorruptFile, ReadManifest, NoManifestFound, UnexplainedFiles, TailsRecovered, Recovered,
     Fail, At, Phased, LocationsAhead
<1>3. CASE PruneExpired
  BY <1>0, <1>3 DEF PruneExpired, ExpireBackup, KeepBackup, PruneDone, LocationsAhead, RestOfLoop, Phased
<1>4. CASE RotateBeforeAppend
  BY <1>0, <1>4 DEF RotateBeforeAppend, BeginRotation, NewManifest, RotationRefused, NoRotation, Fail, At,
     LocationsAhead, Phased
<1>5. CASE WriteManifest
  BY <1>0, <1>5 DEF WriteManifest, CreateTemporary, TemporaryExists, PublishManifest, Fail, At,
     LocationsAhead, hostVars, taskVars
<1>6. CASE Stage
  BY <1>0, <1>6 DEF Stage, StageMove, StageSkip, StageRefuse, StagingDone, Fail, At, LocationsAhead,
     RestOfLoop, TypeInv, JobOK, Working, Manifest
<1>7. CASE Install
  BY <1>0, <1>7 DEF Install, InstallMove, InstallSkip, InstallRefuse, InstallingDone, Fail, At,
     LocationsAhead, RestOfLoop
<1>8. CASE Finish
  BY <1>0, <1>8 DEF Finish, DropOldest, NothingToDrop, ClearManifest, At, LocationsAhead, taskVars
<1>9. CASE WriteLine \/ WritePart \/ ReturnOk
  BY <1>0, <1>9 DEF WriteLine, WritePart, WriteRecord, ReturnOk, Acknowledge, At, LocationsAhead
<1> QED BY <1>1, <1>2, <1>3, <1>4, <1>5, <1>6, <1>7, <1>8, <1>9
        DEF AuditStep, Recover, RunTransaction

LEMMA SyncShortens ==
  ASSUME PhaseInv, PhaseInv', SyncWritten
  PROVE  StepsLeft' < StepsLeft
<1>1. TypeInv /\ Phased /\ MaxSlots \in Nat
  BY SlotsAssumption DEF PhaseInv, TimeInv, RotationInv, KeptInv
<1>2. syncing /\ ~syncing' /\ UNCHANGED <<pc, job, slot, recovered, fs, content>>
  BY DEF SyncWritten, Sync, taskVars
<1>3. pc \notin {"down", "idle"}
  BY <1>1, <1>2 DEF Phased
<1>4. LocationsAhead' = LocationsAhead /\ RestOfLoop' = RestOfLoop
  BY <1>2 DEF LocationsAhead, RestOfLoop, Dirty
<1> DEFINE before == (MaxSlots + 2) * LocationsAhead + RestOfLoop
<1>5. before \in Nat
  BY <1>1, Weighed, AheadIsNat, LoopIsBounded
<1>6. StepsLeft = 2 * before + 1
  BY <1>2, <1>3 DEF StepsLeft
<1>7. before' = before
  BY <1>4
<1>8. StepsLeft' = 2 * before' + 0
  BY <1>2, <1>3 DEF StepsLeft
<1> HIDE DEF before
<1> QED BY <1>5, <1>6, <1>7, <1>8

\* The clock alone moves, or the append ends.
LEMMA OthersWait ==
  ASSUME PhaseInv, PhaseInv', [AuditNext]_allVars, ~AuditStep, ~StartAppend
  PROVE  StepsLeft' <= StepsLeft
<1>1. StepsLeft \in Nat
  BY StepsLeftIsNat DEF PhaseInv, TimeInv, RotationInv, KeptInv
<1>2. CASE Tick \/ UNCHANGED allVars
  <2>1. UNCHANGED <<pc, job, slot, recovered, fs, content, syncing>>
    BY <1>2 DEF Tick, allVars, vars, auditVars, dataVars
  <2>2. StepsLeft' = StepsLeft
    BY <2>1 DEF StepsLeft, LocationsAhead, RestOfLoop, Dirty
  <2> QED BY <1>1, <2>2
<1>3. CASE OpenOrClose \/ CallFails \/ ProcessDies \/ PowerFails
  <2>1. pc' \in {"down", "idle"}
    BY <1>3 DEF OpenOrClose, Open, Close, CallFails, IoError, Fail, ProcessDies, Kill, PowerFails, PowerLoss, Halt
  <2>2. StepsLeft' = 0
    BY <2>1 DEF StepsLeft
  <2> QED BY <1>1, <2>2
<1> QED BY <1>2, <1>3 DEF AuditNext

\* Whatever the directory and the files an append finds, and whatever crashed or
\* failed before, an append of the log takes no more steps than StepsLeft counts
\* when it begins.
THEOREM AppendsAreShort == AuditSpec => AppendShortens
<1> DEFINE Shorter == /\ AuditStep => StepsLeft' < StepsLeft
                      /\ ~StartAppend => StepsLeft' <= StepsLeft
<1>1. PhaseInv /\ [AuditNext]_allVars => [Shorter]_allVars
  <2> SUFFICES ASSUME PhaseInv, [AuditNext]_allVars PROVE Shorter
    OBVIOUS
  <2>1. PhaseInv'
    BY PhaseInvStep
  <2>2. TypeInv /\ TypeInv'
    BY <2>1 DEF PhaseInv, TimeInv, RotationInv, KeptInv
  <2>3. AuditStep => StepsLeft' < StepsLeft
    BY <2>1, <2>2, Advances, SyncShortens, Nearer
  <2>4. ~AuditStep /\ ~StartAppend => StepsLeft' <= StepsLeft
    BY <2>1, OthersWait
  <2>5. StepsLeft' < StepsLeft => StepsLeft' <= StepsLeft
    BY <2>2, StepsLeftIsNat
  <2> QED BY <2>3, <2>4, <2>5
<1>2. [][Shorter]_allVars => AppendShortens
  BY DEF AppendShortens
<1> QED BY <1>1, <1>2, PhaseInvInit, PhaseInvStep, PTL DEF AuditSpec

-----------------------------------------------------------------------------
(* What a crash can take.  The synced lines of a file are among those that   *)
(* were written, they only grow, and files not yet created are empty.        *)

Grown ==
  \A f \in Files :
    /\ ToSet(synced[f].lines) \subseteq ToSet(content[f].lines)
    /\ f > files => content[f] = EmptyContent /\ synced[f] = EmptyContent

\* Only a write creates a file, or gives the log an active file.
LEMMA FileSteps ==
  ASSUME TypeInv, DataType, [AuditNext]_allVars
  PROVE  /\ files' = files \/ ((WriteLine \/ WritePart) /\ files' = files + 1)
         /\ fs'.log[Active] \in {fs.log[Active], NoFile} \/ WriteLine \/ WritePart \/ PowerFails
<1>0. fs \in Directory /\ 0 \in Slots /\ slot \in Int
  BY SlotsAssumption DEF TypeInv, TypeOK, Slots
<1> USE DEF dirVars
<1>1. CASE OpenOrClose \/ StartAppend \/ CallFails \/ ProcessDies \/ Tick \/ UNCHANGED allVars
  BY <1>1 DEF OpenOrClose, Open, Close, StartAppend, BeginAppend, CallFails, IoError, Fail, ProcessDies,
              Kill, Halt, Tick, allVars, vars
<1>2. CASE PowerFails
  BY <1>2 DEF PowerFails, PowerLoss, Halt
<1>3. CASE RotateBeforeAppend \/ ReturnOk \/ SyncWritten \/ Recover
  BY <1>3 DEF RotateBeforeAppend, BeginRotation, RotationRefused, NoRotation, Fail, ReturnOk,
              Acknowledge, SyncWritten, Sync, Recover, ReadManifest, NoManifestFound,
              UnexplainedFiles, TailsRecovered, Recovered, Truncate, CorruptFile
<1>4. CASE WriteLine \/ WritePart
  BY <1>4 DEF WriteLine, WritePart, WriteRecord
<1>5. CASE PruneExpired
  <2>1. CASE ExpireBackup
    <3>1. slot # Active /\ files' = files /\ fs' = [fs EXCEPT !.log[slot] = NoFile]
      BY <2>1 DEF ExpireBackup, Change, TypeInv, JobOK, Active
    <3>2. fs'.log[Active] = fs.log[Active]
      BY <1>0, <3>1 DEF Directory, Active
    <3> QED BY <3>1, <3>2
  <2>2. CASE KeepBackup \/ PruneDone
    BY <2>2 DEF KeepBackup, PruneDone
  <2> QED BY <1>5, <2>1, <2>2 DEF PruneExpired
<1>6. CASE RunTransaction
  <2>1. CASE TemporaryExists \/ StageSkip \/ StageRefuse \/ StagingDone \/ InstallSkip
             \/ InstallRefuse \/ InstallingDone \/ NothingToDrop
    BY <2>1 DEF TemporaryExists, StageSkip, StageRefuse, StagingDone, InstallSkip, InstallRefuse,
                InstallingDone, NothingToDrop, Fail
  <2>2. CASE CreateTemporary \/ PublishManifest \/ ClearManifest \/ DropOldest
    <3>1. files' = files /\ fs'.log = fs.log
      BY <1>0, <2>2 DEF CreateTemporary, PublishManifest, ClearManifest, DropOldest, Change, Directory
    <3> QED BY <3>1
  <2>3. CASE StageMove
    <3>1. pc = "stage" /\ files' = files /\ slot <= job.max /\ fs' = StageFile(fs, job.txn, slot)
      BY <2>3 DEF StageMove, Change, At
    <3>2. job.txn \in Txns /\ slot \in Slots
      BY <3>1, AtWork DEF Working, TypeInv, TypeOK
    <3>3. fs'.log[Active] = IF slot = 0 THEN NoFile ELSE fs.log[Active]
      BY <1>0, <3>1, <3>2, StageFileFields DEF Active
    <3> QED BY <3>1, <3>3
  <2>4. CASE InstallMove
    <3>1. pc = "install" /\ files' = files /\ slot <= job.max /\ fs' = InstallFile(fs, job.txn, slot)
      BY <2>4 DEF InstallMove, Change, At
    <3>2. job.txn \in Txns /\ slot \in Backups
      BY <3>1, AtWork DEF Working, TypeInv, TypeOK, JobOK, Backups
    <3>3. fs'.log[Active] = fs.log[Active]
      BY <1>0, <3>1, <3>2, InstallFileFields DEF Active, Backups
    <3> QED BY <3>1, <3>3
  <2> QED BY <1>6, <2>1, <2>2, <2>3, <2>4 DEF RunTransaction, WriteManifest, Stage, Install, Finish
<1> QED BY <1>1, <1>2, <1>3, <1>4, <1>5, <1>6 DEF AuditNext, AuditStep

\* The written file is the one that was active, or a new one.
LEMMA WrittenWhich ==
  ASSUME TypeInv, AgeInv, WriteRecord
  PROVE  /\ fs'.log[Active] <= files'
         /\ \/ fs.log[Active] # NoFile /\ fs'.log[Active] = fs.log[Active] /\ files' = files
            \/ fs.log[Active] = NoFile /\ fs'.log[Active] = files + 1 /\ files' = files + 1
<1>0. fs \in Directory /\ 0 \in Slots /\ Aged(fs, files) /\ files \in Nat /\ fs.log[0] \in Nat
  BY FileNumbers, SlotsAssumption, BoundsAssumption DEF TypeInv, TypeOK, AgeInv, Slots
<1>1. CASE fs.log[Active] # NoFile
  <2>1. fs.log[0] + 0 <= files
    BY <1>0, <1>1 DEF Aged, Newer, Active
  <2> QED BY <1>0, <1>1, <2>1 DEF WriteRecord, dirVars, Active
<1>2. CASE fs.log[Active] = NoFile
  <2>1. fs' = [fs EXCEPT !.log[0] = files + 1] /\ files' = files + 1
    BY <1>2 DEF WriteRecord, Change, Active
  <2>2. fs'.log[0] = files + 1
    BY <1>0, <2>1 DEF Directory
  <2> QED BY <1>0, <1>2, <2>1, <2>2 DEF Active
<1> QED BY <1>1, <1>2

LEMMA GrownStep ==
  ASSUME TypeInv, AgeInv, DataType, Grown, [AuditNext]_allVars
  PROVE  /\ Grown'
         /\ \A f \in Files : ToSet(synced[f].lines) \subseteq ToSet(synced'[f].lines)
<1>0. /\ content \in [Files -> Contents] /\ synced \in [Files -> Contents] /\ files \in Nat
      /\ \A f \in Files : f \in Nat
  BY BoundsAssumption DEF DataType, AuditTypeOK, TypeInv, TypeOK, Files
<1>1. CASE Calm \/ StartAppend \/ Tick \/ ReturnOk
  <2>1. UNCHANGED <<content, synced>>
    BY <1>1, CalmUnchanged DEF auditVars, StartAppend, Tick, ReturnOk, dataVars
  <2>2. files' = files \/ files' = files + 1
    BY FileSteps
  <2> QED BY <1>0, <2>1, <2>2 DEF Grown
<1>2. ASSUME NEW i \in Slots, Truncate(i)
      PROVE  Grown' /\ \A f \in Files : ToSet(synced[f].lines) \subseteq ToSet(synced'[f].lines)
  <2>1. PICK g \in Files :
         /\ content[g].tail # "none"
         /\ content' = [content EXCEPT ![g].tail = "none"]
         /\ synced' = [synced EXCEPT ![g] = content'[g]]
    BY <1>2, TruncateEffect
  <2>2. /\ content'[g] = [content[g] EXCEPT !.tail = "none"]
        /\ synced'[g] = content'[g]
        /\ \A h \in Files : h # g => content'[h] = content[h] /\ synced'[h] = synced[h]
    BY <1>0, <2>1
  <2>3. content'[g].lines = content[g].lines
    BY <1>0, <2>2, RepairedContent
  <2>4. ~(g > files) /\ files' = files
    BY <1>2, <2>1 DEF Grown, EmptyContent, Truncate
  <2> QED BY <1>0, <2>2, <2>3, <2>4 DEF Grown
<1>3. CASE WriteLine \/ WritePart
  <2> DEFINE a == fs'.log[Active]
  <2>1. a \in Files /\ record \in Records /\ content[a] \in Contents /\ a <= files' /\ files' >= files
    BY <1>0, <1>3, WriteEffect, WrittenWhich DEF WriteLine, WritePart
  <2>2. PICK c \in Contents : WriteTo(a, c) /\ ToSet(content[a].lines) \subseteq ToSet(c.lines)
    <3>1. CASE WriteLine /\ WriteTo(a, WithLine(content[a], record))
      <4>1. record \in Records \cup {Garbage}
        BY <2>1
      <4>2. /\ WithLine(content[a], record) \in Contents
            /\ ToSet(content[a].lines) \subseteq ToSet(WithLine(content[a], record).lines)
        BY <2>1, <4>1, LineContent
      <4> QED BY <3>1, <4>2
    <3>2. ASSUME NEW kind \in Tails, WriteTo(a, WithPart(content[a], kind))
          PROVE  \E c \in Contents : WriteTo(a, c) /\ ToSet(content[a].lines) \subseteq ToSet(c.lines)
      BY <2>1, <3>2, PartContent
    <3> QED BY <1>3, <3>1, <3>2, WriteEffect
  <2>3. content'[a] = c /\ synced' = synced /\ \A h \in Files : h # a => content'[h] = content[h]
    BY <1>0, <2>1, <2>2 DEF WriteTo
  <2>4. files' \in Nat
    BY <1>0, <1>3, WrittenWhich DEF WriteLine, WritePart
  <2> QED BY <1>0, <2>1, <2>2, <2>3, <2>4 DEF Grown
<1>4. CASE SyncWritten \/ CallFails
  <2>1. content' = content
    BY <1>4, SyncEffect
  <2>2. \A f \in Files : synced'[f] = synced[f] \/ synced'[f] = content[f]
    BY <1>0, <1>4, SyncEffect DEF ActiveContent
  <2>3. files' = files
    BY <1>4 DEF SyncWritten, Sync, CallFails, IoError, Fail
  <2> QED BY <1>0, <2>1, <2>2, <2>3 DEF Grown
<1>5. CASE PowerFails
  <2>1. synced' = content' /\ files' = files
    BY <1>5, PowerEffect DEF PowerFails, PowerLoss, Halt
  <2>2. ASSUME NEW f \in Files
        PROVE  /\ content'[f].lines = content[f].lines \/ content'[f].lines = synced[f].lines
               /\ content[f] = synced[f] => content'[f] = content[f]
    BY <1>0, <1>5, PowerEffect, SurvivorContent
  <2> QED BY <1>0, <2>1, <2>2 DEF Grown
<1> QED BY <1>1, <1>2, <1>3, <1>4, <1>5, DataSteps

-----------------------------------------------------------------------------
(* Tails.  Whenever a torn write cannot be followed by another write to the  *)
(* same file, either because no call ever failed (a crash is followed by     *)
(* recovery) or because no partial write happens, every line is a record,    *)
(* the record is in the file when it is acknowledged, and what is            *)
(* acknowledged is beyond the reach of a crash.                              *)

Untorn == faults = 0 \/ Tails = {}

NoTails == Tails = {} => \A f \in Files : content[f].tail = "none" /\ synced[f].tail = "none"

NoGarbage == \A f \in Files : Garbage \notin Recorded(f)

ReadyToWrite == recovered /\ pc # "ack" /\ fs.log[Active] # NoFile => ActiveContent.tail = "none"

WrittenWhole ==
  /\ pc = "ack" /\ ActiveContent.tail = "none" => record \in ToSet(ActiveContent.lines)
  /\ At("ack") => ActiveContent.tail = "none" /\ record \in Readable(fs.log[Active])

AckedRead == \A r \in acked : \E f \in kept : r \in Readable(f)

KeptWritten == \A f \in kept : Readable(f) # {}

Clean == NoTails /\ NoGarbage /\ ReadyToWrite /\ WrittenWhole /\ AckedRead /\ KeptWritten

CorruptReported ==
  outcome = "corrupt" => pc = "idle" /\ (Untorn => CorruptExplained)

FileInv == TimeInv /\ Grown /\ (Untorn => Clean) /\ CorruptReported

LEMMA UntornBefore == ASSUME TypeInv, [AuditNext]_allVars PROVE Untorn' => Untorn
<1>1. [Next]_vars => (faults' = 0 => faults = 0)
  BY FaultsGrow
<1>2. Repairing \/ Rejecting => faults' = faults
  BY DEF Repairing, Rejecting, budget
<1> QED BY <1>1, <1>2, AuditSteps DEF Untorn

\* The file an append writes to ends with a whole line.
LEMMA WrittenIsClean ==
  ASSUME TypeInv, CleanInv, AgeInv, DataType, Grown, Untorn, Clean, WriteRecord
  PROVE  content[fs'.log[Active]].tail = "none"
<1>1. fs'.log[Active] \in Files /\ pc = "write" /\ files \in Nat
  BY WrittenIsFile, BoundsAssumption DEF TypeInv, TypeOK
<1>2. CASE Tails = {}
  BY <1>1, <1>2 DEF Clean, NoTails
<1>3. CASE faults = 0 /\ fs.log[Active] # NoFile
  <2>1. recovered
    BY <1>1, <1>3 DEF CleanInv, TxnInv, Lifecycle
  <2>2. fs'.log[Active] = fs.log[Active]
    BY <1>3, WrittenWhich
  <2> QED BY <1>1, <1>3, <2>1, <2>2 DEF Clean, ReadyToWrite, ActiveContent
<1>4. CASE fs.log[Active] = NoFile
  <2>1. fs'.log[Active] = files + 1
    BY <1>4, WrittenWhich
  <2> QED BY <1>1, <2>1 DEF Grown, EmptyContent
<1> QED BY <1>2, <1>3, <1>4 DEF Untorn

\* Where an append acknowledges, it has written, and nothing else has changed.
LEMMA AckSteps ==
  ASSUME [AuditNext]_allVars, pc' = "ack"
  PROVE  \/ (WriteLine \/ WritePart) /\ syncing'
         \/ /\ pc = "ack" /\ UNCHANGED <<fs, content, record>>
            /\ SyncWritten \/ UNCHANGED <<syncing, synced>>
<1> USE DEF At
<1>1. CASE OpenOrClose \/ StartAppend \/ CallFails \/ ProcessDies \/ PowerFails \/ Tick \/ UNCHANGED allVars
  BY <1>1 DEF OpenOrClose, Open, Close, StartAppend, BeginAppend, CallFails, IoError, Fail, ProcessDies,
              Kill, PowerFails, PowerLoss, Halt, Tick, allVars, vars, dataVars, auditVars
<1>2. CASE RotateBeforeAppend \/ RunTransaction \/ PruneExpired
  BY <1>2 DEF RotateBeforeAppend, BeginRotation, RotationRefused, NoRotation, RunTransaction,
              WriteManifest, CreateTemporary, TemporaryExists, PublishManifest, Stage, StageMove,
              StageSkip, StageRefuse, StagingDone, Install, InstallMove, InstallSkip, InstallRefuse,
              InstallingDone, Finish, DropOldest, NothingToDrop, ClearManifest, Fail, PruneExpired,
              ExpireBackup, KeepBackup, PruneDone
<1>3. CASE WriteLine \/ WritePart \/ ReturnOk \/ SyncWritten
  BY <1>3 DEF WriteLine, WritePart, WriteRecord, ReturnOk, Acknowledge, SyncWritten, Sync
<1>4. CASE Recover
  BY <1>4 DEF Recover, ReadManifest, NoManifestFound, UnexplainedFiles, TailsRecovered, Recovered,
              Truncate, CorruptFile, Fail
<1> QED BY <1>1, <1>2, <1>3, <1>4 DEF AuditNext, AuditStep

LEMMA LeavingAck ==
  ASSUME [AuditNext]_allVars, pc = "ack"
  PROVE  pc' = "ack" \/ CallFails \/ ProcessDies \/ PowerFails \/ ReturnOk
<1>1. CASE OpenOrClose \/ StartAppend \/ Tick \/ SyncWritten \/ UNCHANGED allVars
  BY <1>1 DEF OpenOrClose, Open, Close, StartAppend, BeginAppend, Tick, SyncWritten, Sync, allVars, vars
<1>2. CASE RotateBeforeAppend \/ RunTransaction \/ PruneExpired
  BY <1>2 DEF RotateBeforeAppend, BeginRotation, RotationRefused, NoRotation, RunTransaction,
              WriteManifest, CreateTemporary, TemporaryExists, PublishManifest, Stage, StageMove,
              StageSkip, StageRefuse, StagingDone, Install, InstallMove, InstallSkip, InstallRefuse,
              InstallingDone, Finish, DropOldest, NothingToDrop, ClearManifest, PruneExpired,
              ExpireBackup, KeepBackup, PruneDone, At
<1>3. CASE WriteLine \/ WritePart
  BY <1>3 DEF WriteLine, WritePart, WriteRecord
<1>4. CASE Recover
  BY <1>4 DEF Recover, ReadManifest, NoManifestFound, UnexplainedFiles, TailsRecovered, Recovered,
              Truncate, CorruptFile, At
<1> QED BY <1>1, <1>2, <1>3, <1>4 DEF AuditNext, AuditStep

\* A process is recovered when it has looked at the tails.
LEMMA RecoveredSteps ==
  ASSUME [AuditNext]_allVars, recovered'
  PROVE  TailsRecovered \/ (recovered /\ ~PowerFails)
<1>1. CASE OpenOrClose \/ StartAppend \/ CallFails \/ ProcessDies \/ PowerFails \/ Tick \/ UNCHANGED allVars
  BY <1>1 DEF OpenOrClose, Open, Close, StartAppend, BeginAppend, CallFails, IoError, Fail, ProcessDies,
              Kill, PowerFails, PowerLoss, Halt, Tick, allVars, vars
<1>2. CASE RotateBeforeAppend \/ RunTransaction \/ PruneExpired
  BY <1>2 DEF RotateBeforeAppend, BeginRotation, RotationRefused, NoRotation, RunTransaction,
              WriteManifest, CreateTemporary, TemporaryExists, PublishManifest, Stage, StageMove,
              StageSkip, StageRefuse, StagingDone, Install, InstallMove, InstallSkip, InstallRefuse,
              InstallingDone, Finish, DropOldest, NothingToDrop, ClearManifest, Fail, PruneExpired,
              ExpireBackup, KeepBackup, PruneDone, PowerFails, PowerLoss, Halt
<1>3. CASE WriteLine \/ WritePart \/ ReturnOk \/ SyncWritten
  BY <1>3 DEF WriteLine, WritePart, WriteRecord, ReturnOk, Acknowledge, SyncWritten, Sync,
              PowerFails, PowerLoss, Halt
<1>4. CASE Recover
  BY <1>4 DEF Recover, ReadManifest, NoManifestFound, UnexplainedFiles, Truncate, CorruptFile, Fail,
              PowerFails, PowerLoss, Halt
<1> QED BY <1>1, <1>2, <1>3, <1>4 DEF AuditNext, AuditStep

\* Only a return acknowledges a record, and keeps its file.
LEMMA AckedSteps ==
  ASSUME [AuditNext]_allVars
  PROVE  UNCHANGED <<kept, acked>> \/ ReturnOk
<1> USE DEF history
<1>1. CASE OpenOrClose \/ StartAppend \/ CallFails \/ ProcessDies \/ PowerFails \/ Tick \/ UNCHANGED allVars
  BY <1>1 DEF OpenOrClose, Open, Close, StartAppend, BeginAppend, CallFails, IoError, Fail, ProcessDies,
              Kill, PowerFails, PowerLoss, Halt, Tick, allVars, vars, auditVars
<1>2. CASE RotateBeforeAppend \/ RunTransaction \/ PruneExpired
  BY <1>2 DEF RotateBeforeAppend, BeginRotation, RotationRefused, NoRotation, RunTransaction,
              WriteManifest, CreateTemporary, TemporaryExists, PublishManifest, Stage, StageMove,
              StageSkip, StageRefuse, StagingDone, Install, InstallMove, InstallSkip, InstallRefuse,
              InstallingDone, Finish, DropOldest, NothingToDrop, ClearManifest, Fail, PruneExpired,
              ExpireBackup, KeepBackup, PruneDone, auditVars
<1>3. CASE WriteLine \/ WritePart \/ ReturnOk \/ SyncWritten
  BY <1>3 DEF WriteLine, WritePart, WriteTo, WriteRecord, ReturnOk, Acknowledge, SyncWritten, Sync
<1>4. CASE Recover
  BY <1>4 DEF Recover, ReadManifest, NoManifestFound, UnexplainedFiles, TailsRecovered, Recovered,
              Truncate, CorruptFile, Fail, auditVars
<1> QED BY <1>1, <1>2, <1>3, <1>4 DEF AuditNext, AuditStep

\* A file is reported corrupt where recovery meets it, and the report stands
\* until the log is used again.
LEMMA CorruptSteps ==
  ASSUME [AuditNext]_allVars, outcome' = "corrupt"
  PROVE  \/ \E i \in Slots : CorruptFile(i)
         \/ outcome = "corrupt" /\ (pc = "idle" => UNCHANGED <<pc, fs, content, kept, runtime>>)
<1> USE DEF At
<1>1. CASE OpenOrClose \/ StartAppend \/ CallFails \/ ProcessDies \/ PowerFails \/ Tick \/ UNCHANGED allVars
  BY <1>1 DEF OpenOrClose, Open, Close, StartAppend, BeginAppend, CallFails, IoError, Fail, ProcessDies,
              Kill, PowerFails, PowerLoss, Halt, Tick, allVars, vars, auditVars, dataVars
<1>2. CASE RotateBeforeAppend \/ RunTransaction \/ PruneExpired
  BY <1>2 DEF RotateBeforeAppend, BeginRotation, RotationRefused, NoRotation, RunTransaction,
              WriteManifest, CreateTemporary, TemporaryExists, PublishManifest, Stage, StageMove,
              StageSkip, StageRefuse, StagingDone, Install, InstallMove, InstallSkip, InstallRefuse,
              InstallingDone, Finish, DropOldest, NothingToDrop, ClearManifest, Fail, PruneExpired,
              ExpireBackup, KeepBackup, PruneDone, auditVars
<1>3. CASE WriteLine \/ WritePart \/ ReturnOk \/ SyncWritten
  BY <1>3 DEF WriteLine, WritePart, WriteTo, WriteRecord, ReturnOk, Acknowledge, SyncWritten, Sync,
              dataVars, hostVars, history
<1>4. CASE Recover
  BY <1>4 DEF Recover, ReadManifest, NoManifestFound, UnexplainedFiles, TailsRecovered, Recovered,
              Truncate, Fail, auditVars
<1> QED BY <1>1, <1>2, <1>3, <1>4 DEF AuditNext, AuditStep

LEMMA NoTailsStep ==
  ASSUME TypeInv, DataType, NoTails, [AuditNext]_allVars
  PROVE  NoTails'
<1> SUFFICES ASSUME Tails = {}, NEW f \in Files
             PROVE  content'[f].tail = "none" /\ synced'[f].tail = "none"
  BY DEF NoTails
<1>0. /\ content \in [Files -> Contents] /\ synced \in [Files -> Contents]
      /\ \A g \in Files : content[g].tail = "none" /\ synced[g].tail = "none"
  BY DEF DataType, AuditTypeOK, NoTails
<1>1. CASE Calm \/ StartAppend \/ Tick \/ ReturnOk
  <2>1. UNCHANGED <<content, synced>>
    BY <1>1, CalmUnchanged DEF auditVars, StartAppend, Tick, ReturnOk, dataVars
  <2> QED BY <1>0, <2>1
<1>2. CASE \E i \in Slots : Truncate(i)
  BY <1>0, <1>2, TruncateEffect
<1>3. CASE WriteLine \/ WritePart
  <2> DEFINE a == fs'.log[Active]
  <2>1. a \in Files /\ record \in Records \cup {Garbage} /\ content[a] \in Contents
    BY <1>0, <1>3, WriteEffect
  <2>2. WriteTo(a, WithLine(content[a], record))
    BY <1>3, WriteEffect
  <2>3. WithLine(content[a], record).tail = "none"
    BY DEF WithLine
  <2> QED BY <1>0, <2>1, <2>2, <2>3 DEF WriteTo
<1>4. CASE SyncWritten \/ CallFails
  BY <1>0, <1>4, SyncEffect DEF ActiveContent
<1>5. CASE PowerFails
  <2>1. content'[f] \in Survives(f) /\ synced' = content'
    BY <1>5, PowerEffect
  <2> QED BY <1>0, <2>1, SurvivorContent
<1> QED BY <1>1, <1>2, <1>3, <1>4, <1>5, DataSteps

LEMMA CleanStepAudit ==
  ASSUME RotationInv, DataType, Grown, Clean, Untorn, Untorn', [AuditNext]_allVars
  PROVE  Clean'
<1>0. /\ TypeInv /\ CleanInv /\ AgeInv /\ TypeInv' /\ CleanInv' /\ DataType'
      /\ NoTails /\ NoGarbage /\ ReadyToWrite /\ WrittenWhole /\ AckedRead /\ KeptWritten
      /\ content \in [Files -> Contents] /\ synced \in [Files -> Contents]
  BY RotationInvStep, DataTypeStep DEF RotationInv, KeptInv, Clean, DataType, AuditTypeOK
<1>1. NoTails'
  BY <1>0, NoTailsStep
<1>2. WriteLine => LET a == fs'.log[Active] IN
        /\ a \in Files /\ record \in Records
        /\ content'[a].lines = Append(content[a].lines, record)
        /\ ToSet(content'[a].lines) = ToSet(content[a].lines) \cup {record}
  <2> SUFFICES ASSUME WriteLine
               PROVE  LET a == fs'.log[Active] IN
                      /\ a \in Files /\ record \in Records
                      /\ content'[a].lines = Append(content[a].lines, record)
                      /\ ToSet(content'[a].lines) = ToSet(content[a].lines) \cup {record}
    OBVIOUS
  <2> DEFINE a == fs'.log[Active]
  <2>1. a \in Files /\ record \in Records /\ content[a] \in Contents
    BY <1>0, WriteEffect
  <2>2. content[a].tail = "none"
    BY <1>0, WrittenIsClean DEF WriteLine
  <2>3. content'[a] = WithLine(content[a], record)
    BY <1>0, <2>1 DEF WriteLine, WriteTo
  <2>4. record \in Records \cup {Garbage}
    BY <2>1
  <2> QED BY <2>1, <2>2, <2>3, <2>4, LineContent
<1>3. NoGarbage'
  <2> SUFFICES ASSUME NEW f \in Files, Garbage \in Recorded(f)' PROVE FALSE
    BY DEF NoGarbage
  <2>1. WriteLine /\ f = fs'.log[Active]
    BY <1>0, RecordedGrows DEF NoGarbage
  <2>2. record # Garbage
    BY <1>2, <2>1 DEF Records, Garbage
  <2>3. synced' = synced
    BY <2>1 DEF WriteLine, WriteTo
  <2>4. Garbage \in ToSet(content[f].lines) \cup {record} \/ Garbage \in ToSet(synced[f].lines)
    BY <1>2, <2>1, <2>3 DEF Recorded
  <2> QED BY <1>0, <2>2, <2>4 DEF NoGarbage, Recorded
<1>4. ReadyToWrite'
  <2> SUFFICES ASSUME recovered', pc' # "ack", fs'.log[Active] # NoFile
               PROVE  content'[fs'.log[Active]].tail = "none"
    BY DEF ReadyToWrite, ActiveContent
  <2>0. fs'.log[Active] \in Files
    <3>1. fs' \in Directory /\ 0 \in Slots
      BY <1>0, SlotsAssumption DEF TypeInv, TypeOK, Slots
    <3>2. fs'.log[Active] \in FileOrNone
      BY <3>1 DEF Directory, Active
    <3> QED BY <3>2 DEF FileOrNone
  <2>1. CASE Tails = {}
    BY <1>1, <2>0, <2>1 DEF NoTails
  <2>2. CASE TailsRecovered
    <3>1. content' = content /\ fs' = fs /\ Active \in Visited /\ ~Dirty(Active)
      BY <2>2 DEF TailsRecovered, Recovered, auditVars, dirVars, Visited
    <3> QED BY <3>1 DEF Dirty
  <2>3. CASE Tails # {} /\ recovered /\ ~PowerFails
    <3>1. faults = 0 /\ faults' = 0
      BY <2>3 DEF Untorn
    <3>2. ~WriteLine /\ ~WritePart
      BY DEF WriteLine, WritePart, WriteRecord
    <3>3. fs'.log[Active] = fs.log[Active]
      BY <1>0, <2>3, <3>2, FileSteps
    <3>4. pc # "scan"
      BY <1>0, <2>3, <3>1 DEF CleanInv, TxnInv, Lifecycle
    <3>5. content' = content
      BY <1>0, <2>3, <3>2, <3>4, DataSteps, CalmUnchanged, SyncEffect
         DEF Truncate, At, auditVars, StartAppend, Tick, ReturnOk, dataVars
    <3>6. pc = "ack" => ReturnOk
      <4>1. ~CallFails
        BY <1>0, <3>1, BoundsAssumption DEF CallFails, IoError, TypeInv, TypeOK
      <4>2. ~ProcessDies
        BY <2>3, <3>1 DEF ProcessDies, Kill, Halt
      <4> QED BY <2>3, <4>1, <4>2, LeavingAck
    <3>7. pc = "ack" => content[fs.log[Active]].tail = "none"
      BY <1>0, <3>6 DEF ReturnOk, Acknowledge, WrittenWhole, ActiveContent
    <3> QED BY <1>0, <2>3, <3>3, <3>5, <3>7 DEF ReadyToWrite, ActiveContent
  <2> QED BY <2>1, <2>2, <2>3, RecoveredSteps
<1>5. WrittenWhole'
  <2> SUFFICES ASSUME pc' = "ack"
               PROVE  /\ ActiveContent'.tail = "none" => record' \in ToSet(ActiveContent'.lines)
                      /\ ~syncing' => ActiveContent'.tail = "none" /\ record' \in Readable(fs.log[Active])'
    BY DEF WrittenWhole, At
  <2>1. CASE WriteLine /\ syncing'
    BY <1>2, <2>1 DEF WriteLine, WriteTo, ActiveContent
  <2>2. CASE WritePart /\ syncing'
    <3>1. PICK kind \in Tails : WriteTo(fs'.log[Active], WithPart(content[fs'.log[Active]], kind))
      BY <2>2 DEF WritePart
    <3>2. fs'.log[Active] \in Files
      BY <1>0, <2>2, WriteEffect
    <3>3. content'[fs'.log[Active]].tail # "none"
      BY <1>0, <3>1, <3>2, PartContent DEF WriteTo
    <3> QED BY <2>2, <3>3 DEF ActiveContent
  <2>3. CASE pc = "ack" /\ UNCHANGED <<fs, content, record, syncing, synced>>
    BY <1>0, <2>3 DEF WrittenWhole, At, ActiveContent, Readable
  <2>4. CASE pc = "ack" /\ UNCHANGED <<fs, content, record>> /\ SyncWritten
    <3>1. /\ ActiveContent.tail = "none" /\ fs.log[Active] \in Files /\ record \in Records
          /\ synced' = [synced EXCEPT ![fs.log[Active]] = ActiveContent]
      BY <1>0, <2>4, ActiveIsFile DEF SyncWritten, DataType, Begun
    <3>2. synced'[fs.log[Active]] = ActiveContent /\ record \in ToSet(ActiveContent.lines)
      BY <1>0, <2>4, <3>1 DEF WrittenWhole
    <3>3. record # Garbage
      BY <3>1 DEF Records, Garbage
    <3> QED BY <2>4, <3>1, <3>2, <3>3 DEF Readable, ActiveContent
  <2> QED BY <2>1, <2>2, <2>3, <2>4, AckSteps
<1>6. AckedRead'
  <2> SUFFICES ASSUME NEW r \in acked' PROVE \E f \in kept' : r \in Readable(f)'
    BY DEF AckedRead
  <2>1. \A f \in kept : r \in Readable(f) => r \in Readable(f)' /\ f \in kept'
    <3>1. kept \subseteq Files /\ kept \subseteq kept'
      BY <1>0, AckedSteps DEF TypeInv, TypeOK, ReturnOk, Acknowledge
    <3> QED BY <1>0, <3>1, GrownStep DEF Readable
  <2>2. CASE r \in acked
    BY <1>0, <2>1, <2>2 DEF AckedRead
  <2>3. CASE r \notin acked
    <3>1. ReturnOk /\ r = record
      BY <2>3, AckedSteps DEF ReturnOk
    <3>2. At("ack") /\ fs.log[Active] \in kept' /\ synced' = synced
      BY <3>1 DEF ReturnOk, Acknowledge, dataVars
    <3>3. r \in Readable(fs.log[Active])
      BY <1>0, <3>1, <3>2 DEF WrittenWhole
    <3> QED BY <3>2, <3>3 DEF Readable
  <2> QED BY <2>2, <2>3
<1>7. KeptWritten'
  <2>1. CASE kept' = kept
    <3>1. kept \subseteq Files
      BY <1>0 DEF TypeInv, TypeOK
    <3> QED BY <1>0, <2>1, <3>1, GrownStep DEF KeptWritten, Readable
  <2>2. CASE ReturnOk
    <3>1. At("ack") /\ kept' = kept \cup {fs.log[Active]} /\ synced' = synced
      BY <2>2 DEF ReturnOk, Acknowledge, dataVars
    <3>2. Readable(fs.log[Active]) # {}
      BY <1>0, <3>1 DEF WrittenWhole
    <3> QED BY <1>0, <3>1, <3>2 DEF KeptWritten, Readable
  <2> QED BY <2>1, <2>2, AckedSteps
<1> QED BY <1>1, <1>3, <1>4, <1>5, <1>6, <1>7 DEF Clean

LEMMA CorruptStep ==
  ASSUME TypeInv, DataType, Grown, Untorn => Clean, CorruptReported, [AuditNext]_allVars
  PROVE  CorruptReported'
<1> SUFFICES ASSUME outcome' = "corrupt" PROVE pc' = "idle" /\ (Untorn' => CorruptExplained')
  BY DEF CorruptReported
<1>1. ASSUME NEW i \in Slots, CorruptFile(i)
      PROVE  pc' = "idle" /\ (Untorn' => CorruptExplained')
  <2> DEFINE f == fs.log[i]
  <2>1. /\ pc' = "idle" /\ fs' = fs /\ content' = content /\ runtime' = runtime /\ kept' = kept
        /\ f # NoFile /\ Corrupt(content[f])
    BY <1>1 DEF CorruptFile, Fail, auditVars, dirVars, hostVars, history, Broken
  <2>2. f \in Files
    BY <2>1, DirectoryFields DEF TypeInv, TypeOK, FileOrNone
  <2>3. ASSUME Untorn'
        PROVE  \/ content[f].tail \in {"whole", "cut"}
               \/ runtime = "rust" /\ content[f].lines = <<>> /\ f \notin kept
    <3>1. Clean
      BY <2>3, UntornBefore
    <3>2. Garbage \notin ToSet(content[f].lines)
      BY <2>2, <3>1 DEF Clean, NoGarbage, Recorded
    <3>3. ToSet(synced[f].lines) \subseteq ToSet(content[f].lines)
      BY <2>2 DEF Grown
    <3>4. content[f].lines = <<>> => ToSet(content[f].lines) = {}
      BY DEF ToSet
    <3>5. content[f].lines = <<>> => f \notin kept
      BY <3>1, <3>3, <3>4 DEF Clean, KeptWritten, Readable
    <3> QED BY <2>1, <3>2, <3>5 DEF Corrupt
  <2> QED BY <2>1, <2>3 DEF CorruptExplained
<1>2. CASE outcome = "corrupt" /\ (pc = "idle" => UNCHANGED <<pc, fs, content, kept, runtime>>)
  BY <1>2, UntornBefore DEF CorruptReported, CorruptExplained
<1> QED BY <1>1, <1>2, CorruptSteps

LEMMA FileInvInit == AuditInit => FileInv
<1> SUFFICES ASSUME AuditInit PROVE FileInv
  OBVIOUS
<1>1. \A f \in Files : content[f] = EmptyContent /\ synced[f] = EmptyContent
  BY DEF AuditInit
<1>2. pc = "down" /\ ~recovered /\ outcome = "none" /\ acked = {} /\ kept = {}
  BY DEF AuditInit, Init
<1>3. Grown
  BY <1>1 DEF Grown
<1>4. Clean
  BY <1>1, <1>2, EmptyIsContent
     DEF Clean, NoTails, NoGarbage, ReadyToWrite, WrittenWhole, AckedRead, KeptWritten, At, Recorded, EmptyContent
<1> QED BY <1>2, <1>3, <1>4, TimeInvInit DEF FileInv, CorruptReported

LEMMA FileInvStep == FileInv /\ [AuditNext]_allVars => FileInv'
<1> SUFFICES ASSUME FileInv, [AuditNext]_allVars PROVE FileInv'
  OBVIOUS
<1>1. TimeInv /\ RotationInv /\ TypeInv /\ AgeInv /\ DataType /\ Grown
  BY DEF FileInv, TimeInv, RotationInv, KeptInv
<1>2. TimeInv'
  BY <1>1, TimeInvStep
<1>3. Grown'
  BY <1>1, GrownStep
<1>4. Untorn' => Clean'
  BY <1>1, UntornBefore, CleanStepAudit DEF FileInv
<1>5. CorruptReported'
  BY <1>1, CorruptStep DEF FileInv
<1> QED BY <1>2, <1>3, <1>4, <1>5 DEF FileInv

\* A half line, a failed call, a crash or a later append takes nothing from the
\* whole records that a crash can no longer take, and nothing but retention takes
\* the file of an acknowledged one: unlike AcknowledgedSurvive, whatever fails.
THEOREM WholeRecordsStay == AuditSpec => WholeStaysWhole
<1> DEFINE Stays == \A f \in kept : f \notin Removed' =>
                      /\ Readable(f) \subseteq Readable(f)'
                      /\ \A s \in recoverable' : f \in Held(s)
<1>1. FileInv /\ [AuditNext]_allVars => [Stays]_allVars
  <2> SUFFICES ASSUME FileInv, [AuditNext]_allVars, NEW f \in kept, f \notin Removed'
               PROVE  /\ Readable(f) \subseteq Readable(f)'
                      /\ \A s \in recoverable' : f \in Held(s)
    OBVIOUS
  <2>1. /\ TypeInv /\ AgeInv /\ DataType /\ Grown /\ f \in Files
        /\ TypeInv'
        /\ NothingLost'
    BY FileInvStep DEF FileInv, TimeInv, RotationInv, KeptInv, TypeInv, TypeOK
  <2>2. Readable(f) \subseteq Readable(f)'
    BY <2>1, GrownStep DEF Readable
  <2>3. f \in kept'
    BY <2>1, AckedSteps DEF ReturnOk, Acknowledge
  <2> QED BY <2>1, <2>2, <2>3 DEF NothingLost, Removed
<1>2. [][Stays]_allVars => WholeStaysWhole
  BY DEF WholeStaysWhole
<1> QED BY <1>1, <1>2, FileInvInit, FileInvStep, PTL DEF AuditSpec

\* A success is a promise that no crash breaks: where no call has failed, or no
\* write stops part-way, an acknowledged record is a whole, synced line of a file
\* that every directory a power loss may leave still has, or retention removed.
THEOREM AcknowledgedSurvive == AuditSpec => [](Untorn => AckedRecordsSurvive)
<1>1. FileInv => (Untorn => AckedRecordsSurvive)
  <2> SUFFICES ASSUME FileInv, Untorn, NEW r \in acked, NEW s \in recoverable
               PROVE  \E f \in Held(s) \cup Removed : f # NoFile /\ r \in Readable(f)
    BY DEF AckedRecordsSurvive
  <2>1. /\ AckedRead /\ kept \subseteq Files /\ kept \subseteq Held(s) \cup dropped \cup expired
    BY DEF FileInv, Clean, TimeInv, RotationInv, KeptInv, NothingLost, TypeInv, TypeOK
  <2>2. PICK f \in kept : r \in Readable(f)
    BY <2>1 DEF AckedRead
  <2>3. f # NoFile
    BY <2>1 DEF Files, NoFile
  <2> QED BY <2>1, <2>2, <2>3 DEF Removed
<1> QED BY <1>1, FileInvInit, FileInvStep, PTL DEF AuditSpec

\* What recovery refuses is explained: as long as no write could follow a torn
\* one in the same file, opening fails as corrupt only for a record without its
\* newline or half a character, or in the Rust runtime for a file that has no
\* complete line and so never held an acknowledged record.
THEOREM CorruptionIsExplained == AuditSpec => [](Untorn => CorruptExplained)
<1>1. FileInv => (Untorn => CorruptExplained)
  BY DEF FileInv, CorruptReported, CorruptExplained
<1> QED BY <1>1, FileInvInit, FileInvStep, PTL DEF AuditSpec

-----------------------------------------------------------------------------
(* The order of the records, whatever fails.  The files that count in some   *)
(* directory a power loss may leave are in the order of their records, and   *)
(* the active one is the newest of them (DescentInv), so that what an append *)
(* adds comes last in every one.  The layouts are read from the older file   *)
(* to the newer one.                                                         *)

Layout == Logical(fs)

Possible == {Logical(s) : s \in recoverable}

Alive == {p[i] : p \in Possible, i \in Slots} \ {NoFile}

OldestLast ==
  /\ \A p \in Possible, i, j \in Slots : i < j /\ p[i] # NoFile /\ p[j] # NoFile => p[j] < p[i]
  /\ \A f \in Alive : f <= files
  /\ Layout[Active] # NoFile => \A f \in Alive : f <= Layout[Active]

LEMMA LogicalType ==
  ASSUME NEW s \in Directory
  PROVE  Logical(s) \in [Slots -> FileOrNone]
<1>1. s.manifest.max \in Nat /\ \A i \in Slots : s.log[i] \in FileOrNone
  BY MaxIsNatural, DirectoryFields
<1>2. ASSUME NEW i \in Slots PROVE Logical(s)[i] \in FileOrNone
  <2>1. ASSUME i \in 1..s.manifest.max PROVE Source(s, i) \in FileOrNone
    <3>1. s.manifest # NoManifest
      BY <2>1 DEF NoManifest
    <3>2. s.manifest \in Manifest \cup {NoManifest}
      BY DEF Directory
    <3>3. s.manifest.txn \in Txns /\ i - 1 \in Slots
      BY <2>1, <3>1, <3>2, ManifestOrNone
    <3>4. s.log[i - 1] \in FileOrNone /\ s.stage[s.manifest.txn][i - 1] \in FileOrNone
      BY <3>3, DirectoryFields
    <3> QED BY <1>1, <3>4 DEF Source
  <2> QED BY <1>1, <2>1, LogicalEntry DEF FileOrNone
<1> QED BY <1>2 DEF Logical

LayoutsOK ==
  /\ Layout \in Possible
  /\ \A p \in Possible : p \in [Slots -> FileOrNone]
  /\ \A p \in Possible, i \in Slots : p[i] \in Nat /\ (p[i] # NoFile => p[i] \in Alive)
  /\ Alive \subseteq Files /\ files \in Nat /\ Active \in Slots

LEMMA LayoutTypes == TypeInv => LayoutsOK
<1> SUFFICES ASSUME TypeInv PROVE LayoutsOK
  OBVIOUS
<1>1. Layout \in Possible /\ \A p \in Possible : p \in [Slots -> FileOrNone]
  BY LogicalType DEF TypeInv, TypeOK, Layout, Possible
<1>2. FileOrNone \subseteq Nat /\ files \in Nat /\ Active \in Slots
  BY BoundsAssumption, SlotsAssumption DEF TypeInv, TypeOK, FileOrNone, Files, NoFile, Slots, Active
<1>3. \A p \in Possible, i \in Slots : p[i] \in FileOrNone
  BY <1>1
<1>4. Alive \subseteq Files
  BY <1>3 DEF Alive, FileOrNone
<1>5. ASSUME NEW p \in Possible, NEW i \in Slots
      PROVE  p[i] \in Nat /\ (p[i] # NoFile => p[i] \in Alive)
  <2>1. p[i] \in Nat
    BY <1>2, <1>3
  <2>2. p[i] # NoFile => p[i] \in Alive
    BY DEF Alive
  <2> QED BY <2>1, <2>2
<1> QED BY <1>1, <1>2, <1>4, <1>5 DEF LayoutsOK

\* The steps of the log are those of the atomic rotation, or leave it alone.
LayoutAction ==
  \/ Atomic!Create \/ Atomic!Rotate \/ Atomic!Sync \/ Atomic!PowerLoss
  \/ UNCHANGED <<Layout, Possible, files>>
  \/ ExpireBackup /\ Atomic!Expire

LEMMA LayoutSteps ==
  ASSUME RotationInv, [AuditNext]_allVars, faults' = 0
  PROVE  LayoutAction
<1>1. TypeInv /\ CleanInv
  BY DEF RotationInv, KeptInv
<1>2. CASE [Next]_vars
  BY <1>1, <1>2, AtomicKinds DEF Atomic!vars, Layout, Possible, LayoutAction
<1>3. CASE Repairing \/ Rejecting
  BY <1>3 DEF Repairing, Rejecting, Fail, dirVars, Layout, Possible, LayoutAction
<1> QED BY <1>2, <1>3, AuditSteps

\* What a step adds to the layouts is the layout that it makes.
LEMMA LayoutChoices ==
  ASSUME TypeInv, LayoutAction
  PROVE  \/ /\ Layout' \in Possible /\ Possible' \in {Possible, {Layout'}} /\ files' = files
            /\ Layout' = Layout \/ Possible' = {Layout'}
         \/ /\ Layout' = [Layout EXCEPT ![Active] = files + 1] /\ Layout[Active] = NoFile
            /\ Possible' = Possible \cup {Layout'} /\ files' = files + 1
         \/ /\ Layout' = [i \in Slots |-> IF i = Active THEN NoFile ELSE Layout'[i]]
            /\ Possible' = Possible \cup {Layout'} /\ files' = files
            /\ \E n \in Limits : \A i \in Slots \ {Active} :
                 Layout'[i] = IF i <= n THEN Layout[i - 1] ELSE Layout[i]
         \/ /\ ExpireBackup
            /\ \E i \in Slots \ {Active} : Layout' = [Layout EXCEPT ![i] = NoFile]
            /\ Possible' = Possible \cup {Layout'} /\ files' = files
<1> USE DEF Atomic!Slots, Atomic!Active, Atomic!NoFile, Slots, Active, NoFile, Layout, Possible
<1>0. Layout \in Possible
  BY LayoutTypes DEF LayoutsOK
<1>1. CASE Atomic!Create
  BY <1>1 DEF Atomic!Create, Atomic!Become
<1>2. CASE Atomic!Rotate
  <2>1. PICK n \in Limits : /\ Layout' = Atomic!Shifted(Layout, n)
                            /\ Possible' = Possible \cup {Layout'} /\ files' = files
    BY <1>2 DEF Atomic!Rotate, Atomic!Become
  <2>2. n \in Nat /\ MaxSlots \in Nat
    BY SlotsAssumption
  <2>3. ASSUME NEW i \in Slots
        PROVE  Layout'[i] = IF i = Active THEN NoFile ELSE IF i <= n THEN Layout[i - 1] ELSE Layout[i]
    BY <2>1, <2>2 DEF Atomic!Shifted
  <2>4. Layout' = [i \in Slots |-> Layout'[i]]
    BY <2>1 DEF Atomic!Shifted
  <2>5. Layout' = [i \in Slots |-> IF i = Active THEN NoFile ELSE Layout'[i]]
    BY <2>3, <2>4
  <2> HIDE DEF Layout, Possible
  <2> QED BY <2>1, <2>2, <2>3, <2>5
<1>3. CASE ExpireBackup /\ Atomic!Expire
  BY <1>3 DEF Atomic!Expire, Atomic!Become
<1>4. CASE Atomic!Sync \/ Atomic!PowerLoss \/ UNCHANGED <<Layout, Possible, files>>
  BY <1>0, <1>4 DEF Atomic!Sync, Atomic!PowerLoss
<1> QED BY <1>1, <1>2, <1>3, <1>4 DEF LayoutAction

\* The files of the layouts: a step makes no other one than the file it creates,
\* which is then the active one.
LEMMA AliveSteps ==
  ASSUME TypeInv, TypeInv', LayoutAction
  PROVE  \/ Alive' \subseteq Alive /\ files' = files
         \/ /\ Alive' \subseteq Alive \cup {files'} /\ files' = files + 1
            /\ Layout'[Active] = files'
<1>t. LayoutsOK
  BY LayoutTypes
<1>0. /\ Layout \in Possible /\ Active \in Slots /\ Layout \in [Slots -> FileOrNone]
      /\ \A i \in Slots : Layout[i] # NoFile => Layout[i] \in Alive
  BY <1>t DEF LayoutsOK
<1>1. Alive' = {p[i] : p \in Possible', i \in Slots} \ {NoFile}
  BY DEF Alive
<1>2. CASE Possible' \subseteq Possible /\ files' = files
  BY <1>1, <1>2 DEF Alive
<1>3. ASSUME NEW g, Possible' = Possible \cup {Layout'},
             \A i \in Slots : Layout'[i] \in Alive \cup {g, NoFile}
      PROVE  Alive' \subseteq Alive \cup {g}
  BY <1>1, <1>3 DEF Alive
<1>4. CASE /\ Layout' = [Layout EXCEPT ![Active] = files + 1] /\ Layout[Active] = NoFile
           /\ Possible' = Possible \cup {Layout'} /\ files' = files + 1
  <2>1. \A i \in Slots : Layout'[i] = IF i = Active THEN files' ELSE Layout[i]
    BY <1>0, <1>4
  <2>2. \A i \in Slots : Layout'[i] \in Alive \cup {files', NoFile}
    BY <1>0, <2>1
  <2> QED BY <1>0, <1>3, <1>4, <2>1, <2>2
<1>5. CASE /\ \A i \in Slots : Layout'[i] \in {NoFile} \cup {Layout[j] : j \in Slots}
           /\ Possible' = Possible \cup {Layout'} /\ files' = files
  <2>1. \A i \in Slots : Layout'[i] \in Alive \cup {NoFile}
    BY <1>0, <1>5
  <2> QED BY <1>3, <1>5, <2>1
<1>6. CASE /\ Layout' = [i \in Slots |-> IF i = Active THEN NoFile ELSE Layout'[i]]
           /\ Possible' = Possible \cup {Layout'} /\ files' = files
           /\ \E n \in Limits : \A i \in Slots \ {Active} :
                Layout'[i] = IF i <= n THEN Layout[i - 1] ELSE Layout[i]
  <2>1. \A i \in Slots : i = Active \/ i - 1 \in Slots
    BY SlotsAssumption DEF Slots, Active
  <2>2. Layout'[Active] = NoFile
    BY <1>0, <1>6
  <2>3. \A i \in Slots : Layout'[i] \in {NoFile} \cup {Layout[j] : j \in Slots}
    BY <1>6, <2>1, <2>2
  <2> QED BY <1>5, <1>6, <2>3
<1>7. CASE /\ \E i \in Slots \ {Active} : Layout' = [Layout EXCEPT ![i] = NoFile]
           /\ Possible' = Possible \cup {Layout'} /\ files' = files
  <2>1. \A i \in Slots : Layout'[i] \in {NoFile} \cup {Layout[j] : j \in Slots}
    BY <1>0, <1>7
  <2> QED BY <1>5, <1>7, <2>1
<1> QED BY <1>0, <1>2, <1>4, <1>6, <1>7, LayoutChoices

LEMMA LayoutsDescend == RotationInv => OldestLast
<1> SUFFICES ASSUME RotationInv PROVE OldestLast
  OBVIOUS
<1>0. /\ TypeInv /\ AgeInv /\ DescentInv /\ files \in Nat /\ fs \in recoverable
      /\ recoverable \subseteq Directory
  BY BoundsAssumption DEF RotationInv, KeptInv, TypeInv, TypeOK
<1>1. ASSUME NEW p \in Possible, NEW i \in Slots, NEW j \in Slots, i < j, p[i] # NoFile, p[j] # NoFile
      PROVE  p[j] < p[i]
  <2>1. PICK s \in recoverable : p = Logical(s)
    BY DEF Possible
  <2> QED BY <1>0, <1>1, <2>1, LogicalDescends DEF DescentInv, Above
<1>2. Alive \subseteq Living
  <2> SUFFICES ASSUME NEW s \in recoverable, NEW i \in Slots, Logical(s)[i] # NoFile
               PROVE  Logical(s)[i] \in Living
    BY DEF Alive, Possible
  <2> QED BY <1>0, LogicalDescends DEF DescentInv, Living
<1>3. \A f \in Living : f <= files
  BY <1>0, LiveFiles DEF AgeInv, Living
<1>4. Layout[Active] # NoFile => Layout[Active] = fs.log[Active]
  BY <1>0, LogicalDescends DEF DescentInv, Layout
<1> QED BY <1>0, <1>1, <1>2, <1>3, <1>4 DEF OldestLast, DescentInv, NewestOnTop

\* What a step adds to the files that count is the one it creates.
LEMMA LivingSteps ==
  ASSUME RotationInv, [AuditNext]_allVars
  PROVE  \/ Living' \subseteq Living /\ files' = files
         \/ Living' \subseteq Living \cup {files'} /\ files' = files + 1
<1>0. TypeInv /\ AgeInv /\ DescentInv /\ fs \in recoverable
  BY DEF RotationInv, KeptInv, TypeInv, TypeOK
<1>1. CASE recoverable' \subseteq recoverable /\ files' = files
  BY <1>1 DEF Living
<1>2. CASE Changing
  <2>1. recoverable' = recoverable \cup {fs'}
    BY <1>0, <1>2, ChangingStep DEF Careful, Change
  <2>2. Living' = Living \cup Live(fs') /\ Live(fs) \subseteq Living
    BY <1>0, <2>1 DEF Living
  <2> QED BY <1>0, <1>2, <2>2, ChangingLive
<1>3. CASE Quiet
  <2>1. CASE Sync \/ Acknowledge
    BY <1>0, <1>1, <2>1 DEF Sync, Acknowledge, dirVars
  <2>2. CASE ~Sync /\ ~Acknowledge
    BY <1>1, <1>3, <2>2, QuietUnchanged
  <2> QED BY <2>1, <2>2
<1>4. CASE Kill \/ PowerLoss
  BY <1>1, <1>4 DEF Kill, PowerLoss, Halt, dirVars
<1>5. CASE UNCHANGED vars \/ Repairing \/ Rejecting
  BY <1>1, <1>5 DEF vars, Repairing, Rejecting, Fail, dirVars
<1> QED BY <1>2, <1>3, <1>4, <1>5, StepKinds, AuditSteps

\* A record under way is newer than all that is written, until it is.
Unwritten ==
  pc \notin {"down", "idle", "ack"} => \A f \in Files : \A r \in Recorded(f) : r < record

\* What a torn write has spoilt does not count.
Rising(q) ==
  \A m, n \in DOMAIN q : m < n /\ q[m] # Garbage /\ q[n] # Garbage => q[m] < q[n]

LinesInOrder == \A f \in Files : Rising(content[f].lines) /\ Rising(synced[f].lines)

FilesInOrder ==
  \A f, g \in Living : f < g =>
    \A r \in Recorded(f) \ {Garbage}, q \in Recorded(g) \ {Garbage} : r < q

OrderInv == FileInv /\ Unwritten /\ LinesInOrder /\ FilesInOrder

LEMMA AppendRises ==
  ASSUME NEW q \in Seq(Nat), Rising(q), NEW e \in Nat,
         e # Garbage => \A r \in ToSet(q) : r < e
  PROVE  Rising(Append(q, e))
<1>1. /\ DOMAIN q = 1..Len(q) /\ Len(q) \in Nat /\ DOMAIN Append(q, e) = 1..(Len(q) + 1)
      /\ \A i \in 1..Len(q) : Append(q, e)[i] = q[i]
      /\ Append(q, e)[Len(q) + 1] = e
  OBVIOUS
<1>2. e # Garbage => \A i \in 1..Len(q) : q[i] < e
  BY <1>1 DEF ToSet
<1>3. ASSUME NEW m \in 1..(Len(q) + 1), NEW n \in 1..(Len(q) + 1), m < n,
             Append(q, e)[m] # Garbage, Append(q, e)[n] # Garbage
      PROVE  Append(q, e)[m] < Append(q, e)[n]
  <2>1. m \in 1..Len(q)
    BY <1>1, <1>3
  <2>2. n \in 1..Len(q) \/ n = Len(q) + 1
    BY <1>1
  <2> QED BY <1>1, <1>2, <1>3, <2>1, <2>2 DEF Rising
<1> QED BY <1>1, <1>3 DEF Rising

LEMMA UnwrittenStep ==
  ASSUME TypeInv, DataType, Dated, Unwritten, [AuditNext]_allVars
  PROVE  Unwritten'
<1> SUFFICES ASSUME pc' \notin {"down", "idle", "ack"}, NEW f \in Files, NEW r \in Recorded(f)'
             PROVE  r < record'
  BY DEF Unwritten
<1>0. record \in Nat /\ Records \cup {Garbage} \subseteq Nat
  BY AuditBoundsAssumption DEF DataType, AuditTypeOK, Records, Garbage
<1>1. r \in Recorded(f)
  BY RecordedGrows DEF WriteLine, WriteRecord
<1>2. r \in Nat /\ r <= record
  BY <1>0, <1>1, RecordedType DEF DataType, Dated
<1>3. CASE StartAppend
  BY <1>0, <1>2, <1>3 DEF StartAppend
<1>4. CASE pc \notin {"down", "idle", "ack"}
  BY <1>0, <1>1, <1>2, <1>4, ClockSteps DEF Unwritten
<1>5. pc # "ack"
  BY LeavingAck DEF CallFails, IoError, Fail, ProcessDies, Kill, PowerFails, PowerLoss, Halt,
                    ReturnOk, Acknowledge
<1> QED BY <1>3, <1>4, <1>5, WorkBegins

\* What a write adds, to a file that ends with a whole line.
LEMMA WholeLineWritten ==
  ASSUME FileInv, Untorn, Unwritten, [AuditNext]_allVars, NEW f \in Files
  PROVE  /\ synced'[f].lines \in {content[f].lines, synced[f].lines}
         /\ \/ content'[f].lines = content[f].lines
            \/ PowerFails /\ content'[f].lines = synced[f].lines
            \/ /\ WriteLine /\ f = fs'.log[Active] /\ record \in Records
               /\ content'[f].lines = Append(content[f].lines, record)
               /\ \A g \in Files : \A r \in Recorded(g) : r < record
<1>1. /\ TypeInv /\ CleanInv /\ AgeInv /\ DataType /\ Grown /\ Clean
  BY DEF FileInv, TimeInv, RotationInv, KeptInv
<1>2. WriteLine => content[fs'.log[Active]].tail = "none" /\ record \in Records /\ pc = "write"
  BY <1>1, WrittenIsClean, WriteEffect DEF WriteLine
<1> QED BY <1>1, <1>2, LineSteps DEF Unwritten

LEMMA LinesInOrderStep ==
  ASSUME FileInv, Unwritten, LinesInOrder, [AuditNext]_allVars
  PROVE  LinesInOrder'
<1> SUFFICES ASSUME NEW f \in Files
             PROVE  Rising(content'[f].lines) /\ Rising(synced'[f].lines)
  BY DEF LinesInOrder
<1>0. TypeInv /\ DataType
  BY DEF FileInv, TimeInv, RotationInv, KeptInv
<1>1. ASSUME WriteLine, NEW e \in {record, Garbage} PROVE Rising(Append(content[f].lines, e))
  <2>1. content[f].lines \in Seq(Records \cup {Garbage}) /\ record \in Records
        /\ \A r \in Recorded(f) : r < record
    BY <1>0, <1>1, WriteEffect DEF DataType, AuditTypeOK, Contents, Unwritten
  <2>2. content[f].lines \in Seq(Nat) /\ e \in Nat
    BY <1>1, <2>1, AuditBoundsAssumption DEF Records, Garbage
  <2> QED BY <1>1, <2>1, <2>2, AppendRises DEF LinesInOrder, Recorded
<1> QED BY <1>0, <1>1, LineSteps DEF LinesInOrder

\* The file an append writes to is the active one of the layout it leaves.
LEMMA WrittenIsActive ==
  ASSUME TypeInv, TypeInv', CleanInv', faults' = 0, WriteRecord
  PROVE  Layout'[Active] = fs'.log[Active]
<1>1. pc' = "ack" /\ fs' \in Directory
  BY WrittenIsFile DEF TypeInv, TypeOK
<1>2. fs'.manifest = NoManifest
  BY <1>1 DEF CleanInv, TxnInv, Progress, Settled
<1>3. Logical(fs') = fs'.log
  BY <1>1, <1>2, LogicalNone
<1> QED BY <1>3 DEF Layout

LEMMA FilesInOrderStep ==
  ASSUME FileInv, FileInv', Unwritten, FilesInOrder, [AuditNext]_allVars
  PROVE  FilesInOrder'
<1>0. /\ RotationInv /\ TypeInv /\ DataType /\ Grown /\ Unwritten /\ FilesInOrder
      /\ TypeInv' /\ AgeInv' /\ AgeInv /\ NewestOnTop' /\ recoverable \subseteq Directory
      /\ recoverable' \subseteq Directory
  BY DEF FileInv, TimeInv, RotationInv, KeptInv, DescentInv, TypeInv, TypeOK
<1>a. /\ \A f \in Living : f \in Nat /\ f <= files
      /\ \A f \in Living' : f \in Files /\ f \in Nat
      /\ files \in Nat
  <2>1. files \in Nat /\ \A f \in Living : f \in Nat /\ f <= files
    BY <1>0, BoundsAssumption, LiveFiles DEF AgeInv, Living, TypeInv, TypeOK
  <2>2. \A s \in Directory : Live(s) \subseteq Files
    BY DEF Live, Directory, FileOrNone
  <2>3. Living' = UNION {Live(s) : s \in recoverable'}
    BY DEF Living
  <2>4. \A f \in Living' : f \in Files /\ f \in Nat
    BY <1>0, <2>2, <2>3, BoundsAssumption DEF Files
  <2> QED BY <2>1, <2>4
<1> SUFFICES ASSUME NEW f \in Living', NEW g \in Living', f < g,
                    NEW r \in Recorded(f)' \ {Garbage}, NEW q \in Recorded(g)' \ {Garbage}
             PROVE  r < q
  BY DEF FilesInOrder
<1>1. f \in Files /\ g \in Files /\ f \in Nat /\ g \in Nat
  BY <1>a
<1>2. WriteLine => \A h \in Files : \A x \in Recorded(h) : x < record
  BY <1>0, WriteEffect DEF Unwritten
<1>3. q \in Recorded(g) \/ (WriteLine /\ g = fs'.log[Active] /\ q = record)
  BY <1>0, <1>1, RecordedGrows
<1>4. r \in Recorded(f)
  <2>1. CASE WriteLine /\ f = fs'.log[Active]
    <3>1. g <= f
      BY <1>0, <1>1, <2>1 DEF NewestOnTop, Files, NoFile
    <3> QED BY <1>1, <3>1
  <2> QED BY <1>0, <1>1, <2>1, RecordedGrows
<1>5. CASE q \in Recorded(g)
  <2>1. Recorded(g) # {}
    BY <1>5
  <2>2. ~(g > files)
    BY <1>0, <1>1, <2>1, EmptyIsContent DEF Grown, Recorded
  <2>3. f \in Living /\ g \in Living
    BY <1>0, <1>1, <1>a, <2>2, LivingSteps
  <2> QED BY <1>0, <1>4, <1>5, <2>3 DEF FilesInOrder
<1>6. CASE WriteLine /\ q = record
  BY <1>1, <1>2, <1>4, <1>6
<1> QED BY <1>3, <1>5, <1>6

LEMMA OrderInvInit == AuditInit => OrderInv
<1> SUFFICES ASSUME AuditInit PROVE OrderInv
  OBVIOUS
<1>1. FileInv
  BY FileInvInit
<1>2. /\ fs = EmptyDirectory /\ recoverable = {EmptyDirectory} /\ pc = "down"
      /\ \A f \in Files : content[f] = EmptyContent /\ synced[f] = EmptyContent
  BY DEF AuditInit, Init
<1>3. Unwritten
  BY <1>2 DEF Unwritten
<1>4. LinesInOrder
  <2>1. Rising(<<>>)
    BY DEF Rising
  <2> QED BY <1>2, <2>1 DEF LinesInOrder, EmptyContent
<1>5. Living = {}
  <2>1. Live(EmptyDirectory) = {}
    BY DEF Live, EmptyDirectory
  <2> QED BY <1>2, <2>1 DEF Living
<1> QED BY <1>1, <1>3, <1>4, <1>5 DEF OrderInv, FilesInOrder

LEMMA OrderInvStep == OrderInv /\ [AuditNext]_allVars => OrderInv'
<1> SUFFICES ASSUME OrderInv, [AuditNext]_allVars PROVE OrderInv'
  OBVIOUS
<1>1. FileInv /\ FileInv' /\ TypeInv /\ DataType /\ Dated /\ Unwritten
  BY FileInvStep DEF OrderInv, FileInv, TimeInv, RotationInv, KeptInv
<1>2. Unwritten'
  BY <1>1, UnwrittenStep
<1>3. LinesInOrder' /\ FilesInOrder'
  BY <1>1, LinesInOrderStep, FilesInOrderStep DEF OrderInv
<1> QED BY <1>1, <1>2, <1>3 DEF OrderInv

\* Where no torn write has failed every line is a record.
AliveInOrder ==
  \A f, g \in Alive : f < g => \A r \in Recorded(f), q \in Recorded(g) : r < q

LEMMA OrderKnown == OrderInv => OldestLast /\ (Untorn => AliveInOrder)
<1> SUFFICES ASSUME OrderInv PROVE OldestLast /\ (Untorn => AliveInOrder)
  OBVIOUS
<1>1. /\ RotationInv /\ TypeInv /\ DescentInv /\ OldestLast /\ recoverable \subseteq Directory
  BY LayoutsDescend DEF OrderInv, FileInv, TimeInv, RotationInv, KeptInv, TypeInv, TypeOK
<1>2. Alive \subseteq Living /\ Alive \subseteq Files
  <2>1. \A f \in Alive : f \in Living
    BY <1>1, LogicalDescends DEF DescentInv, Alive, Possible, Living
  <2> QED BY <1>1, <2>1, LayoutTypes DEF LayoutsOK
<1>3. Untorn => \A f \in Alive : Garbage \notin Recorded(f)
  BY <1>2 DEF OrderInv, FileInv, Clean, NoGarbage
<1> QED BY <1>1, <1>2, <1>3 DEF OrderInv, FilesInOrder, AliveInOrder

\* A reader who goes from the oldest backup to the active file meets the records
\* in the order of their appends and none twice, whatever was rotated,
\* interrupted, lost with the power or spoilt by a call that failed: a rotation
\* left half done by one process and buried under the next never puts an older
\* file in front of a newer one.
THEOREM LogIsInOrder == AuditSpec => []RecordsInOrder
<1>1. OrderInv => RecordsInOrder
  <2> SUFFICES ASSUME OrderInv,
                      NEW i \in Slots, NEW j \in Slots,
                      Layout[i] # NoFile, Layout[j] # NoFile,
                      NEW m \in DOMAIN content[Layout[i]].lines, NEW n \in DOMAIN content[Layout[j]].lines,
                      content[Layout[i]].lines[m] # Garbage, content[Layout[j]].lines[n] # Garbage,
                      i > j \/ (i = j /\ m < n)
               PROVE  content[Layout[i]].lines[m] < content[Layout[j]].lines[n]
    BY DEF RecordsInOrder, Layout
  <2>1. /\ LayoutsOK /\ LinesInOrder /\ OldestLast /\ FilesInOrder /\ DescentInv /\ fs \in recoverable
        /\ fs \in Directory
    BY LayoutTypes, OrderKnown
       DEF OrderInv, FileInv, TimeInv, RotationInv, KeptInv, TypeInv, TypeOK
  <2>2. Layout[i] \in Files /\ Layout[j] \in Files
    BY <2>1 DEF LayoutsOK
  <2>3. CASE i = j /\ m < n
    BY <2>1, <2>2, <2>3 DEF LinesInOrder, Rising
  <2>4. CASE i > j
    <3>1. i \in Int /\ j \in Int
      BY DEF Slots
    <3>2. Layout[i] < Layout[j]
      BY <2>1, <2>4, <3>1 DEF OldestLast, LayoutsOK
    <3>3. /\ content[Layout[i]].lines[m] \in Recorded(Layout[i])
          /\ content[Layout[j]].lines[n] \in Recorded(Layout[j])
      BY DEF Recorded, ToSet
    <3>4. Layout[i] \in Living /\ Layout[j] \in Living
      BY <2>1, LogicalDescends DEF DescentInv, Living, Layout
    <3> QED BY <2>1, <3>2, <3>3, <3>4 DEF FilesInOrder
  <2> QED BY <2>3, <2>4
<1> QED BY <1>1, OrderInvInit, OrderInvStep, PTL DEF AuditSpec

\* What durable-log-recovery.md says of one append: as long as no call has
\* failed, or no write stops part-way, a success has written the record once,
\* as the last line.  Where a torn write failed before, the code breaks this.
THEOREM OneLineIsWritten == AuditSpec /\ []Untorn => OneLinePerSuccess
<1> DEFINE L == ActiveContent.lines
           OneLine ==
             ReturnOk => /\ Last(ActiveContent.lines) = record
                         /\ Cardinality({n \in DOMAIN ActiveContent.lines :
                                           ActiveContent.lines[n] = record}) = 1
<1>1. OrderInv /\ Untorn => OneLine
  <2> SUFFICES ASSUME OrderInv, Untorn, ReturnOk
               PROVE  Last(L) = record /\ Cardinality({n \in DOMAIN L : L[n] = record}) = 1
    OBVIOUS
  <2>1. /\ TypeInv /\ DataType /\ Dated /\ Clean /\ LinesInOrder /\ At("ack")
    BY DEF OrderInv, FileInv, TimeInv, RotationInv, KeptInv, ReturnOk, Acknowledge
  <2>2. fs.log[Active] \in Files /\ L \in Seq(Records \cup {Garbage}) /\ record \in ToSet(L)
    BY <2>1, ActiveIsFile DEF At, Clean, WrittenWhole, ActiveContent, DataType, AuditTypeOK, Contents
  <2>3. /\ DOMAIN L = 1..Len(L) /\ Len(L) \in Nat
        /\ \A n \in 1..Len(L) : L[n] \in Nat /\ L[n] <= record
    <3>1. \A n \in DOMAIN L : L[n] \in Recorded(fs.log[Active])
      BY DEF Recorded, ToSet, ActiveContent
    <3>2. Records \cup {Garbage} \subseteq Nat
      BY DEF Records, Garbage
    <3> QED BY <2>1, <2>2, <3>1, <3>2 DEF Dated
  <2>4. record \in Nat /\ Rising(L) /\ \A n \in 1..Len(L) : L[n] # Garbage
    <3>1. record \in Nat
      BY <2>1, AuditBoundsAssumption DEF DataType, AuditTypeOK
    <3>2. Rising(L)
      BY <2>1, <2>2 DEF LinesInOrder, ActiveContent
    <3>3. \A n \in DOMAIN L : L[n] \in Recorded(fs.log[Active])
      BY DEF Recorded, ToSet, ActiveContent
    <3>4. Garbage \notin Recorded(fs.log[Active])
      BY <2>1, <2>2 DEF Clean, NoGarbage
    <3> QED BY <2>3, <3>1, <3>2, <3>3, <3>4
  <2>5. PICK k \in 1..Len(L) : L[k] = record
    BY <2>2, <2>3 DEF ToSet
  <2>6. \A n \in 1..Len(L) : n < k => L[n] < record
    BY <2>3, <2>4, <2>5 DEF Rising
  <2>7. ASSUME NEW n \in 1..Len(L), k < n PROVE FALSE
    <3>1. L[k] < L[n] /\ L[n] <= record /\ L[n] \in Nat
      BY <2>3, <2>4, <2>5, <2>7 DEF Rising
    <3> QED BY <2>4, <2>5, <3>1
  <2>8. k = Len(L)
    BY <2>3, <2>5, <2>7
  <2>9. {n \in DOMAIN L : L[n] = record} = {k}
    BY <2>3, <2>4, <2>5, <2>6, <2>7
  <2> QED BY <2>5, <2>8, <2>9, FS_Singleton DEF Last
<1>2. [][OneLine]_allVars => OneLinePerSuccess
  BY DEF OneLinePerSuccess
<1> QED BY <1>1, <1>2, OrderInvInit, OrderInvStep, PTL DEF AuditSpec

-----------------------------------------------------------------------------
(* The promise of the log.  A layout is seen as the set of its files, and    *)
(* the log of module DurableLog as the set of the records in them.  Where    *)
(* retention is the same for all and nothing is pruned (SameRetention),      *)
(* files leave at the old end only.                                          *)

Of(p) == {p[i] : i \in Slots} \ {NoFile}

Read(F) == {r \in Records : \E f \in F : r \in ToSet(content[f].lines)}

ViewOK ==
  /\ Legible(fs) = Read(Of(Layout))
  /\ Fading = Read(Alive) \ Read(Of(Layout))
  /\ \A f : f \in Alive <=> \E p \in Possible : f \in Of(p)
  /\ Layout \in Possible

LEMMA ViewIsOfFiles == TypeInv => ViewOK
<1> SUFFICES ASSUME TypeInv PROVE ViewOK
  OBVIOUS
<1>1. ASSUME NEW s PROVE Legible(s) = Read(Of(Logical(s)))
  BY DEF Legible, Read, Of
<1>2. \A f : f \in Alive <=> \E p \in Possible : f \in Of(p)
  BY DEF Alive, Of
<1>3. UNION {Legible(s) : s \in recoverable} = Read(Alive)
  <2>1. ASSUME NEW r \in Read(Alive) PROVE r \in UNION {Legible(s) : s \in recoverable}
    <3>1. PICK f \in Alive : r \in ToSet(content[f].lines)
      BY DEF Read
    <3>2. PICK s \in recoverable : f \in Of(Logical(s))
      BY <1>2 DEF Possible
    <3>3. r \in Read(Of(Logical(s)))
      BY <3>1, <3>2 DEF Read
    <3> QED BY <1>1, <3>3
  <2>2. ASSUME NEW s \in recoverable, NEW r \in Legible(s) PROVE r \in Read(Alive)
    <3>1. PICK f \in Of(Logical(s)) : r \in ToSet(content[f].lines)
      BY <1>1, <2>2 DEF Read
    <3>2. f \in Alive
      BY <1>2 DEF Possible
    <3> QED BY <1>1, <2>2, <3>1, <3>2 DEF Read
  <2> QED BY <2>1, <2>2
<1>4. Layout \in Possible
  BY LayoutTypes DEF LayoutsOK
<1>5. Legible(fs) = Read(Of(Layout))
  BY <1>1 DEF Layout
<1>6. Fading = Read(Alive) \ Read(Of(Layout))
  BY <1>3, <1>5 DEF Fading
<1> QED BY <1>2, <1>4, <1>5, <1>6 DEF ViewOK

\* What a step does to the files of the layouts.
LayoutStays ==
  /\ Layout' \in Possible /\ Possible' \in {Possible, {Layout'}} /\ files' = files
  /\ Layout' = Layout \/ Possible' = {Layout'}

LayoutGrows ==
  /\ files' = files + 1 /\ Of(Layout') = Of(Layout) \cup {files'}
  /\ Possible' = Possible \cup {Layout'}

LayoutCut ==
  /\ files' = files /\ Of(Layout') \subseteq Of(Layout)
  /\ Possible' = Possible \cup {Layout'}
  /\ SameRetention => \A f \in Of(Layout) \ Of(Layout'), g \in Of(Layout') : f < g

LEMMA PrunedByAge ==
  ASSUME TypeInv, [AuditNext]_allVars, ExpireBackup
  PROVE  MaxAge # 0
<1>0. pc \in {"prune", "reprune"} /\ ~syncing /\ syncing' = TRUE /\ pc' = pc /\ slot' # slot
  BY DEF ExpireBackup, TypeInv, TypeOK
<1>1. CASE OpenOrClose \/ StartAppend \/ CallFails \/ ProcessDies \/ PowerFails \/ Tick \/ UNCHANGED allVars
  BY <1>0, <1>1 DEF OpenOrClose, Open, Close, StartAppend, BeginAppend, CallFails, IoError, Fail,
              ProcessDies, Kill, PowerFails, PowerLoss, Halt, Tick, allVars, vars
<1>2. CASE RotateBeforeAppend \/ RunTransaction
  <2>1. RotateBeforeAppend => pc = "decide"
    BY DEF RotateBeforeAppend, BeginRotation, RotationRefused, NoRotation, At
  <2>2. WriteManifest => pc \in {"create", "publish"}
    BY DEF WriteManifest, CreateTemporary, TemporaryExists, PublishManifest, At
  <2>3. Stage => pc = "stage"
    BY DEF Stage, StageMove, StageSkip, StageRefuse, StagingDone, At
  <2>4. Install => pc = "install"
    BY DEF Install, InstallMove, InstallSkip, InstallRefuse, InstallingDone, At
  <2>5. Finish => pc \in {"drop", "clear"}
    BY DEF Finish, DropOldest, NothingToDrop, ClearManifest, At
  <2> QED BY <1>0, <1>2, <2>1, <2>2, <2>3, <2>4, <2>5 DEF RunTransaction
<1>3. CASE WriteLine \/ WritePart \/ ReturnOk \/ SyncWritten
  BY <1>0, <1>3 DEF WriteLine, WritePart, WriteRecord, ReturnOk, Acknowledge, SyncWritten, Sync, At
<1>4. CASE Recover
  BY <1>0, <1>4 DEF Recover, ReadManifest, NoManifestFound, UnexplainedFiles, TailsRecovered, Recovered,
              Truncate, CorruptFile, Fail, At
<1>5. CASE PruneExpired
  <2>1. ~KeepBackup
    BY <1>0 DEF KeepBackup
  <2>2. ~PruneDone
    BY <1>0 DEF PruneDone
  <2>3. Old(fs.log[slot])
    BY <1>5, <2>1, <2>2 DEF PruneExpired
  <2> QED BY <2>3, SizesAssumption DEF Old
<1> QED BY <1>1, <1>2, <1>3, <1>4, <1>5 DEF AuditNext, AuditStep

LEMMA LayoutKinds ==
  ASSUME RotationInv, OldestLast, [AuditNext]_allVars, LayoutAction
  PROVE  LayoutStays \/ LayoutGrows \/ LayoutCut
<1>t. TypeInv /\ LayoutsOK
  BY LayoutTypes DEF RotationInv, KeptInv
<1>0. /\ Layout \in Possible /\ Active \in Slots /\ Layout \in [Slots -> FileOrNone] /\ files \in Nat
      /\ \A i \in Slots : Layout[i] \in Nat
      /\ \A i, j \in Slots : i < j /\ Layout[i] # NoFile /\ Layout[j] # NoFile => Layout[j] < Layout[i]
  BY <1>t DEF LayoutsOK, OldestLast
<1>1. CASE /\ Layout' = [Layout EXCEPT ![Active] = files + 1] /\ Layout[Active] = NoFile
           /\ Possible' = Possible \cup {Layout'} /\ files' = files + 1
  <2>1. \A i \in Slots : Layout'[i] = IF i = Active THEN files' ELSE Layout[i]
    BY <1>0, <1>1
  <2>2. files' # NoFile
    BY <1>0, <1>1 DEF NoFile
  <2>3. Of(Layout)' = Of(Layout) \cup {files'}
    BY <1>0, <1>1, <2>1, <2>2 DEF Of
  <2> QED BY <1>1, <2>3 DEF LayoutGrows, Of
<1>2. CASE /\ Layout' = [i \in Slots |-> IF i = Active THEN NoFile ELSE Layout'[i]]
           /\ Possible' = Possible \cup {Layout'} /\ files' = files
           /\ \E n \in Limits : \A i \in Slots \ {Active} :
                Layout'[i] = IF i <= n THEN Layout[i - 1] ELSE Layout[i]
  <2>1. PICK n \in Limits : \A i \in Slots \ {Active} :
                Layout'[i] = IF i <= n THEN Layout[i - 1] ELSE Layout[i]
    BY <1>2
  <2>2. Layout'[Active] = NoFile
    BY <1>0, <1>2
  <2>3. \A i \in Slots : i \in Nat /\ i <= MaxSlots /\ (i # Active => i - 1 \in Slots)
    BY SlotsAssumption DEF Slots, Active
  <2>4. MaxSlots \in Slots /\ MaxSlots \in Nat /\ \A i \in Slots : i # MaxSlots => i + 1 \in Slots \ {Active}
    BY SlotsAssumption DEF Slots, Active
  <2>5. Of(Layout') \subseteq Of(Layout)
    BY <2>1, <2>2, <2>3 DEF Of
  <2>6. ASSUME SameRetention, NEW f \in Of(Layout) \ Of(Layout'), NEW g \in Of(Layout')
        PROVE  f < g
    <3>1. n = MaxSlots
      BY <2>6 DEF SameRetention
    <3>2. PICK a \in Slots : f = Layout[a] /\ f # NoFile
      BY <2>6 DEF Of
    <3>3. a = MaxSlots
      <4>1. SUFFICES ASSUME a # MaxSlots PROVE FALSE
        OBVIOUS
      <4> DEFINE b == a + 1
      <4>2. b \in Slots \ {Active} /\ b <= MaxSlots /\ b - 1 = a
        BY <4>1, <2>3, <2>4
      <4> HIDE DEF b
      <4>3. Layout'[b] = Layout[a]
        BY <2>1, <3>1, <4>2
      <4> QED BY <2>6, <3>2, <4>2, <4>3 DEF Of
    <3>4. PICK b \in Slots : g = Layout'[b] /\ g # NoFile
      BY <2>6 DEF Of
    <3>5. b # Active /\ b - 1 \in Slots /\ g = Layout[b - 1] /\ b - 1 < a
      BY <2>1, <2>2, <2>3, <3>1, <3>3, <3>4
    <3> QED BY <1>0, <3>2, <3>4, <3>5
  <2> QED BY <1>2, <2>5, <2>6 DEF LayoutCut
<1>3. CASE /\ ExpireBackup
           /\ \E i \in Slots \ {Active} : Layout' = [Layout EXCEPT ![i] = NoFile]
           /\ Possible' = Possible \cup {Layout'} /\ files' = files
  <2>1. \A i \in Slots : Layout'[i] \in {Layout[i], NoFile}
    BY <1>0, <1>3
  <2>2. Of(Layout') \subseteq Of(Layout)
    BY <2>1 DEF Of
  <2>3. ~SameRetention
    BY <1>3, <1>t, PrunedByAge DEF SameRetention
  <2> QED BY <1>3, <2>2, <2>3 DEF LayoutCut
<1> QED BY <1>1, <1>2, <1>3, <1>t, LayoutChoices DEF LayoutStays

\* No file is acknowledged before it is made, and no record before its append ends.
AckedBefore ==
  /\ \A f \in kept : f <= files
  /\ \A r \in acked : r <= record /\ (pc \notin {"down", "idle"} => r < record)

\* A file with acknowledged records is there after a power loss if it is there now.
KeptStay == \A p \in Possible : kept \cap Of(Layout) \subseteq Of(p)

\* A layout that has an older file has every newer one that was acknowledged.
CutAtOldEnd ==
  \A p, q \in Possible : \A g \in Of(p) \cap kept, f \in Of(q) : f <= g => g \in Of(q)

\* Acknowledged records are synced, in a file that counts as acknowledged.
AckedWhole ==
  \A g \in Alive : \A r \in acked \cap ToSet(content[g].lines) :
    g \in kept /\ r \in ToSet(synced[g].lines)

DurableInv ==
  /\ OrderInv /\ AckedBefore
  /\ faults = 0 => KeptStay /\ AckedWhole /\ (SameRetention => CutAtOldEnd)

LEMMA AckedBeforeStep ==
  ASSUME OrderInv, AckedBefore, [AuditNext]_allVars
  PROVE  AckedBefore'
<1>0. /\ TypeInv /\ DataType /\ AgeInv /\ files \in Nat /\ record \in Nat /\ kept \subseteq Nat
      /\ acked \subseteq Nat
  <2>1. TypeInv /\ DataType /\ AgeInv
    BY DEF OrderInv, FileInv, TimeInv, RotationInv, KeptInv
  <2>2. files \in Nat /\ kept \subseteq Nat
    BY <2>1, BoundsAssumption DEF TypeInv, TypeOK, Files
  <2>3. record \in Nat /\ acked \subseteq Nat
    BY <2>1, AuditBoundsAssumption DEF DataType, AuditTypeOK, Records
  <2> QED BY <2>1, <2>2, <2>3
<1>1. files' >= files /\ record' >= record
  BY <1>0, FileSteps, ClockSteps
<1>2. CASE UNCHANGED <<kept, acked>>
  <2>1. pc' \notin {"down", "idle"} => record' = record + 1 \/ pc \notin {"down", "idle"}
    BY WorkBegins DEF StartAppend
  <2>2. record' \in Nat /\ files' \in Nat
    BY <1>0, FileSteps, ClockSteps
  <2> QED BY <1>0, <1>1, <1>2, <2>1, <2>2 DEF AckedBefore
<1>3. CASE ReturnOk
  <2>1. /\ kept' = kept \cup {fs.log[Active]} /\ acked' = acked \cup {record} /\ pc = "ack"
        /\ pc' = "idle" /\ record' = record /\ files' = files
    BY <1>3 DEF ReturnOk, Acknowledge, At
  <2>2. fs.log[Active] <= files
    <3>1. fs.log[Active] \in Files /\ Aged(fs, files) /\ Active \in Slots
      BY <1>0, <2>1, ActiveIsFile, SlotsAssumption DEF TypeInv, TypeOK, AgeInv, Slots, Active
    <3>2. Newer(fs.log[Active], Active, files)
      BY <3>1 DEF Aged, Files, NoFile
    <3> QED BY <1>0, <3>1, <3>2, BoundsAssumption DEF Newer, Files, NoFile, Active
  <2> QED BY <1>0, <2>1, <2>2 DEF AckedBefore
<1> QED BY <1>2, <1>3, AckedSteps

\* When an append returns, nothing is left to sync: one layout is possible, and
\* its active file is the one that was written.
LEMMA ReturnOkLayout ==
  ASSUME OrderInv, ReturnOk, faults = 0
  PROVE  /\ Possible = {Layout} /\ UNCHANGED <<Layout, Possible, content, synced, files>>
         /\ fs.log[Active] \in Of(Layout) /\ fs.log[Active] \in Files
         /\ record \in Readable(fs.log[Active]) /\ record \in Records
<1>1. /\ TypeInv /\ DataType /\ AckDurable /\ CleanInv /\ Clean
  BY DEF OrderInv, FileInv, TimeInv, RotationInv, KeptInv, Untorn
<1>2. At("ack") /\ UNCHANGED <<fs, recoverable, content, synced, files>>
  BY DEF ReturnOk, Acknowledge, dirVars, dataVars
<1>3. Possible = {Layout}
  BY <1>1, <1>2 DEF AckDurable, Possible, Layout
<1>4. UNCHANGED <<Layout, Possible>>
  BY <1>2 DEF Possible, Layout
<1>5. fs.log[Active] \in Files /\ Active \in Slots /\ fs \in Directory
  BY <1>1, <1>2, ActiveIsFile, SlotsAssumption DEF At, TypeInv, TypeOK, Slots, Active
<1>6. Layout = fs.log
  BY <1>1, <1>2, <1>5, LogicalNone DEF CleanInv, TxnInv, Progress, Settled, At, Layout
<1>7. fs.log[Active] \in Of(Layout)
  BY <1>5, <1>6 DEF Of, Files, NoFile
<1>8. record \in Readable(fs.log[Active]) /\ record \in Records
  BY <1>1, <1>2 DEF Clean, WrittenWhole, DataType, Begun, At
<1> QED BY <1>2, <1>3, <1>4, <1>5, <1>7, <1>8

LEMMA KeptFilesStep ==
  ASSUME OrderInv, AckedBefore, KeptStay, SameRetention => CutAtOldEnd,
         [AuditNext]_allVars, faults = 0, LayoutAction
  PROVE  KeptStay' /\ (SameRetention => CutAtOldEnd')
<1>0. /\ RotationInv /\ TypeInv /\ OldestLast /\ LayoutsOK
  BY LayoutTypes, OrderKnown DEF OrderInv, FileInv, TimeInv, RotationInv, KeptInv
<1>1. /\ Layout \in Possible /\ files \in Nat /\ NoFile \in Nat
      /\ \A p \in Possible : Of(p) \subseteq Nat /\ \A f \in Of(p) : f <= files
  <2>1. \A p \in Possible, i \in Slots : p[i] # NoFile => p[i] \in Nat /\ p[i] <= files
    BY <1>0 DEF LayoutsOK, OldestLast
  <2> QED BY <1>0, <2>1 DEF LayoutsOK, Of, NoFile
<1> DEFINE L == Of(Layout)
           M == Of(Layout')
<1>2. M = L'
  BY DEF Of
<1>3. /\ KeptStay' <=> \A p \in Possible' : kept' \cap M \subseteq Of(p)
      /\ CutAtOldEnd' <=> \A p, q \in Possible' : \A g \in Of(p) \cap kept', f \in Of(q) : f <= g => g \in Of(q)
  BY DEF KeptStay, CutAtOldEnd, Of
<1> HIDE DEF L, M
<1>4. CASE Possible' = {Layout'}
  BY <1>3, <1>4 DEF M
<1>5. CASE ReturnOk
  BY <1>4, <1>5, ReturnOkLayout
<1>6. CASE kept' = kept /\ LayoutStays
  <2>1. CASE Possible' = Possible /\ Layout' = Layout
    BY <1>3, <1>6, <2>1 DEF KeptStay, CutAtOldEnd, M
  <2> QED BY <1>4, <1>6, <2>1 DEF LayoutStays
<1>7. CASE kept' = kept /\ (LayoutGrows \/ LayoutCut)
  <2>1. /\ Possible' = Possible \cup {Layout'}
        /\ kept \cap M \subseteq kept \cap L
    BY <1>1, <1>7 DEF LayoutGrows, LayoutCut, AckedBefore, L, M
  <2>2. KeptStay'
    BY <1>3, <1>7, <2>1 DEF KeptStay, L, M
  <2>3. ASSUME SameRetention, NEW p \in Possible', NEW q \in Possible',
               NEW g \in Of(p) \cap kept, NEW f \in Of(q), f <= g
        PROVE  g \in Of(q)
    <3>1. PICK o \in Possible : g \in Of(o)
      BY <1>1, <2>1, <2>3 DEF L, M
    <3>2. CASE q \in Possible
      BY <2>3, <3>1, <3>2 DEF CutAtOldEnd
    <3>3. CASE q = Layout'
      <4>1. f \in M /\ g \in Nat /\ g <= files
        BY <1>1, <2>3, <3>1, <3>3 DEF M
      <4>2. f # files + 1
        BY <1>1, <2>3, <4>1
      <4>3. f \in L
        BY <1>7, <4>1, <4>2 DEF LayoutGrows, LayoutCut, L, M
      <4>4. g \in L
        BY <1>1, <2>3, <3>1, <4>3 DEF CutAtOldEnd, L
      <4>5. f \in Nat
        BY <1>1, <4>3 DEF L
      <4>6. g \in M
        BY <1>7, <2>3, <4>1, <4>4, <4>5 DEF LayoutGrows, LayoutCut, L, M
      <4> QED BY <3>3, <4>6 DEF M
    <3> QED BY <2>1, <3>2, <3>3
  <2>4. SameRetention => CutAtOldEnd'
    BY <1>3, <1>7, <2>3
  <2> QED BY <2>2, <2>4
<1>8. LayoutStays \/ LayoutGrows \/ LayoutCut
  BY <1>0, LayoutKinds
<1> QED BY <1>5, <1>6, <1>7, <1>8, AckedSteps

LEMMA AckedWholeStep ==
  ASSUME OrderInv, AckedBefore, AckedWhole, [AuditNext]_allVars, faults = 0, LayoutAction, TypeInv'
  PROVE  AckedWhole'
<1>0. /\ FileInv /\ RotationInv /\ TypeInv /\ AgeInv /\ DataType /\ Grown /\ LayoutsOK /\ LayoutsOK'
      /\ Untorn /\ Unwritten /\ AliveInOrder /\ OldestLast /\ ViewOK
  BY LayoutTypes, ViewIsOfFiles, OrderKnown, PTL
     DEF OrderInv, FileInv, TimeInv, RotationInv, KeptInv, Untorn
<1> SUFFICES ASSUME NEW g \in Alive', NEW r \in acked' \cap ToSet(content'[g].lines)
             PROVE  g \in kept' /\ r \in ToSet(synced'[g].lines)
  BY DEF AckedWhole
<1>1. g \in Files /\ Files \subseteq Nat /\ Alive \subseteq Files
  BY <1>0, BoundsAssumption DEF LayoutsOK, Files
<1>2. CASE ReturnOk
  <2>1. /\ kept' = kept \cup {fs.log[Active]} /\ acked' = acked \cup {record}
        /\ UNCHANGED <<content, synced>> /\ Possible' = Possible
        /\ fs.log[Active] \in Of(Layout) /\ fs.log[Active] \in Files
        /\ record \in Readable(fs.log[Active]) /\ record \in Records
    BY <1>2, ReturnOkLayout DEF ReturnOk, Acknowledge
  <2>2. g \in Alive /\ fs.log[Active] \in Alive
    BY <1>0, <2>1 DEF Alive, ViewOK
  <2>3. CASE r \in acked
    BY <2>1, <2>2, <2>3 DEF AckedWhole
  <2>4. CASE r = record
    <3>1. record \in Recorded(g) /\ record \in Recorded(fs.log[Active])
      BY <2>1, <2>4 DEF Recorded, Readable
    <3>2. record \in Nat
      BY <2>1, AuditBoundsAssumption DEF Records
    <3>3. ~(g < fs.log[Active]) /\ ~(fs.log[Active] < g)
      BY <1>0, <2>2, <3>1, <3>2 DEF AliveInOrder
    <3>4. g \in Nat /\ fs.log[Active] \in Nat
      BY <1>1, <2>1
    <3>5. g = fs.log[Active]
      BY <3>3, <3>4
    <3> QED BY <2>1, <2>4, <3>5 DEF Readable
  <2> QED BY <2>1, <2>3, <2>4
<1>3. CASE UNCHANGED <<kept, acked>>
  <2>1. ToSet(synced[g].lines) \subseteq ToSet(synced'[g].lines)
    BY <1>0, <1>1, GrownStep
  <2>2. r \in ToSet(content[g].lines)
    <3>1. CASE content'[g].lines = content[g].lines
      BY <3>1
    <3>2. CASE content'[g].lines = synced[g].lines
      BY <1>0, <1>1, <3>2 DEF Grown
    <3>3. CASE WriteLine /\ record \in Records /\ content'[g].lines = Append(content[g].lines, record)
      <4>1. content[g].lines \in Seq(Records \cup {Garbage})
        BY <1>0, <1>1 DEF DataType, AuditTypeOK, Contents
      <4>2. ToSet(content'[g].lines) = ToSet(content[g].lines) \cup {record}
        BY <3>3, <4>1, AppendRange
      <4>3. r # record
        BY <1>3, <3>3, AuditBoundsAssumption
           DEF AckedBefore, WriteLine, WriteRecord, At, Records
      <4> QED BY <4>2, <4>3
    <3> QED BY <1>0, <1>1, <3>1, <3>2, <3>3, WholeLineWritten
  <2>3. g \in Alive
    <3>1. ~(g > files)
      BY <1>0, <1>1, <2>2, EmptyIsContent DEF Grown
    <3>2. files \in Nat
      BY <1>0 DEF LayoutsOK
    <3> QED BY <1>0, <1>1, <3>1, <3>2, AliveSteps
  <2> QED BY <1>3, <2>1, <2>2, <2>3 DEF AckedWhole
<1> QED BY <1>2, <1>3, AckedSteps

LEMMA DurableInvInit == AuditInit => DurableInv
<1> SUFFICES ASSUME AuditInit PROVE DurableInv
  OBVIOUS
<1>1. kept = {} /\ acked = {}
  BY DEF AuditInit, Init
<1>2. AckedBefore /\ KeptStay /\ AckedWhole /\ CutAtOldEnd
  BY <1>1 DEF AckedBefore, KeptStay, AckedWhole, CutAtOldEnd
<1> QED BY <1>2, OrderInvInit DEF DurableInv

LEMMA DurableInvStep == DurableInv /\ [AuditNext]_allVars => DurableInv'
<1> SUFFICES ASSUME DurableInv, [AuditNext]_allVars PROVE DurableInv'
  OBVIOUS
<1>1. OrderInv /\ OrderInv' /\ AckedBefore /\ AckedBefore'
  BY OrderInvStep, AckedBeforeStep DEF DurableInv
<1>2. TypeInv /\ TypeInv' /\ RotationInv
  BY <1>1 DEF OrderInv, FileInv, TimeInv, RotationInv, KeptInv
<1>3. ASSUME faults' = 0 PROVE KeptStay' /\ AckedWhole' /\ (SameRetention => CutAtOldEnd')
  <2>1. faults = 0
    BY <1>2, <1>3, FaultsGrow, AuditSteps DEF Repairing, Rejecting, budget
  <2>2. LayoutAction
    BY <1>2, <1>3, LayoutSteps
  <2> QED BY <1>1, <1>2, <2>1, <2>2, KeptFilesStep, AckedWholeStep DEF DurableInv
<1> QED BY <1>1, <1>3 DEF DurableInv, SameRetention

\* Steps, as a reader of the log sees them: what they find in the files F after
\* the step.
ReadNext(F) == {r \in Records : \E f \in F : r \in ToSet(content'[f].lines)}

View ==
  /\ Legible(fs) = Read(Of(Layout)) /\ Fading = Read(Alive) \ Read(Of(Layout))
  /\ Legible(fs)' = ReadNext(Of(Layout')) /\ Fading' = ReadNext(Alive') \ ReadNext(Of(Layout'))
  /\ \A f : f \in Alive <=> \E p \in Possible : f \in Of(p)
  /\ \A f : f \in Alive' <=> \E p \in Possible' : f \in Of(p)
  /\ Layout \in Possible /\ Layout' \in Possible'
  /\ Alive \subseteq Files /\ Alive' \subseteq Files
  /\ Of(Layout) \subseteq Alive /\ Of(Layout') \subseteq Alive'
  /\ files \in Nat /\ Files \subseteq Nat

LEMMA ViewOfStep == ASSUME TypeInv, TypeInv' PROVE View
<1>1. ViewOK /\ ViewOK' /\ LayoutsOK /\ LayoutsOK'
  BY ViewIsOfFiles, LayoutTypes, PTL
<1>2. Read(Of(Layout))' = ReadNext(Of(Layout')) /\ Read(Alive)' = ReadNext(Alive')
  BY DEF Read, ReadNext, Of
<1>3. Legible(fs)' = ReadNext(Of(Layout')) /\ Fading' = ReadNext(Alive') \ ReadNext(Of(Layout'))
  BY <1>1, <1>2 DEF ViewOK
<1>4. /\ \A f : f \in Alive <=> \E p \in Possible : f \in Of(p)
      /\ \A f : f \in Alive' <=> \E p \in Possible' : f \in Of(p)
  BY <1>1 DEF ViewOK, Of
<1>5. Layout \in Possible /\ Layout' \in Possible'
  BY <1>1 DEF ViewOK
<1>6. Alive \subseteq Files /\ Alive' \subseteq Files /\ files \in Nat /\ Files \subseteq Nat
  BY <1>1, BoundsAssumption DEF LayoutsOK, Files
<1> QED BY <1>1, <1>3, <1>4, <1>5, <1>6 DEF ViewOK, View

\* Of the appended records and the layouts, only these steps change the first.
LEMMA RecordSteps ==
  ASSUME TypeInv, DataType, [AuditNext]_allVars
  PROVE  \/ StartAppend \/ ReturnOk
         \/ UNCHANGED <<record, acked>>
<1>1. CASE Calm \/ Tick
  BY <1>1, CalmUnchanged DEF auditVars, Tick
<1>2. CASE \E i \in Slots : Truncate(i)
  BY <1>2, TruncateEffect
<1>3. CASE WriteLine \/ WritePart \/ SyncWritten \/ CallFails \/ PowerFails
  BY <1>3, WriteEffect, SyncEffect, PowerEffect DEF WriteTo
<1> QED BY <1>1, <1>2, <1>3, DataSteps

LEMMA PromisePower ==
  ASSUME DurableInv, View, faults = 0,
         Layout' \in Possible, Possible' = {Layout'}, UNCHANGED <<record, acked>>,
         \A g \in Files : /\ ToSet(synced[g].lines) \subseteq ToSet(content'[g].lines)
                          /\ ToSet(content'[g].lines) \subseteq ToSet(content[g].lines)
  PROVE  Promise!PowerLoss
<1> DEFINE X == Read(Of(Layout))
           A == Read(Alive)
           Y == ReadNext(Of(Layout'))
<1>0. /\ KeptStay /\ AckedWhole /\ (SameRetention => CutAtOldEnd) /\ AliveInOrder
      /\ \A p \in Possible : Of(p) \subseteq Alive
  BY OrderKnown DEF DurableInv, Untorn, View
<1>1. /\ Legible(fs) = X /\ Fading = A \ X
      /\ Legible(fs)' = Y /\ Fading' = ReadNext(Alive') \ Y
      /\ X \cup (A \ X) = A
  <2>1. X \subseteq A
    BY DEF View, Read
  <2> QED BY <2>1 DEF View
<1>2. Y \subseteq A
  BY <1>0 DEF Read, ReadNext, View
<1>3. Fading' = {}
  <2>1. Alive' = Of(Layout')
    BY DEF View
  <2> QED BY <1>1, <2>1
<1>4. X \cap acked \subseteq Y
  <2> SUFFICES ASSUME NEW r \in acked, r \in Records, NEW g \in Of(Layout), r \in ToSet(content[g].lines)
               PROVE  r \in Y
    BY DEF Read
  <2>1. g \in kept /\ r \in ToSet(synced[g].lines) /\ g \in Files
    BY <1>0 DEF AckedWhole, View
  <2>2. g \in Of(Layout')
    BY <1>0, <2>1 DEF KeptStay
  <2> QED BY <2>1, <2>2 DEF ReadNext
<1>5. ASSUME SameRetention, NEW r \in Y, NEW q \in A \cap acked, r < q
      PROVE  q \in Y
  <2>1. PICK f \in Of(Layout') : r \in ToSet(content'[f].lines)
    BY DEF ReadNext
  <2>2. PICK g \in Alive : q \in ToSet(content[g].lines) /\ q \in Records
    BY DEF Read
  <2>3. f \in Alive /\ f \in Files /\ g \in Files /\ f \in Nat /\ g \in Nat
    BY <1>0 DEF View
  <2>4. r \in Recorded(f) /\ q \in Recorded(g)
    BY <2>1, <2>2, <2>3 DEF Recorded
  <2>5. r \in Nat /\ q \in Nat
    BY <2>2, AuditBoundsAssumption DEF ReadNext, Records
  <2>6. f <= g
    BY <1>0, <1>5, <2>3, <2>4, <2>5 DEF AliveInOrder
  <2>7. g \in kept /\ q \in ToSet(synced[g].lines)
    BY <1>0, <2>2 DEF AckedWhole
  <2>8. PICK p \in Possible : g \in Of(p)
    BY DEF View
  <2>9. g \in Of(Layout')
    BY <1>0, <1>5, <2>6, <2>7, <2>8 DEF CutAtOldEnd
  <2> QED BY <2>2, <2>3, <2>7, <2>9 DEF ReadNext
<1> HIDE DEF X, A, Y
<1> QED BY <1>1, <1>2, <1>3, <1>4, <1>5 DEF Promise!PowerLoss

\* A written line is a new record at the new end of the log.
LEMMA PromiseWrite ==
  ASSUME DurableInv, DurableInv', View, faults = 0, faults' = 0, [AuditNext]_allVars,
         UNCHANGED <<record, acked>>, WriteLine
  PROVE  Promise!Write
<1> DEFINE f == fs'.log[Active]
<1>0. /\ FileInv /\ TypeInv /\ TypeInv' /\ RotationInv /\ CleanInv /\ CleanInv' /\ AgeInv
      /\ DataType /\ Grown /\ Unwritten /\ Untorn /\ OldestLast
  BY OrderKnown DEF DurableInv, OrderInv, FileInv, TimeInv, RotationInv, KeptInv, Untorn
<1>1. /\ WriteRecord /\ f \in Files /\ record \in Records
      /\ content' = [content EXCEPT ![f] = WithLine(content[f], record)]
      /\ content[f].tail = "none" /\ content[f] \in Contents
      /\ \A g \in Files : \A r \in Recorded(g) : r < record
  <2>1. WriteRecord /\ WriteTo(f, WithLine(content[f], record))
    BY DEF WriteLine
  <2>2. f \in Files /\ record \in Records /\ pc = "write"
    BY <1>0, WriteEffect
  <2>3. content[f].tail = "none"
    BY <1>0, <2>1, WrittenIsClean DEF FileInv
  <2> QED BY <1>0, <2>1, <2>2, <2>3 DEF WriteTo, Unwritten, DataType, AuditTypeOK
<1>2. /\ \A g \in Files : g # f => content'[g] = content[g]
      /\ ToSet(content'[f].lines) = ToSet(content[f].lines) \cup {record}
  BY <1>0, <1>1, LineContent DEF DataType, AuditTypeOK
<1>3. Layout'[Active] = f
  BY <1>0, <1>1, WrittenIsActive
<1>4. Active \in Slots /\ f # NoFile
  BY <1>1, SlotsAssumption DEF Slots, Active, Files, NoFile
<1>5. f \in Of(Layout')
  BY <1>3, <1>4 DEF Of
<1>6. /\ Of(Layout') = Of(Layout) \cup {f} /\ Alive' = Alive \cup {f}
      /\ f \in Of(Layout) \/ ToSet(content[f].lines) = {}
  <2>1. CASE UNCHANGED Atomic!vars
    <3>1. Layout' = Layout /\ Possible' = Possible
      BY <2>1 DEF Atomic!vars, Layout, Possible
    <3>2. f \in Of(Layout)
      BY <1>5, <3>1
    <3> QED BY <3>1, <3>2 DEF View
  <2>2. CASE Atomic!Create
    <3>1. /\ Layout' = [Layout EXCEPT ![Active] = files + 1] /\ Possible' = Possible \cup {Layout'}
          /\ files' = files + 1
      BY <2>2 DEF Atomic!Create, Atomic!Become, Layout, Possible, Atomic!Active, Active
    <3>2. Layout \in [Slots -> FileOrNone]
      BY <1>0, LayoutTypes DEF LayoutsOK
    <3>3. f = files + 1
      BY <1>3, <1>4, <3>1, <3>2
    <3>4. LayoutGrows
      <4>1. LayoutAction
        BY <2>2 DEF LayoutAction
      <4>2. files' # files
        BY <3>1 DEF View
      <4> QED BY <1>0, <4>1, <4>2, LayoutKinds DEF LayoutStays, LayoutCut
    <3>5. Of(Layout') = Of(Layout) \cup {f} /\ Possible' = Possible \cup {Layout'}
      BY <3>1, <3>3, <3>4 DEF LayoutGrows
    <3>6. Alive' = Alive \cup {f}
      BY <3>5 DEF View
    <3>7. content[f] = EmptyContent
      BY <1>0, <1>1, <3>3 DEF Grown, View
    <3> QED BY <3>5, <3>6, <3>7, EmptyIsContent
  <2> QED BY <1>0, <1>1, <2>1, <2>2, WriteIsAtomic
<1>7. ASSUME NEW F, NEW G, G \subseteq Files, F = G \cup {f}, f \in G \/ ToSet(content[f].lines) = {}
      PROVE  ReadNext(F) = Read(G) \cup {record}
  <2>1. ASSUME NEW r \in ReadNext(F) PROVE r \in Read(G) \cup {record}
    <3>1. PICK g \in F : r \in ToSet(content'[g].lines) /\ r \in Records
      BY DEF ReadNext
    <3>2. CASE g = f
      BY <1>2, <1>7, <3>1, <3>2 DEF Read
    <3>3. CASE g # f
      BY <1>2, <1>7, <3>1, <3>3 DEF Read
    <3> QED BY <3>2, <3>3
  <2>2. ASSUME NEW r \in Read(G) PROVE r \in ReadNext(F)
    <3>1. PICK g \in G : r \in ToSet(content[g].lines) /\ r \in Records
      BY DEF Read
    <3>2. r \in ToSet(content'[g].lines)
      BY <1>2, <1>7, <3>1
    <3> QED BY <1>7, <3>1, <3>2 DEF ReadNext
  <2>3. record \in ReadNext(F)
    BY <1>1, <1>2, <1>7 DEF ReadNext
  <2> QED BY <2>1, <2>2, <2>3
<1> DEFINE X == Read(Of(Layout))
           A == Read(Alive)
<1>8. \A r \in A : r < record
  BY <1>1 DEF Read, View, Recorded
<1>9. X \subseteq A
  BY DEF View, Read
<1>10. Legible(fs)' = X \cup {record} /\ Fading' = (A \cup {record}) \ (X \cup {record})
  <2>1. ReadNext(Of(Layout')) = X \cup {record}
    BY <1>6, <1>7 DEF View
  <2>2. ReadNext(Alive') = A \cup {record}
    BY <1>6, <1>7 DEF View
  <2> QED BY <2>1, <2>2 DEF View
<1>11. Legible(fs) = X /\ Fading = A \ X
  BY DEF View
<1>12. record \notin A
  <2>1. record \in Nat
    BY <1>1, AuditBoundsAssumption DEF Records
  <2> QED BY <1>8, <2>1
<1> HIDE DEF X, A
<1> QED BY <1>8, <1>9, <1>10, <1>11, <1>12 DEF Promise!Write

\* A step that leaves the lines alone moves files, and so cuts the log or
\* loses what a power loss may take.
LEMMA PromiseMove ==
  ASSUME DurableInv, View, faults = 0, LayoutStays \/ LayoutGrows \/ LayoutCut,
         UNCHANGED <<record, acked>>, \A g \in Files : content'[g].lines = content[g].lines
  PROVE  [Promise!Next]_(Promise!vars)
<1> DEFINE X == Read(Of(Layout))
           A == Read(Alive)
<1>0. /\ Grown /\ AliveInOrder /\ OldestLast /\ X \subseteq A
      /\ \A p \in Possible : Of(p) \subseteq Alive
  BY OrderKnown DEF Untorn, DurableInv, OrderInv, FileInv, View, Read
<1>1. ASSUME NEW F, F \subseteq Files PROVE ReadNext(F) = Read(F)
  BY <1>1 DEF ReadNext, Read
<1>2. /\ Legible(fs) = X /\ Fading = A \ X
      /\ Legible(fs)' = Read(Of(Layout')) /\ Fading' = Read(Alive') \ Read(Of(Layout'))
  <2>1. ReadNext(Of(Layout')) = Read(Of(Layout')) /\ ReadNext(Alive') = Read(Alive')
    BY <1>1 DEF View
  <2> QED BY <2>1 DEF View
<1>3. CASE LayoutStays /\ Possible' = {Layout'}
  <2>1. \A g \in Files : /\ ToSet(synced[g].lines) \subseteq ToSet(content'[g].lines)
                         /\ ToSet(content'[g].lines) \subseteq ToSet(content[g].lines)
    BY <1>0 DEF Grown
  <2>2. Promise!PowerLoss
    BY <1>3, <2>1, PromisePower DEF LayoutStays
  <2> QED BY <2>2 DEF Promise!Next
<1>4. CASE Layout' = Layout /\ Possible' = Possible
  <2>1. Alive' = Alive
    BY <1>4 DEF View
  <2> QED BY <1>2, <1>4, <2>1 DEF Promise!vars
<1>5. CASE LayoutGrows
  <2>1. Of(Layout') = Of(Layout) \cup {files'} /\ Alive' = Alive \cup {files'} /\ files' > files
    BY <1>5 DEF LayoutGrows, View
  <2>2. files' \in Files
    BY <2>1 DEF View
  <2>3. ToSet(content[files'].lines) = {}
    BY <1>0, <2>1, <2>2, EmptyIsContent DEF Grown
  <2>4. Read(Of(Layout')) = X /\ Read(Alive') = A
    BY <2>1, <2>3 DEF Read
  <2> QED BY <1>2, <2>4 DEF Promise!vars
<1>6. CASE LayoutCut
  <2>1. Alive' = Alive
    BY <1>6 DEF LayoutCut, View
  <2>2. Read(Of(Layout')) \subseteq X
    BY <1>6 DEF LayoutCut, Read
  <2>3. ASSUME SameRetention, NEW r \in X \ Read(Of(Layout')), NEW q \in Read(Of(Layout'))
        PROVE  r < q
    <3>1. PICK f \in Of(Layout) \ Of(Layout') : r \in ToSet(content[f].lines)
      BY DEF Read
    <3>2. PICK g \in Of(Layout') : q \in ToSet(content[g].lines)
      BY DEF Read
    <3>3. f < g /\ f \in Alive /\ g \in Alive
      BY <1>6, <2>1, <2>3 DEF LayoutCut, View
    <3>4. r \in Recorded(f) /\ q \in Recorded(g)
      BY <3>1, <3>2 DEF Recorded
    <3> QED BY <1>0, <3>3, <3>4 DEF AliveInOrder
  <2> DEFINE Y == Read(Of(Layout'))
  <2>4. Legible(fs)' = Y /\ Fading' = A \ Y
    BY <1>2, <2>1
  <2> HIDE DEF X, A, Y
  <2>5. Promise!Cut
    BY <1>0, <1>2, <2>2, <2>3, <2>4 DEF Promise!Cut, Y
  <2> QED BY <2>5 DEF Promise!Next
<1> QED BY <1>3, <1>4, <1>5, <1>6 DEF LayoutStays

LEMMA PromiseStep ==
  ASSUME DurableInv, DurableInv', [AuditNext]_allVars, faults = 0, faults' = 0
  PROVE  [Promise!Next]_(Promise!vars)
<1>0. /\ OrderInv /\ FileInv /\ TypeInv /\ TypeInv' /\ RotationInv /\ DataType /\ Grown /\ Unwritten
      /\ Untorn /\ OldestLast
  BY OrderKnown DEF DurableInv, OrderInv, FileInv, TimeInv, RotationInv, KeptInv, Untorn
<1>v. View
  BY <1>0, ViewOfStep
<1>l. LayoutAction
  BY <1>0, LayoutSteps
<1>1. CASE StartAppend
  <2>1. UNCHANGED <<fs, recoverable, content, acked>> /\ record' = record + 1
    BY <1>1 DEF StartAppend, BeginAppend, dirVars, dataVars
  <2>2. Layout' = Layout /\ Possible' = Possible /\ Alive' = Alive
    BY <2>1 DEF Layout, Possible, Alive
  <2>3. ReadNext(Of(Layout')) = Read(Of(Layout)) /\ ReadNext(Alive') = Read(Alive)
    BY <2>1, <2>2 DEF ReadNext, Read
  <2>4. Legible(fs)' = Legible(fs) /\ Fading' = Fading
    BY <1>v, <2>3 DEF View
  <2> QED BY <2>1, <2>4 DEF Promise!Issue, Promise!Next
<1>2. CASE ReturnOk
  <2>1. /\ UNCHANGED <<Layout, Possible, content, record>> /\ acked' = acked \cup {record}
        /\ fs.log[Active] \in Of(Layout) /\ record \in Readable(fs.log[Active])
        /\ record \in Records /\ fs.log[Active] \in Files
    BY <1>0, <1>2, ReturnOkLayout DEF ReturnOk
  <2>2. Alive' = Alive
    BY <1>v, <2>1 DEF View
  <2>3. ReadNext(Of(Layout')) = Read(Of(Layout)) /\ ReadNext(Alive') = Read(Alive)
    BY <2>1, <2>2 DEF ReadNext, Read
  <2>4. Legible(fs)' = Legible(fs) /\ Fading' = Fading
    BY <1>v, <2>3 DEF View
  <2>5. record \in Legible(fs)
    BY <1>0, <1>v, <2>1 DEF View, Read, Readable, Grown
  <2> QED BY <2>1, <2>4, <2>5 DEF Promise!Acknowledge, Promise!Next
<1>3. CASE WriteLine /\ UNCHANGED <<record, acked>>
  BY <1>3, <1>v, PromiseWrite DEF Promise!Next
<1>4. CASE PowerFails /\ UNCHANGED <<record, acked>>
  <2>1. Layout' \in Possible /\ Possible' = {Layout'}
    BY <1>4, PowerIsAtomic DEF PowerFails, Atomic!PowerLoss, Layout, Possible
  <2>2. \A g \in Files : /\ ToSet(synced[g].lines) \subseteq ToSet(content'[g].lines)
                         /\ ToSet(content'[g].lines) \subseteq ToSet(content[g].lines)
    <3>1. ~WriteLine
      BY <1>4 DEF PowerFails, PowerLoss, Halt, WriteLine, WriteRecord
    <3> QED BY <1>0, <3>1, LineSteps DEF Grown
  <2>3. Promise!PowerLoss
    BY <1>4, <1>v, <2>1, <2>2, PromisePower
  <2> QED BY <2>3 DEF Promise!Next
<1>5. CASE ~WriteLine /\ ~PowerFails /\ UNCHANGED <<record, acked>>
  <2>1. \A g \in Files : content'[g].lines = content[g].lines
    BY <1>0, <1>5, LineSteps
  <2>2. LayoutStays \/ LayoutGrows \/ LayoutCut
    BY <1>0, <1>l, LayoutKinds
  <2> QED BY <1>5, <1>v, <2>1, <2>2, PromiseMove
<1> QED BY <1>0, <1>1, <1>2, <1>3, <1>4, <1>5, RecordSteps

\* The log keeps what DurableLog promises: as long as no call fails, what a
\* reader finds grows at the new end only, by the record of the append under
\* way, loses records to retention only, and a power loss, at any point of any
\* rotation, recovery or append, costs no acknowledged record that retention had
\* not cut.  Where every process keeps the same number of backups and prunes
\* none, retention cuts, and a power loss brings back, at the old end only.
THEOREM LogKeepsItsPromise == AuditSpec => LogIsDurable
<1>1. AuditInit => Promise!Init
  <2> SUFFICES ASSUME AuditInit PROVE Promise!Init
    OBVIOUS
  <2>1. TypeInv /\ record = 0 /\ acked = {} /\ \A f \in Files : content[f] = EmptyContent
    BY InitType DEF AuditInit
  <2>2. ViewOK /\ LayoutsOK
    BY <2>1, ViewIsOfFiles, LayoutTypes
  <2>3. Read(Alive) = {}
    BY <2>1, <2>2, EmptyIsContent DEF LayoutsOK, Read
  <2>4. Read(Of(Layout)) = {}
    BY <2>2, <2>3 DEF ViewOK, Read
  <2> QED BY <2>1, <2>2, <2>3, <2>4 DEF ViewOK, Promise!Init
<1>2. DurableInv /\ DurableInv' /\ [AuditNext]_allVars
        => [faults' = 0 => [Promise!Next]_(Promise!vars)]_allVars
  <2> SUFFICES ASSUME DurableInv, DurableInv', [AuditNext]_allVars, faults' = 0
               PROVE  [Promise!Next]_(Promise!vars)
    OBVIOUS
  <2>1. TypeInv
    BY DEF DurableInv, OrderInv, FileInv, TimeInv, RotationInv, KeptInv
  <2>2. faults = 0
    BY <2>1, FaultsGrow, AuditSteps DEF Repairing, Rejecting, budget
  <2> QED BY <2>2, PromiseStep
<1>3. AuditSpec => []RecordsInOrder
  BY LogIsInOrder
<1> QED BY <1>1, <1>2, <1>3, DurableInvInit, DurableInvStep, PTL
        DEF AuditSpec, LogIsDurable
=============================================================================
