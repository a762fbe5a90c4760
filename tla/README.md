# Verification of hp-guard

hp-guard decides whether an agent may call a tool. A policy (YAML) lists rules;
the engine selects one for a call; an allow rule may carry a quota; every
decision is written to a durable audit log before it is returned. The program
exists twice, in Rust (`src/src/*.rs`) and in Python (`src/src/hp_guard/*.py`),
over the same files on disk. The modules here model both: where the two differ,
the variable `runtime` says which of them runs.

Paths below are relative to the repository (`src/`): `src/audit.rs` is
`src/src/audit.rs`, `spec/...` is `src/spec/...`.

## 1. Inventory

| Component | State | Operations | Interacts with |
|---|---|---|---|
| Durable log, rotation and recovery (`audit.rs:123-494`, `audit.py:91-438`) | files `<log>`, `<log>.1..n`, `<log>.rotation.json`, its `.tmp.<id>`, staging names; `recovery_complete`, the lease | open, `append`, `recover_tails`, `recover_manifest`, `write_manifest`, `stage_slot`, `install_slot`, `prune_expired_backups`, `rotate_current`, `close` | the file system; earlier and later processes of either runtime, through the directory |
| Durable log, contents and tails (same files) | bytes of the files, modification times | write, `sync_data`, `recover_tail`, size and age decisions | rotation; the clock |
| Audited policy store (`audit.rs:800-940`, `audit.py:470-600`) and inline adapter (`adapter.rs`, `adapter.py`) | active policy, `_closed`, two locks, the records appended | `authorize`, `record_outcome`, `reload`, `close`; adapter `authorize` | engine, durable log; host threads |
| Rate-limit store and stateful resolver (`state.rs`, `state.py`) | window start and count of each key, `last_now`, capacity | `resolve_call`, `check_and_consume` | engine (selected rule), clock; threads and several policy stores |
| Engine and matching (`engine.rs`, `engine.py`, `matching.rs`) | none between calls; loop state within one | `resolve_call_at`, `resolve_call_with_selected_rule_at` | conditions, rate limits |
| Conditions (`conditions.rs`, `conditions.py`) | none between calls; tokens, search position, table within one | `parse_args_pattern`, `args_match`, `path_matches`, time windows, all/any/not | engine, parser |
| Policy parser (`parser.rs`, `parser.py`) | rules, rule ids, limits, path and node count of the condition read; all local to one parse | YAML to rules; one flaw refuses the policy; depth 32 and 128 nodes at most | conditions, store, simulator |
| Simulator and command line (`simulator.rs`, `hp-guard-simulate.rs`, `simulator.py`, `simulate.py`) | events and expected sequence while a trace is read, results and reports while it is simulated | load one or two policies, `parse_trace`, `simulate_trace`, print | parser, engine, the wall clock |
| Data types, logging, public API, demo | none | declarations, formatting | all |

What is hard here, and what makes each component correct:

* **Rotation.** A rotation is up to 2n+7 directory operations, each visible at
  once and durable only after a sync. A kill or power loss can fall between any
  two, also during the recovery of an earlier crash; a failed call leaves the
  process up with the directory half rotated; the next process may be the other
  runtime with another retention count. Correct: a rotation looks as if it
  happened in one step; no acknowledged record is lost, doubled or reordered;
  retention takes from the old end only; recovery explains every directory the
  program itself can leave.
* **Contents.** A write may be torn, unsynced bytes may survive in part. Correct:
  a success is a promise no crash breaks; a torn tail is repaired, a record
  without its newline or half a character is refused. (Rust also refuses a file
  with no complete line, finding 5.)
* **Policy store.** Threads interleave between the reading of the policy, the
  append and the replacement of the policy; an append may fail in between.
  Correct: every decision in the log is that of the policy activated last, no
  decision leaves before its record, no deadlock, a close cuts the log.
* **Rate limits.** The clock is read before the lock; windows end between the
  two; the store is full; stores count seconds from different origins. Correct:
  no window grants more than its quota; nobody is throttled or refused early.
* **Engine and conditions.** Pure, but loops with order-sensitive comparisons,
  and two implementations of a matcher that must agree with one language.
* **Parser.** Sections in any order share one rule list, one index and one set of
  ids; limits are kept by position in that list; a condition is read recursively
  under two limits at once; the two runtimes check a rule in different orders.
  Correct: both load exactly the policies without a flaw, as written. (What a
  runtime takes for an ambiguous scalar is not what the document says, finding 7.)
* **Simulator.** Errors count lines, sequences count events, blank lines separate
  the two; an expectation is about one of two policies; every resolution reads
  the clock again. Correct: all of a trace is checked before any of it is
  simulated, and a report says what the policies say of its event. (Python reads
  two kinds of lines otherwise than the format says, finding 6.)

`PROJECT.json` lists each hazard at its line with the properties that cover it.

## 2. Modules

| Module | Models | Extends / instance |
|---|---|---|
| `AtomicRotation` | abstract: a layout of files, rotated in one step | |
| `Rotation` | rotation, manifest, recovery, crashes, failing calls | refines `AtomicRotation` |
| `DurableLog` | abstract: the set of records a reader finds | |
| `AuditLog` | contents, tails, clock, size and age decisions | EXTENDS `Rotation`; refines `DurableLog` |
| `PolicyStore` | audited policy store and adapter, threads and locks | uses the append as an atomic promise of `AuditLog` |
| `RateLimitStore` | quota store and stateful resolution | |
| `Engine` | one resolution, pure and stateful entry point | |
| `Simulator` | the hosts of the engine: a live call, or a simulation of a trace | EXTENDS `Engine` |
| `Conditions` | `args_match` and `path_pattern` | |
| `ConditionTree` | all, any, not, leaves and time windows: reading and evaluating | |
| `PolicyParser` | a document of rules, both runtimes, both versions | EXTENDS `ConditionTree` |
| `RotationProofs`, `AuditLogProofs`, `RateLimitProofs`, `PolicyStoreProofs`, `SimulatorProofs` (of `Engine` too), `ConditionsProofs`, `ConditionTreeProofs`, `PolicyParserProofs` | theorems | EXTENDS its module and `TLAPS`; `AuditLogProofs` also `RotationProofs`, `PolicyParserProofs` also `ConditionTreeProofs` |
| `MCPolicyStore`, `MCRateLimitStore`, `MCSimulator`, `MCConditions`, `MCPolicyParser` | values for TLC | EXTENDS its module |
| `MCPolicyLanguage` | `PolicyParser` or `Conditions` | EXTENDS `MCPolicyParser`, `MCConditions` |
| `MCHost` | `Simulator`, `PolicyStore` or `RateLimitStore` | EXTENDS `MCSimulator`, `MCPolicyStore`, `MCRateLimitStore` |

**Rotation.** `fs` is the directory as processes see it: the slots (0 the active
file, i the backup i), the staging names of each transaction, the manifest, the
temporaries. `recoverable` is the set of directories a power loss may leave: a
rename, creation or removal adds the new directory, `sync_parent` (action `Sync`)
leaves only the present one. This is the prefix model of a journalled directory.
`syncing` says that the next step is that sync, so that a crash can fall in
between. `pc` follows `append`: `recover` and `scan` (`recover_tails`), `prune`,
`decide` (`rotate_before_append`), `create` and `publish` (`write_manifest`),
`stage`, `install`, `drop`, `clear` (`recover_manifest`), `reprune`, `write`,
`ack`. `IoError` fails the current call: what happened before it stays, and
`recovered` (`recovery_complete`) stays, as in the code. `Kill` keeps the visible
directory, with its unsynced operations still unsynced; `PowerLoss` chooses one
of `recoverable`. The lease is the fact that only one process is ever open.

**AuditLog** adds what the files hold. A record is a number in the order of the
append calls; a file holds lines and a tail (`torn`, `whole`: a record without
newline, `cut`: ends inside a character). `WritePart` is a write that stops after
some bytes; `SyncWritten` is `sync_data` and `sync_parent`; `PowerFails` keeps
the unsynced bytes of each file whole, in part or not at all. Every action
conjoins an action of `Rotation` with its effect on the contents, or leaves
`Rotation` unchanged. The two ends of the recovery of a tail are the exceptions:
`Truncate` sets `syncing`, as `recover_tail` syncs the directory too, and
`CorruptFile` ends the call with an error `Rotation` does not have. `Corrupt` is
the check of `recover_tail`; it depends on the runtime, since a file without any
newline has, to Rust's `split`, one empty line.

**PolicyStore.** Each thread has a location and an operation. `Enter` takes the
store's lock and decides by the active policy; `LockLog`, `AppendOk` /
`AppendFails` / `AppendClosed` are the append under the lock of the log; `Finish`
replaces the policy or returns the result and releases the lock.
`record_outcome` and the log's own `close` do not take the store's lock. The Rust
store takes `&mut self`: its callers hold one lock around each call, a subset of
these interleavings. It may also be built without a policy (`NoPolicy`): until the
first reload every call is refused and nothing is appended (`RefuseUnready`).

**RateLimitStore.** `StartResolve` builds the key and reads the clock before the lock;
`Consume` is `check_and_consume`, one critical section with four outcomes. `Anchor`
gives each caller's policy store its clock origin. `grants` is a history variable.

**Engine.** `Match`/`Mismatch` filter, `ReturnDefault`, `ReturnDeny`, the
best-rule loop, and the step in which the stateful entry point takes from the
quota of the winner while the pure one answers `throttle`. A condition is the
Boolean it evaluates to.

**Simulator.** `host` is `live`, where `Init` and `Next` of `Engine` run alone, or
the place of a simulation: `load`, `trace`, `events`, `resolving`, `printed`,
`failed`. A trace is not chosen at once: each step of `parse_trace` takes one more
line, so every trace of the given lines is met. A line is given by what is wrong
with it (`Parts`) and checked in the order of `parse_event` (`EventChecks`).
`BeginResolution` makes the rules of a policy at the present instant the rules of
`Engine`, `Resolve` is any step of `Engine`, `EndResolution` keeps the result;
`Tick` may fall between any two resolutions. The two runtimes differ at
`BadJson` and `Invalid` only. Against this code stands the format's own
`WellFormed`, the same for both; `Taken` is that with the two departures of Python
(`Split`, `Tolerated`) named.

**Conditions.** The parser of `args_match` takes one character per action, the
search one start position per action; `MatchesFromRust` and `MatchesFromPython`
are recursive functions of a pair of token and position (one argument, which is
the form the prover handles), two because the runtimes consume repetitions
differently. `path_pattern` fills its table cell by cell.

**ConditionTree and PolicyParser.** A document is not chosen at once either: when
the parser comes to a key, a rule or a node of a condition, the model chooses
what stands there. `keys` are the keys already met, since YAML refuses or merges
a second one before the parser sees it. A rule runs through `Checks`, the sequence of
flaws the runtime looks for, each runtime with its own; `CheckFails` refuses the
policy, `PushRule` stores the rule with its index and limit. The recursion of
`parse_condition` is a tree in preorder with the `path` from the root to the
node being read; `EvaluateRule` walks it the same way and skips what an operand
that decides makes superfluous. A pattern is the answer it gives (`hit`, `miss`),
as `Conditions` has the matchers themselves. `Ambiguous` is what a runtime refuses,
`AmbiguousScalars` what the language's document does; `Overlooked` names the
difference.

## 3. Runs

| Run | Question | Bounds and why they are enough |
|---|---|---|
| `Rotation` | Is a rotation atomic, whatever crashes, recoveries included, and whoever finishes it? What remains true after failing calls? | Retention 1 and 2, so that a manifest of one count meets a process of the other, both with a backup moved and one dropped; two crashes and two faults, so that a recovery is itself cut short and a rotation meets the remains of a failed one; three rotations, so that a file is pushed out. |
| `AuditLogCrash` | To a reader, does the log hold the records `DurableLog` describes, in order, under torn writes? Does every append return? | Files of two records, six records, so that three files rotate through two backups; all three kinds of tail; two crashes; both runtimes, since only Rust refuses a file without a complete line. One retention count: unequal ones are in `Rotation`, `AuditLogFaults` and the theorems. |
| `AuditLogFaults` | Does the log keep that promise when processes keep different numbers of backups, rotate by age and size and prune? What remains with a fault and a crash? | Retention 1 and 2 in turn, age limit 2 and two ticks: a record younger and older than the limit in one file; four records in files of two, three files: pruning takes one from between two that stay. No torn writes: they are in `AuditLogCrash`, and both together in the theorem `AcknowledgedSurvive`. |
| `Host`, quota store | Does the quota hold, and is nobody refused early? | Two threads, three keys and room for two; windows of two seconds and a clock to 4: two full windows and the start of a third; quotas of 1 and 2; one store built a second later. |
| `Host`, policy store | Is the log the truth about the policies? | Three threads, four operations, two policies with opposite verdicts, one failing append; a store built with a policy and one built without. `SYMMETRY` over the threads: no action and no property tells one from another, and none of the properties is liveness. |
| `Host`, simulator | Does the loop select the rule the language defines, is a trace accepted exactly when the format says, the named lines aside, are the reports right? | Live: every policy of up to three of eighteen rules: three specificities, all actions, limits, a condition that fails, a target naming no field. Simulations: one or two of three policies (a rule that holds at one instant only, a policy without rules), traces of up to three of twelve lines with every flaw, alone and two at once, and a clock to 3, so that it ticks before, between and after the two resolutions of an event. |
| `PolicyLanguage`, matchers | Do the matchers compute their languages? | All patterns of up to four characters over every class of character, all texts of up to three. A repeated token between two others with an escape or anchor needs four. |
| `PolicyLanguage`, parser | Are the policies without a flaw loaded, the overlooked scalars aside, as written, with conditions within both limits that mean what the language says? | Two rules, so that an id, an index or a limit can collide, top-level or nested, both versions and runtimes; depth 2 and three nodes with a fourth offered (`MaxOffered`), so that each limit is met and passed, alone and together; limits at 0, 1, `MaxLimit` = 2 and above; two instants and a leaf that holds at one of them, so that each operator meets both values; an empty window is refused. A leaf whose pattern misses is left to `MeaningIsReturned`. |
| `RotationTemporary`, `AuditLogTornWrite`, `AuditLogAckEarly`, `RateLimitWindows`, `AuditLogTornOnly`, `TraceFormat`, `AmbiguousScalars` | What the documents say and the code does not do: section 5 | The smallest instance that shows it. |

`Host` and `PolicyLanguage` check several modules that do not touch each other's
state. A behaviour of `MCHost` is one of the simulator, of the policy store or of
the quota store, as `machine` says from the beginning; the other two rest in one
initial state of theirs. The state space is the sum of the three, not their
product, and each property is checked on all behaviours of its own module.

`CHECK_DEADLOCK FALSE` is set where a run ends by itself: an evaluation, a parse
(`PolicyLanguage`, `AmbiguousScalars`), a resolution or a simulation (`Host`,
`TraceFormat`), and a host that stops calling its policy store, where `NoDeadlock`
states instead that some thread inside an operation can always go
on.

The bounds `MaxTxns`, `MaxFiles`, `MaxCrashes`, `MaxFaults`, `MaxRecords`,
`MaxTime`, `MaxCalls`, `MaxRules`, `MaxOffered`, `MaxLines`, `MaxClock`,
`MaxPattern`, `MaxText` stand in guards; `MaxDepth`, `MaxNodes` and `MaxLimit` are
constants of the code (32, 128, 86400) with small values. An append begins only if
files, and in `AuditLog` transactions, are left for it: no append is cut off by a
bound.

Properties, by run, the type invariants aside:

* `Rotation`: `NothingLost`, `RefusedOnlyForTemporary`, `RotationIsAtomic`
  (refinement), `TransactionRespected` (which of the two runtimes may overwrite a
  manifest or acknowledge over one, and only after a failed call).
* `AuditLogCrash`: `RetentionHonoured`, `CorruptExplained` (what recovery gives up
  on, in either runtime), `LogIsDurable` (refinement), `AppendReturns` (liveness).
* `AuditLogFaults`: `AckedRecordsSurvive`, `YoungRecordsKept`, `ExpiredRemoved`, and `LogIsDurable` for
  unequal retention and pruning, with the order of the records whatever fails.
* `Host`, quota store: `QuotaHeld`, `ThrottledOnlyWhenSpent` (never before the window
  has granted its quota; with `QuotaHeld`, when it has granted exactly that),
  `FullOnlyWithActiveKeys`, `RefusedOnlyBehindOther` (a call is refused for a clock that went back only
  when another caller is ahead of it: two threads around a second's boundary, or a
  policy store built later; never a caller alone).
* `Host`, policy store: `ActivationsInOrder`, `DecidedByPolicyInForce` (both by
  `InForce`, which counts the activations whose append succeeded: after a failed
  append whose line reached the file, a reader of the file cannot tell),
  `AuditedBeforeReturn`, `OutcomesFollow`, `ClosedStaysSilent`, `NoDeadlock`.
* `Host`, simulator: `ResolvesAsSpecified`, `QuotaOfWinnerOnly`,
  `TraceAcceptedExactly` (`CheckedAgainst` the format's lines, those Python splits
  left out and those it tolerates added), `ReportsAsSpecified`,
  `ChangedForAReason` (a policy compared with an equal one is reported as changed
  only when a condition began or ceased to hold between the two resolutions).
* `PolicyLanguage`: `OnlyWellFormedAccepted`, `ArgsMatchIsSearch`, `PathPatternIsGlob`;
  `ExactlyValidAccepted` (by the language's list of flaws, the scalars a runtime
  overlooks spared), `LoadedAsWritten`, `ConditionLimitsExact`, `ConditionMeaning`.

Each is stated in words above its definition, and `PROJECT.json` names for each a
plausible bug (a definition marked "Mutant of" next to the one it changes) that
breaks it.

**Refinement.** `RotationIsAtomic` maps a directory to the layout recovery will
make of it (`Logical`): the rename of the staging manifest is the instant of the
rotation, everything after it is a stutter, and a power loss goes to a layout
of a whole step. `LogIsDurable` goes on from there to the records: those in the
files of that layout are the log of `DurableLog`, and a reader who goes from the
oldest backup to the active file meets them in order (`RecordsInOrder`); what
retention has cut while a power loss may still bring the file back is `fading`. A rotation, a recovery and a repaired tail are stutters to it; a
power loss keeps every acknowledged record that was not cut. `Contiguous` adds to
`DurableLog` that the log is cut at its old end only; `AuditLog` claims it where
`SameRetention` holds: every process keeps the same number of backups and prunes
none. Otherwise a process with fewer backups, or a pruned backup, takes a file from
between two that stay, and the rest of the promise remains. Both refinements hold as
long as no call fails; with failing calls they do not, which is finding 3.

**Fairness.** `FairAuditSpec` has weak fairness of `AuditStep`: the thread that
runs `append` is stopped by nothing but its process' death; and of `WriteStops`: a
write that stopped part-way (`WritePart`) has failed, so its call returns the
error, unless the process dies first. Nothing is asked of the host (it need not
open, append or close), of crashes or of other faults. With that, `AppendReturns`
says that no loop of recovery, staging or pruning spins. All other properties are
safety properties.

## 4. Proofs

TLAPS checks the following for every value of the constants: any numbers of
slots, transactions, crashes, failing calls, threads, rules, lines and so on. Each
theorem is named in `PROJECT.json`; here is the argument.

**The rotation** (`RotationProofs`).

* `TypeCorrect`: the strengthening relates `pc` to the loop state: a manifest is at
  hand from `create` to `clear`, its phase fits, and `slot` stays within its `max`.
* `NothingIsLost`, through any crashes and failing calls. `NothingLost` is not
  inductive: an acknowledgement adds the active file, and a move could cover another.
  `KeptInv` adds types, and the proof shows that no step overwrites an occupied
  name: `StageFile` and `InstallFile` move only where the target is free, so `Held`
  is kept. That an acknowledgement is safe is `AckDurable`: between the sync and
  the answer a power loss has one directory to find.
* `RefusalsAreExplained`: until a call fails, recovery refuses only a directory
  with a temporary manifest. The invariant is a description of every directory
  that can stand between two steps: what the names hold before, during and after
  each phase (`Shape`), where the transaction is (`Progress`), and which manifest
  and temporary belong to the process that is alive (`Lifecycle`). It holds for each
  directory in `recoverable`, hence also after a power loss. It is stated under
  `faults = 0`, because a failed call leaves directories it does not describe
  (finding 3); the property says so itself.
* `TransactionIsRespected`: the same, plus `Owned`, which survives failures: the
  Python runtime begins a rotation with no manifest on disk, and whoever moves
  files has a manifest of its own transaction there.
* `RotationRefinesAtomic`: with that description of directories every step is one
  of `AtomicRotation` under `Logical`, or a stutter. A step inside a transaction
  moves a file between two names `Logical` reads alike; a power loss goes to
  another member of `recoverable`, and all of those differ by whole steps.
* `RetentionIsHonoured`, through any crashes and failing calls. `AgeInv` is about the
  numbers of the files, which grow in the order of creation: a backup in place `i`
  has at least `i` newer ones.
* `DescentInv`, which has no property of its own and serves the order of the log.
  A rotation that failed half-way leaves files under staging names, and the next
  process may begin another on top of it. What remains true is `Descending`: among
  the slots, and between the slots and the staging names of the transaction whose
  manifest stands, no older file is in front of a newer one, at whatever point it
  was left; and the active file is the newest (`NewestOnTop`).

**The log with contents** (`AuditLogProofs`). Its steps are those of the rotation
(`AuditSteps`), so the invariants above carry over; the contents need four more,
each on top of the one before.

* `TimeInv`: no record is younger than the last change of the file it is in
  (`Dated`), and the backups that pruning has passed have not expired (`Pruned`).
  `YoungRecordsAreKept`, `ExpiredAreRemoved`, `LogRetentionIsHonoured` and
  `AuditTypeCorrect` follow.
* `FileInv`: a file holds at least its synced lines, and a file not yet created
  holds none (`Grown`); there is no garbage line, no partial one where a record is
  about to be written, and a file with an acknowledged record has a complete line
  (`Clean`). `AcknowledgedSurvive` and `CorruptionIsExplained` follow, the latter
  with Rust's refusal of a file without a complete line: no acknowledged record was
  ever in it. `Clean` is assumed only under `Untorn`: no call has failed, or failed
  writes leave no part of a line. The condition cannot go: after a torn
  write in a process that stays up the next record joins the half line (finding 2).
  Crashes may tear at will.
* `OrderInv`: the lines of a file rise, and every record of an older file is older
  than every record of a newer one. With `DescentInv` it gives `LogIsInOrder`,
  which needs no condition: neither a torn write nor a rotation buried under the
  next one puts a record in front of an earlier one. `OneLineIsWritten` has the
  condition `Untorn` again, and the run `AuditLogTornWrite` shows that it must.
* `DurableInv`: what each possible power loss leaves of the acknowledged records.
  `LogKeepsItsPromise`, the refinement of `DurableLog`, rests on it. It has no
  condition: any retention counts, any pruning; the property itself says "until a call
  fails", and claims the cut at the old end only under `SameRetention` (`CutAtOldEnd`).

Two more results need no such condition, and say what is left when calls fail.

* `WholeRecordsStay` (`WholeStaysWhole`): what `AcknowledgedSurvive` loses without `Untorn` is only the
  records a torn line takes at the moment they are written. The synced lines of a
  file are never taken back (`GrownStep`), and by `NothingIsLost` its file is in every
  directory a power loss may leave until retention removes it.
* `AppendsAreShort` (`AppendShortens`): the safety half of `AppendReturns`. `StepsLeft` counts the
  locations ahead of an append, then the slots left in its loop (in the scan, the
  tails yet to repair), then a sync that is due. Every step of the append lessens it
  and only the next call raises it, so that an append takes fewer than
  48 * (`MaxSlots` + 2) steps, whatever directory it finds. `Phased` says that recovery comes
  first and is not begun again. That a running append always has a step to take is
  what remains with TLC.

**Quotas** (`RateLimitProofs`).

* `QuotaIsHeld`, under `NothingForgotten`: all rules have one window length
  (`SameWindows`), or the store has room for every key (`Roomy`). The heart is
  `Ledger`: for every time from the latest call on, what the buckets count in its
  window is exactly what was granted in it. A bucket that is reset belongs to a window
  that is over, and so does one that is evicted if all windows are equally long; in a
  roomy store none is (`NothingEvicted`). With neither this is false: run
  `RateLimitWindows`, so that finding 4 is about eviction and nothing else.
* For all windows: `TypeCorrect`; `RefusalIsJustified`, by `ClockInv`: the latest
  time the store has seen was read by some caller (`LatestHasOwner`), and nobody
  holds a time that its own clock has not reached (`Pending`, `ReadInPast`); and
  `FullIsEarned`, by `Earned`: each bucket of the store has a grant behind it, made
  in the window it counts. `ThrottleIsEarned` has the same ground: a bucket never
  counts more than was granted.

**The policy store** (`PolicyStoreProofs`). `AuditInv`: an operation about to return
a decision has it in the log (`Audited`), an outcome is about a logged authorization
(`Grounded`), the log only grows (`LoggedStays`); from it `AuditComesFirst` and
`OutcomesComeAfter`. `OrderInv`: who decides or reloads holds the store's lock
(`Guarded`), so the log is ahead of the active policy only between a reload's append
and its replacement of the policy (`InStep`), and a decision under way is the active
policy's (`Decided`); from it `ActivationsAreOrdered` and `LogTellsThePolicy`. That
every prefix of the log has a last activation or none (`Begun`) is carried along,
since the maximum in `InForce` is taken over the log's prefix. `CloseCutsTheLog`:
after a close nothing is appended. `SomeoneIsFree`, by `LocksInv`: each lock
has at most one holder, and who waits for the log's lock does not hold it, so
some thread inside an operation waits for no lock.

**Engine and simulator** (`SimulatorProofs`). `EngineIsCorrect`, `QuotaIsOfWinner`:
the invariant says what `matching` lists so far (all and only the applying rules,
in order) and that `best` beats all matches already visited, earlier ones at a tie.
`SimInv` puts it next to four parts: the lines read so far are good and the
events are counted among them (`TraceInv`), the reports made are right
(`ReportInv`), the results collected are of the event the reports have come to
(`ResultInv`), and a resolution under way is that of the next policy for that event
at this instant (`ResolvingInv`); from it `ResolvesInBothHosts`, `QuotaInBothHosts`,
`TraceIsChecked`, `ReportsAreRight`. `TraceIsChecked` is about the lines the format
calls well-formed: `AcceptedIsTaken` shows that the checks of a runtime, line by
line, accept exactly those, less what Python splits and with what it tolerates.
`ChangesHaveAReason` adds that a report
determines the rules it lists: two ascending enumerations of one set are equal and
there is one winner, so reports of the same rules differ only if a condition does.

**Conditions and parser.**

* `ConditionsProofs`: `ParserAcceptsTheLanguage`: the tokens made so far are those of
  the characters read, and a refusal is at a character no continuation repairs.
  `ArgsSearchIsCorrect`: `MatchesFromRust` and `MatchesFromPython` both say whether
  the tokens from one on cut the text from a position on into pieces they match.
  The induction over token and position is by least counterexample (a nonempty set
  of naturals has a least one), which needs no operator parameter; that a recursive
  table exists is shown by an explicit one. `PathTableIsCorrect`: row `at` of the
  table is `GlobReaches` of the first `at - 1` characters, and of the row in
  progress the cells left of `col`; a lemma extends a cut by one character.
* `PolicyParserProofs`: `TypeCorrect`, `ValidAccepted`, `RulesAsWritten`,
  `LimitsAreExact`, `MeaningIsReturned`. `ValidAccepted` is about the flaws the
  language's document lists: `FitIsFlawless` shows that what passes a runtime's own
  checks is without them, the scalars it overlooks aside. The strengthening says where each part of
  the parse is (`Place`), that the checks passed so far found no flaw (`Checked`) and
  a refusal names one that is there (`Refusal`), that the ids are those of the rules
  stored (`IdsKnown`, `Stored`); `TreeInv` of `ConditionTreeProofs` says that the nodes
  read form a tree in preorder, that all are within the limits and that the values of
  evaluated nodes are the language's.

The assumptions are the named ASSUMEs on constants, evaluated by TLC in the runs
that extend their modules, and the conditions named above.

`WholeStaysWhole` and `AppendShortens` are stated by theorems alone; all other
properties that have one are checked by a run too. Every property of a passing run has
a theorem, except two. `AppendReturns` is liveness
and `NoDeadlock` is stated with ENABLED, both out of the prover's reach. What
`AppendsAreShort` leaves of the one to TLC, and `SomeoneIsFree` of the other, is that
a thread that waits for no lock has a step. Three theorems have the condition `Untorn`
(`AcknowledgedSurvive`, `CorruptionIsExplained`, `OneLineIsWritten`) and one
`NothingForgotten` (`QuotaIsHeld`); where the condition fails, the runs
`AuditLogTornWrite` and `RateLimitWindows` show what breaks. Both refinements
and `RefusedOnlyForTemporary` say in the property that no call has failed. All others
hold of every behaviour.

## 5. Where documents and code disagree

1. `RotationTemporary`: `spec/2026-08-11-durable-log-recovery.md:138-139` asks that
   a rotation interrupted at any point recovers. A crash between the creation of
   `<log>.rotation.json.tmp.<id>` and its rename leaves that file, and recovery
   refuses every directory that holds it (`audit.rs:231-247`). No data is lost.
   `RefusedOnlyForTemporary` shows that as long as no call fails recovery refuses
   no directory for the names in it but for this; what it refuses for the contents
   of a file is `CorruptExplained` and finding 5.
2. `AuditLogTornWrite`: `:86` of the same document says a success appended exactly
   one newline-terminated object. After a write that failed half-way in a
   process that stays up, the next record joins the half line and is not a line of
   its own. `AckedRecordsSurvive` is checked by a run only where writes are never
   torn; that it holds with writes torn by crashes, and with failed writes that
   leave nothing or the whole line, is the theorem `AcknowledgedSurvive`. No record
   that was already whole on disk is touched: `WholeStaysWhole`.
3. `AuditLogAckEarly`: `:85` says a success completes any rotation first. After
   a rotation that failed half-way, the next append finds no active file, skips the
   rotation, and succeeds with the manifest in place. A later rotation of the
   Rust runtime replaces that manifest. `NothingLost` holds even so: the files
   stay under their staging names.
4. `RateLimitWindows`: `spec/2026-08-11-v2-fixed-window-rate-limits.md:49-51` bounds
   the calls of a window by `max_calls`. Making room keeps only buckets with the
   caller's window start, so a rule with another window length loses its count.
   Without an eviction every quota holds, whatever the windows (`QuotaIsHeld`).
5. `AuditLogTornOnly`: `spec/2026-08-11-durable-log-recovery.md:41-43` has recovery
   truncate a suffix after the last newline if all earlier lines are valid. Rust
   refuses a file whose only content is such a suffix (`audit.rs:559-569`: the empty
   part before it counts as an empty line), and an empty file; Python repairs the
   one and accepts the other. A power loss during the first record of a new file
   leaves one of them, and every later append of a Rust process fails until the file
   is removed or a Python process has appended. `CorruptExplained`: no acknowledged
   record is in such a file.
6. `TraceFormat`: `spec/2026-08-11-policy-simulator-and-trace-format.md:14-18` makes
   a trace JSON Lines, and an `event_id` a non-empty string where there is one.
   Python's `splitlines` ends a line at U+2028 within a string and refuses the
   halves; it takes `"event_id": null` for an absent one. Rust does neither. The run
   stops at the first of the two; `TraceAcceptedExactly` says that, of the
   flaws a line has in the model (`Parts`), there is no third.
7. `AmbiguousScalars`: `spec/policy-language-v1.md:40-44` refuses boolean words and
   timestamp-like values in string fields. Rust accepts a date with a time and
   `target.context` names such as `no`; Python accepts `y` and `n`. Each refuses what
   the other accepts, so that a policy may load in one of them only.
   `ExactlyValidAccepted` says that the runtimes differ in nothing else. Among the
   strings of the model, that is: each stands for its kind.

Met while modelling, and not shown by a run of its own:

* `spec/2026-08-11-policy-simulator-and-trace-format.md:7` calls the simulator
  deterministic; both runtimes resolve with the wall clock, read anew for each
  policy. `ChangedForAReason` is what is left of it.
* Of a rule with several flaws the runtimes may report different ones, as they
  check in different orders (`Checks`).
* Duplicate YAML keys are left to two different loaders.
* A reload whose append fails after its line reached the file leaves an activation
  in the log that never was in force, and nothing in the log tells it from others.

## 6. Not modelled

* Data types, logging, public API, demo: no behaviour of their own.
* The YAML and JSON loaders, and the text of strings, patterns, timestamps and
  error messages: a string stands for its kind, a pattern in a tree for its answer.
* Engine and quota store are not composed: in `Engine` the quota gives any answer.
* Text of manifests and their validation, file modes, symbolic links: only
  manifests the program writes are met. Whether `flock` excludes is external.
* Deadlines: compared once before any state is touched (`adapter.rs:167`).
  Correlation ids are not deduplicated by the code, so a retry is a new call.
* Byte counts: `MaxBytes` counts records, so the comparison at the limit is met.

## 7. Plan

Order so far: `Rotation` and its abstraction (data loss is the worst this program
can do), `AuditLog`, `RateLimitStore`, `PolicyStore`, `Engine`, `Conditions`; then
`DurableLog`, `ConditionTree` and `PolicyParser`, `Simulator`; and the eight proof
modules. Left:

1. Engine and quota store composed, so that the quota consumed is that of the
   rule selected.
2. Deadlines: a request that passes its deadline while it waits for the lock.
