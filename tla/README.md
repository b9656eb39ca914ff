# A TLA+ development of degu

degu moves caches and build artefacts to a trash it can give them back from
(`clean`, `undo`) and deletes them for good only on a second decision (`trash
purge`).  What makes that safe is the *sealed staging* engine of `degu-core`:
before a tree is renamed, the directories that would let somebody else exchange
it are made exclusive (their modes are *sealed*), every change is announced in a
write-ahead log (WAL) before it is made and recorded after it, and whatever a
failure or a crash interrupts is settled by the next run.

This directory holds TLA+ models of that core and of the parts of degu around it,
configurations that check them with TLC on small instances, and proofs that TLAPS
checks for all instances.  `PROJECT.json` lists the components, runs, mutants,
findings, theorems and hazards, and gives for every definition the source lines
it models.

| module | models | code |
|---|---|---|
| `SealWal` | one transaction of the WAL, as pure operators | `seal/wal.rs`, `seal/wal/permission_ledger.rs` |
| `SealWalLog` | the WAL file and its writer | `seal/wal.rs` |
| `WalFrames` | the bytes of the WAL: frames of every release, torn tails, damage | `seal/wal.rs` |
| `WalRoom` | room and allowance in the WAL, admission | `seal/wal/allowance.rs`, `seal/wal/room.rs`, `staging/rename.rs` |
| `SealWalStore` | the store of the WAL: publication, lease, compaction | `seal/store.rs`, `seal/wal.rs` |
| `SealedStaging` | the staging engine over the WAL and the file system | `staging.rs`, `staging/rename.rs`, `staging/recovery.rs`, `seal/executor.rs` |
| `StagedTree` | what the engine promises, without logs, modes or syncs | |
| `HeldMode` | one certified directory and the change of its mode | `backend.rs`, `seal/executor.rs` |
| `HeldTree` | the walks that prove a tree and the purge that deletes it | `backend/held.rs` |
| `TreeSidecar` | the published manifests of staged trees | `seal/sidecar.rs` |
| `ScratchSort`, `KeyedPlan` | external sort and one-shot plans behind a manifest | `seal/sidecar/scratch.rs` |
| `ManifestStream` | the algorithms that read a manifest record by record | `backend/held.rs`, `staging/recovery/stream_v3.rs` |
| `Activation` | which store an account uses | `activation/mod.rs`, `activation/selection.rs` |
| `Provisioning` | how the account's own anchor is made | `provision/` |
| `Lifecycle` | staging, undo, purge, expiry over paths and the operation log | `degu/src/lifecycle/` |
| `LifecycleSession` | the same commands over sealed transactions | `degu/src/lifecycle/mod.rs`, `stage/production.rs`, `undo/` |
| `TrashRegistry` | the trash roots and their registry | `degu/src/lifecycle/storage.rs` |
| `Walker` | the pool of threads that measures a tree | `degu-walk/src/walker.rs` |
| `NativeRunner` | one bounded run of a foreign tool | `degu/src/native/runner.rs` |
| `QuotaObservation` | usage before and after an action | `degu/src/native/observation.rs`, `result.rs` |
| `UvPrune` | pruning the uv cache with a private copy of uv | `degu/src/uv/` |
| `RelocateInit` | `relocate --init` and its rollback | `degu/src/commands/relocate/init.rs` |
| `*Proofs`, `SealWalStoreLeases`, `SealedStagingFrames`, `SealedStagingJournal` | theorems and their lemmas (section 4) | |
| `MC*` | instances for TLC (section 3) | |

Paths are below `src/crates/degu-core/src/` unless they name a crate.

## 1. The system and its parts

A command that changes something first asks **activation** for the account's
store.  Two places may hold an authority: an anchor an administrator makes, and
the account's own, which **provisioning** makes.  Five records in three
directories bind an authority to one store for good; an interrupted activation
must be resumable, and two commands must never mutate through two stores.

The **WAL store** gives a lease, and with it a WAL writer, possibly after a
compaction that replaces the very file the lease is locked on.  The **WAL** is an
append-only file of framed records with, in the writer, a projection of each
transaction: its state, its permission ledger with running counts, its manifest
and sidecar references, rename and undo outcomes and purge progress.  Replay
repeats the guards of the appends in code of its own.  What every settled entry
may still have to write is kept free (**room and allowance**).

The **staging engine** opens over that writer, settles what earlier commands left,
and then stages, undoes or purges tree by tree.  A crash or a failure may fall
between any intent, its effect, its sync and its outcome.  Each change of a mode
goes through the **executor** and a **certified directory**; the tree is proven by
**walks** that read it while others may write to it; its manifest goes through an
**external sort** into a **sidecar** file and back out through **plans** that
drive sealing and deletion.

The **lifecycle session** serves a batch of entries from one engine and projects
every outcome into the **operation log**, which is never synced.  Entries of an
account that was never activated, or that were staged before it was, are served by
the **legacy arm**, which knows only paths and the operation log.  The **trash
registry** is the only way back to trash roots on other file systems.

Beside the trash, degu **measures** trees with a pool of threads, **runs foreign
tools** under deadlines, **observes quotas** around them, **prunes** the uv cache
and **relocates** cache roots.

Findings, disposition and plan are pure functions; collection and adapters,
configuration, the reporting commands, the advisory and the TUI read or present
and keep no state that a later step relies on.  They are listed in `PROJECT.json`
with the reason each is left out.

## 2. The models and the code

Common to all: a step ends where a crash, a failure or another actor leaves or
finds something different (a frame, an `fchmod`, a rename, an `fsync`, an unlink).
Data is reduced to what the properties tell apart: evidence is the directory it
names, an identity is a number nobody else holds, a digest is what it was computed
over.  `Max*` constants bound how many failures, crashes or steps of others happen
in one behaviour; `Faults` and `Losses` name what may fail.

**`SealWal`** has no variables.  A transaction is a record of the fields that
`SealWal<W>` keeps in maps keyed by its id.  `valid_transition`, the `may_*`
guards, `record_intent`, `record_resolution` and the coverage counters are the
append side; `ReplayAccepts` and `ReplayedAs` are the separate guards and effects
of `replay_records`; `decide_recovery` is the recovery decision.

**`SealWalLog`**: `txs` is what the writer holds; `prefixes` what replay makes of
each prefix of the file that a crash may leave, from the last synced length to its
end; `poisoned` is the field.  One action per append method, each through
`append_at`, which may succeed or poison; `settle`; and `resume`, a new lease on
any surviving prefix.

**`WalFrames`** is the file below that: encoding at the current version, decoding
of every version, the checksum, the repair of a torn tail, the refusal of damage,
and the read-back of one indexed frame.  A unit of the file is one fixed-width
field or one byte of a variable one.  Which record may follow which is `SealWal`'s.

**`WalRoom`** counts frames by their length: both admissions of a staging, the
allowances of settled entries, the retry gate of recovery, compaction before a
lease and the budget of the preview.  One transaction is unsettled at a time; the
group of a compaction is one run of degu; a damaged sidecar of another entry
during a pending retry is not modelled.

**`SealWalStore`**: `inodes` with their frames, synced length and `flock`; `dir`
and `synced_dir`; both directory locks; a program counter per process.  A lease is
directory lock, open, lock of the inode, binding check, sync, recheck, release of
the directory lock.  Compaction follows replay.  Its failures up to the rename
are skipped, those after it are errors.

**`SealedStaging`**: `wal`, `poisoned`, `blocked` and `issued` are the engine's
fields.  `modes`, `loc` and `sidecar` are the disk; `kept` and `stable` are what a
loss of power may take it back to.  `op` is the operation in progress, the program
counter of the handlers below it.  `stage_to_verified_commit`, `undo_verified`,
`request_verified_purge` and `execute_verified_purge` start one; `open` replays,
reconciles sidecars and starts recovery; `close`, `kill` and `power_loss` end a
process.  `occupy` and `corrupt` are others at work: a name taken, a sidecar
damaged.  A tree is a chain of directories, because sealing and restoring depend
only on which directory is above which.

**`StagedTree`** says what that comes to: an entry is in place, staged, given back
or deleted, intact or not, and a verdict, once it stands, stays true through every
crash until degu is asked to open another decision.  A quarantined transaction
whose sidecar has become unusable is given up at the next open (`staging.rs`
1396–1421), which is why the abstract specification has `GiveUp`.

**`HeldMode`** takes one directory through certification, the announcement of its
seal, `fchmod`, the applied record, and the undoing of it by this process or by
recovery.  Mode bits are sets; the mount table, access list and owner may change
between any two calls.  The owner is part of the evidence: any owner is written down
when a directory is certified, and a change is prepared only where it is the user of
the process.  The Linux path is modelled.

**`HeldTree`** has directories as inodes with entries, reached by descriptor or by
name as in the code, and files whose content is read in two halves.  A staging
collects the tree, looks again, seals, collects once more, compares and rewalks; a
purge compares every entry with its record before it unlinks it.

**`ScratchSort`**, **`KeyedPlan`**, **`ManifestStream`** and **`TreeSidecar`** are
the data path of a manifest: runs and merges with bounded fan-in; plan files whose
records carry keyed tags; the stack-and-cursor algorithms compared with reference
definitions over whole trees; publication, binding, reconciliation and removal of
sidecar files.  Another program of the same account may write to the files
meanwhile.

**`Activation`**: for both anchors their identity, records, what is synced of them,
and the lock; for every path a store and its marker; a program counter per
command.  The witness is durable before the claim, and prepare, marker and active
follow.  `lose_anchor`, `lose_store` and `replace_store` are what may happen to
storage between commands.  **`Provisioning`** is the self-managed scaffold in
detail: private name, completion, sync, rename without replacing, adoption of what
another call made, rollback by identity.

**`Lifecycle`** is the legacy arm: the object at each name, reservation markers, the
operation log with lost and torn records, the pending and final record around each
rename, claims and put-backs of a purge, expiry, reconciliation and the selection
of an undo.  **`LifecycleSession`** routes each entry to the engine, taken at the
level of `StagedTree`, or to the legacy arm, and writes the projections.
Markers of reservations are evidence only until they are past their time to live:
a purge ends by removing the expired ones (`purge_expired_claims`).
**`TrashRegistry`** makes, binds, registers, forgets and lists trash roots.

**`Walker`** is `measure` with its mutex, condition variable and deadline, over a
tree that changes; an object is the one that was listed when device, inode and
change time agree, and an error of `readdir` ends a listing.  **`NativeRunner`** is the loop of one run with its pipes, three
deadlines and the process group, beside a tool and a helper that do as they like.
**`QuotaObservation`**, **`UvPrune`** and **`RelocateInit`** are sequences of
file-system calls with changes by others between any two of them.  A quota scope is
told by file system and mount point, so a file system mounted twice is two scopes.

### External assumptions

What is not under `src/` is modelled from how the code uses it.

- An append-only file keeps a prefix of what was written; `WalFrames` also lets a
  loss of power keep later frames and zero earlier unsynced ones (`wal.rs:954`).
- A mode change survives a loss of power if a WAL frame written after it does, where
  both are on one file system.  Modes are never synced, and `docs/safety.md` lets
  the WAL be on another mount; `HeldMode` has both cases and states
  `LogTellsTheMode` for the former, `SealedStaging` assumes it.
- A rename is durable once both parents are synced; until then either side may be
  found.  `flock` is released when its holder dies.  An unlinked but unsynced name
  may return after a loss of power.
- Every change of an inode moves its ctime, and an inode number with its birth time
  is not reused.  Digests and checksums are perfect; keyed tags cannot be made
  without the key.
- Between the last look at something and the call that acts on it there is a window
  no program of the same account can be kept out of (`held.rs` 1535–1539 says so).
  `HeldMode`, `HeldTree`, `UvPrune` and `RelocateInit` leave a change in that window
  to the environment and state their properties outside it.  Where the last call
  takes a name, check and call are two steps and the property says what the window
  costs.  `Provisioning`: `unlinkat` takes whatever empty directory has the name by
  then.  `Lifecycle`: staging, claim and undo rename what is there by then and compare
  it afterwards; an object that is another, or that cannot be looked at, stays where
  it went and is reported as a failure.  `TreeSidecar`: what replaced or changed a
  sidecar after its contents were verified goes with the name.
- An administrator provisions the system anchor on evidence from outside.
- A process id is not reused while it is polled; no other thread opens descriptors
  between the runner's refresh of its table and the spawn; a helper may leave the
  process group.


## 3. Runs

A run is one question about one part of the system.  Where several components or
several instances of one belong to one question, its `MC` module is a *suite*: it
INSTANCEs them side by side, the variable `part` says which of them a behaviour
is of, and the variables of the others rest.  The components of a suite share
nothing but the run.  A suite's property is the conjunction of properties of its
components, each under the `part` it is about; the comment above it states every
one of them.

| run | components (bounds) | distinct states |
|---|---|---|
| `wal_log` | `SealWalLog`: 1 transaction, 4 mutations, parent and tree root | 426,362 |
| `held_mode` | `HeldMode`: 2 changes by others, 2 failing calls, 2 crashes, log on either file system | 3,796,695 |
| `seal_store` | `SealWalStore`: 2 processes, 3 transactions, 4 frames, 1 fault; `WalFrames`: every kind of record, and few records with a fault and a damaged byte; `WalRoom`: two trees, three limits; a tree that is assessed only once sealed, one limit | 1,211,396 |
| `staging` | `SealedStaging`: 1 transaction with 3 faults of any kind; 1 with 4 crashes; 2 transactions with 1 fault; against `StagedTree` | 247,395 |
| `activation` | `Activation`: 2 commands, up to 3 stores, 2 or 3 faults or losses; `Provisioning`: 2 calls with crashes, failing calls or other programs; `RelocateInit`: 2 runs | 1,625,359 |
| `trash` | `Lifecycle`: 3 commands on one item, 2 on two; `LifecycleSession`: 2 commands on two items, 3 on one; `TrashRegistry`: 2 file systems, 2 processes, 3 commands | 1,118,003 |
| `trees` | `HeldTree`: 5 shapes of tree, 2 changes by others or a failing call; `ScratchSort`: short inputs with interference, long ones without; `KeyedPlan`; `ManifestStream`: listings of up to 4 entries; `TreeSidecar`: 2 transactions | 1,326,085 |
| `tools` | `Walker`: up to 3 threads; `NativeRunner`; `QuotaObservation`; `UvPrune` | 3,906,416 |
| `liveness` | `SealedStaging`, `SealWalStore`, `Activation`, `NativeRunner`, `Walker`, `HeldTree`, `ScratchSort`, `KeyedPlan`, each with fairness | 189,635 |

All of these pass.  For each property `PROJECT.json` names a mutant, a plausible bug
in one mapped definition, under which TLC reports that property violated.

Three further runs each show a statement of the repository that the code does not
keep; `findings` in `PROJECT.json` quotes the lines.

- `lifecycle_failed_purge`: a `clean --purge` that fails puts the entry back and
  reports that the operation log would authenticate an undo.  Claim and put-back
  are renames and move the change time, which undo compares exactly, so no undo
  restores it.
- `session_retained`: a purge that is admitted and killed leaves its transaction
  `Purgeable`.  If its tree gains an attribute that rules permanent deletion out,
  the next purge reports it as retained and undoable, and no undo selects it.
- `trash_registry_torn`: a registry line cut short by a failed append is refused by
  every later registration, before the code that would seal it runs.

Four divergences were met in reading that no run states: records are not synced
(`journal.rs:42`), so after a loss of power an older record may speak for a name
that was used again, and expiry may come before the seven days of
`docs/safety.md:70`; `relocate --init` looks at a new directory by name after making it
(`init.rs:347`, against `docs/safety.md:32`); a tree that a failed purge has
begun to delete can be brought back by undo when its staging left only a pending
record; and `production.rs:368` keeps the marker of an uncertain staging as
evidence, but `housekeeping.rs` 10–32 removes it by age, whatever the seal log says of
its transaction.

### Why these bounds

- `wal_log`: four mutations are two seals and an inverse of each, or one seal with
  refused and repeated inverses, which is where counts and scans could differ.
  Transactions do not share ledger state, so one is enough; the proofs remove the
  bound.
- `staging`: two tree directories give a root and a descendant, whose applied
  frames are synced differently.  Three faults are a failure in the operation, one
  in its recovery and one in the recovery of that.  Every directory, the source
  parent included, may be open at first.  Settling a mode change below an ancestor
  that is open at that time is refused by the code, on purpose, and crashes alone can
  lead there; `CrashesBlockOnlyTheUnknowable` allows giving up for that reason
  (`WayIsOpen`) and for a rename or a deletion whose side is unknown, and for no
  other.  Two transactions share the source parent.
- `seal_store`: one process compacts while another opens; of three transactions two
  share a reclamation group; the WAL holds four frames, so that it fills.  For
  room, one limit is too small for either tree, one fits one of them, and one fits
  both but not a retry.  A preview charges a tree it cannot walk only its parent's
  round trip; one more limit fits a second tree beside that and not beside the whole
  life of the first, the one way a promise of the preview can fail.
- `activation`: the environment may name another store in each command, one of
  them on an unsupported backend; instances differ in which storage may be lost.
- `trash`: an item staged, restored and staged again under a used name takes three
  commands; two items are needed for a batch that fails part way.
- `trees`: a directory with a descendant, an alias, a link to the outside, a foreign
  or a protected entry are the shapes the walks tell apart; one-record runs with a
  fan-in of two give two levels of merging and a collapse from nine records.
- `tools`: three threads are one waiting, one reading and one finishing.  One unit
  of output per turn and pipes of one unit make both pipes fill.

### Fairness

Only `liveness` assumes fairness.  *Staging*: a started operation goes on, a command
ends, and somebody runs degu again (weak fairness of `Step`, `close`, `open`).
*Store*: the same of lease, append and close.  *Activation*: a started command goes
on, and a mutating command is run again and again (strong fairness, because the
action is disabled while one runs).  *Runner, walker, sort, plans, held tree*: weak
fairness of the program's own threads, and none of the tool, the deadline or the
interference.  The code is sequential and does not wait in these paths (locks are
tried once; the walker waits on a condition variable that is in the model), so a
started step is not held up by degu itself.  That users run degu again is an
assumption about them.  Staging, store and activation have one process here, so
nothing is shown about progress under contention.  Staging has one transaction here;
that recovery goes on to the next one is seen only in run `staging`.

## 4. Proofs

TLAPS proves the following for every value of the constants.  Each theorem is an
invariance `Spec => []P` (or, for `NoRegression`, an action property) by an
inductive invariant `IInv`, which TLC checked on small instances first.

| component | modules | theorems |
|---|---|---|
| WAL | `SealWalProofs`, `SealWalLogProofs` | `TypeCorrect`, `ReplayRebuilds`, `NoRegression`, `CountsMatch`, `RestoredIsWhole`, `UndoCountsAgree` |
| certified directory | `HeldModeProofs` | `TypeCorrect`, `OverwritesOnlySeen`, `LogTells`, `WritersKeptOut`, `LineageLogged`, `EvidenceCurrent` |
| WAL store | `SealWalStoreLeases`, `SealWalStoreProofs` | `OneSessionOnly`, `WritersHoldTheLiveWal`, `NothingAcknowledgedIsLost`, `GroupsStayWhole` |
| staging engine | `SealedStagingFrames`, `SealedStagingJournal`, `SealedStagingProofs` | `TypeCorrect`, `SettledTreesAreInPlace`, `DeletionIsClaimed`, `RecoveryFindsTheTree`, `SidecarIsThere`, `OneInFlight`, `RecoveryIsLongEnough` |

Store and staging are parts of suites in their runs, so their properties appear
there under the suite's names: `OneSessionOnly` and `WritersHoldTheLiveWal` belong
to `OneSession`, `NothingAcknowledgedIsLost` and `GroupsStayWhole` to
`AcknowledgedSurvives`, the staging theorems to `SettledStatesAreTrue`.

**Assumptions.**  `SealWalAssumption` (`None` is no mutation id and no state, the
source parent is not in the tree, the tree has an entry), `EntryAssumption` (`None`
is no ledger entry), `InvalidAssumption` (replay's refusal is not a transaction) and
`HeldMode`'s `ConstantsAssumption` (initial modes are sets of bits, the bounds are
numbers) are ASSUMEd where the constants are declared.  `StoreAssumption` and
`StagingAssumption` are hypotheses of their theorems, and the suites ASSUME them of
each instance.  `StagingAssumption` has the tree as a chain of directories of any
length, two modes per directory, open and sealed, any set of numbered transactions,
any kinds and any number of faults.  The set of mutation ids may be infinite: that a
ledger holds finitely many is part of the invariant.

**The WAL.**  `ReplayRebuildsWriter` is not inductive.  Replay checks two things of an
inverse that the writer does not: that what it reverses is a seal and not an inverse,
and that the source parent's evidence belongs to the source parent's seal only.  The
writer never breaks either, but for reasons that lie in earlier appends.  `Good`
states them, in three parts: what each admitted entry may be and which inverse of a
seal is live (`SealsSound`, `InversesSound`), that the running counts are the
cardinalities of the scans they replaced (`CountsSound`), and what the states a
transaction has been through leave behind in it (`PathSound`).  `IInv` says that the
writer's transactions and those of every surviving prefix are `Good`, that the file
is what the writer holds unless it is poisoned, and that a surviving prefix is in the
writer's state of each transaction or, when poisoned, in one the table allows next.
`SealWalProofs` has one lemma per operation of the ledger and one `Follows*` lemma per
kind of record: replay accepts the frame the writer's guard admits, rebuilds the same
transaction, and leaves it `Good`.  `SealWalLogProofs` lifts that to the file.

**The certified directory.**  `IInv` follows one mode change from its intent to its
record: which mutation the log on the disk announces at each point (`Intended`), what
the mode is then if nobody else changes it (`ModeAtWork`), what either log tells of
every mode that a loss of power may leave (`LogMode`), and what the evidence and the
lineage in hand still say (`Current`, `LineageHeld`).  There is one lemma per action.

**The store.**  `IInv` says which names lead to WALs (`Named`), who holds which lock and
whose descriptor is the live file's (`Locked`), what a lease knows of the live WAL at
each of its points (`Known`), and that both the directory in use and the synced one
lead to files whose every surviving prefix keeps what was acknowledged (`Durable`).
How compaction selects frames is never used: what was written is replayed before it
replaces the WAL, and that is enough.  The last frame of a transaction is found as the
greatest element of a bounded set of indices, by well-founded minimality.

**The staging engine.**  A crash may leave any of several WALs, and the engine's claims
are about all of them.  `Held` is the set of these with the one in memory; `Logs` says
that each is `Sound`: its transactions are `Good`, their trees are and will stay where
their states and outcomes say (`InPlace`), nothing is recorded before its time
(`Timely`), needed sidecars are there (`Backed`), and one transaction at most is in
flight (`AloneForward`).  `OpInv` is what the operation in progress knows at each of its
points: before a rename every WAL has its intent and no outcome (`Renaming`), before an
unlink every WAL has the claim, a mode change has its unresolved intent, and a recovery
has spent no more turns than its state accounts for (`Spent`).  `SealedStagingFrames`
shows that a frame which `Fits` its transaction keeps `Logs` whether it is synced,
written or torn; `SealedStagingJournal` that every action that
writes a frame writes one that fits; `SealedStagingProofs` treats the actions between
frames and draws the theorems.  Modes play no part in it.  `SidecarIsThere` says that
a needed sidecar is never absent, and is valid unless another program damaged it:
`DamageIsForeign` shows that no step of degu damages one.

**What stays with TLC, and why.**

- Liveness (run `liveness`): out of the prover's reach.
- `RecordsExplainModes`, the modes in `SettledStatesAreTrue`,
  `CrashesBlockOnlyTheUnknowable` and the refinement `ImplementsStagedTree`: each
  needs an account of which seal of which transaction explains the mode of every
  directory in every pair of a surviving WAL and surviving modes, a second invariant
  of the size of the first.
- `LogOpensAsWritten`, `AdmittedNeverFull`, `StreamIsExact` and the sorting part of
  `HandedIsThePlan`: they state what recursive definitions over sequences compute,
  which needs induction over data.
- Everything about activation, provisioning, lifecycle, registry, walks, tools and
  relocation: model-checked only.


## 5. What is not modelled

- *Admission's assessment* of a tree, the source parent's admission, attribute and
  access-list admission, and everything about macOS.
- *Encodings and wording*: JSON of the operation log, shell text of `relocate`,
  rendering of quotas, messages.  The bytes of the WAL are modelled.
- *HeldTree*: the assess walk.  Symbolic links are files.
- *ScratchSort*: reads are bounded to one record; publication is `TreeSidecar`'s.
- *KeyedPlan*: another program may give the file a second name before its own is unlinked,
  which the writer refuses; a frame is a unit; bytes after the last frame of a directory plan are
  ignored by the code and here.
- *ManifestStream*: contents and identity are one id; timestamps, attributes and
  codec tags are left out.  A path planned twice is judged differently by the
  resident and by the streamed undo check; no manifest of a tree holds one.
- *TreeSidecar*: one append to the WAL is one step, and so are the validation of a
  temporary file and its removal.
- *Provisioning*: lookup, validation and binding of a directory are one step;
  `.local/state` is one component; residue may name what is gone already.
- *RelocateInit*: nothing is synced, so nothing is said of a loss of power; a kill
  between `mkdir` and the tag leaves a root that later runs refuse, as intended; a
  concurrent run may accept a root that another takes back.
- *TrashRegistry*: modes are not followed through a loss of power; the search for a
  mount owner's anchor and the coverage report are left out.
- *UvPrune*: cleanup of the executable's private copy is best effort in the code and
  here: any of its four calls may fail unreported, a kill leaves the rest, and a file
  another program put beside the copy keeps the directory, never the copy.  A runner
  error before the spawn is reported as started, on purpose.
- *Walker*: byte totals, progress, the mount table and the guard's traversal.  The
  second descriptor a thread has of the directory it reads is left out.  A
  complete walk may be reported as cut short with nothing unvisited, which is the
  careful side.
- *QuotaObservation*: the action is taken to stop when `NativeRunner` says so, and to
  be the only thing that changes usage.
- Findings, disposition, plan, collection, configuration, reporting commands, TUI.

Hazards without a property are listed in `PROJECT.json` with a note.


## 6. What would come next

1. The modes of the staging engine: which records explain which mode, in every
   WAL and modes a loss of power may leave together; then the refinement of
   `StagedTree` step by step.
2. `Activation`: that two commands never use two stores, for any number of commands.
3. The source parent's admission and the assess walk, beside `HeldTree`.
