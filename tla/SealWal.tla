------------------------------- MODULE SealWal -------------------------------
(***************************************************************************)
(* The seal WAL of degu-core (seal/wal.rs and seal/wal/permission_ledger.rs)*)
(* as pure operators on one transaction: its projection in memory, the     *)
(* permission ledger with its running counters, the guards of the append   *)
(* side, and the step of replay_records for one frame.                      *)
(*                                                                         *)
(* Frames are those of the current writer (VERSION 13).  Evidence is the   *)
(* directory it names; a mode is a member of Modes.                        *)
(***************************************************************************)
EXTENDS Naturals, FiniteSets

CONSTANTS
  MutationIds,  \* transaction-local ids of permission mutations
  TreeDirs,     \* directories of the tree being staged
  Parent,       \* the directory the tree is staged out of
  Modes,        \* permission bits, as far as pre and expected modes differ
  EntryCount,   \* entry_count of the tree's manifest
  None          \* Option::None

Directories == TreeDirs \cup {Parent}

SealPhases == {"ParentSealIntent", "TreeSealIntent"}

InversePhases ==
  {"RestoreIntent", "SourceParentRestoreIntent", "RollbackIntent", "UndoIntent",
   "Quarantined"}

IntentPhases == SealPhases \cup InversePhases

TransactionStates ==
  IntentPhases \cup
  {"Prepared", "ParentSealed", "TreeSealed", "RenameIntent", "StagedUnverified",
   "StagedSealed", "SourceParentRestored", "VerifiedCommitted", "UndoModesRestored",
   "UndoRenameIntent", "UndoConflict", "Purgeable", "PurgeIntent", "PurgeOutcome",
   "Purged", "RolledBack", "Restored", "RecoveryRequired"}

ASSUME SealWalAssumption ==
  /\ None \notin MutationIds /\ None \notin TransactionStates /\ None # "Applied"
  /\ Parent \notin TreeDirs
  /\ EntryCount \in Nat \ {0}

(***************************************************************************)
(* The transition table.                                                   *)
(***************************************************************************)
BeforeRename ==
  {"Prepared", "ParentSealIntent", "ParentSealed", "TreeSealIntent", "TreeSealed",
   "RenameIntent"}

MayBeQuarantined ==
  {"StagedUnverified", "StagedSealed", "SourceParentRestoreIntent",
   "SourceParentRestored", "RollbackIntent"}

MayStopForRecovery ==
  BeforeRename \cup MayBeQuarantined \cup
  {"RestoreIntent", "Quarantined", "UndoIntent", "UndoModesRestored",
   "UndoRenameIntent", "VerifiedCommitted", "Purgeable", "PurgeIntent"}

valid_transition(from, to) ==
  \/ <<from, to>> \in
       {<<"Prepared", "ParentSealIntent">>, <<"ParentSealIntent", "ParentSealed">>,
        <<"ParentSealed", "TreeSealIntent">>, <<"TreeSealIntent", "TreeSealed">>,
        <<"TreeSealed", "RenameIntent">>, <<"RenameIntent", "StagedUnverified">>,
        <<"StagedUnverified", "StagedSealed">>,
        <<"StagedSealed", "SourceParentRestoreIntent">>,
        <<"SourceParentRestoreIntent", "SourceParentRestored">>,
        <<"SourceParentRestored", "VerifiedCommitted">>,
        <<"VerifiedCommitted", "UndoIntent">>, <<"VerifiedCommitted", "Purgeable">>,
        <<"Purgeable", "PurgeIntent">>, <<"PurgeIntent", "PurgeOutcome">>,
        <<"PurgeOutcome", "Purged">>, <<"UndoIntent", "UndoModesRestored">>,
        <<"UndoModesRestored", "UndoRenameIntent">>,
        <<"UndoRenameIntent", "Restored">>, <<"UndoRenameIntent", "UndoConflict">>,
        <<"StagedUnverified", "RollbackIntent">>, <<"StagedSealed", "RollbackIntent">>,
        <<"RollbackIntent", "RolledBack">>, <<"RestoreIntent", "Restored">>}
  \/ from \in BeforeRename /\ to = "RestoreIntent"
  \/ from \in MayBeQuarantined /\ to = "Quarantined"
  \/ from \in MayStopForRecovery /\ to = "RecoveryRequired"

(***************************************************************************)
(* The permission ledger.  An entry carries its frame's evidence and modes *)
(* as well: the code reads them back from the frame the entry points to.   *)
(***************************************************************************)
Unknown == "IntentDurableApplicationUnknown"

ApplicationStatus == {Unknown, "Applied", "ConfirmedNotApplied"}

PermissionEntries ==
  [phase : IntentPhases, reverses : MutationIds \cup {None},
   application : ApplicationStatus, dir : Directories, pre : Modes, expected : Modes]

ASSUME EntryAssumption == None \notin PermissionEntries

Coverages ==
  [applied_parent : Nat, applied_tree : Nat, reversed_parent : Nat,
   restored_parent : Nat, reversed_tree : Nat, undone_tree : Nat]

EmptyCoverage ==
  [applied_parent |-> 0, applied_tree |-> 0, reversed_parent |-> 0,
   restored_parent |-> 0, reversed_tree |-> 0, undone_tree |-> 0]

EmptyLedger ==
  [permissions |-> [m \in MutationIds |-> None], recorded |-> 0, resolved |-> 0,
   active_inverses |-> {},
   phases |-> [p \in IntentPhases |-> [recorded |-> 0, completed |-> 0]],
   coverage |-> EmptyCoverage]

Ledgers ==
  [permissions : [MutationIds -> PermissionEntries \cup {None}],
   recorded : Nat, resolved : Nat, active_inverses : SUBSET MutationIds,
   phases : [IntentPhases -> [recorded : Nat, completed : Nat]], coverage : Coverages]

Admitted(ledger) == {m \in MutationIds : ledger.permissions[m] # None}

has_unresolved(ledger) == ledger.resolved # ledger.recorded

is_complete(ledger, phase) ==
  ledger.phases[phase].completed = ledger.phases[phase].recorded

\* Mutant: the parent's count is forgotten.
mutant_every_applied_seal_is_reversed(ledger) ==
  ledger.coverage.reversed_tree = ledger.coverage.applied_tree

every_applied_seal_is_reversed(ledger) ==
  /\ ledger.coverage.reversed_parent = ledger.coverage.applied_parent
  /\ ledger.coverage.reversed_tree = ledger.coverage.applied_tree

\* Mutant: the comparison is the wrong way round.
mutant_every_applied_parent_seal_is_restored(ledger) ==
  ledger.coverage.restored_parent <= ledger.coverage.applied_parent

every_applied_parent_seal_is_restored(ledger) ==
  ledger.coverage.restored_parent = ledger.coverage.applied_parent

every_applied_tree_seal_is_undone(ledger) ==
  ledger.coverage.undone_tree = ledger.coverage.applied_tree

retains_active_seals(ledger) == ~every_applied_seal_is_reversed(ledger)

phase_accepts_resolution(phase, resolution) ==
  resolution = "Applied" \/ phase \in {"SourceParentRestoreIntent", "UndoIntent"}

\* Mutant: a seal, too, is entered among the inverses.
mutant_record_intent(ledger, m, phase, dir, pre, expected, reverses) ==
  [permissions |-> [ledger.permissions EXCEPT ![m] =
      [phase |-> phase, reverses |-> reverses, application |-> Unknown, dir |-> dir,
       pre |-> pre, expected |-> expected]],
   recorded |-> ledger.recorded + 1, resolved |-> ledger.resolved,
   active_inverses |-> ledger.active_inverses \cup {reverses},
   phases |-> [ledger.phases EXCEPT ![phase].recorded = @ + 1],
   coverage |-> ledger.coverage]

record_intent(ledger, m, phase, dir, pre, expected, reverses) ==
  [permissions |-> [ledger.permissions EXCEPT ![m] =
      [phase |-> phase, reverses |-> reverses, application |-> Unknown, dir |-> dir,
       pre |-> pre, expected |-> expected]],
   recorded |-> ledger.recorded + 1, resolved |-> ledger.resolved,
   active_inverses |-> ledger.active_inverses \cup ({reverses} \ {None}),
   phases |-> [ledger.phases EXCEPT ![phase].recorded = @ + 1],
   coverage |-> ledger.coverage]

One(condition) == IF condition THEN 1 ELSE 0

record_applied_seal(coverage, phase) ==
  [coverage EXCEPT !.applied_parent = @ + One(phase = "ParentSealIntent"),
                   !.applied_tree = @ + One(phase = "TreeSealIntent")]

\* Mutant: any inverse of the parent's seal counts as its restoration.
mutant_record_applied_inverse(coverage, sealed, inverse) ==
  [coverage EXCEPT
     !.reversed_parent = @ + One(sealed = "ParentSealIntent"),
     !.restored_parent = @ + One(sealed = "ParentSealIntent"),
     !.reversed_tree = @ + One(sealed = "TreeSealIntent"),
     !.undone_tree = @ + One(sealed = "TreeSealIntent" /\ inverse = "UndoIntent")]

record_applied_inverse(coverage, sealed, inverse) ==
  [coverage EXCEPT
     !.reversed_parent = @ + One(sealed = "ParentSealIntent"),
     !.restored_parent = @ + One(sealed = "ParentSealIntent"
                                 /\ inverse = "SourceParentRestoreIntent"),
     !.reversed_tree = @ + One(sealed = "TreeSealIntent"),
     !.undone_tree = @ + One(sealed = "TreeSealIntent" /\ inverse = "UndoIntent")]

CoverageAfter(ledger, entry, resolution) ==
  IF resolution # "Applied" THEN ledger.coverage
  ELSE LET sealed == record_applied_seal(ledger.coverage, entry.phase)
       IN  IF entry.reverses = None THEN sealed
           ELSE record_applied_inverse(sealed, ledger.permissions[entry.reverses].phase,
                                       entry.phase)

record_resolution(ledger, m, resolution) ==
  LET entry == ledger.permissions[m]
  IN  [permissions |-> [ledger.permissions EXCEPT ![m].application = resolution],
       recorded |-> ledger.recorded, resolved |-> ledger.resolved + 1,
       active_inverses |-> IF resolution = "ConfirmedNotApplied"
                           THEN ledger.active_inverses \ {entry.reverses}
                           ELSE ledger.active_inverses,
       phases |-> [ledger.phases EXCEPT ![entry.phase].completed =
                     @ + One(phase_accepts_resolution(entry.phase, resolution))],
       coverage |-> CoverageAfter(ledger, entry, resolution)]

(***************************************************************************)
(* One transaction, as SealWal's maps hold it for that id and as replay    *)
(* rebuilds it.  Every transaction is begun by StagingBegin: a bare one,   *)
(* begun by a State frame, is written by tests only and refused at open.   *)
(* manifest, sidecar: the frame that completes the tree has been written.  *)
(***************************************************************************)
Strategies == {"PermissionSeal", "AlreadyExclusive"}

Transactions ==
  [state : TransactionStates \cup {None}, strategy : Strategies,
   association : BOOLEAN, manifest : BOOLEAN, sidecar : BOOLEAN,
   rename : {None, "Applied", "NotApplied"}, undo : {None, "Applied", "Collision"},
   removed : Nat, ledger : Ledgers]

NotBegun ==
  [state |-> None, strategy |-> "PermissionSeal",
   association |-> FALSE, manifest |-> FALSE, sidecar |-> FALSE, rename |-> None,
   undo |-> None, removed |-> 0, ledger |-> EmptyLedger]

Begun(strategy, association) ==
  [NotBegun EXCEPT !.state = "Prepared", !.strategy = strategy,
                   !.association = association]

completed_phase(from, to) ==
  IF <<from, to>> \in {<<"ParentSealIntent", "ParentSealed">>,
                       <<"TreeSealIntent", "TreeSealed">>,
                       <<"SourceParentRestoreIntent", "SourceParentRestored">>,
                       <<"UndoIntent", "UndoModesRestored">>}
  THEN from ELSE None

phase_completion_is_recorded(ledger, from, to) ==
  completed_phase(from, to) # None => is_complete(ledger, from)

staging_parent_strategy_is_recorded(t) ==
  LET parent == t.ledger.phases["ParentSealIntent"]
  IN  \/ t.strategy = "PermissionSeal" /\ parent.recorded # 0
                                       /\ parent.completed = parent.recorded
      \/ t.strategy = "AlreadyExclusive" /\ parent.recorded = 0

TreeIsBound(t) == t.manifest /\ t.sidecar

RenameOutcomeMatches(t, next) ==
  \/ t.rename = "Applied" /\ next = "StagedUnverified"
  \/ t.rename = "NotApplied" /\ next = "RestoreIntent"
  \/ next = "RecoveryRequired"

UndoOutcomeMatches(t, next) ==
  \/ t.undo = "Applied" /\ next = "Restored"
  \/ t.undo = "Collision" /\ next = "UndoConflict"
  \/ next = "RecoveryRequired"

(***************************************************************************)
(* The append side: what each method demands before it writes its frame.   *)
(***************************************************************************)
transition_inner(t, next) ==
  /\ t.state # None
  /\ next \notin {"RenameIntent", "Purgeable"}
  /\ next # "RecoveryRequired" => ~has_unresolved(t.ledger)
  /\ phase_completion_is_recorded(t.ledger, t.state, next)
  /\ t.state = "ParentSealIntent" /\ next = "ParentSealed"
       => staging_parent_strategy_is_recorded(t)
  /\ next = "SourceParentRestored" => every_applied_parent_seal_is_restored(t.ledger)
  /\ next \in {"Restored", "RolledBack"} => every_applied_seal_is_reversed(t.ledger)
  /\ next = "UndoModesRestored" => every_applied_tree_seal_is_undone(t.ledger)
  /\ t.state = "UndoRenameIntent" => UndoOutcomeMatches(t, next)
  /\ t.state = "TreeSealIntent" /\ next = "TreeSealed" => TreeIsBound(t)
  /\ t.state = "RenameIntent" => RenameOutcomeMatches(t, next)
  /\ valid_transition(t.state, next)

FoundationTargets ==
  {"ParentSealIntent", "ParentSealed", "TreeSealIntent", "TreeSealed",
   "StagedUnverified", "RestoreIntent", "Restored", "Quarantined", "RecoveryRequired"}

\* The targets of the proof-consuming writers record_staged_sealed ... record_purged.
ProvenTargets ==
  {"StagedSealed", "SourceParentRestoreIntent", "SourceParentRestored",
   "VerifiedCommitted", "PurgeOutcome", "Purged", "UndoIntent", "UndoModesRestored",
   "UndoRenameIntent", "Restored", "UndoConflict"}

\* transition_staging_foundation or a proof-consuming writer takes t to next.
may_transition(t, next) ==
  /\ transition_inner(t, next)
  /\ next \in FoundationTargets \cup ProvenTargets
  /\ next = "PurgeOutcome" => t.manifest /\ t.removed = EntryCount

may_complete_tree(t) ==
  /\ t.state = "TreeSealIntent"
  /\ ~t.manifest /\ ~t.sidecar
  /\ ~has_unresolved(t.ledger) /\ is_complete(t.ledger, "TreeSealIntent")

may_intend_rename(t) ==
  t.state = "TreeSealed" /\ TreeIsBound(t)

may_record_rename_outcome(t) ==
  t.state = "RenameIntent" /\ t.rename = None

may_record_undo_outcome(t) ==
  t.state = "UndoRenameIntent" /\ t.undo = None

may_authorize_purge(t) ==
  t.state = "VerifiedCommitted" /\ t.association /\ t.manifest

may_claim_purge(t) ==
  t.state = "Purgeable" /\ t.manifest

may_record_removed(t, removed) ==
  t.state = "PurgeIntent" /\ t.manifest /\ t.removed = 0 /\ removed = EntryCount

InverseMatches(t, phase, dir, pre, expected, reverses) ==
  LET original == t.ledger.permissions[reverses]
  IN  /\ original # None
      /\ original.application = "Applied"
      /\ original.phase \in SealPhases
      /\ phase = "SourceParentRestoreIntent" => original.phase = "ParentSealIntent"
      /\ phase = "UndoIntent" => original.phase = "TreeSealIntent"
      /\ original.dir = dir
      /\ original.phase = "ParentSealIntent" => dir = Parent
      /\ pre = original.expected /\ expected = original.pre
      /\ reverses \notin t.ledger.active_inverses

may_intend_mutation(t, m, dir, pre, expected, reverses) ==
  /\ t.state \in IntentPhases
  /\ ~(t.state = "TreeSealIntent" /\ t.manifest)
  /\ t.state = "ParentSealIntent"
       => t.strategy = "PermissionSeal" /\ dir = Parent
  /\ IF t.state \in SealPhases THEN reverses = None
     ELSE reverses # None /\ InverseMatches(t, t.state, dir, pre, expected, reverses)
  /\ t.ledger.permissions[m] = None

may_resolve(t, m) ==
  /\ t.ledger.permissions[m] # None
  /\ t.ledger.permissions[m].application = Unknown
  /\ t.state = t.ledger.permissions[m].phase

\* The scans the ledger's running counts replaced (kept by the tests as oracle):
\* the applied seals of a phase, and those of them an applied inverse reverses.
AppliedSeals(ledger, phase) ==
  {m \in Admitted(ledger) : /\ ledger.permissions[m].phase = phase
                            /\ ledger.permissions[m].application = "Applied"}

ReversedSeals(ledger, phase, inverses) ==
  {m \in AppliedSeals(ledger, phase) :
     \E i \in Admitted(ledger) : /\ ledger.permissions[i].reverses = m
                                 /\ ledger.permissions[i].application = "Applied"
                                 /\ ledger.permissions[i].phase \in inverses}

(***************************************************************************)
(* What recovery does with a transaction.                                  *)
(***************************************************************************)
Unresolved(ledger) ==
  {m \in Admitted(ledger) : ledger.permissions[m].application = Unknown}

\* The applied seals no applied inverse reverses.
ActiveSeals(ledger) ==
  {m \in Admitted(ledger) :
     /\ ledger.permissions[m].application = "Applied"
     /\ ledger.permissions[m].reverses = None
     /\ ~\E i \in Admitted(ledger) : /\ ledger.permissions[i].reverses = m
                                    /\ ledger.permissions[i].application = "Applied"}

decide_from_records(t) ==
  IF Unresolved(t.ledger) # {} THEN "ResolveUncertainPermissions"
  ELSE CASE t.state \in {"UndoIntent", "UndoModesRestored"} -> "ResumeVerifiedUndo"
         [] t.state = "UndoRenameIntent" ->
              IF t.undo = None THEN "RecoveryRequired" ELSE "FinalizeVerifiedUndo"
         [] t.state = "Quarantined" ->
              IF ActiveSeals(t.ledger) = {} THEN "PreserveQuarantine"
              ELSE "RestoreQuarantinedSeals"
         [] t.state = "RenameIntent" /\ t.rename = None -> "RecoveryRequired"
         [] t.state = "RenameIntent" /\ t.rename = "Applied" ->
              "VerifyOrQuarantineAfterRename"
         [] t.state \in {"StagedUnverified", "RollbackIntent"} ->
              "VerifyOrQuarantineAfterRename"
         [] t.state \in {"StagedSealed", "SourceParentRestoreIntent"} ->
              "RestoreSourceParentAfterRename"
         [] t.state = "SourceParentRestored" -> "FinalizeVerifiedCommit"
         [] OTHER -> "RestoreBeforeRename"

decide_recovery(t) ==
  CASE t.state \in {None, "Restored", "RolledBack"} -> "Nothing"
    [] t.state \in {"VerifiedCommitted", "Purgeable", "Purged"} -> "PreserveCommittedSeal"
    [] t.state = "UndoConflict" -> "PreserveUndoConflict"
    [] t.state = "PurgeOutcome" -> "FinalizePurge"
    [] t.state \in {"PurgeIntent", "RecoveryRequired"} -> "RecoveryRequired"
    [] OTHER -> decide_from_records(t)

\* Mutant: a purge whose outcome is recorded is taken for finished.
mutant_recovery_work_requires_candidate(t) ==
  decide_recovery(t) \notin {"Nothing", "PreserveCommittedSeal", "PreserveUndoConflict",
                             "PreserveQuarantine", "FinalizePurge"}

recovery_work_requires_candidate(t) ==
  decide_recovery(t) \notin {"Nothing", "PreserveCommittedSeal", "PreserveUndoConflict",
                             "PreserveQuarantine"}

\* safe_terminal_state, and the per-transaction test of can_begin_staging_transaction.
safe_terminal_state(t) ==
  \/ t.state \in {"VerifiedCommitted", "Purgeable", "Purged", "Restored", "UndoConflict",
                   "RolledBack"}
  \/ t.state = "Quarantined" /\ ~retains_active_seals(t.ledger)

can_begin_staging_transaction(wal, poisoned) ==
  ~poisoned /\ \A x \in DOMAIN wal : wal[x].state = None \/ safe_terminal_state(wal[x])

tree_sidecar_required_for_state(state) ==
  state \notin {"Purged", "PurgeOutcome", "Restored", "UndoConflict", "RolledBack"}

(***************************************************************************)
(* The replay side: replay_records for one frame.  A frame names its kind  *)
(* and what the kind carries.                                              *)
(***************************************************************************)
Frame(kind, value) == [kind |-> kind, value |-> value]

IntentFrame(m, dir, pre, expected, reverses) ==
  Frame("PermissionIntent", [m |-> m, dir |-> dir, pre |-> pre, expected |-> expected,
                             reverses |-> reverses])

replays_state(t, next) ==
  /\ t.state # None
  /\ next \notin {"RenameIntent", "Purgeable", "PurgeIntent"}
  /\ next = "PurgeOutcome" => t.manifest /\ t.removed = EntryCount
  /\ next # "RecoveryRequired" => ~has_unresolved(t.ledger)
  /\ phase_completion_is_recorded(t.ledger, t.state, next)
  /\ t.state = "ParentSealIntent" /\ next = "ParentSealed"
       => staging_parent_strategy_is_recorded(t)
  /\ next = "SourceParentRestored" => every_applied_parent_seal_is_restored(t.ledger)
  /\ next \in {"Restored", "RolledBack"} => every_applied_seal_is_reversed(t.ledger)
  /\ t.state = "TreeSealIntent" /\ next = "TreeSealed" => TreeIsBound(t)
  /\ t.state = "RenameIntent" => RenameOutcomeMatches(t, next)
  /\ t.state = "UndoRenameIntent" => UndoOutcomeMatches(t, next)
  /\ next = "UndoModesRestored" => every_applied_tree_seal_is_undone(t.ledger)
  /\ valid_transition(t.state, next)

\* Mutant: the inverses of the source parent's seal are forgotten.
mutant_EmptyPathIsSourceParent(t, i) ==
  i.dir = Parent => t.state = "ParentSealIntent"

\* The source parent's evidence path may be empty, which only its own seal and
\* the inverses of that seal may carry.
EmptyPathIsSourceParent(t, i) ==
  i.dir = Parent =>
    IF i.reverses = None THEN t.state = "ParentSealIntent"
    ELSE /\ t.ledger.permissions[i.reverses] # None
         /\ t.ledger.permissions[i.reverses].phase = "ParentSealIntent"

validate_replayed_inverse(t, i) ==
  LET original == t.ledger.permissions[i.reverses]
  IN  /\ original # None
      /\ original.application = "Applied"
      /\ original.reverses = None
      /\ t.state = "SourceParentRestoreIntent" => original.phase = "ParentSealIntent"
      /\ t.state = "UndoIntent" => original.phase = "TreeSealIntent"
      /\ original.dir = i.dir
      /\ original.phase = "ParentSealIntent" => i.dir = Parent
      /\ i.pre = original.expected /\ i.expected = original.pre
      /\ i.reverses \notin t.ledger.active_inverses

replays_intent(t, i) ==
  /\ t.state \in IntentPhases
  /\ ~(t.state = "TreeSealIntent" /\ t.manifest)
  /\ t.state = "ParentSealIntent" => t.strategy = "PermissionSeal" /\ i.dir = Parent
  /\ EmptyPathIsSourceParent(t, i)
  /\ t.ledger.permissions[i.m] = None
  /\ IF t.state \in SealPhases THEN i.reverses = None
     ELSE i.reverses # None /\ validate_replayed_inverse(t, i)

resolve_replayed_permission(t, m) ==
  /\ t.ledger.permissions[m] # None
  /\ t.state = t.ledger.permissions[m].phase
  /\ t.ledger.permissions[m].application = Unknown

ReplayAccepts(t, f) ==
  \/ f.kind = "StagingBegin" /\ t.state = None
  \/ f.kind = "TreeManifestSidecarComplete"
     /\ t.state = "TreeSealIntent" /\ ~t.manifest /\ ~t.sidecar
     /\ ~has_unresolved(t.ledger) /\ is_complete(t.ledger, "TreeSealIntent")
  \/ f.kind = "RenameIntent" /\ t.state = "TreeSealed" /\ TreeIsBound(t)
  \/ f.kind = "RenameOutcome" /\ t.state = "RenameIntent" /\ t.rename = None
  \/ f.kind = "UndoRenameOutcome" /\ t.state = "UndoRenameIntent" /\ t.undo = None
  \/ f.kind = "PurgeAuthorized"
     /\ t.state = "VerifiedCommitted" /\ t.manifest /\ t.association
  \/ f.kind = "PurgeClaimed" /\ t.manifest /\ t.state = "Purgeable"
  \/ f.kind = "PurgeProgress"
     /\ t.manifest /\ t.removed = 0 /\ f.value = EntryCount /\ t.state = "PurgeIntent"
  \/ f.kind = "State" /\ replays_state(t, f.value)
  \/ f.kind = "PermissionIntent" /\ replays_intent(t, f.value)
  \/ f.kind \in {"PermissionApplied", "PermissionNotApplied"}
     /\ resolve_replayed_permission(t, f.value)

ReplayedAs(t, f) ==
  CASE f.kind = "StagingBegin" ->
         [t EXCEPT !.state = "Prepared", !.strategy = f.value.strategy,
                   !.association = f.value.association]
    [] f.kind = "TreeManifestSidecarComplete" ->
         [t EXCEPT !.manifest = TRUE, !.sidecar = TRUE]
    [] f.kind = "RenameIntent" -> [t EXCEPT !.state = "RenameIntent"]
    [] f.kind = "RenameOutcome" -> [t EXCEPT !.rename = f.value]
    [] f.kind = "UndoRenameOutcome" -> [t EXCEPT !.undo = f.value]
    [] f.kind = "PurgeAuthorized" -> [t EXCEPT !.state = "Purgeable"]
    [] f.kind = "PurgeClaimed" -> [t EXCEPT !.state = "PurgeIntent"]
    [] f.kind = "PurgeProgress" -> [t EXCEPT !.removed = f.value]
    [] f.kind = "State" -> [t EXCEPT !.state = f.value]
    [] f.kind = "PermissionIntent" ->
         [t EXCEPT !.ledger = record_intent(@, f.value.m, t.state, f.value.dir,
                                f.value.pre, f.value.expected, f.value.reverses)]
    [] f.kind = "PermissionApplied" ->
         [t EXCEPT !.ledger = record_resolution(@, f.value, "Applied")]
    [] f.kind = "PermissionNotApplied" ->
         [t EXCEPT !.ledger = record_resolution(@, f.value, "ConfirmedNotApplied")]
=============================================================================
