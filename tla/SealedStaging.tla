---------------------------- MODULE SealedStaging ----------------------------
(***************************************************************************)
(* The staging engine of degu-core over one leased WAL and the file system *)
(* (staging.rs, staging/rename.rs, staging/recovery.rs, seal/executor.rs): *)
(* staging a tree to the trash, undoing it, purging it, and the recovery   *)
(* of whatever a failure or a crash interrupted.                           *)
(*                                                                         *)
(* One engine works at a time (the WAL lease), one operation at a time.    *)
(* A step of the model ends where a crash leaves something different       *)
(* behind: at a frame, an fchmod, a rename, an fsync or an unlink.         *)
(***************************************************************************)
EXTENDS SealWal, Sequences

CONSTANTS
  Tx,         \* transaction ids, in the order startup recovery takes them
  MayBeOpen,  \* directories whose original mode may let others rename in them
  Faults,     \* the kinds of failure that happen
  MaxFaults   \* the model's bound on how many of them do

FaultKinds ==
  {"kill", "power", "append", "refuse", "unknown", "error", "rename", "drift",
   "full", "occupy", "corrupt"}

\* The tree is a chain of directories below its root, 1; deeper is larger.  The
\* source parent is 0, above them all.
StagingAssumption ==
  /\ IsFiniteSet(TreeDirs) /\ TreeDirs = 1..Cardinality(TreeDirs) /\ TreeDirs # {}
  /\ Parent = 0
  /\ Modes = {"open", "sealed"}
  /\ MayBeOpen \subseteq Directories
  /\ Tx \subseteq Nat
  /\ Faults \subseteq FaultKinds
  /\ MaxFaults \in Nat
  /\ None \notin {"NotApplied", "Collision"}

VARIABLES
  wal,        \* the engine's SealWal: a projection per transaction
  poisoned,   \* SealWal::poisoned
  kept,       \* WAL and modes at the moments since the last sync, oldest first
  original,   \* the modes before degu touched anything
  modes,      \* the modes now
  loc,        \* where each tree is
  stable,     \* where each tree is once the parents' last fsync is all that is left
  sidecar,    \* the final sidecar of each transaction
  foreign,    \* names others have taken, as <<transaction, side>>
  blocked,    \* StagingEngine::startup_blocked
  issued,     \* issued_purge_authorities
  authority,  \* the PurgeAuthority values callers still hold
  op,         \* the operation in progress and where it is
  faults      \* how many faults happened

walVars == <<wal, poisoned, kept>>
fsVars == <<modes, loc, stable>>
vars == <<wal, poisoned, kept, original, modes, loc, stable, sidecar, foreign, blocked,
          issued, authority, op, faults>>

-----------------------------------------------------------------------------
(* The file system *)

ModeOf(m, t, d) == IF d = Parent THEN m.parent ELSE m.tree[t][d]

SetMode(m, t, d, mode) ==
  IF d = Parent THEN [m EXCEPT !.parent = mode] ELSE [m EXCEPT !.tree[t][d] = mode]

\* crate_minimal_sealed_mode: take the write bits others could rename with.
sealed_mode(mode) == "sealed"

verify_namespace_exclusive(t, d) == ModeOf(modes, t, d) # "open"

\* require_exclusive_controller for every directory above d on its side of the
\* rename.  What is above the two parents is exclusive, the trash parent too.
Controllers(d, side) ==
  {e \in Directories : e < d /\ (e = Parent => side = "source")}

open_confined_parent(t, d, side) ==
  /\ d # Parent => loc[t] = side
  /\ \A e \in Controllers(d, side) : verify_namespace_exclusive(t, e)

build_permission_plan(t, entry, side) ==
  /\ open_confined_parent(t, entry.dir, side)
  /\ ModeOf(modes, t, entry.dir) = entry.expected

-----------------------------------------------------------------------------
(* Operations *)

\* plan: the seals still to be reversed; steps: the turns taken by the loop of
\* recover_transaction_to_terminal.
Idle ==
  [name |-> "idle", tx |-> None, at |-> "idle", change |-> "none", plan |-> {}, steps |-> 0]

Down == [Idle EXCEPT !.name = "down"]

Working(name, t, at) == [Idle EXCEPT !.name = name, !.tx = t, !.at = at]

At(name, t, at) == op.name = name /\ op.tx = t /\ op.at = at /\ op.change = "none"

\* Mutant: the longest recovery does not fit.
mutant_MAX_RECOVERY_STEPS == 3

MAX_RECOVERY_STEPS == 4

Recovers(t, at) ==
  /\ At("startup", t, at) \/ At("forward", t, at)
  /\ at = "decide" => op.steps < MAX_RECOVERY_STEPS

Undoes(t, at) == At("startup", t, at) \/ At("undo", t, at)

Continue(at) == op' = [op EXCEPT !.at = at] /\ UNCHANGED blocked

\* An operation stops here and recomputes the block.
Finish(next) ==
  /\ op' = next
  /\ blocked' = ~can_begin_staging_transaction(wal', poisoned')

\* A turn of the recovery loop ends: a settled transaction returns from it.
Turn ==
  Finish([op EXCEPT !.at = "decide",
                    !.steps = IF safe_terminal_state(wal'[op.tx]) THEN @ ELSE @ + 1])

\* The operation returns an error: a stage tries to recover its transaction, a
\* startup gives the engine up.
Fails ==
  CASE op.name = "stage" ->
         /\ op' = IF wal'[op.tx].state = None THEN Idle
                  ELSE Working("forward", op.tx, "decide")
         /\ UNCHANGED blocked
    [] op.name = "forward" -> op' = Idle /\ UNCHANGED blocked
    [] op.name = "startup" -> op' = Down /\ UNCHANGED blocked
    [] op.name \in {"undo", "purge"} -> Finish(Idle)

Fault(kind) ==
  kind \in Faults /\ faults < MaxFaults /\ faults' = faults + 1

File == kept[Len(kept)]

Unsynced == kept[1].wal # File.wal

\* An error inside with_deferred_applied leaves only after its settle.
Error(kind) ==
  /\ Fault(kind)
  /\ kept' = IF Unsynced /\ ~poisoned THEN <<File>> ELSE kept
  /\ UNCHANGED <<wal, poisoned>>
  /\ Fails

Err == UNCHANGED <<walVars, faults>> /\ Fails

\* append_at.  A sync carries everything before it; without one the frame may be
\* lost.
append_at(t, after, sync, Done) ==
  LET written == [wal |-> [wal EXCEPT ![t] = after], modes |-> modes]
  IN  \/ /\ ~poisoned
         /\ wal' = written.wal
         /\ kept' = IF sync THEN <<written>> ELSE Append(kept, written)
         /\ UNCHANGED <<poisoned, faults>>
         /\ Done
      \/ /\ ~poisoned
         /\ Fault("append")
         /\ poisoned' = TRUE
         /\ kept' \in {kept, Append(kept, written)}
         /\ UNCHANGED wal
         /\ Fails
      \/ poisoned /\ Err

transition(t, next, Done) ==
  IF may_transition(wal[t], next)
  THEN append_at(t, [wal[t] EXCEPT !.state = next], TRUE, Done)
  ELSE Err

fail_closed(t) ==
  IF wal[t].state = "RecoveryRequired" THEN Err
  ELSE transition(t, "RecoveryRequired", Fails)

\* The end of with_deferred_applied.
settle ==
  /\ Unsynced /\ ~poisoned
  /\ \/ /\ kept' = <<File>>
        /\ UNCHANGED <<wal, poisoned, op, blocked, faults>>
     \/ /\ Fault("append")
        /\ poisoned' = TRUE
        /\ UNCHANGED <<wal, kept>>
        /\ Fails

-----------------------------------------------------------------------------
(* execute_local_mode_mutation_inner: one fchmod between its two frames *)

\* Mutant: the intent is left to a later sync.
mutant_intend(t, d, reverses) ==
  LET m == wal[t].ledger.recorded
      pre == ModeOf(modes, t, d)
      expected == IF reverses = None THEN sealed_mode(pre)
                  ELSE wal[t].ledger.permissions[reverses].pre
  IN  /\ m \in MutationIds
      /\ append_at(t, [wal[t] EXCEPT !.ledger =
                         record_intent(@, m, wal[t].state, d, pre, expected, reverses)],
                   FALSE, op' = [op EXCEPT !.change = "intended"] /\ UNCHANGED blocked)

\* The bound: MutationIds is large enough that no behaviour runs out of them.
intend(t, d, reverses) ==
  LET ledger == wal[t].ledger
      m == ledger.recorded
      pre == ModeOf(modes, t, d)
      expected == IF reverses = None THEN sealed_mode(pre)
                  ELSE ledger.permissions[reverses].pre
  IN  /\ m \in MutationIds
      /\ IF may_intend_mutation(wal[t], m, d, pre, expected, reverses)
         THEN append_at(t, [wal[t] EXCEPT !.ledger =
                              record_intent(@, m, wal[t].state, d, pre, expected, reverses)],
                        TRUE, op' = [op EXCEPT !.change = "intended"] /\ UNCHANGED blocked)
         ELSE Err

InFlight(t) == wal[t].ledger.permissions[wal[t].ledger.recorded - 1]

Apply(t) ==
  /\ modes' = SetMode(modes, t, InFlight(t).dir, InFlight(t).expected)
  /\ kept' = IF modes' = modes THEN kept ELSE Append(kept, [File EXCEPT !.modes = modes'])

apply_wal_bound_mode_change(t) ==
  /\ op.tx = t /\ op.change = "intended"
  /\ \/ /\ Apply(t)
        /\ op' = [op EXCEPT !.change = "applied"]
        /\ UNCHANGED faults
     \/ /\ Fault("refuse")
        /\ op' = [op EXCEPT !.change = "refused"]
        /\ UNCHANGED <<modes, kept>>
     \/ /\ Fault("unknown")
        /\ Apply(t) \/ UNCHANGED <<modes, kept>>
        /\ op' = [op EXCEPT !.change = "unknown"]
  /\ UNCHANGED <<wal, poisoned, original, loc, stable, sidecar, foreign, blocked, issued,
                 authority>>

MutationDone(t) ==
  /\ op' = [op EXCEPT !.change = "none", !.plan = @ \ {InFlight(t).reverses}]
  /\ UNCHANGED blocked

\* Descendants' seals and all inverses leave their applied frame to a later sync.
record_outcome(t) ==
  LET m == wal[t].ledger.recorded - 1
      After(resolution) ==
        [wal[t] EXCEPT !.ledger = record_resolution(@, m, resolution)]
  IN  /\ op.tx = t
      /\ \/ /\ op.change = "applied"
            /\ append_at(t, After("Applied"), op.name = "stage" /\ InFlight(t).dir \in {Parent, 1},
                         MutationDone(t))
         \/ /\ op.change = "refused"
            /\ append_at(t, After("ConfirmedNotApplied"), TRUE,
                         IF op.name = "stage" THEN Fails ELSE MutationDone(t))
         \/ /\ op.change = "unknown"
            /\ transition(t, "RecoveryRequired", Fails)

-----------------------------------------------------------------------------
(* stage_to_verified_commit and execute_prepared_rename *)

\* Mutant: a blocked engine stages all the same.
mutant_stage_to_verified_commit(t) ==
  /\ op = Idle
  /\ wal[t].state = None
  /\ loc[t] = "source" /\ <<t, "staged">> \notin foreign
  /\ op' = Working("stage", t, "begin")
  /\ UNCHANGED <<walVars, original, fsVars, sidecar, foreign, blocked, issued, authority,
                 faults>>

stage_to_verified_commit(t) ==
  /\ op = Idle
  /\ ~blocked /\ can_begin_staging_transaction(wal, poisoned)
  /\ wal[t].state = None
  /\ loc[t] = "source" /\ <<t, "staged">> \notin foreign
  /\ op' = Working("stage", t, "begin")
  /\ UNCHANGED <<walVars, original, fsVars, sidecar, foreign, blocked, issued, authority,
                 faults>>

begin_staging(t) ==
  /\ At("stage", t, "begin")
  /\ append_at(t, Begun("PermissionSeal", TRUE), TRUE,
               op' = [op EXCEPT !.at = "ready"] /\ blocked' = TRUE)

Unsealed(t) ==
  {d \in TreeDirs : ~\E m \in Admitted(wal[t].ledger) : wal[t].ledger.permissions[m].dir = d}

Deepest(dirs) == CHOOSE d \in dirs : \A e \in dirs : e <= d

seal_source_parent(t) ==
  /\ At("stage", t, "ready")
  /\ \/ wal[t].state = "Prepared" /\ transition(t, "ParentSealIntent", Continue("ready"))
     \/ /\ wal[t].state = "ParentSealIntent"
        /\ IF Admitted(wal[t].ledger) = {} THEN intend(t, Parent, None)
           ELSE IF verify_namespace_exclusive(t, Parent)
                THEN transition(t, "ParentSealed", Continue("ready"))
                ELSE Err

seal_tree(t) ==
  /\ At("stage", t, "ready")
  /\ \/ /\ wal[t].state = "ParentSealed"
        /\ transition(t, "TreeSealIntent", Continue("ready"))
     \/ /\ wal[t].state = "TreeSealIntent" /\ Unsealed(t) # {}
        /\ intend(t, Deepest(Unsealed(t)), None)
     \/ /\ wal[t].state = "TreeSealIntent" /\ Unsealed(t) = {} /\ settle

\* The sidecar is published, synced, before the frame that refers to it.
publish_sidecar(t) ==
  /\ At("stage", t, "ready")
  /\ wal[t].state = "TreeSealIntent" /\ Unsealed(t) = {} /\ ~Unsynced
  /\ sidecar[t] = "absent"
  /\ sidecar' = [sidecar EXCEPT ![t] = "valid"]
  /\ UNCHANGED <<walVars, original, fsVars, foreign, blocked, issued, authority, op, faults>>

\* Mutant: the frame does not wait for the sidecar.
mutant_complete_tree(t) ==
  /\ At("stage", t, "ready")
  /\ wal[t].state = "TreeSealIntent" /\ Unsealed(t) = {}
  /\ IF wal[t].manifest THEN transition(t, "TreeSealed", Continue("ready"))
     ELSE append_at(t, [wal[t] EXCEPT !.manifest = TRUE, !.sidecar = TRUE], TRUE,
                    Continue("ready"))

complete_tree(t) ==
  /\ At("stage", t, "ready")
  /\ wal[t].state = "TreeSealIntent" /\ sidecar[t] # "absent"
  /\ IF wal[t].manifest THEN transition(t, "TreeSealed", Continue("ready"))
     ELSE append_at(t, [wal[t] EXCEPT !.manifest = TRUE, !.sidecar = TRUE], TRUE,
                    Continue("ready"))

\* Mutant: the rename does not wait for its intent to be synced.
mutant_record_rename_intent(t) ==
  /\ At("stage", t, "ready")
  /\ wal[t].state = "TreeSealed"
  /\ append_at(t, [wal[t] EXCEPT !.state = "RenameIntent"], FALSE, Continue("rename"))

record_rename_intent(t) ==
  /\ At("stage", t, "ready")
  /\ wal[t].state = "TreeSealed"
  /\ IF /\ verify_namespace_exclusive(t, Parent)
        /\ <<t, "staged">> \notin foreign
     THEN append_at(t, [wal[t] EXCEPT !.state = "RenameIntent"], TRUE, Continue("rename"))
     ELSE Err

\* Whatever else can fail before the rename: collection, admission, publication.
stage_error(t) == At("stage", t, "ready") /\ Error("error")

Move(t, side) == loc' = [loc EXCEPT ![t] = side]

\* RENAME_NOREPLACE out of the source parent, the fsyncs of both parents, and
\* what is recorded of it.  An error other than EEXIST records nothing.
rename_noreplace(t) ==
  /\ At("stage", t, "rename")
  /\ \/ /\ <<t, "staged">> \in foreign
        /\ Continue("collided")
        /\ UNCHANGED <<loc, faults>>
     \/ /\ <<t, "staged">> \notin foreign
        /\ Move(t, "staged")
        /\ Continue("renamed")
        /\ UNCHANGED faults
     \/ /\ Fault("rename")
        /\ Move(t, "staged") \/ UNCHANGED loc
        /\ op' = Working("forward", t, "decide")
        /\ UNCHANGED blocked
  /\ UNCHANGED <<walVars, original, modes, stable, sidecar, foreign, issued, authority>>

\* Mutant: no parent is synced.
mutant_sync_parents(t) ==
  /\ op.tx = t /\ op.at = "renamed"
  /\ Continue("synced")
  /\ UNCHANGED <<walVars, original, fsVars, sidecar, foreign, issued, authority, faults>>

sync_parents(t) ==
  /\ op.tx = t /\ op.at = "renamed"
  /\ stable' = [stable EXCEPT ![t] = loc[t]]
  /\ Continue("synced")
  /\ UNCHANGED <<walVars, original, modes, loc, sidecar, foreign, issued, authority, faults>>

\* A check or an fsync after the rename fails before its outcome is recorded.
renamed_error(t) ==
  /\ op.tx = t /\ op.at \in {"renamed", "synced", "collided"}
  /\ wal[t].undo = None
  /\ Error("error")

record_rename_outcome(t) ==
  \/ /\ At("stage", t, "synced")
     /\ append_at(t, [wal[t] EXCEPT !.rename = "Applied"], TRUE, Continue("moved"))
  \/ /\ At("stage", t, "collided")
     /\ append_at(t, [wal[t] EXCEPT !.rename = "NotApplied"], TRUE, Fails)
  \/ /\ At("stage", t, "moved")
     /\ transition(t, "StagedUnverified",
                   op' = Working("forward", t, "decide") /\ UNCHANGED blocked)

-----------------------------------------------------------------------------
(* recover_transaction_to_terminal and prepare_startup_recovery *)

Work(t) == decide_recovery(wal[t])

TreeSeals(t) ==
  {m \in ActiveSeals(wal[t].ledger) : wal[t].ledger.permissions[m].phase = "TreeSealIntent"}

RestorePlan(t) ==
  IF Work(t) = "RestoreSourceParentAfterRename"
  THEN ActiveSeals(wal[t].ledger) \ TreeSeals(t)
  ELSE ActiveSeals(wal[t].ledger)

RestoreSide(t) == IF Work(t) = "RestoreBeforeRename" THEN "source" ELSE "staged"

\* rebind_work: the root on its side of the rename, then every planned permission.
rebind_root(t, side) ==
  loc[t] = side /\ (side = "source" => verify_namespace_exclusive(t, Parent))

rebind_permissions(t, plan, side) ==
  \A m \in plan : build_permission_plan(t, wal[t].ledger.permissions[m], side)

rebind_restore(t) ==
  \/ RestorePlan(t) = {} /\ wal[t].state \in {"Prepared", "ParentSealIntent"}
  \/ /\ rebind_root(t, RestoreSide(t))
     /\ rebind_permissions(t, RestorePlan(t), RestoreSide(t))

rebind_committed(t) ==
  rebind_root(t, "staged") /\ rebind_permissions(t, TreeSeals(t), "staged")

recover_terminal(t) ==
  LET later == {u \in Tx : u > t /\ recovery_work_requires_candidate(wal[u])}
      next == CHOOSE u \in later : \A v \in later : u <= v
  IN  /\ Recovers(t, "decide")
      /\ safe_terminal_state(wal[t])
      /\ UNCHANGED <<walVars, faults>>
      /\ \/ op.name = "forward" /\ op' = Idle /\ UNCHANGED blocked
         \/ /\ op.name = "startup" /\ later # {}
            /\ op' = Working("startup", next, "decide") /\ UNCHANGED blocked
         \/ /\ op.name = "startup" /\ later = {}
            /\ Finish(IF can_begin_staging_transaction(wal, poisoned) THEN Idle ELSE Down)

recover_forbidden(t) ==
  Recovers(t, "decide") /\ Work(t) = "RecoveryRequired" /\ fail_closed(t)

Finalized(t) ==
  CASE Work(t) = "FinalizePurge" -> "Purged"
    [] Work(t) = "FinalizeVerifiedCommit" -> "VerifiedCommitted"
    [] Work(t) = "FinalizeVerifiedUndo" ->
         IF wal[t].undo = "Applied" THEN "Restored" ELSE "UndoConflict"

recover_finalize(t) ==
  /\ Recovers(t, "decide")
  /\ Work(t) \in {"FinalizePurge", "FinalizeVerifiedCommit", "FinalizeVerifiedUndo"}
  /\ transition(t, Finalized(t), Finish([op EXCEPT !.steps = @ + 1]))

\* Mutant: an uncertain undo is looked for at the source.
mutant_uncertain_permission_side(entry) ==
  IF entry.phase = "Quarantined" THEN "staged" ELSE "source"

uncertain_permission_side(entry) ==
  IF entry.phase \in {"Quarantined", "UndoIntent"} THEN "staged" ELSE "source"

resolve_uncertain_permissions(t) ==
  \E m \in Unresolved(wal[t].ledger) :
    LET entry == wal[t].ledger.permissions[m]
        mode == ModeOf(modes, t, entry.dir)
        Resolve(resolution) ==
          append_at(t, [wal[t] EXCEPT !.ledger = record_resolution(@, m, resolution)], TRUE,
                    Continue("decide"))
    IN  /\ Recovers(t, "decide")
        /\ Work(t) = "ResolveUncertainPermissions"
        /\ IF ~open_confined_parent(t, entry.dir, uncertain_permission_side(entry))
           THEN fail_closed(t)
           ELSE IF mode = entry.expected THEN Resolve("Applied")
           ELSE IF mode = entry.pre THEN Resolve("ConfirmedNotApplied")
           ELSE fail_closed(t)

\* Rebinding finds something else at a recorded path.
recovery_drift(t) ==
  /\ Recovers(t, "decide")
  /\ Work(t) \in {"ResolveUncertainPermissions", "RestoreBeforeRename",
                  "RestoreSourceParentAfterRename", "RestoreQuarantinedSeals",
                  "VerifyOrQuarantineAfterRename", "ResumeVerifiedUndo"}
  /\ Fault("drift")
  /\ \E at \in {"drifted", "mismatch"} :
       /\ at = "mismatch" => wal[t].state = "StagedUnverified"
       /\ Continue(at)
  /\ UNCHANGED walVars

recover_drifted(t) == Recovers(t, "drifted") /\ fail_closed(t)

verify_or_quarantine(t) ==
  \/ /\ Recovers(t, "decide")
     /\ Work(t) = "VerifyOrQuarantineAfterRename"
     /\ IF ~rebind_committed(t) THEN fail_closed(t)
        ELSE IF wal[t].state = "RenameIntent"
             THEN transition(t, "StagedUnverified", Continue("decide"))
        ELSE transition(t, IF sidecar[t] = "valid" THEN "StagedSealed" ELSE "Quarantined", Turn)
  \/ /\ Recovers(t, "mismatch")
     /\ transition(t, "Quarantined", Turn)

-----------------------------------------------------------------------------
(* RecoveryRestoreSession::execute *)

RestoreIntentOf(t) ==
  CASE Work(t) = "RestoreBeforeRename" -> "RestoreIntent"
    [] Work(t) = "RestoreSourceParentAfterRename" -> "SourceParentRestoreIntent"
    [] Work(t) = "RestoreQuarantinedSeals" -> "Quarantined"

restore_begin(t) ==
  LET Begin == /\ op' = [op EXCEPT !.at = "restoring", !.plan = RestorePlan(t)]
               /\ UNCHANGED blocked
  IN  /\ Recovers(t, "decide")
      /\ Work(t) \in {"RestoreBeforeRename", "RestoreSourceParentAfterRename",
                      "RestoreQuarantinedSeals"}
      /\ IF ~rebind_restore(t) THEN fail_closed(t)
         ELSE IF wal[t].state = RestoreIntentOf(t) THEN Begin /\ UNCHANGED <<walVars, faults>>
         ELSE transition(t, RestoreIntentOf(t), Begin)

\* A retry after a refused inverse, once the WAL has no room set aside for it.
require_room_to_retry(t) ==
  /\ "full" \in Faults
  /\ op.tx = t /\ op.at \in {"restoring", "undoing"} /\ op.change = "none"
  /\ op.plan = IF op.at = "undoing" THEN TreeSeals(t) ELSE RestorePlan(t)
  /\ \E m \in Admitted(wal[t].ledger) :
       /\ wal[t].ledger.permissions[m].reverses # None
       /\ wal[t].ledger.permissions[m].application = "ConfirmedNotApplied"
  /\ fail_closed(t)

\* Deepest first, the source parent last; each directory is reopened for its own
\* inverse.
restore_next(t) ==
  LET dirs == {wal[t].ledger.permissions[m].dir : m \in op.plan}
      m == CHOOSE m \in op.plan : wal[t].ledger.permissions[m].dir = Deepest(dirs)
      side == IF op.at = "undoing" \/ wal[t].state = "Quarantined" THEN "staged" ELSE "source"
  IN  /\ op.tx = t /\ op.at \in {"restoring", "undoing"} /\ op.change = "none"
      /\ op.plan # {}
      /\ IF build_permission_plan(t, wal[t].ledger.permissions[m], side)
         THEN intend(t, Deepest(dirs), m)
         ELSE Err

restore_error(t) ==
  op.tx = t /\ op.at \in {"restoring", "undoing"} /\ op.change = "none" /\ Error("error")

Completion(state) ==
  CASE state = "RestoreIntent" -> "Restored"
    [] state = "SourceParentRestoreIntent" -> "SourceParentRestored"

restore_complete(t) ==
  /\ Recovers(t, "restoring") /\ op.plan = {}
  /\ IF Unsynced THEN settle
     ELSE IF wal[t].state # "Quarantined"
     THEN transition(t, Completion(wal[t].state), Turn)
     ELSE IF safe_terminal_state(wal[t])
     THEN UNCHANGED <<walVars, faults>> /\ Turn
     ELSE Err

-----------------------------------------------------------------------------
(* undo_verified and VerifiedUndoRecoverySession::execute *)

\* A failed preparation writes nothing and is a call that does not start.
undo_verified(t) ==
  /\ op = Idle
  /\ wal[t].state = "VerifiedCommitted" /\ wal[t].association /\ wal[t].manifest
  /\ rebind_committed(t)
  /\ op' = Working("undo", t, "prepared")
  /\ UNCHANGED <<walVars, original, fsVars, sidecar, foreign, blocked, issued, authority,
                 faults>>

resume_verified_undo(t) ==
  /\ Recovers(t, "decide")
  /\ Work(t) = "ResumeVerifiedUndo"
  /\ IF ~rebind_committed(t) THEN fail_closed(t)
     ELSE /\ op' = IF wal[t].state = "UndoIntent"
                   THEN [op EXCEPT !.at = "undoing", !.plan = TreeSeals(t)]
                   ELSE [op EXCEPT !.at = "undone"]
          /\ UNCHANGED <<blocked, walVars, faults>>

verify_parents_and_layout(t) ==
  verify_namespace_exclusive(t, Parent) /\ <<t, "source">> \notin foreign

\* An unusable sidecar is recorded; a changed layout only stops the undo.
VerifiedThen(t, Then) ==
  IF sidecar[t] # "valid" THEN transition(t, "RecoveryRequired", Fails)
  ELSE IF ~verify_parents_and_layout(t) THEN Err
  ELSE Then

undo_intent(t) ==
  /\ Undoes(t, "prepared")
  /\ VerifiedThen(t, transition(t, "UndoIntent",
                    /\ op' = [op EXCEPT !.at = "undoing", !.plan = TreeSeals(t)]
                    /\ UNCHANGED blocked))

undo_modes_restored(t) ==
  /\ Undoes(t, "undoing") /\ op.plan = {}
  /\ IF Unsynced THEN settle
     ELSE transition(t, "UndoModesRestored", Continue("undone"))

undo_rename_intent(t) ==
  /\ Undoes(t, "undone")
  /\ VerifiedThen(t, transition(t, "UndoRenameIntent", Continue("return")))

undo_rename(t) ==
  /\ Undoes(t, "return")
  /\ \/ /\ <<t, "source">> \in foreign
        /\ Continue("collided")
        /\ UNCHANGED <<loc, faults>>
     \/ /\ <<t, "source">> \notin foreign
        /\ Move(t, "source")
        /\ Continue("renamed")
        /\ UNCHANGED faults
     \/ /\ Fault("rename")
        /\ Move(t, "source") \/ UNCHANGED loc
        /\ Continue("drifted")
  /\ UNCHANGED <<walVars, original, modes, stable, sidecar, foreign, issued, authority>>

undo_rename_unknown(t) == At("undo", t, "drifted") /\ fail_closed(t)

UndoDone == IF op.name = "undo" THEN Finish(Idle) ELSE Turn

record_undo_rename_outcome(t) ==
  \/ /\ Undoes(t, "synced")
     /\ append_at(t, [wal[t] EXCEPT !.undo = "Applied"], TRUE, Continue("moved"))
  \/ /\ Undoes(t, "moved")
     /\ transition(t, "Restored", UndoDone)
  \/ /\ Undoes(t, "collided")
     /\ IF wal[t].undo = None
        THEN append_at(t, [wal[t] EXCEPT !.undo = "Collision"], TRUE, Continue("collided"))
        ELSE transition(t, "UndoConflict", UndoDone)

-----------------------------------------------------------------------------
(* request_verified_purge and execute_verified_purge *)

request_verified_purge(t) ==
  /\ op = Idle
  /\ ~blocked /\ can_begin_staging_transaction(wal, poisoned)
  /\ wal[t].state \in {"VerifiedCommitted", "Purgeable"}
  /\ wal[t].state = "Purgeable" => t \notin issued
  /\ wal[t].association /\ wal[t].manifest
  /\ op' = Working("purge", t, "requested")
  /\ UNCHANGED <<walVars, original, fsVars, sidecar, foreign, blocked, issued, authority,
                 faults>>

\* An unsupported tree or plan refuses without a trace; a tree that is not the
\* committed one stops for recovery.
authorize(t) ==
  /\ At("purge", t, "requested")
  /\ IF ~(rebind_committed(t) /\ sidecar[t] = "valid")
     THEN transition(t, "RecoveryRequired", Fails) /\ UNCHANGED <<issued, authority>>
     ELSE \/ /\ IF wal[t].state = "Purgeable" THEN UNCHANGED <<walVars, faults>> /\ Finish(Idle)
                ELSE append_at(t, [wal[t] EXCEPT !.state = "Purgeable"], TRUE, Finish(Idle))
             /\ issued' = IF poisoned' THEN issued ELSE issued \cup {t}
             /\ authority' = IF poisoned' THEN authority ELSE authority \cup {t}
          \/ Error("error") /\ UNCHANGED <<issued, authority>>
  /\ UNCHANGED <<original, fsVars, sidecar, foreign>>

purge_drift(t) ==
  /\ At("purge", t, "requested")
  /\ Fault("drift") /\ Continue("drifted") /\ UNCHANGED walVars

purge_drifted(t) == At("purge", t, "drifted") /\ transition(t, "RecoveryRequired", Fails)

\* Mutant: the caller keeps its authority.
mutant_execute_verified_purge(t) ==
  /\ op = Idle
  /\ t \in authority
  /\ op' = Working("purge", t, "claim")
  /\ UNCHANGED <<walVars, original, fsVars, sidecar, foreign, blocked, issued, authority,
                 faults>>

\* The authority is consumed by the call.  A plan that does not authenticate
\* leaves the entry Purgeable and open to another request.
execute_verified_purge(t) ==
  /\ op = Idle
  /\ t \in authority
  /\ authority' = authority \ {t}
  /\ op' = Working("purge", t, "claim")
  /\ UNCHANGED <<walVars, original, fsVars, sidecar, foreign, blocked, issued, faults>>

\* Mutant: deletion does not wait for the claim to be synced.
mutant_record_purge_intent(t) ==
  /\ At("purge", t, "claim")
  /\ append_at(t, [wal[t] EXCEPT !.state = "PurgeIntent"], FALSE,
               op' = [op EXCEPT !.at = "deleting"] /\ blocked' = TRUE)
  /\ UNCHANGED <<issued, original, fsVars, sidecar, foreign, authority>>

record_purge_intent(t) ==
  /\ At("purge", t, "claim")
  /\ \/ /\ IF wal[t].state = "Purgeable"
           THEN append_at(t, [wal[t] EXCEPT !.state = "PurgeIntent"], TRUE,
                          op' = [op EXCEPT !.at = "deleting"] /\ blocked' = TRUE)
           ELSE Err
        /\ UNCHANGED issued
     \/ /\ wal[t].state = "Purgeable"
        /\ Error("error")
        /\ issued' = issued \ {t}
  /\ UNCHANGED <<original, fsVars, sidecar, foreign, authority>>

\* Postorder deletion, root included, then the fsync of the trash parent.
purge_postorder(t) ==
  /\ At("purge", t, "deleting")
  /\ \/ loc[t] = "staged" /\ Move(t, "partial") /\ UNCHANGED <<stable, op, blocked>>
     \/ loc[t] = "partial" /\ Move(t, "gone") /\ UNCHANGED <<stable, op, blocked>>
     \/ /\ loc[t] = "gone"
        /\ stable' = [stable EXCEPT ![t] = "gone"]
        /\ Continue("removed")
        /\ UNCHANGED loc
  /\ UNCHANGED <<walVars, original, modes, sidecar, foreign, issued, authority, faults>>

purge_error(t) == At("purge", t, "deleting") /\ Error("error")

record_purged(t) ==
  \/ /\ At("purge", t, "removed")
     /\ IF may_record_removed(wal[t], EntryCount)
        THEN append_at(t, [wal[t] EXCEPT !.removed = EntryCount], TRUE, Continue("counted"))
        ELSE Err
  \/ /\ At("purge", t, "counted")
     /\ transition(t, "PurgeOutcome", Continue("outcome"))
  \/ /\ At("purge", t, "outcome")
     /\ transition(t, "Purged", Finish(Idle))

-----------------------------------------------------------------------------
(* The engine's life, and what happens around it *)

\* try_lease, replay and StagingEngine::open.  Replay gives back what was written
\* (SealWalLog); an open that fails part-way is one that is tried again.
open ==
  LET Unusable(t) == /\ File.wal[t].sidecar
                     /\ tree_sidecar_required_for_state(File.wal[t].state)
                     /\ sidecar[t] # "valid"
      recovered == [t \in Tx |-> IF Unusable(t)
                                 THEN [File.wal[t] EXCEPT !.state = "RecoveryRequired"]
                                 ELSE File.wal[t]]
      Reachable(t) == /\ recovered[t].sidecar
                      /\ tree_sidecar_required_for_state(recovered[t].state)
      candidates == {t \in Tx : recovery_work_requires_candidate(recovered[t])}
      first == CHOOSE t \in candidates : \A u \in candidates : t <= u
  IN  /\ op = Down
      /\ wal' = recovered
      /\ kept' = <<[wal |-> recovered, modes |-> modes]>>
      /\ poisoned' = FALSE
      /\ sidecar' = [t \in Tx |-> IF sidecar[t] = "valid" /\ ~Reachable(t) THEN "absent"
                                  ELSE sidecar[t]]
      /\ issued' = {} /\ authority' = {}
      /\ blocked' = (candidates # {})
      /\ op' = IF candidates = {} THEN Idle ELSE Working("startup", first, "decide")
      /\ UNCHANGED <<original, fsVars, foreign, faults>>

Gone ==
  /\ op' = Down
  /\ poisoned' = FALSE /\ blocked' = FALSE
  /\ issued' = {} /\ authority' = {}
  /\ UNCHANGED <<original, sidecar, foreign>>

close ==
  op = Idle /\ Gone /\ wal' = File.wal /\ UNCHANGED <<kept, fsVars, faults>>

kill ==
  op.name # "down" /\ Fault("kill") /\ Gone /\ wal' = File.wal /\ UNCHANGED <<kept, fsVars>>

\* WAL and modes go back to moments since the last sync, the modes to no earlier
\* one: a journal commits a mode no later than the log bytes written after it.
Remains ==
  UNION {{[wal |-> kept[k].wal, modes |-> kept[j].modes] : j \in k..Len(kept)} :
           k \in 1..Len(kept)}

\* Names go back to the parents' last fsync or not at all.
power_loss ==
  /\ Fault("power") /\ Gone
  /\ \E left \in Remains :
       kept' = <<left>> /\ wal' = left.wal /\ modes' = left.modes
  /\ loc' \in [Tx -> {"source", "staged", "partial", "gone"}]
  /\ \A t \in Tx : \/ loc'[t] \in {loc[t], stable[t]}
                   \/ loc'[t] = "partial" /\ loc[t] = "gone" /\ stable[t] = "staged"
  /\ stable' = loc'

\* Another process takes a name degu left free.
occupy(t, side) ==
  /\ Fault("occupy")
  /\ loc[t] # side /\ <<t, side>> \notin foreign
  /\ foreign' = foreign \cup {<<t, side>>}
  /\ UNCHANGED <<walVars, original, fsVars, sidecar, blocked, issued, authority, op>>

corrupt(t) ==
  /\ Fault("corrupt")
  /\ sidecar[t] = "valid"
  /\ sidecar' = [sidecar EXCEPT ![t] = "corrupt"]
  /\ UNCHANGED <<walVars, original, fsVars, foreign, blocked, issued, authority, op>>

-----------------------------------------------------------------------------

Init ==
  /\ original \in [parent : Modes, tree : [Tx -> [TreeDirs -> Modes]]]
  /\ \A t \in Tx, d \in Directories :
       ModeOf(original, t, d) = "open" => d \in MayBeOpen
  /\ modes = original
  /\ wal = [t \in Tx |-> NotBegun]
  /\ poisoned = FALSE
  /\ kept = <<[wal |-> wal, modes |-> modes]>>
  /\ loc = [t \in Tx |-> "source"]
  /\ stable = loc
  /\ sidecar = [t \in Tx |-> "absent"]
  /\ foreign = {} /\ issued = {} /\ authority = {}
  /\ blocked = FALSE
  /\ op = Down
  /\ faults = 0

\* The steps that write at most a frame.
Journal(t) ==
  \/ record_outcome(t) \/ begin_staging(t) \/ seal_source_parent(t) \/ seal_tree(t)
  \/ complete_tree(t) \/ record_rename_intent(t) \/ stage_error(t) \/ renamed_error(t)
  \/ record_rename_outcome(t) \/ recover_terminal(t) \/ recover_forbidden(t)
  \/ recover_finalize(t) \/ resolve_uncertain_permissions(t) \/ recovery_drift(t)
  \/ recover_drifted(t) \/ verify_or_quarantine(t) \/ restore_begin(t)
  \/ require_room_to_retry(t) \/ restore_next(t) \/ restore_error(t)
  \/ restore_complete(t) \/ resume_verified_undo(t) \/ undo_intent(t)
  \/ undo_modes_restored(t) \/ undo_rename_intent(t) \/ undo_rename_unknown(t)
  \/ record_undo_rename_outcome(t) \/ purge_drift(t) \/ purge_drifted(t)
  \/ purge_error(t) \/ record_purged(t)

Step(t) ==
  \/ Journal(t) /\ UNCHANGED <<original, fsVars, sidecar, foreign, issued, authority>>
  \/ apply_wal_bound_mode_change(t) \/ publish_sidecar(t) \/ rename_noreplace(t)
  \/ sync_parents(t) \/ undo_rename(t) \/ authorize(t) \/ record_purge_intent(t)
  \/ purge_postorder(t)

Call(t) ==
  \/ stage_to_verified_commit(t) \/ undo_verified(t) \/ request_verified_purge(t)
  \/ execute_verified_purge(t)

Next ==
  \/ \E t \in Tx : Step(t) \/ Call(t) \/ corrupt(t)
  \/ \E t \in Tx, side \in {"source", "staged"} : occupy(t, side)
  \/ open \/ close \/ kill \/ power_loss

Spec == Init /\ [][Next]_vars

-----------------------------------------------------------------------------
(* Properties *)

Places == {"source", "staged", "partial", "gone"}

\* The engine's state has the shape the code gives it.
TypeOK ==
  /\ wal \in [Tx -> Transactions]
  /\ \A left \in Remains : left.wal \in [Tx -> Transactions]
  /\ loc \in [Tx -> Places] /\ stable \in [Tx -> Places]
  /\ sidecar \in [Tx -> {"absent", "valid", "corrupt"}]
  /\ op.tx \in Tx \cup {None} /\ op.plan \subseteq MutationIds
  /\ authority \subseteq issued /\ issued \subseteq Tx

\* The modes a WAL leaves possible for directory d of the transactions ts: while a
\* mutation is unresolved its two modes, under an active seal the sealed mode, and
\* otherwise the original one.
Claims(w, ts, d) ==
  LET On(t, ms) == {e \in {w[t].ledger.permissions[m] : m \in ms} : e.dir = d}
      uncertain == UNION {On(t, Unresolved(w[t].ledger)) : t \in ts}
      active == UNION {On(t, ActiveSeals(w[t].ledger)) : t \in ts}
  IN  IF uncertain # {} THEN UNION {{e.pre, e.expected} : e \in uncertain}
      ELSE IF active # {} THEN {e.expected : e \in active}
      ELSE {ModeOf(original, t, d) : t \in ts}

\* Whenever the power goes, the WAL that is left accounts for the mode of every
\* directory: none is sealed without a record recovery would undo it from, none is
\* recorded sealed or restored that is not, although applied frames are deferred.
RecordsExplainModes ==
  \A left \in Remains :
    /\ left.modes.parent \in Claims(left.wal, Tx, Parent)
    /\ \A t \in Tx, d \in TreeDirs :
         left.modes.tree[t][d] \in Claims(left.wal, {t}, d)

Original(m, t) == m.tree[t] = original.tree[t]

Stays(t, place) == loc[t] = place /\ stable[t] = place

\* What a settled transaction says of its tree's place is so, now and after a power
\* loss: Restored trees are at the source, committed, conflicted and quarantined
\* ones in the trash, purged ones gone.
SettledPlaces ==
  \A t \in Tx, left \in Remains :
    LET state == left.wal[t].state
    IN  /\ state = "Restored" => Stays(t, "source")
        /\ state \in {"VerifiedCommitted", "Purgeable", "UndoConflict", "Quarantined"} =>
             Stays(t, "staged")
        /\ state \in {"PurgeOutcome", "Purged"} => Stays(t, "gone")

\* And so is what it says of its modes: a committed tree is sealed, and a restored,
\* conflicted or quarantined one has the modes it was found with.
SettledModes ==
  \A t \in Tx, left \in Remains :
    LET state == left.wal[t].state
    IN  /\ state \in {"VerifiedCommitted", "Purgeable"} =>
             \A d \in TreeDirs : left.modes.tree[t][d] = "sealed"
        /\ \/ state \in {"Restored", "UndoConflict"}
           \/ state = "Quarantined" /\ safe_terminal_state(left.wal[t])
             => Original(left.modes, t)

\* Settled states are true of the tree they are about.
SettledStatesAreTrue == SettledPlaces /\ SettledModes

\* Nothing of a tree is deleted, in any file system a power loss may leave, unless
\* the WAL that is left with it holds the claim of a purge.
DeletedOnlyUnderClaim ==
  \A t \in Tx, left \in Remains :
    {loc[t], stable[t]} \cap {"partial", "gone"} # {} =>
      left.wal[t].state \in {"PurgeIntent", "PurgeOutcome", "Purged", "RecoveryRequired"}

\* Recovery never picks a side of a rename the tree is not on: wherever the WAL
\* allows it to look, the tree is there, in both outcomes of a power loss.
RecoveryLooksWhereTheTreeIs ==
  \A t \in Tx, left \in Remains :
    LET work == decide_recovery(left.wal[t])
    IN  /\ work = "RestoreBeforeRename" => loc[t] = "source" /\ stable[t] = "source"
        /\ work \in {"VerifyOrQuarantineAfterRename", "RestoreSourceParentAfterRename",
                     "RestoreQuarantinedSeals", "ResumeVerifiedUndo"} =>
             loc[t] = "staged" /\ stable[t] = "staged"

\* A transaction that may still need its tree's manifest finds its sidecar, whole
\* unless another program damaged it: it is published before the frame that names
\* it and removed only once every WAL a crash could leave has done with it.
SidecarOutlivesItsReference ==
  \A t \in Tx, left \in Remains :
    left.wal[t].sidecar /\ tree_sidecar_required_for_state(left.wal[t].state) =>
      sidecar[t] = "valid" \/ (sidecar[t] = "corrupt" /\ "corrupt" \in Faults)

Forward ==
  {"Prepared", "ParentSealIntent", "ParentSealed", "TreeSealIntent", "TreeSealed",
   "RenameIntent", "StagedUnverified", "StagedSealed", "SourceParentRestoreIntent",
   "SourceParentRestored", "RestoreIntent"}

\* Two transactions are never in flight at once, so a source parent is never sealed
\* twice and the mode one of them gives back is not the seal of the other.
OneForwardTransaction ==
  \A left \in Remains : \A t, u \in Tx :
    {left.wal[t].state, left.wal[u].state} \subseteq Forward => t = u

\* No recovery runs out of the loop's turns: the longest one, from a rename whose
\* outcome is recorded to the verified commit, takes all of them.
RecoveryFitsItsSteps ==
  \A t \in Tx : At("startup", t, "decide") \/ At("forward", t, "decide") =>
                 op.steps < MAX_RECOVERY_STEPS

\* Others can rename in a directory on the way to what recovery looks for: above a
\* directory whose change is uncertain or has to be undone, or, once everything was
\* given back and only the last frame is missing, in the source parent.
WayIsOpen(t) ==
  \/ \E m \in Unresolved(wal[t].ledger) \union RestorePlan(t) :
       \E e \in Controllers(wal[t].ledger.permissions[m].dir, loc[t]) : ModeOf(modes, t, e) = "open"
  \/ wal[t].state = "RestoreIntent" /\ RestorePlan(t) = {} /\ ModeOf(modes, t, Parent) = "open"

\* Of crashes alone, recovery gives up on a transaction only where the WAL cannot
\* tell which side of a rename or of a deletion the crash fell on, or where the way
\* to the directory is open to others.
BlocksOnlyTheUnknowable ==
  \A t \in Tx :
    wal[t].state # "RecoveryRequired" /\ wal'[t].state = "RecoveryRequired" =>
      \/ wal[t].state = "RenameIntent" /\ wal[t].rename = None
      \/ wal[t].state = "UndoRenameIntent" /\ wal[t].undo = None
      \/ wal[t].state = "PurgeIntent"
      \/ WayIsOpen(t)

Unsettled(t) == wal[t].state # None /\ ~safe_terminal_state(wal[t])

\* One of the transactions waits for its user: it is RecoveryRequired, or the name
\* an undo gives its tree back under is taken.
WaitsForItsUser ==
  \E u \in Tx : \/ wal[u].state = "RecoveryRequired"
                \/ wal[u].state = "UndoModesRestored" /\ <<u, "source">> \in foreign
=============================================================================
