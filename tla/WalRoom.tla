------------------------------ MODULE WalRoom ------------------------------
(***************************************************************************)
(* Room in the seal WAL: seal/wal/allowance.rs, seal/wal/room.rs, the two  *)
(* admissions of staging/rename.rs, the retry gate of staging/recovery.rs  *)
(* and the preview's budget of commands/clean/preview.rs.                  *)
(*                                                                         *)
(* The WAL has a limit.  A staging transaction is admitted twice, before   *)
(* its first frame and once its tree is known, for everything the rest of  *)
(* its life may write; what has settled keeps an allowance.  After that no *)
(* append may find the WAL full: a transaction that cannot write its next  *)
(* frame can neither finish nor fail closed.                               *)
(*                                                                         *)
(* A frame is its length.  Lengths depend on the path a frame names, so a  *)
(* directory's seal, made under the source root, and its undo, made under  *)
(* the destination root, differ; every other length is fixed.              *)
(***************************************************************************)
EXTENDS Naturals, Sequences, FiniteSets, FiniteSetsExt

CONSTANTS Items,      \* the plan: a sequence of [src, dst, rel, assessed]; a tree not assessed
                      \* is blocked, or deferred until the execution's seal lets it be walked
          Limits,     \* values of max_wal_len
          Pressure,   \* COMPACTION_PRESSURE_LEN
          MinReclaimed,  \* COMPACTION_MIN_RECLAIMED_BYTES
          MaxOpens    \* times the store is opened again

VARIABLES tx,      \* per transaction: state, destination, seals, bytes
          cache,   \* the allowances the leased WAL has measured
          run,     \* the clean in progress and what its preview promised
          full,    \* ghost: an append after admission did not fit
          limit,   \* max_wal_len
          opens

vars == <<tx, cache, run, full, limit, opens>>

Ids == DOMAIN Items
Parent == 0                                   \* the source parent's seal
Dirs(i) == DOMAIN Items[i].rel                \* the tree's directories
ParentPath == 1

-----------------------------------------------------------------------------
(* Frame lengths. *)
state_len == 1
resolution_len == 1
fixed_len == 1
staging_intent_len(path, reverses) == path + (IF reverses THEN 2 ELSE 1)
metadata_len(i, dst) == Items[i].src + dst

(* The evidence path of a directory's seal or inverse. *)
SealPath(i, d) == IF d = Parent THEN ParentPath ELSE Items[i].src + 1 + Items[i].rel[d]
UndoPath(i, d, dst) == IF d = Parent THEN ParentPath ELSE dst + 1 + Items[i].rel[d]

SumOver(S, f(_)) == MapThenSumSet(f, S)

(* One seal and its resolution for every directory of a tree. *)
per_tree(i, root, reverses) ==
  Len(Items[i].rel) * (staging_intent_len(root + 1, reverses) + resolution_len)
    + SumOver(Dirs(i), LAMBDA d : Items[i].rel[d])

parent_inverse == staging_intent_len(ParentPath, TRUE) + resolution_len

-----------------------------------------------------------------------------
(* The projections admission asks for. *)
begin_forward(i, dst) ==
  metadata_len(i, dst) + 2 * state_len + staging_intent_len(ParentPath, FALSE) + resolution_len

begin_needed(i, dst) == begin_forward(i, dst) + 2 * state_len + parent_inverse

to_rename(i) == per_tree(i, Items[i].src, FALSE) + 3 * fixed_len + 2 * state_len

committed_undo(i, dst) == per_tree(i, dst, TRUE) + 4 * state_len + fixed_len

committed_purge(i, dst) == 2 * metadata_len(i, dst) + fixed_len + 2 * state_len

mutant_project_tree(i, dst) ==
  LET forward == to_rename(i) + parent_inverse + 5 * state_len
      committed == Max({committed_undo(i, dst), committed_purge(i, dst)})
  IN forward + committed

project_tree(i, dst) ==
  LET forward == to_rename(i) + parent_inverse + 5 * state_len
      committed == Max({committed_undo(i, dst), committed_purge(i, dst)})
      rolled_back == to_rename(i) + per_tree(i, Items[i].src, TRUE) + parent_inverse + 2 * state_len
  IN Max({forward + committed, rolled_back})

-----------------------------------------------------------------------------
(* What a transaction still may write. *)
NotBegun == [state |-> "none", dst |-> 0, sealed |-> {}, pending |-> <<>>, refused |-> {},
             pass |-> "no", live |-> FALSE, outcome |-> "none", used |-> 0,
             group |-> 0]

Terminal == {"Purged", "Restored", "UndoConflict", "RolledBack"}

Settled(i) == \/ tx[i].state \in {"none", "VerifiedCommitted", "Purgeable"} \union Terminal
              \/ tx[i].state = "Quarantined" /\ tx[i].sealed = {}

(* The frames an undo writes, built from the seals the WAL holds. *)
undo_allowance(i) ==
  4 * state_len + fixed_len
    + SumOver(tx[i].sealed \ {Parent},
              LAMBDA d : staging_intent_len(UndoPath(i, d, tx[i].dst), TRUE) + resolution_len)

purge_allowance(i, authorize) ==
  (IF authorize THEN 2 ELSE 1) * metadata_len(i, tx[i].dst) + fixed_len + 2 * state_len

measure_allowance(i) ==
  CASE tx[i].state = "VerifiedCommitted" -> Max({undo_allowance(i), purge_allowance(i, TRUE)})
    [] tx[i].state = "Purgeable" -> purge_allowance(i, FALSE)
    [] tx[i].state = "Quarantined" -> state_len
    [] OTHER -> 0

mutant_remaining_allowance(i, c) == IF c[i].state # "unmeasured" THEN c[i].amount
                                    ELSE measure_allowance(i)

(* Measured once per state, from the leased WAL's cache. *)
remaining_allowance(i, c) == IF c[i].state = tx[i].state THEN c[i].amount ELSE measure_allowance(i)

Unmeasured == [i \in Ids |-> [state |-> "unmeasured", amount |-> 0]]
Measured(but) == [i \in Ids |-> IF i \in but \/ tx[i].state = "none" THEN cache[i]
                                ELSE [state |-> tx[i].state, amount |-> remaining_allowance(i, cache)]]

Committed == SumOver(Ids, LAMBDA i : tx[i].used)
reserved(but, c) == SumOver(Ids \ but, LAMBDA i : remaining_allowance(i, c))
Less(a, b) == IF a > b THEN a - b ELSE 0

mutant_headroom(but, c) == Less(limit, Committed)

headroom(but, c) == Less(Less(limit, Committed), reserved(but, c))

(* What a retry needs: the rest of the life, and a frame to fail closed. *)
retry_needed(i) ==
  LET x == tx[i]
      owed == IF x.state = "SourceParentRestoreIntent" THEN x.sealed \intersect {Parent} ELSE x.sealed
      path(d) == IF x.state \in {"UndoIntent", "Quarantined"} THEN UndoPath(i, d, x.dst) ELSE SealPath(i, d)
  IN SumOver(owed, LAMBDA d : staging_intent_len(path(d), TRUE) + resolution_len)
     + (CASE x.state = "RestoreIntent" -> state_len
          [] x.state = "SourceParentRestoreIntent" ->
               2 * state_len + Max({undo_allowance(i), purge_allowance(i, TRUE)})
          [] x.state = "Quarantined" -> 0
          [] x.state = "UndoIntent" -> 3 * state_len + fixed_len)
     + state_len

-----------------------------------------------------------------------------
(* Appending. *)
Idle == [on |-> FALSE, started |-> FALSE, next |-> 1, group |-> 0, promised |-> {}, denied |-> {}]

Init == /\ tx = [i \in Ids |-> NotBegun]
        /\ cache = Unmeasured
        /\ run = Idle
        /\ full = FALSE
        /\ limit \in Limits
        /\ opens = MaxOpens

(* append_at: the frame fits under the limit or the append fails. *)
Write(i, n, after) == IF Committed + n <= limit
                      THEN tx' = [tx EXCEPT ![i] = [after EXCEPT !.used = @ + n]] /\ UNCHANGED full
                      ELSE full' = TRUE /\ UNCHANGED tx

Become(i, n, state) == Write(i, n, [tx[i] EXCEPT !.state = state])
Quiet(i) == tx[i].pending = <<>>
At(i, S) == tx[i].state \in S /\ ~full
OthersSettled(i) == \A j \in Ids \ {i} : Settled(j)
Still == UNCHANGED <<cache, run, limit, opens>>

-----------------------------------------------------------------------------
(* The preview, measured from the WAL's bytes without a lease. *)
DropsState(i) == tx[i].state \in {"Purged", "Restored", "RolledBack"}

(* A transaction's frames are dead once its whole reclamation is. *)
Dropped == {i \in Ids : /\ DropsState(i)
                        /\ \A j \in Ids : tx[j].state # "none" /\ tx[j].group = tx[i].group => DropsState(j)}

compaction_is_worthwhile(reclaimed, committed) ==
  IF committed >= Pressure THEN reclaimed > 0
  ELSE reclaimed >= MinReclaimed /\ 4 * reclaimed >= committed

compaction_reclaim ==
  LET reclaimed == SumOver(Dropped, LAMBDA i : tx[i].used)
  IN IF compaction_is_worthwhile(reclaimed, Committed) THEN reclaimed ELSE 0

(* A lease drops the dead frames, or abandons the rewrite. *)
Opened == {tx} \union (IF compaction_reclaim = 0 THEN {}
                       ELSE {[i \in Ids |-> IF i \in Dropped THEN [tx[i] EXCEPT !.used = 0] ELSE tx[i]]})

Narrow(i) == Min(Items[i].dst)
Wide(i) == Max(Items[i].dst)
NeededLeast(i) == begin_forward(i, Narrow(i)) + project_tree(i, Narrow(i))
NeededMost(i) == begin_forward(i, Wide(i)) + project_tree(i, Wide(i))

mutant_spend(i, available, ceiling) == Less(available, begin_needed(i, Wide(i)))

(* The most staging can leave of an item it attempts. *)
spend(i, available, ceiling) ==
  Less(available, CASE Items[i].assessed /\ NeededLeast(i) <= ceiling -> NeededMost(i)
                    [] begin_needed(i, Narrow(i)) <= ceiling -> begin_needed(i, Wide(i))
                    [] OTHER -> 0)

admits(i, available) == Items[i].assessed /\ NeededMost(i) <= available

(* What is left when item i is asked, and the items promised so far. *)
apply_wal_room(available, ceiling) ==
  LET planned == {i \in Ids : tx[i].state = "none"}
      left[i \in 0 .. Len(Items)] ==
        IF i = 0 THEN available
        ELSE IF i \in planned THEN spend(i, left[i - 1], ceiling) ELSE left[i - 1]
  IN {i \in planned : admits(i, left[i - 1])}

preview == /\ ~run.on /\ ~full /\ \A i \in Ids : Settled(i)
           /\ \E i \in Ids : tx[i].state = "none"
           /\ LET available == Less(Less(limit, Committed), reserved({}, Unmeasured))
                  ceiling == Less(Less(limit, Committed - compaction_reclaim), reserved({}, Unmeasured))
              IN run' = [Idle EXCEPT !.on = TRUE, !.promised = apply_wal_room(available, ceiling)]
           /\ UNCHANGED <<tx, cache, full, limit, opens>>

(* The clean takes the lease, which may compact the WAL. *)
start_run == /\ run.on /\ ~run.started /\ \A i \in Ids : Settled(i)
             /\ run' = [run EXCEPT !.started = TRUE]
             /\ tx' \in Opened
             /\ cache' = Unmeasured
             /\ UNCHANGED <<full, limit, opens>>

-----------------------------------------------------------------------------
(* Staging one item. *)
Turn(i) == run.on /\ run.started /\ run.next = i

(* The item is not in this plan, or fails before its first frame. *)
skip_item(i) == /\ Turn(i) /\ Settled(i)
                /\ run' = IF i = Len(Items) THEN Idle ELSE [run EXCEPT !.next = i + 1]
                /\ UNCHANGED <<tx, cache, full, limit, opens>>

(* The first admission, before the first frame. *)
begin_staging(i) == /\ Turn(i) /\ tx[i].state = "none" /\ ~full
                    /\ OthersSettled(i)
                    /\ cache' = Measured({})
                    /\ \E dst \in Items[i].dst :
                         IF begin_needed(i, dst) <= headroom({}, cache)
                         THEN /\ Write(i, metadata_len(i, dst) + state_len,
                                       [NotBegun EXCEPT !.state = "ParentSealIntent", !.dst = dst, !.live = TRUE,
                                                          !.group = IF run.group = 0 THEN i ELSE run.group])
                              /\ run' = [run EXCEPT !.group = IF @ = 0 THEN i ELSE @]
                         ELSE /\ run' = [run EXCEPT !.denied = @ \union {i}, !.next = i + 1]
                              /\ UNCHANGED <<tx, full>>
                    /\ UNCHANGED <<limit, opens>>

(* A permission intent, and then what became of it. *)
seal_intent(i, d) == /\ tx[i].live /\ Quiet(i) /\ d \notin tx[i].sealed
                     /\ At(i, {"TreeSealIntent"}) => ~(Dirs(i) \subseteq tx[i].sealed)
                     /\ \/ At(i, {"ParentSealIntent"}) /\ d = Parent
                        \/ At(i, {"TreeSealIntent"}) /\ d = Min(Dirs(i) \ tx[i].sealed)
                     /\ Write(i, staging_intent_len(SealPath(i, d), FALSE),
                              [tx[i] EXCEPT !.pending = <<d, "seal">>])
                     /\ Still

resolve_seal(i, applied) == /\ ~full /\ ~Quiet(i) /\ tx[i].pending[2] = "seal"
                            /\ Write(i, resolution_len,
                                 [tx[i] EXCEPT !.pending = <<>>,
                                               !.live = @ /\ applied,
                                               !.sealed = IF applied THEN @ \union {tx[i].pending[1]} ELSE @])
                            /\ Still

parent_sealed(i) == /\ At(i, {"ParentSealIntent"}) /\ tx[i].live /\ Quiet(i) /\ Parent \in tx[i].sealed
                    /\ Become(i, state_len, "ParentSealed")
                    /\ Still

(* The second admission, once the tree is planned.  A tree the policy      *)
(* refuses, or that does not fit, leaves the parent's seal to be undone.   *)
(* A tree preflight deferred may pass the policy now and be admitted.      *)
tree_admission(i) == /\ At(i, {"ParentSealed"}) /\ tx[i].live
                     /\ LET fits == project_tree(i, tx[i].dst) <= headroom({i}, cache)
                        IN \/ /\ fits
                              /\ Become(i, state_len, "TreeSealIntent")
                              /\ cache' = Measured({i}) /\ UNCHANGED run
                           \/ /\ ~fits
                              /\ tx' = [tx EXCEPT ![i].live = FALSE]
                              /\ run' = [run EXCEPT !.denied = @ \union {i}]
                              /\ cache' = Measured({i}) /\ UNCHANGED full
                           \/ /\ tx' = [tx EXCEPT ![i].live = FALSE]       \* the policy refuses
                              /\ UNCHANGED <<cache, run, full>>
                     /\ UNCHANGED <<limit, opens>>

tree_sealed(i) == /\ At(i, {"TreeSealIntent"}) /\ tx[i].live /\ Quiet(i) /\ Dirs(i) \subseteq tx[i].sealed
                  /\ Become(i, state_len, "TreeSealed")
                  /\ Still

(* The manifest is bound and the rename announced. *)
rename_intent(i) == /\ At(i, {"TreeSealed"}) /\ tx[i].live
                    /\ Become(i, 2 * fixed_len, "RenameIntent")
                    /\ Still

rename_outcome(i, outcome) == /\ At(i, {"RenameIntent"}) /\ tx[i].live /\ tx[i].outcome = "none"
                              /\ Write(i, fixed_len, [tx[i] EXCEPT !.outcome = outcome,
                                                        !.live = outcome = "applied"])
                              /\ Still

AfterRename == [RenameIntent |-> "StagedUnverified", StagedUnverified |-> "StagedSealed",
                StagedSealed |-> "SourceParentRestoreIntent",
                SourceParentRestored |-> "VerifiedCommitted"]

(* Forward steps after the rename, taken by staging or by a later open. *)
staged_step(i) == /\ At(i, DOMAIN AfterRename) /\ tx[i].outcome = "applied"
                  /\ Become(i, state_len, AfterRename[tx[i].state])
                  /\ Still

-----------------------------------------------------------------------------
(* Reversing seals: rollback, parent restore, quarantine and undo. *)
restore_intent(i) == /\ At(i, {"ParentSealIntent", "ParentSealed", "TreeSealIntent", "TreeSealed", "RenameIntent"})
                     /\ ~tx[i].live /\ Quiet(i)
                     /\ tx[i].state = "RenameIntent" => tx[i].outcome = "not_applied"
                     /\ Become(i, state_len, "RestoreIntent")
                     /\ Still

quarantine(i) == /\ At(i, {"StagedUnverified", "StagedSealed", "SourceParentRestoreIntent", "SourceParentRestored"})
                 /\ Quiet(i) /\ tx[i].pass # "over"
                 /\ Write(i, state_len, [tx[i] EXCEPT !.state = "Quarantined", !.pass = "no"])
                 /\ Still

Reversing == {"RestoreIntent", "SourceParentRestoreIntent", "Quarantined", "UndoIntent"}

Owed(i) == IF tx[i].state = "SourceParentRestoreIntent" THEN tx[i].sealed \intersect {Parent}
           ELSE tx[i].sealed

(* An attempt starts; after a refusal only if the rest of the life fits. *)
require_room_to_retry(i) ==
  /\ At(i, Reversing) /\ Quiet(i) /\ tx[i].pass = "no" /\ Owed(i) # {}
  /\ IF tx[i].refused = {} \/ retry_needed(i) <= headroom({i}, cache)
     THEN tx' = [tx EXCEPT ![i].pass = "yes"] /\ UNCHANGED full
     ELSE Become(i, state_len, "RecoveryRequired")
  /\ cache' = IF tx[i].refused = {} THEN cache ELSE Measured({i})
  /\ UNCHANGED <<run, limit, opens>>

(* Directories are numbered deepest first; the source parent comes last. *)
Deepest(i) == IF Owed(i) = {Parent} THEN Parent ELSE Min(Owed(i) \ {Parent})

inverse_intent(i, d) == /\ At(i, Reversing) /\ Quiet(i) /\ tx[i].pass = "yes" /\ Owed(i) # {} /\ d = Deepest(i)
                        /\ LET path == IF tx[i].state \in {"Quarantined", "UndoIntent"}
                                       THEN UndoPath(i, d, tx[i].dst) ELSE SealPath(i, d)
                           IN Write(i, staging_intent_len(path, TRUE),
                                    [tx[i] EXCEPT !.pending = <<d, "inverse">>])
                        /\ Still

(* A refused inverse ends the attempt; the next open makes another. *)
resolve_inverse(i, applied) == /\ ~full /\ ~Quiet(i) /\ tx[i].pending[2] = "inverse"
                               /\ LET d == tx[i].pending[1]
                                  IN Write(i, resolution_len,
                                       IF applied
                                       THEN [tx[i] EXCEPT !.pending = <<>>, !.sealed = @ \ {d}, !.refused = @ \ {d}]
                                       ELSE [tx[i] EXCEPT !.pending = <<>>, !.refused = @ \union {d}, !.pass = "over"])
                               /\ Still

AfterReversing == [RestoreIntent |-> "Restored", SourceParentRestoreIntent |-> "SourceParentRestored",
                   UndoIntent |-> "UndoModesRestored"]

reversed(i) == /\ At(i, DOMAIN AfterReversing) /\ Quiet(i) /\ Owed(i) = {}
               /\ Write(i, state_len, [tx[i] EXCEPT !.state = AfterReversing[tx[i].state],
                                                    !.pass = "no"])
               /\ Still

-----------------------------------------------------------------------------
(* The end of a committed entry. *)
(* A command other than the previewed clean voids what the preview said;  *)
(* the clean itself may purge what it has staged before its next item.    *)
Elsewhere == run' = [run EXCEPT !.promised = {}] /\ UNCHANGED <<cache, limit, opens>>
DuringRun == run.started /\ Still

undo_intent(i) == /\ At(i, {"VerifiedCommitted"})
                  /\ OthersSettled(i)
                  /\ Become(i, state_len, "UndoIntent")
                  /\ ~run.started /\ Elsewhere

undo_rename(i) == /\ \/ At(i, {"UndoModesRestored"}) /\ Become(i, state_len, "UndoRenameIntent")
                     \/ At(i, {"UndoRenameIntent"}) /\ tx[i].outcome # "undone"
                          /\ Write(i, fixed_len, [tx[i] EXCEPT !.outcome = "undone"])
                     \/ At(i, {"UndoRenameIntent"}) /\ tx[i].outcome = "undone"
                          /\ \E end \in {"Restored", "UndoConflict"} : Become(i, state_len, end)
                  /\ Still

purge_authorize(i) == /\ At(i, {"VerifiedCommitted"})
                      /\ OthersSettled(i)
                      /\ Become(i, metadata_len(i, tx[i].dst), "Purgeable")
                      /\ (~run.started /\ Elsewhere) \/ DuringRun

purge_claim(i) == /\ At(i, {"Purgeable"})
                  /\ OthersSettled(i)
                  /\ Become(i, metadata_len(i, tx[i].dst), "PurgeIntent")
                  /\ (~run.started /\ Elsewhere) \/ DuringRun

purge_outcome(i) == /\ \/ At(i, {"PurgeIntent"}) /\ Become(i, fixed_len + state_len, "PurgeOutcome")
                       \/ At(i, {"PurgeOutcome"}) /\ Become(i, state_len, "Purged")
                    /\ Still

(* fail_closed: whatever went wrong is recorded.  A terminal transaction   *)
(* has nothing to record.                                                  *)
fail_closed(i) == /\ tx[i].state \notin Terminal \union {"none", "RecoveryRequired", "PurgeOutcome"}
                  /\ ~full
                  /\ tx[i].state \in {"VerifiedCommitted", "Purgeable", "Quarantined"} \/ OthersSettled(i)
                  /\ Become(i, state_len, "RecoveryRequired")
                  /\ Still

(* The process ends and the store is opened again, perhaps compacting. *)
reopen == /\ opens > 0 /\ opens' = opens - 1
          /\ \E base \in Opened :
               tx' = [i \in Ids |-> [base[i] EXCEPT !.pass = "no", !.live = FALSE]]
          /\ cache' = Unmeasured
          /\ run' = Idle
          /\ UNCHANGED <<full, limit>>

Next == \/ preview \/ start_run \/ reopen
        \/ \E i \in Ids :
             \/ skip_item(i) \/ begin_staging(i) \/ parent_sealed(i) \/ tree_admission(i)
             \/ tree_sealed(i) \/ rename_intent(i) \/ staged_step(i)
             \/ restore_intent(i) \/ quarantine(i) \/ require_room_to_retry(i) \/ reversed(i)
             \/ undo_intent(i) \/ undo_rename(i) \/ purge_authorize(i) \/ purge_claim(i)
             \/ purge_outcome(i) \/ fail_closed(i)
             \/ \E d \in Dirs(i) \union {Parent} : seal_intent(i, d) \/ inverse_intent(i, d)
             \/ \E applied \in BOOLEAN : resolve_seal(i, applied) \/ resolve_inverse(i, applied)
             \/ \E outcome \in {"applied", "not_applied"} : rename_outcome(i, outcome)

Spec == Init /\ [][Next]_vars

-----------------------------------------------------------------------------
(* Admission is enough: once a transaction has been admitted no frame of   *)
(* it, or of any entry already in the trash, finds the WAL full, through   *)
(* commit, rollback, quarantine, undo, purge, refusal, retry and crash,    *)
(* the frame that fails it closed included.                                *)
AdmittedNeverFull == ~full

(* A tree only the seal could walk was charged its parent's round trip and *)
(* took more.                                                              *)
TookMoreThanCharged(i) ==
  /\ ~Items[i].assessed /\ tx[i].group = run.group
  /\ tx[i].used + remaining_allowance(i, cache) > begin_needed(i, Wide(i))

(* What the preview says fits, staging admits, whatever the items before   *)
(* it turn out to do and whether or not the lease compacts, unless another *)
(* command changed the trash in between or an earlier tree, deferred by    *)
(* the preview, took more than the round trip it was charged.              *)
PromiseKept == \A i \in run.promised \intersect run.denied : \E j \in 1 .. i - 1 : TookMoreThanCharged(j)

(* A cached allowance is what measuring again would give: nothing a        *)
(* settled transaction holds changes while its state stays.                *)
CacheIsCurrent == \A i \in Ids : Settled(i) /\ cache[i].state = tx[i].state
                                 => cache[i].amount = measure_allowance(i)

(* The allowances add up: what is committed and what the settled entries   *)
(* hold never pass the limit while no transaction is part way.             *)
ReservesFit == (\A i \in Ids : Settled(i)) => Committed + reserved({}, Unmeasured) <= limit
=============================================================================
