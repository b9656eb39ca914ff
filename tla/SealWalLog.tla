----------------------------- MODULE SealWalLog -----------------------------
(***************************************************************************)
(* The WAL file and the SealWal that writes it (seal/wal.rs): every append *)
(* method, in any order its own guards allow, with append_at's failures,   *)
(* frames left for a later sync, the death of the process or a loss of     *)
(* power, and the replay and resume of the next lease.                     *)
(*                                                                         *)
(* replay_records reads the file frame by frame, so a file is told apart   *)
(* from another only by what replay makes of it: a prefix is kept as that, *)
(* and only the prefixes a crash may still leave are kept.                 *)
(***************************************************************************)
EXTENDS SealWal, Sequences

CONSTANTS
  Tx,          \* transaction ids
  Invalid      \* ReplayError::InvalidHistory

ASSUME InvalidAssumption == Invalid \notin Transactions

VARIABLES
  txs,       \* SealWal's maps, one projection per transaction id
  prefixes,  \* what replay makes of the file's prefixes, from synced_len to its end
  poisoned   \* SealWal::poisoned

vars == <<txs, prefixes, poisoned>>

File == prefixes[Len(prefixes)]

ReplayRecord(t, f) ==
  IF t # Invalid /\ ReplayAccepts(t, f) THEN ReplayedAs(t, f) ELSE Invalid

replay_records(file, x, f) == [file EXCEPT ![x] = ReplayRecord(@, f)]

\* Mutant: the frame is never synced.
mutant_append_at(x, f, after, sync) ==
  /\ ~poisoned
  /\ prefixes' = Append(prefixes, replay_records(File, x, f))
  /\ txs' = [txs EXCEPT ![x] = after]
  /\ UNCHANGED poisoned

\* A failed write or sync poisons the writer, and the frame may be in the file or
\* torn off it.  Refusals for size change nothing.
append_at(x, f, after, sync) ==
  LET written == replay_records(File, x, f)
  IN  /\ ~poisoned
      /\ \/ /\ prefixes' = IF sync THEN <<written>> ELSE Append(prefixes, written)
            /\ txs' = [txs EXCEPT ![x] = after]
            /\ UNCHANGED poisoned
         \/ /\ poisoned' = TRUE
            /\ prefixes' \in {prefixes, Append(prefixes, written)}
            /\ UNCHANGED txs

settle ==
  /\ Len(prefixes) > 1
  /\ ~poisoned
  /\ \/ prefixes' = <<File>> /\ UNCHANGED poisoned
     \/ poisoned' = TRUE /\ UNCHANGED prefixes
  /\ UNCHANGED txs

begin_staging(x) ==
  \E strategy \in Strategies, association \in BOOLEAN :
    /\ txs[x].state = None
    /\ append_at(x, Frame("StagingBegin", [strategy |-> strategy,
                                           association |-> association]),
                 Begun(strategy, association), TRUE)

Transition(x, next) ==
  /\ may_transition(txs[x], next)
  /\ append_at(x, Frame("State", next), [txs[x] EXCEPT !.state = next], TRUE)

complete_tree_manifest_with_sidecar(x) ==
  /\ may_complete_tree(txs[x])
  /\ append_at(x, Frame("TreeManifestSidecarComplete", None),
               [txs[x] EXCEPT !.manifest = TRUE, !.sidecar = TRUE], TRUE)

record_rename_intent(x) ==
  /\ may_intend_rename(txs[x])
  /\ append_at(x, Frame("RenameIntent", None),
               [txs[x] EXCEPT !.state = "RenameIntent"], TRUE)

record_rename_outcome(x) ==
  /\ may_record_rename_outcome(txs[x])
  /\ \E outcome \in {"Applied", "NotApplied"} :
       append_at(x, Frame("RenameOutcome", outcome),
                 [txs[x] EXCEPT !.rename = outcome], TRUE)

record_undo_rename_outcome(x) ==
  /\ may_record_undo_outcome(txs[x])
  /\ \E outcome \in {"Applied", "Collision"} :
       append_at(x, Frame("UndoRenameOutcome", outcome),
                 [txs[x] EXCEPT !.undo = outcome], TRUE)

record_purgeable(x) ==
  /\ may_authorize_purge(txs[x])
  /\ append_at(x, Frame("PurgeAuthorized", None),
               [txs[x] EXCEPT !.state = "Purgeable"], TRUE)

record_purge_intent(x) ==
  /\ may_claim_purge(txs[x])
  /\ append_at(x, Frame("PurgeClaimed", None),
               [txs[x] EXCEPT !.state = "PurgeIntent"], TRUE)

record_purge_removed(x) ==
  \E removed \in 0..EntryCount :
    /\ may_record_removed(txs[x], removed)
    /\ append_at(x, Frame("PurgeProgress", removed),
                 [txs[x] EXCEPT !.removed = removed], TRUE)

\* The intent of apply_permission_mutation_inner.  A tree seal names a directory
\* of the tree, which is what the sealing walk passes.
IntendMutation(x) ==
  \E m \in MutationIds, dir \in Directories, pre \in Modes, expected \in Modes,
     reverses \in MutationIds \cup {None} :
    /\ txs[x].state = "TreeSealIntent" => dir \in TreeDirs
    /\ may_intend_mutation(txs[x], m, dir, pre, expected, reverses)
    /\ append_at(x, IntentFrame(m, dir, pre, expected, reverses),
                 [txs[x] EXCEPT !.ledger = record_intent(@, m, txs[x].state, dir, pre,
                                                         expected, reverses)],
                 TRUE)

\* Its applied frame, deferred inside with_deferred_applied, or the resolution
\* recovery writes.  mutate() may fail or the process may die before this step.
ResolveMutation(x) ==
  \E m \in MutationIds :
    /\ may_resolve(txs[x], m)
    /\ \/ \E sync \in BOOLEAN :
            append_at(x, Frame("PermissionApplied", m),
                      [txs[x] EXCEPT !.ledger = record_resolution(@, m, "Applied")], sync)
       \/ append_at(x, Frame("PermissionNotApplied", m),
                    [txs[x] EXCEPT
                       !.ledger = record_resolution(@, m, "ConfirmedNotApplied")], TRUE)

\* The process is gone and another takes the lease: a dead process leaves every
\* written frame, a power loss any prefix from the synced length on.  The lease
\* syncs what is there before replay reads it.
resume ==
  \E survivor \in 1..Len(prefixes) :
    /\ prefixes' = <<prefixes[survivor]>>
    /\ txs' = prefixes[survivor]
    /\ poisoned' = FALSE

Init ==
  /\ txs = [x \in Tx |-> NotBegun]
  /\ prefixes = <<txs>>
  /\ poisoned = FALSE

Next ==
  \/ \E x \in Tx :
       \/ begin_staging(x)
       \/ \E next \in TransactionStates : Transition(x, next)
       \/ complete_tree_manifest_with_sidecar(x)
       \/ record_rename_intent(x)
       \/ record_rename_outcome(x)
       \/ record_undo_rename_outcome(x)
       \/ record_purgeable(x)
       \/ record_purge_intent(x)
       \/ record_purge_removed(x)
       \/ IntendMutation(x)
       \/ ResolveMutation(x)
  \/ settle
  \/ resume

Spec == Init /\ [][Next]_vars

-----------------------------------------------------------------------------

\* Every projection the writer holds is a transaction, and some prefix of the
\* file survives any crash.
TypeOK ==
  /\ txs \in [Tx -> Transactions]
  /\ prefixes \in Seq([Tx -> Transactions \cup {Invalid}]) /\ prefixes # <<>>
  /\ poisoned \in BOOLEAN

\* Replay accepts whatever the append side wrote, in every tail a crash can
\* leave, and rebuilds exactly what the writer held: no legal sequence of
\* appends ends in a store that the next lease refuses with InvalidHistory or
\* resumes with other counts, states or outcomes.
ReplayRebuildsWriter ==
  /\ ~poisoned => File = txs
  /\ \A n \in 1..Len(prefixes) : \A x \in Tx : prefixes[n][x] # Invalid

\* The counters that gate every terminal transition agree with a scan of the
\* records, whatever mix of refused, retried and unresolved inverses led here:
\* an inverse counted twice, or against a seal already reversed, would let
\* Restored be written with a directory still sealed.
CoverageMatchesScan ==
  \A x \in Tx : LET ledger == txs[x].ledger
                    coverage == ledger.coverage
                IN
    /\ coverage.applied_parent = Cardinality(AppliedSeals(ledger, "ParentSealIntent"))
    /\ coverage.applied_tree = Cardinality(AppliedSeals(ledger, "TreeSealIntent"))
    /\ coverage.reversed_parent =
         Cardinality(ReversedSeals(ledger, "ParentSealIntent", IntentPhases))
    /\ coverage.restored_parent =
         Cardinality(ReversedSeals(ledger, "ParentSealIntent", {"SourceParentRestoreIntent"}))
    /\ coverage.reversed_tree =
         Cardinality(ReversedSeals(ledger, "TreeSealIntent", IntentPhases))
    /\ coverage.undone_tree =
         Cardinality(ReversedSeals(ledger, "TreeSealIntent", {"UndoIntent"}))
    /\ has_unresolved(ledger) <=>
         \E m \in Admitted(ledger) : ledger.permissions[m].application = Unknown

\* A transaction ends Restored with every applied seal reversed, and only
\* where its tree is at the source: its rename was never recorded as applied,
\* or an undo rename was.
RestoredLeavesNothingBehind ==
  \A x \in Tx : txs[x].state = "Restored" =>
    /\ txs[x].rename # "Applied" \/ txs[x].undo = "Applied"
    /\ \A phase \in SealPhases :
         AppliedSeals(txs[x].ledger, phase)
           = ReversedSeals(txs[x].ledger, phase, IntentPhases)

\* The claim of the comment at UndoModesRestored: no path to a verified undo
\* reverses a tree seal otherwise than by undo, so the whole-transaction count
\* cannot differ there from the tree-specific one.
UndoCountsCannotDiffer ==
  \A x \in Tx : txs[x].state \in {"VerifiedCommitted", "UndoIntent", "UndoModesRestored"} =>
    (every_applied_tree_seal_is_undone(txs[x].ledger)
       <=> every_applied_seal_is_reversed(txs[x].ledger))

\* No crash takes back a state an append acknowledged: a transaction's state
\* changes only along the transition table, power losses included, although
\* applied frames are left unsynced.
StateNeverRegresses ==
  [][\A x \in Tx : txs'[x].state # txs[x].state /\ txs[x].state # None
       => valid_transition(txs[x].state, txs'[x].state)]_vars
=============================================================================
