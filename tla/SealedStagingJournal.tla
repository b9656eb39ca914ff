----------------------- MODULE SealedStagingJournal -------------------------
(***************************************************************************)
(* The steps of SealedStaging that write frames keep its invariant: those  *)
(* of a stage, of recovery, of an undo and of a purge.                     *)
(***************************************************************************)
EXTENDS SealedStagingFrames

-----------------------------------------------------------------------------
(* The frames of a stage *)

\* A frame after which the operation goes on at a quiet point.
LEMMA AppendQuiet ==
  ASSUME StagingAssumption, IInv, NEW t \in Tx, op.tx = t, op.at # "idle", op.change = "none",
         JournalFrame, NEW y, NEW at \in QuietAts, Advances(t, y),
         append_at(t, y, TRUE, Continue(at)),
         Admitted(wal[t].ledger) \subseteq Admitted(y.ledger), Spent(y, op.steps)
  PROVE  IInv'
<1>1. \/ Synced(t, y) /\ Continue(at)
      \/ Stood(t, y) /\ Fails
  BY Zenon, AppendCases
<1>2. CASE Synced(t, y) /\ Continue(at)
  <2>1. Journalled(t) /\ wal'[t] = y
    BY <1>2, SyncedTx
  <2> QED
    BY <1>2, <2>1, QuietStep DEF Continue
<1>3. CASE Stood(t, y) /\ Fails
  BY <1>3, FailsStep DEF Journalled
<1> QED
  BY <1>1, <1>2, <1>3

LEMMA MoveQuiet ==
  ASSUME StagingAssumption, IInv, NEW t \in Tx, op.tx = t, op.at # "idle", op.change = "none",
         JournalFrame, NEW next, NEW at \in QuietAts, transition(t, next, Continue(at)),
         may_transition(wal[t], next) => \A x : x.state = next => Spent(x, op.steps)
  PROVE  IInv'
<1>1. \/ Moved(t, next) /\ Continue(at)
      \/ Journalled(t) /\ Fails
  BY TransitionCases
<1>2. CASE Moved(t, next) /\ Continue(at)
  <2>1. Journalled(t) /\ wal'[t].state = next /\ wal'[t].ledger = wal[t].ledger
    BY <1>2, MovedTx
  <2>2. Spent(wal'[t], op.steps)
    BY <1>2, <2>1 DEF Moved
  <2> QED
    BY <1>2, <2>1, <2>2, QuietStep DEF Continue
<1>3. CASE Journalled(t) /\ Fails
  BY <1>3, FailsStep
<1> QED
  BY <1>1, <1>2, <1>3

LEMMA MoveTurn ==
  ASSUME StagingAssumption, IInv, NEW t \in Tx, op.tx = t, op.at # "idle", op.change = "none",
         op.name \in {"startup", "forward"}, JournalFrame, NEW next, transition(t, next, Turn),
         may_transition(wal[t], next) =>
           \A x : x.state = next =>
             Spent(x, op.steps) /\ (safe_terminal_state(x) \/ Spent(x, op.steps + 1))
  PROVE  IInv'
<1>1. \/ Moved(t, next) /\ Turn
      \/ Journalled(t) /\ Fails
  BY TransitionCases
<1>2. CASE Moved(t, next) /\ Turn
  <2>1. Journalled(t) /\ wal'[t].state = next /\ wal'[t].ledger = wal[t].ledger
    BY <1>2, MovedTx
  <2>2. Spent(wal'[t], op.steps) /\ (safe_terminal_state(wal'[t]) \/ Spent(wal'[t], op.steps + 1))
    BY <1>2, <2>1 DEF Moved
  <2> QED
    BY <1>2, <2>1, <2>2, TurnStep
<1>3. CASE Journalled(t) /\ Fails
  BY <1>3, FailsStep
<1> QED
  BY <1>1, <1>2, <1>3

\* A stage has taken no turns.
LEMMA Staging ==
  ASSUME IInv, NEW t \in Tx, NEW name \in {"stage", "undo", "purge"}, NEW at, At(name, t, at),
         at # "idle"
  PROVE  /\ op.tx = t /\ op.at = at /\ op.at # "idle" /\ op.change = "none"
         /\ \A x : Spent(x, op.steps)
         /\ op \in Operations /\ op.steps = 0 /\ op.plan \subseteq Admitted(wal[t].ledger)
<1>1. op.tx = t /\ op.at = at /\ op.change = "none" /\ op.name = name
  BY DEF At
<1>2. op.steps = 0 /\ op \in Operations /\ op.plan \subseteq Admitted(wal[t].ledger)
  BY <1>1, BusyOp
<1> QED
  BY <1>1, <1>2, NothingSpent

LEMMA BeginStep ==
  ASSUME StagingAssumption, IInv, NEW t \in Tx, begin_staging(t), JournalFrame
  PROVE  IInv'
<1> DEFINE y == Begun("PermissionSeal", TRUE)
<1>1. At("stage", t, "begin")
  BY DEF begin_staging
<1>2. /\ op.tx = t /\ op.at = "begin" /\ op.at # "idle" /\ op.change = "none"
      /\ \A x : Spent(x, op.steps)
  BY <1>1, Staging
<1>3. Begins(t, y)
  BY <1>2 DEF Begins, IInv, OpInv, OpStage
<1>4. Admitted(wal[t].ledger) = {}
  <2>1. wal[t] = NotBegun
    BY <1>3, NowIsSound, OneTx DEF Begins, Good
  <2> QED
    BY <2>1 DEF NotBegun, Admitted, EmptyLedger
<1>5. append_at(t, y, TRUE, op' = [op EXCEPT !.at = "ready"] /\ blocked' = TRUE)
  BY Zenon DEF begin_staging
<1> HIDE DEF y
<1>6. \/ Synced(t, y) /\ op' = [op EXCEPT !.at = "ready"]
      \/ Stood(t, y) /\ Fails
  BY Zenon, <1>5, AppendCases
<1>7. Advances(t, y)
  BY <1>3 DEF Advances
<1>8. CASE Stood(t, y) /\ Fails
  BY <1>2, <1>7, <1>8, FailsStep DEF Journalled
<1>9. CASE Synced(t, y) /\ op' = [op EXCEPT !.at = "ready"]
  <2>1. Journalled(t) /\ wal'[t] = y
    BY <1>7, <1>9, SyncedTx
  <2> QED
    BY <1>2, <1>4, <1>9, <2>1, QuietStep DEF QuietAts
<1> QED
  BY <1>6, <1>8, <1>9

LEMMA SealParentStep ==
  ASSUME StagingAssumption, IInv, NEW t \in Tx, seal_source_parent(t), JournalFrame
  PROVE  IInv'
<1>1. At("stage", t, "ready")
  BY DEF seal_source_parent
<1>2. /\ op.tx = t /\ op.at = "ready" /\ op.at # "idle" /\ op.change = "none"
      /\ \A x : Spent(x, op.steps)
  BY <1>1, Staging
<1>3. \/ transition(t, "ParentSealIntent", Continue("ready"))
      \/ wal[t].state = "ParentSealIntent" /\ intend(t, Parent, None)
      \/ transition(t, "ParentSealed", Continue("ready"))
      \/ Err
  BY DEF seal_source_parent
<1>4. CASE transition(t, "ParentSealIntent", Continue("ready"))
  BY <1>2, <1>4, MoveQuiet DEF QuietAts
<1>5. CASE transition(t, "ParentSealed", Continue("ready"))
  BY <1>2, <1>5, MoveQuiet DEF QuietAts
<1>6. CASE wal[t].state = "ParentSealIntent" /\ intend(t, Parent, None)
  BY <1>2, <1>6, IntendStep DEF Changing, Directories
<1>7. CASE Err
  BY <1>2, <1>7, StepsBack
<1> QED
  BY <1>3, <1>4, <1>5, <1>6, <1>7

LEMMA SealTreeStep ==
  ASSUME StagingAssumption, IInv, NEW t \in Tx, seal_tree(t), JournalFrame
  PROVE  IInv'
<1>1. At("stage", t, "ready")
  BY DEF seal_tree
<1>2. /\ op.tx = t /\ op.at = "ready" /\ op.at # "idle" /\ op.change = "none"
      /\ \A x : Spent(x, op.steps)
  BY <1>1, Staging
<1>3. \/ transition(t, "TreeSealIntent", Continue("ready"))
      \/ Unsealed(t) # {} /\ intend(t, Deepest(Unsealed(t)), None)
      \/ settle
  BY DEF seal_tree
<1>4. CASE transition(t, "TreeSealIntent", Continue("ready"))
  BY <1>2, <1>4, MoveQuiet DEF QuietAts
<1>5. CASE Unsealed(t) # {} /\ intend(t, Deepest(Unsealed(t)), None)
  <2>1. Unsealed(t) \subseteq TreeDirs
    BY DEF Unsealed
  <2>2. Unsealed(t) \in SUBSET Directories
    BY <2>1 DEF Directories
  <2>3. Deepest(Unsealed(t)) \in TreeDirs
    BY <1>5, <2>1, <2>2, DeepestIsOne
  <2>4. Deepest(Unsealed(t)) \in Directories /\ Deepest(Unsealed(t)) # Parent
    BY <2>3, SealWalAssumption DEF Directories
  <2> QED
    BY <1>2, <1>5, <2>4, IntendStep DEF Changing
<1>6. CASE settle
  BY <1>2, <1>6, SettleStep
<1> QED
  BY <1>3, <1>4, <1>5, <1>6

LEMMA CompleteTreeStep ==
  ASSUME StagingAssumption, IInv, NEW t \in Tx, complete_tree(t), JournalFrame
  PROVE  IInv'
<1> DEFINE y == [wal[t] EXCEPT !.manifest = TRUE, !.sidecar = TRUE]
<1>1. At("stage", t, "ready")
  BY DEF complete_tree
<1>2. /\ op.tx = t /\ op.at = "ready" /\ op.at # "idle" /\ op.change = "none"
      /\ \A x : Spent(x, op.steps)
  BY <1>1, Staging
<1>3. CASE transition(t, "TreeSealed", Continue("ready"))
  BY <1>2, <1>3, MoveQuiet DEF QuietAts
<1>4. CASE append_at(t, y, TRUE, Continue("ready"))
  <2>1. CompletesTree(t, y)
    BY DEF CompletesTree, complete_tree
  <2>2. y.ledger = wal[t].ledger
    BY NowIsSound, OneTx DEF Transactions
  <2> HIDE DEF y
  <2>3. Advances(t, y)
    BY <2>1 DEF Advances
  <2> QED
    BY Zenon, <1>2, <1>4, <2>2, <2>3, AppendQuiet DEF QuietAts
<1> QED
  BY Zenon, <1>3, <1>4 DEF complete_tree

LEMMA RenameIntentStep ==
  ASSUME StagingAssumption, IInv, NEW t \in Tx, record_rename_intent(t), JournalFrame
  PROVE  IInv'
<1> DEFINE y == [wal[t] EXCEPT !.state = "RenameIntent"]
<1>1. At("stage", t, "ready")
  BY DEF record_rename_intent
<1>2. /\ op.tx = t /\ op.at # "idle" /\ op.change = "none" /\ op \in Operations /\ op.steps = 0
      /\ op.plan \subseteq Admitted(wal[t].ledger) /\ op.name = "stage"
  BY <1>1, Staging DEF At
<1>3. IntendsRename(t, y)
  BY DEF IntendsRename, record_rename_intent
<1>4. y.state = "RenameIntent" /\ y.ledger = wal[t].ledger
  BY NowIsSound, OneTx DEF Transactions
<1>5. append_at(t, y, TRUE, Continue("rename")) \/ Err
  BY Zenon DEF record_rename_intent
<1> HIDE DEF y
<1>6. Advances(t, y) /\ y.rename = None
  BY <1>3, NowIsSound, IntendsRenameFits DEF Advances
<1>7. \/ Synced(t, y) /\ Continue("rename")
      \/ Stood(t, y) /\ Fails
      \/ Err
  BY Zenon, <1>5, AppendCases
<1>8. CASE Err
  BY <1>2, <1>8, StepsBack
<1>9. CASE Stood(t, y) /\ Fails
  BY <1>2, <1>6, <1>9, FailsStep DEF Journalled
<1>10. CASE Synced(t, y) /\ Continue("rename")
  <2>1. Journalled(t) /\ wal'[t] = y /\ Held' = {wal'}
    BY <1>6, <1>10, SyncedTx
  <2>2. /\ op' \in Operations /\ op'.name = "stage" /\ op'.tx = t /\ op'.change = "none"
        /\ op'.plan = op.plan /\ op'.steps = 0 /\ op'.at = "rename"
    BY <1>2, <1>10 DEF Operations, Ats, Continue
  <2>3. Renaming(t, "RenameIntent")' /\ Stays(t, "source")'
    <3>1. InPlace(wal[t], loc[t], stable[t]) /\ wal[t].state = "TreeSealed"
      BY <1>3, NowIsSound, OneTx DEF IntendsRename
    <3>2. loc' = loc /\ stable' = stable
      BY DEF JournalFrame, fsVars
    <3> QED
      BY <1>4, <1>6, <2>1, <3>1, <3>2 DEF Renaming, Stays, InPlace, AtSource
  <2>4. OpShape' /\ OpChange' /\ OpRecovery'
    BY <1>2, <1>4, <2>1, <2>2, NothingSpent DEF OpShape, OpChange, OpRecovery
  <2>5. OpStage' /\ OpUndo' /\ OpPurge'
    BY <2>2, <2>3 DEF OpStage, OpUndo, OpPurge
  <2> QED
    BY <2>1, <2>2, <2>4, <2>5, JournalStep DEF OpInv
<1> QED
  BY <1>7, <1>8, <1>9, <1>10

LEMMA RenamedErrorStep ==
  ASSUME StagingAssumption, IInv, NEW t \in Tx, JournalFrame, stage_error(t) \/ renamed_error(t)
  PROVE  IInv'
<1>1. op.tx = t /\ op.at # "idle" /\ Error("error")
  BY DEF stage_error, renamed_error, At
<1> QED
  BY <1>1, StepsBack

LEMMA RenameOutcomeStep ==
  ASSUME StagingAssumption, IInv, NEW t \in Tx, record_rename_outcome(t), JournalFrame
  PROVE  IInv'
<1> DEFINE yes == [wal[t] EXCEPT !.rename = "Applied"]
           no == [wal[t] EXCEPT !.rename = "NotApplied"]
<1>0. wal \in Held
  BY DEF Held
<1>1. CASE At("stage", t, "synced") /\ append_at(t, yes, TRUE, Continue("moved"))
  <2>1. /\ op.tx = t /\ op.at = "synced" /\ op.at # "idle" /\ op.change = "none"
        /\ \A x : Spent(x, op.steps) /\ op.name = "stage"
    BY <1>1, Staging DEF At
  <2>2. RecordsRename(t, yes)
    BY <1>0, <2>1 DEF IInv, OpInv, OpStage, Renaming, RecordsRename
  <2>3. yes.ledger = wal[t].ledger
    BY NowIsSound, OneTx DEF Transactions
  <2> HIDE DEF yes
  <2>4. Advances(t, yes)
    BY <2>2 DEF Advances
  <2> QED
    BY ZenonT(60), <1>1, <2>1, <2>3, <2>4, AppendQuiet DEF QuietAts
<1>2. CASE At("stage", t, "collided") /\ append_at(t, no, TRUE, Fails)
  <2>1. /\ op.tx = t /\ op.at = "collided" /\ op.at # "idle" /\ op.change = "none"
        /\ op.name = "stage"
    BY <1>2, Staging DEF At
  <2>2. RecordsRename(t, no)
    BY <1>0, <2>1 DEF IInv, OpInv, OpStage, Renaming, RecordsRename
  <2>3. append_at(t, no, TRUE, Fails)
    BY Zenon, <1>2
  <2> HIDE DEF no
  <2>4. Advances(t, no)
    BY <2>2 DEF Advances
  <2>5. (Wrote(t, no) \/ Stood(t, no)) /\ Fails
    BY ZenonT(60), <2>3, AppendCases
  <2> QED
    BY <2>1, <2>4, <2>5, FailsStep DEF Journalled
<1>3. CASE At("stage", t, "moved")
           /\ transition(t, "StagedUnverified",
                         op' = Working("forward", t, "decide") /\ UNCHANGED blocked)
  <2>1. op.tx = t /\ op.at # "idle"
    BY <1>3, Staging
  <2>2. \/ Moved(t, "StagedUnverified") /\ op' = Working("forward", t, "decide")
        \/ Journalled(t) /\ Fails
    BY ZenonT(60), <1>3, TransitionCases
  <2>3. CASE Moved(t, "StagedUnverified") /\ op' = Working("forward", t, "decide")
    BY <2>3, MovedTx, WorkingOp, JournalStep
  <2>4. CASE Journalled(t) /\ Fails
    BY <2>1, <2>4, FailsStep
  <2> QED
    BY <2>2, <2>3, <2>4
<1> QED
  BY Zenon, <1>1, <1>2, <1>3 DEF record_rename_outcome

-----------------------------------------------------------------------------
(* Recovery *)

\* Which states a recovery decision is made in.
LEMMA WorkOf ==
  ASSUME NEW x \in Transactions
  PROVE  LET work == decide_recovery(x)
         IN  /\ work = "FinalizePurge" => x.state = "PurgeOutcome"
             /\ work = "FinalizeVerifiedCommit" => x.state = "SourceParentRestored"
             /\ work = "FinalizeVerifiedUndo" => x.state = "UndoRenameIntent" /\ x.undo # None
             /\ work = "ResumeVerifiedUndo" => x.state \in {"UndoIntent", "UndoModesRestored"}
             /\ work = "RestoreQuarantinedSeals" => x.state = "Quarantined"
             /\ work = "VerifyOrQuarantineAfterRename" =>
                  \/ x.state \in {"StagedUnverified", "RollbackIntent"}
                  \/ x.state = "RenameIntent" /\ x.rename = "Applied"
             /\ work = "RestoreSourceParentAfterRename" =>
                  x.state \in {"StagedSealed", "SourceParentRestoreIntent"}
             /\ work = "RestoreBeforeRename" =>
                  \/ x.state \in BeforeRenameStates \cup {"RestoreIntent"}
                  \/ x.state = "RenameIntent" /\ x.rename = "NotApplied"
             /\ work = "ResolveUncertainPermissions" => x.state # "RecoveryRequired"
<1> DEFINE settled == {None, "Restored", "RolledBack", "VerifiedCommitted", "Purgeable", "Purged",
                       "UndoConflict", "PurgeOutcome", "PurgeIntent", "RecoveryRequired"}
<1>1. x.state \in TransactionStates \cup {None} /\ x.rename \in {None, "Applied", "NotApplied"}
  BY DEF Transactions
<1>2. CASE x.state \in settled
  BY <1>2, SealWalAssumption DEF decide_recovery, TransactionStates
<1>3. CASE x.state \notin settled
  <2>1. decide_recovery(x) = decide_from_records(x)
    BY <1>3 DEF decide_recovery
  <2>2. CASE Unresolved(x.ledger) # {}
    BY <1>3, <2>1, <2>2 DEF decide_from_records
  <2>3. CASE Unresolved(x.ledger) = {}
    BY <1>1, <1>3, <2>1, <2>3 DEF decide_from_records, TransactionStates, IntentPhases, SealPhases,
       InversePhases, BeforeRenameStates, BeforeRename
  <2> QED
    BY <2>2, <2>3
<1> QED
  BY <1>2, <1>3

\* A set of transactions has a first one.
LEMMA FirstIsOne ==
  ASSUME StagingAssumption, NEW S \in SUBSET Tx, S # {}
  PROVE  (CHOOSE u \in S : \A v \in S : u <= v) \in S
<1>1. S \subseteq Nat
  BY DEF StagingAssumption
<1>2. PICK x \in S : \A y \in S : ~(<<y, x>> \in OpToRel(<, Nat))
  BY ZenonT(60), <1>1, NatLessThanWellFounded, WFMin
<1>3. \A y \in S : ~(y < x)
  BY Zenon, <1>1, <1>2 DEF OpToRel
<1>4. \A y \in S : x <= y
  BY <1>1, <1>3
<1> QED
  BY <1>4

\* What is known of a recovery of t.
LEMMA Recovering ==
  ASSUME IInv, NEW t \in Tx, NEW at, Recovers(t, at), at # "idle"
  PROVE  /\ op.tx = t /\ op.at = at /\ op.at # "idle" /\ op.change = "none"
         /\ op.name \in {"startup", "forward"} /\ op \in Operations /\ op.steps \in Nat
         /\ op.plan \subseteq Admitted(wal[t].ledger) /\ Spent(wal[t], op.steps)
         /\ wal[t] \in Transactions
<1>1. op.tx = t /\ op.at = at /\ op.change = "none" /\ op.name \in {"startup", "forward"}
  BY DEF Recovers, At
<1>2. op \in Operations /\ op.plan \subseteq Admitted(wal[t].ledger) /\ Spent(wal[t], op.steps)
  BY <1>1, BusyOp
<1> QED
  BY <1>1, <1>2, NowIsSound, OneTx DEF Operations

LEMMA TerminalStep ==
  ASSUME StagingAssumption, IInv, NEW t \in Tx, recover_terminal(t), JournalFrame
  PROVE  IInv'
<1> DEFINE later == {u \in Tx : u > t /\ recovery_work_requires_candidate(wal[u])}
           next == CHOOSE u \in later : \A v \in later : u <= v
<1>1. Journalled(t)
  BY Unwritten DEF recover_terminal, walVars
<1>2. op' \in {Idle, Down} \/ (later # {} /\ op' = Working("startup", next, "decide"))
  BY DEF recover_terminal, Finish
<1>3. CASE op' \in {Idle, Down}
  BY <1>1, <1>3, RestOp, JournalStep
<1>4. CASE later # {} /\ op' = Working("startup", next, "decide")
  <2>1. later \in SUBSET Tx
    OBVIOUS
  <2> HIDE DEF later
  <2>2. next \in Tx
    BY <1>4, <2>1, FirstIsOne
  <2>3. op' = Working("startup", next, "decide")
    BY <1>4
  <2> HIDE DEF next
  <2>4. op' \in Operations /\ OpInv'
    BY <2>2, <2>3, WorkingOp
  <2> QED
    BY <1>1, <2>4, JournalStep
<1> QED
  BY <1>2, <1>3, <1>4

LEMMA ForbiddenStep ==
  ASSUME StagingAssumption, IInv, NEW t \in Tx, JournalFrame,
         recover_forbidden(t) \/ recover_drifted(t)
  PROVE  IInv'
<1>1. op.tx = t /\ op.at # "idle" /\ fail_closed(t)
  BY DEF recover_forbidden, recover_drifted, Recovers, At
<1> QED
  BY <1>1, StepsBack

LEMMA FinalizeStep ==
  ASSUME StagingAssumption, IInv, NEW t \in Tx, recover_finalize(t), JournalFrame
  PROVE  IInv'
<1> DEFINE next == Finalized(t)
<1>1. Recovers(t, "decide") /\ transition(t, next, Finish([op EXCEPT !.steps = op.steps + 1]))
  BY DEF recover_finalize
<1>2. /\ op.tx = t /\ op.at = "decide" /\ op.at # "idle" /\ op.change = "none"
      /\ op.name \in {"startup", "forward"} /\ op \in Operations /\ op.steps \in Nat
      /\ op.plan \subseteq Admitted(wal[t].ledger) /\ Spent(wal[t], op.steps)
      /\ wal[t] \in Transactions
  BY <1>1, Recovering
<1>3. \/ wal[t].state = "PurgeOutcome" /\ next = "Purged"
      \/ wal[t].state = "SourceParentRestored" /\ next = "VerifiedCommitted"
      \/ wal[t].state = "UndoRenameIntent" /\ next \in {"Restored", "UndoConflict"}
  BY <1>2, WorkOf DEF recover_finalize, Finalized, Work
<1> HIDE DEF next
<1>4. \/ Moved(t, next) /\ op' = [op EXCEPT !.steps = op.steps + 1]
      \/ Journalled(t) /\ Fails
  <2>1. \/ Moved(t, next) /\ Finish([op EXCEPT !.steps = op.steps + 1])
        \/ Journalled(t) /\ Fails
    BY <1>1, TransitionCases
  <2> QED
    BY <2>1 DEF Finish
<1>5. CASE Moved(t, next) /\ op' = [op EXCEPT !.steps = op.steps + 1]
  <2>1. Journalled(t) /\ wal'[t].state = next /\ wal'[t].ledger = wal[t].ledger
    BY <1>5, MovedTx
  <2>2. /\ op' \in Operations /\ op'.name = op.name /\ op'.tx = t /\ op'.change = "none"
        /\ op'.plan = op.plan /\ op'.steps = op.steps + 1 /\ op'.at = "decide"
    BY <1>2, <1>5 DEF Operations
  <2>3. Spent(wal'[t], op.steps + 1)
    BY <1>2, <1>3, <2>1 DEF Spent
  <2>4. OpInv'
    BY <1>2, <2>1, <2>2, <2>3, QuietOp DEF QuietAts, OpChange
  <2> QED
    BY <2>1, <2>2, <2>4, JournalStep
<1>6. CASE Journalled(t) /\ Fails
  BY <1>2, <1>6, FailsStep
<1> QED
  BY <1>4, <1>5, <1>6

LEMMA ResolveStep ==
  ASSUME StagingAssumption, IInv, NEW t \in Tx, resolve_uncertain_permissions(t), JournalFrame
  PROVE  IInv'
<1>1. PICK m \in Unresolved(wal[t].ledger) :
        /\ Recovers(t, "decide") /\ Work(t) = "ResolveUncertainPermissions"
        /\ \/ fail_closed(t)
           \/ append_at(t, Resolved(t, m, "Applied"), TRUE, Continue("decide"))
           \/ append_at(t, Resolved(t, m, "ConfirmedNotApplied"), TRUE, Continue("decide"))
  BY ZenonT(60) DEF resolve_uncertain_permissions, Resolved
<1>2. /\ op.tx = t /\ op.at = "decide" /\ op.at # "idle" /\ op.change = "none"
      /\ Spent(wal[t], op.steps) /\ wal[t] \in Transactions
  BY <1>1, Recovering
<1>3. m \in MutationIds /\ m \in Admitted(wal[t].ledger) /\ may_resolve(wal[t], m)
  <2>1. wal[t].state # "RecoveryRequired"
    BY <1>1, <1>2, WorkOf DEF Work
  <2>2. wal[t].state = wal[t].ledger.permissions[m].phase
    BY <2>1, NowIsSound, OneTx DEF Timely
  <2> QED
    BY <2>2 DEF may_resolve, Unresolved, Admitted
<1>4. ASSUME NEW resolution \in {"Applied", "ConfirmedNotApplied"},
             append_at(t, Resolved(t, m, resolution), TRUE, Continue("decide"))
      PROVE  IInv'
  <2> DEFINE y == Resolved(t, m, resolution)
             after == record_resolution(wal[t].ledger, m, resolution)
  <2>1. Advances(t, y)
    BY <1>3 DEF Advances, Resolves
  <2>2. Admitted(after) = Admitted(wal[t].ledger)
    BY <1>2, <1>3, ResolutionEntries DEF Transactions
  <2>3. y = [wal[t] EXCEPT !.ledger = after]
    BY DEF Resolved
  <2>4. append_at(t, y, TRUE, Continue("decide"))
    BY ZenonT(60), <1>4
  <2> HIDE DEF after, y
  <2>5. y.ledger = after /\ y.state = wal[t].state
    BY <1>2, <2>3 DEF Transactions
  <2>6. Spent(y, op.steps)
    BY <1>2, <2>5 DEF Spent
  <2> QED
    BY ZenonT(60), <1>2, <2>1, <2>2, <2>4, <2>5, <2>6, AppendQuiet DEF QuietAts
<1> QED
  BY Zenon, <1>1, <1>2, <1>4, StepsBack

LEMMA DriftStep ==
  ASSUME StagingAssumption, IInv, NEW t \in Tx, recovery_drift(t), JournalFrame
  PROVE  IInv'
<1>1. Recovers(t, "decide") /\ UNCHANGED walVars
  BY DEF recovery_drift
<1>2. /\ op.tx = t /\ op.at = "decide" /\ op.at # "idle" /\ op.change = "none"
      /\ op.name \in {"startup", "forward"} /\ op \in Operations /\ op.steps \in Nat
      /\ op.plan \subseteq Admitted(wal[t].ledger) /\ Spent(wal[t], op.steps)
  BY <1>1, Recovering
<1>3. Journalled(t) /\ wal' = wal
  BY <1>1, Unwritten DEF walVars
<1>4. \/ op' = [op EXCEPT !.at = "drifted"]
      \/ op' = [op EXCEPT !.at = "mismatch"] /\ wal[t].state = "StagedUnverified"
  BY DEF recovery_drift, Continue
<1>5. CASE op' = [op EXCEPT !.at = "drifted"]
  BY <1>2, <1>3, <1>5, QuietStep DEF QuietAts
<1>6. CASE op' = [op EXCEPT !.at = "mismatch"] /\ wal[t].state = "StagedUnverified"
  <2>1. /\ op' \in Operations /\ op'.name = op.name /\ op'.tx = t /\ op'.change = "none"
        /\ op'.plan = op.plan /\ op'.steps = op.steps /\ op'.at = "mismatch"
    BY <1>2, <1>6 DEF Operations, Ats
  <2>2. OpInv'
    BY <1>2, <1>3, <1>6, <2>1
       DEF OpInv, OpShape, OpChange, OpStage, OpUndo, OpPurge, OpRecovery
  <2> QED
    BY <1>3, <2>1, <2>2, JournalStep
<1> QED
  BY <1>4, <1>5, <1>6

LEMMA VerifyStep ==
  ASSUME StagingAssumption, IInv, NEW t \in Tx, verify_or_quarantine(t), JournalFrame
  PROVE  IInv'
<1>1. PICK at \in {"decide", "mismatch"} : Recovers(t, at)
  BY DEF verify_or_quarantine
<1>2. /\ op.tx = t /\ op.at = at /\ op.at # "idle" /\ op.change = "none"
      /\ op.name \in {"startup", "forward"} /\ op.steps \in Nat /\ Spent(wal[t], op.steps)
      /\ wal[t] \in Transactions
  BY <1>1, Recovering
<1>3. \/ fail_closed(t)
      \/ wal[t].state = "RenameIntent" /\ transition(t, "StagedUnverified", Continue("decide"))
      \/ \E next \in {"StagedSealed", "Quarantined"} :
           wal[t].state = "StagedUnverified" /\ transition(t, next, Turn)
  <2>1. CASE Recovers(t, "mismatch") /\ transition(t, "Quarantined", Turn)
    <3>1. op.at = "mismatch"
      BY <2>1 DEF Recovers, At
    <3>2. wal[t].state = "StagedUnverified"
      BY <1>2, <3>1 DEF IInv, OpInv, OpRecovery
    <3> QED
      BY <2>1, <3>2
  <2>2. CASE /\ Work(t) = "VerifyOrQuarantineAfterRename"
             /\ IF ~rebind_committed(t) THEN fail_closed(t)
                ELSE IF wal[t].state = "RenameIntent"
                     THEN transition(t, "StagedUnverified", Continue("decide"))
                ELSE transition(t, IF sidecar[t] = "valid" THEN "StagedSealed" ELSE "Quarantined",
                                Turn)
    <3>1. wal[t].state \in {"StagedUnverified", "RollbackIntent", "RenameIntent"}
      BY <1>2, <2>2, WorkOf DEF Work
    <3>2. wal[t].state # "RollbackIntent"
      BY NowIsSound, OneTx DEF InPlace
    <3> QED
      BY <2>2, <3>1, <3>2
  <2> QED
    BY <2>1, <2>2 DEF verify_or_quarantine
<1>4. CASE fail_closed(t)
  BY <1>2, <1>4, StepsBack
<1>5. CASE wal[t].state = "RenameIntent" /\ transition(t, "StagedUnverified", Continue("decide"))
  <2>1. op.steps = 0
    BY <1>2, <1>5 DEF Spent
  <2> QED
    BY <1>2, <1>5, <2>1, NothingSpent, MoveQuiet DEF QuietAts
<1>6. ASSUME NEW next \in {"StagedSealed", "Quarantined"}, wal[t].state = "StagedUnverified",
             transition(t, next, Turn)
      PROVE  IInv'
  <2>1. op.steps = 0
    BY <1>2, <1>6 DEF Spent
  <2>2. \A x : x.state = next => Spent(x, op.steps) /\ Spent(x, op.steps + 1)
    BY <2>1 DEF Spent
  <2> QED
    BY <1>2, <1>6, <2>2, MoveTurn
<1> QED
  BY <1>3, <1>4, <1>5, <1>6

LEMMA PlansAreAdmitted ==
  ASSUME NEW t \in Tx
  PROVE  /\ RestorePlan(t) \subseteq Admitted(wal[t].ledger)
         /\ TreeSeals(t) \subseteq Admitted(wal[t].ledger)
BY DEF RestorePlan, TreeSeals, ActiveSeals

LEMMA RestoreBeginStep ==
  ASSUME StagingAssumption, IInv, NEW t \in Tx, restore_begin(t), JournalFrame
  PROVE  IInv'
<1> DEFINE next == RestoreIntentOf(t)
           plan == RestorePlan(t)
<1>1. /\ Recovers(t, "decide")
      /\ \/ fail_closed(t)
         \/ /\ wal[t].state = next /\ op' = [op EXCEPT !.at = "restoring", !.plan = plan]
            /\ UNCHANGED <<walVars, faults>>
         \/ transition(t, next, op' = [op EXCEPT !.at = "restoring", !.plan = plan]
                                /\ UNCHANGED blocked)
  BY Zenon DEF restore_begin
<1>2. /\ op.tx = t /\ op.at = "decide" /\ op.at # "idle" /\ op.change = "none"
      /\ op.name \in {"startup", "forward"} /\ op \in Operations /\ op.steps \in Nat
      /\ Spent(wal[t], op.steps) /\ wal[t] \in Transactions
  BY <1>1, Recovering
<1>3. /\ \/ wal[t].state \in BeforeRename \cup {"RestoreIntent"} /\ next = "RestoreIntent"
         \/ /\ wal[t].state \in {"StagedSealed", "SourceParentRestoreIntent"}
            /\ next = "SourceParentRestoreIntent"
         \/ wal[t].state = "Quarantined" /\ next = "Quarantined"
      /\ plan \subseteq Admitted(wal[t].ledger) /\ plan \subseteq MutationIds
  <2>1. \/ wal[t].state \in BeforeRename \cup {"RestoreIntent"} /\ next = "RestoreIntent"
        \/ /\ wal[t].state \in {"StagedSealed", "SourceParentRestoreIntent"}
           /\ next = "SourceParentRestoreIntent"
        \/ wal[t].state = "Quarantined" /\ next = "Quarantined"
    BY <1>2, WorkOf DEF restore_begin, RestoreIntentOf, Work, BeforeRenameStates, BeforeRename
  <2> QED
    BY <2>1, PlansAreAdmitted DEF Admitted
<1> HIDE DEF next, plan
<1>4. ASSUME Journalled(t), wal'[t].state = next, wal'[t].ledger = wal[t].ledger,
             op' = [op EXCEPT !.at = "restoring", !.plan = plan]
      PROVE  IInv'
  <2>1. /\ op' \in Operations /\ op'.name = op.name /\ op'.tx = t /\ op'.change = "none"
        /\ op'.plan = plan /\ op'.steps = op.steps /\ op'.at = "restoring"
    BY ZenonT(60), <1>2, <1>3, <1>4 DEF Operations, Ats
  <2>2. Spent(wal'[t], op.steps)
    BY <1>2, <1>3, <1>4 DEF Spent, BeforeRename
  <2>3. OpInv'
    BY <1>2, <1>3, <1>4, <2>1, <2>2, QuietOp DEF OpChange
  <2> QED
    BY <1>4, <2>1, <2>3, JournalStep
<1>5. CASE fail_closed(t)
  BY <1>2, <1>5, StepsBack
<1>6. CASE /\ wal[t].state = next /\ op' = [op EXCEPT !.at = "restoring", !.plan = plan]
           /\ UNCHANGED <<walVars, faults>>
  <2>1. Journalled(t) /\ wal' = wal
    BY <1>6, Unwritten DEF walVars
  <2> QED
    BY <1>4, <1>6, <2>1
<1>7. CASE transition(t, next, op' = [op EXCEPT !.at = "restoring", !.plan = plan]
                               /\ UNCHANGED blocked)
  <2>1. \/ Moved(t, next) /\ op' = [op EXCEPT !.at = "restoring", !.plan = plan]
        \/ Journalled(t) /\ Fails
    BY ZenonT(60), <1>7, TransitionCases
  <2>2. CASE Moved(t, next) /\ op' = [op EXCEPT !.at = "restoring", !.plan = plan]
    BY <1>4, <2>2, MovedTx
  <2>3. CASE Journalled(t) /\ Fails
    BY <1>2, <2>3, FailsStep
  <2> QED
    BY <2>1, <2>2, <2>3
<1> QED
  BY <1>1, <1>5, <1>6, <1>7

LEMMA RestoreNextStep ==
  ASSUME StagingAssumption, IInv, NEW t \in Tx, restore_next(t), JournalFrame
  PROVE  IInv'
<1> DEFINE permissions == wal[t].ledger.permissions
           dirs == {permissions[m].dir : m \in op.plan}
           d == Deepest(dirs)
           k == CHOOSE m \in op.plan : permissions[m].dir = d
<1>1. op.tx = t /\ op.at \in {"restoring", "undoing"} /\ op.change = "none" /\ op.plan # {}
  BY DEF restore_next
<1>2. op.at # "idle" /\ op.at \in Changing
  BY <1>1 DEF Changing
<1>3. intend(t, d, k) \/ Err
  BY DEF restore_next
<1>4. op.plan \subseteq Admitted(wal[t].ledger) /\ wal[t].ledger \in Ledgers
  BY <1>1, <1>2, BusyOp, NowIsSound, OneTx
<1>5. \A m \in op.plan : m \in MutationIds /\ permissions[m] \in PermissionEntries
  BY <1>4 DEF Admitted, Ledgers
<1>6. dirs \in SUBSET Directories /\ dirs # {}
  BY <1>1, <1>5 DEF PermissionEntries
<1>7. d \in dirs
  <2> HIDE DEF dirs
  <2> QED
    BY <1>6, DeepestIsOne
<1>8. PICK m \in op.plan : permissions[m].dir = d
  BY ZenonT(60), <1>7
<1> HIDE DEF d
<1>9. k \in op.plan
  BY <1>8
<1> HIDE DEF k
<1>10. d \in Directories /\ k \in MutationIds /\ k # None
  BY <1>5, <1>6, <1>7, <1>9, SealWalAssumption
<1> QED
  BY <1>1, <1>2, <1>3, <1>10, IntendStep, StepsBack

LEMMA RestoreErrorStep ==
  ASSUME StagingAssumption, IInv, NEW t \in Tx, JournalFrame,
         require_room_to_retry(t) \/ restore_error(t)
  PROVE  IInv'
<1>1. op.tx = t /\ op.at # "idle" /\ (fail_closed(t) \/ Error("error"))
  BY DEF require_room_to_retry, restore_error
<1> QED
  BY <1>1, StepsBack

LEMMA RestoreCompleteStep ==
  ASSUME StagingAssumption, IInv, NEW t \in Tx, restore_complete(t), JournalFrame
  PROVE  IInv'
<1> DEFINE next == Completion(wal[t].state)
<1>1. Recovers(t, "restoring")
  BY DEF restore_complete
<1>2. /\ op.tx = t /\ op.at = "restoring" /\ op.at # "idle" /\ op.change = "none"
      /\ op.name \in {"startup", "forward"} /\ op.steps \in Nat
      /\ Spent(wal[t], op.steps) /\ wal[t] \in Transactions
  BY <1>1, Recovering
<1>3. wal[t].state \in {"RestoreIntent", "SourceParentRestoreIntent", "Quarantined"}
  BY <1>2 DEF IInv, OpInv, OpRecovery
<1>4. \/ settle
      \/ wal[t].state # "Quarantined" /\ transition(t, next, Turn)
      \/ safe_terminal_state(wal[t]) /\ UNCHANGED walVars /\ Turn
      \/ Err
  BY DEF restore_complete
<1>5. CASE settle
  BY <1>2, <1>5, SettleStep
<1>6. CASE wal[t].state # "Quarantined" /\ transition(t, next, Turn)
  <2>1. \/ wal[t].state = "RestoreIntent" /\ next = "Restored"
        \/ wal[t].state = "SourceParentRestoreIntent" /\ next = "SourceParentRestored"
    BY <1>3, <1>6 DEF Completion
  <2> HIDE DEF next
  <2>2. \A x : x.state = next =>
          Spent(x, op.steps) /\ (safe_terminal_state(x) \/ Spent(x, op.steps + 1))
    BY <1>2, <2>1 DEF Spent, safe_terminal_state
  <2> QED
    BY <1>2, <1>6, <2>2, MoveTurn
<1>7. CASE safe_terminal_state(wal[t]) /\ UNCHANGED walVars /\ Turn
  <2>1. Journalled(t) /\ wal' = wal
    BY <1>7, Unwritten DEF walVars
  <2> QED
    BY <1>2, <1>7, <2>1, TurnStep
<1>8. CASE Err
  BY <1>2, <1>8, StepsBack
<1> QED
  BY <1>4, <1>5, <1>6, <1>7, <1>8

-----------------------------------------------------------------------------
(* The frames of an undo and of a purge *)

\* An operation at a point of an undo.
LEMMA Undoing ==
  ASSUME IInv, NEW t \in Tx, NEW at, Undoes(t, at), at # "idle"
  PROVE  /\ op.tx = t /\ op.at = at /\ op.at # "idle" /\ op.change = "none"
         /\ op.name \in {"startup", "undo"} /\ op \in Operations /\ op.steps \in Nat
         /\ op.name = "undo" => op.steps = 0
         /\ op.plan \subseteq Admitted(wal[t].ledger) /\ Spent(wal[t], op.steps)
         /\ wal[t] \in Transactions
<1>1. op.tx = t /\ op.at = at /\ op.change = "none" /\ op.name \in {"startup", "undo"}
  BY DEF Undoes, At
<1>2. /\ op \in Operations /\ op.plan \subseteq Admitted(wal[t].ledger) /\ Spent(wal[t], op.steps)
      /\ op.name \notin {"startup", "forward"} => op.steps = 0
  BY <1>1, BusyOp
<1> QED
  BY <1>1, <1>2, NowIsSound, OneTx DEF Operations

LEMMA ResumeUndoStep ==
  ASSUME StagingAssumption, IInv, NEW t \in Tx, resume_verified_undo(t), JournalFrame
  PROVE  IInv'
<1> DEFINE plan == TreeSeals(t)
<1>1. /\ Recovers(t, "decide")
      /\ \/ fail_closed(t)
         \/ UNCHANGED walVars /\ op' = [op EXCEPT !.at = "undoing", !.plan = plan]
         \/ UNCHANGED walVars /\ op' = [op EXCEPT !.at = "undone"]
  BY DEF resume_verified_undo
<1>2. /\ op.tx = t /\ op.at = "decide" /\ op.at # "idle" /\ op.change = "none"
      /\ op.name \in {"startup", "forward"} /\ op \in Operations
      /\ Spent(wal[t], op.steps)
  BY <1>1, Recovering
<1>3. plan \subseteq Admitted(wal[t].ledger) /\ plan \subseteq MutationIds
  BY PlansAreAdmitted DEF Admitted
<1> HIDE DEF plan
<1>4. CASE fail_closed(t)
  BY <1>2, <1>4, StepsBack
<1>5. CASE UNCHANGED walVars /\ op' = [op EXCEPT !.at = "undoing", !.plan = plan]
  <2>1. Journalled(t) /\ wal' = wal
    BY <1>5, Unwritten DEF walVars
  <2>2. /\ op' \in Operations /\ op'.name = op.name /\ op'.tx = t /\ op'.change = "none"
        /\ op'.plan = plan /\ op'.steps = op.steps /\ op'.at = "undoing"
    BY ZenonT(60), <1>2, <1>3, <1>5 DEF Operations, Ats
  <2>3. OpInv'
    BY <1>2, <1>3, <2>1, <2>2, QuietOp DEF OpChange, QuietAts
  <2> QED
    BY <2>1, <2>2, <2>3, JournalStep
<1>6. CASE UNCHANGED walVars /\ op' = [op EXCEPT !.at = "undone"]
  <2>1. Journalled(t) /\ wal' = wal
    BY <1>6, Unwritten DEF walVars
  <2> QED
    BY <1>2, <1>6, <2>1, QuietStep DEF QuietAts
<1> QED
  BY <1>1, <1>4, <1>5, <1>6

LEMMA UndoIntentStep ==
  ASSUME StagingAssumption, IInv, NEW t \in Tx, undo_intent(t), JournalFrame
  PROVE  IInv'
<1> DEFINE plan == TreeSeals(t)
<1>1. /\ Undoes(t, "prepared")
      /\ \/ transition(t, "RecoveryRequired", Fails)
         \/ Err
         \/ transition(t, "UndoIntent", op' = [op EXCEPT !.at = "undoing", !.plan = plan]
                                        /\ UNCHANGED blocked)
  BY ZenonT(60) DEF undo_intent, VerifiedThen
<1>2. /\ op.tx = t /\ op.at = "prepared" /\ op.at # "idle" /\ op.change = "none"
      /\ op \in Operations
      /\ op.name = "undo" => op.steps = 0
  BY <1>1, Undoing
<1>3. op.name = "undo"
  BY <1>2 DEF IInv, OpInv, OpUndo
<1>4. plan \subseteq Admitted(wal[t].ledger) /\ plan \subseteq MutationIds
  BY PlansAreAdmitted DEF Admitted
<1> HIDE DEF plan
<1>5. CASE Moved(t, "UndoIntent") /\ op' = [op EXCEPT !.at = "undoing", !.plan = plan]
  <2>1. Journalled(t) /\ wal'[t].ledger = wal[t].ledger
    BY <1>5, MovedTx
  <2>2. /\ op' \in Operations /\ op'.name = op.name /\ op'.tx = t /\ op'.change = "none"
        /\ op'.plan = plan /\ op'.steps = 0 /\ op'.at = "undoing"
    BY Zenon, <1>2, <1>3, <1>4, <1>5 DEF Operations, Ats
  <2>3. OpInv'
    BY <1>3, <1>4, <2>1, <2>2, NothingSpent, QuietOp DEF OpChange, QuietAts
  <2> QED
    BY <2>1, <2>2, <2>3, JournalStep
<1>6. CASE transition(t, "UndoIntent", op' = [op EXCEPT !.at = "undoing", !.plan = plan]
                                       /\ UNCHANGED blocked)
  <2>1. \/ Moved(t, "UndoIntent") /\ op' = [op EXCEPT !.at = "undoing", !.plan = plan]
        \/ Journalled(t) /\ Fails
    BY Zenon, <1>6, TransitionCases
  <2> QED
    BY <1>2, <1>5, <2>1, FailsStep
<1> QED
  BY <1>1, <1>2, <1>6, StepsBack

LEMMA UndoModesStep ==
  ASSUME StagingAssumption, IInv, NEW t \in Tx, undo_modes_restored(t), JournalFrame
  PROVE  IInv'
<1>1. Undoes(t, "undoing") /\ (settle \/ transition(t, "UndoModesRestored", Continue("undone")))
  BY DEF undo_modes_restored
<1>2. op.tx = t /\ op.at # "idle" /\ op.change = "none" /\ Spent(wal[t], op.steps)
  BY <1>1, Undoing
<1>3. may_transition(wal[t], "UndoModesRestored") => op.steps = 0
  <2>1. may_transition(wal[t], "UndoModesRestored") => wal[t].state = "UndoIntent"
    BY DEF may_transition, transition_inner, valid_transition
  <2> QED
    BY <1>2, <2>1 DEF Spent
<1>4. CASE transition(t, "UndoModesRestored", Continue("undone"))
  BY <1>2, <1>3, <1>4, NothingSpent, MoveQuiet DEF QuietAts
<1> QED
  BY <1>1, <1>2, <1>4, SettleStep

LEMMA UndoRenameIntentStep ==
  ASSUME StagingAssumption, IInv, NEW t \in Tx, undo_rename_intent(t), JournalFrame
  PROVE  IInv'
<1>1. /\ Undoes(t, "undone")
      /\ \/ transition(t, "RecoveryRequired", Fails)
         \/ Err
         \/ transition(t, "UndoRenameIntent", Continue("return"))
  BY DEF undo_rename_intent, VerifiedThen
<1>2. /\ op.tx = t /\ op.at = "undone" /\ op.at # "idle" /\ op.change = "none"
      /\ op.name \in {"startup", "undo"} /\ op \in Operations
      /\ op.name = "undo" => op.steps = 0
      /\ op.plan \subseteq Admitted(wal[t].ledger) /\ Spent(wal[t], op.steps)
  BY <1>1, Undoing
<1>3. CASE Moved(t, "UndoRenameIntent") /\ Continue("return")
  <2>1. /\ Journalled(t) /\ wal'[t].state = "UndoRenameIntent" /\ wal'[t].undo = wal[t].undo
        /\ wal'[t].ledger = wal[t].ledger /\ Held' = {wal'}
    BY <1>3, MovedTx
  <2>2. wal[t].state = "UndoModesRestored"
    BY <1>3 DEF Moved, may_transition, transition_inner, valid_transition
  <2>3. wal[t].undo = None /\ loc[t] = "staged" /\ stable[t] = "staged"
    BY <2>2, NowIsSound, OneTx DEF Timely, InPlace, AtStaged
  <2>4. op.steps = 0
    BY <1>2, <2>2 DEF Spent
  <2>5. Renaming(t, "UndoRenameIntent")' /\ Stays(t, "staged")'
    BY <2>1, <2>3 DEF Renaming, Stays, JournalFrame, fsVars
  <2>6. /\ op' \in Operations /\ op'.name = op.name /\ op'.tx = t /\ op'.change = "none"
        /\ op'.plan = op.plan /\ op'.steps = 0 /\ op'.at = "return"
    BY <1>2, <1>3, <2>4 DEF Operations, Ats, Continue
  <2>7. OpShape' /\ OpChange' /\ OpRecovery'
    BY <1>2, <2>1, <2>6, NothingSpent DEF OpShape, OpChange, OpRecovery
  <2>8. OpStage' /\ OpUndo' /\ OpPurge'
    BY <2>5, <2>6 DEF OpStage, OpUndo, OpPurge
  <2> QED
    BY <2>1, <2>6, <2>7, <2>8, JournalStep DEF OpInv
<1>4. CASE transition(t, "UndoRenameIntent", Continue("return"))
  <2>1. \/ Moved(t, "UndoRenameIntent") /\ Continue("return")
        \/ Journalled(t) /\ Fails
    BY <1>4, TransitionCases
  <2> QED
    BY <1>2, <1>3, <2>1, FailsStep
<1> QED
  BY <1>1, <1>2, <1>4, StepsBack

LEMMA UndoUnknownStep ==
  ASSUME StagingAssumption, IInv, NEW t \in Tx, JournalFrame, undo_rename_unknown(t)
  PROVE  IInv'
<1>1. op.tx = t /\ op.at # "idle" /\ fail_closed(t)
  BY DEF undo_rename_unknown, At
<1> QED
  BY <1>1, StepsBack

\* An undo ends in a settled state.
LEMMA UndoneStep ==
  ASSUME StagingAssumption, IInv, NEW t \in Tx, JournalFrame, NEW at, Undoes(t, at), at # "idle",
         NEW next \in {"Restored", "UndoConflict"}, transition(t, next, UndoDone),
         may_transition(wal[t], next) => wal[t].state \in {"UndoRenameIntent", "RestoreIntent"}
  PROVE  IInv'
<1>1. /\ op.tx = t /\ op.at # "idle" /\ op.change = "none" /\ op.name \in {"startup", "undo"}
      /\ op \in Operations /\ op.steps \in Nat /\ Spent(wal[t], op.steps)
  BY Undoing
<1>2. CASE op.name = "undo"
  <2>1. \/ Moved(t, next) /\ UndoDone
        \/ Journalled(t) /\ Fails
    BY TransitionCases
  <2>2. CASE Moved(t, next) /\ UndoDone
    <3>1. op' = Idle
      BY <1>2, <2>2 DEF UndoDone, Finish
    <3> QED
      BY <2>2, <3>1, MovedTx, RestOp, JournalStep
  <2> QED
    BY <1>1, <2>1, <2>2, FailsStep
<1>3. CASE op.name = "startup"
  <2>1. \/ Moved(t, next) /\ Turn
        \/ Journalled(t) /\ Fails
    <3>1. \/ Moved(t, next) /\ UndoDone
          \/ Journalled(t) /\ Fails
      BY TransitionCases
    <3> QED
      BY <1>3, <3>1 DEF UndoDone
  <2>2. CASE Moved(t, next) /\ Turn
    <3>1. Journalled(t) /\ wal'[t].state = next /\ wal'[t].ledger = wal[t].ledger
      BY <2>2, MovedTx
    <3>2. Spent(wal'[t], op.steps) /\ safe_terminal_state(wal'[t])
      BY <1>1, <2>2, <3>1 DEF Spent, safe_terminal_state, Moved
    <3> QED
      BY <1>1, <1>3, <2>2, <3>1, <3>2, TurnStep
  <2> QED
    BY <1>1, <2>1, <2>2, FailsStep
<1> QED
  BY <1>1, <1>2, <1>3

LEMMA UndoOutcomeStep ==
  ASSUME StagingAssumption, IInv, NEW t \in Tx, record_undo_rename_outcome(t), JournalFrame
  PROVE  IInv'
<1> DEFINE yes == [wal[t] EXCEPT !.undo = "Applied"]
           no == [wal[t] EXCEPT !.undo = "Collision"]
<1>0. wal \in Held
  BY DEF Held
<1>1. CASE Undoes(t, "synced") /\ append_at(t, yes, TRUE, Continue("moved"))
  <2>1. /\ op.tx = t /\ op.at = "synced" /\ op.at # "idle" /\ op.change = "none"
        /\ op.name \in {"startup", "undo"} /\ Spent(wal[t], op.steps)
    BY <1>1, Undoing
  <2>2. RecordsUndo(t, yes)
    BY <1>0, <2>1 DEF IInv, OpInv, OpUndo, Renaming, RecordsUndo
  <2>3. yes.ledger = wal[t].ledger /\ yes.state = wal[t].state
    BY NowIsSound, OneTx DEF Transactions
  <2>4. append_at(t, yes, TRUE, Continue("moved"))
    BY ZenonT(60), <1>1
  <2> HIDE DEF yes
  <2>5. Advances(t, yes) /\ Spent(yes, op.steps)
    BY <2>1, <2>2, <2>3 DEF Advances, Spent
  <2> QED
    BY ZenonT(60), <2>1, <2>3, <2>4, <2>5, AppendQuiet DEF QuietAts
<1>2. CASE Undoes(t, "moved") /\ transition(t, "Restored", UndoDone)
  <2>1. op.tx = t /\ op.at # "idle" /\ op.at = "moved"
    BY <1>2, Undoing
  <2>2. may_transition(wal[t], "Restored") => wal[t].state \in {"UndoRenameIntent", "RestoreIntent"}
    BY DEF may_transition, transition_inner, valid_transition
  <2> QED
    BY <1>2, <2>1, <2>2, UndoneStep
<1>3. CASE Undoes(t, "collided") /\ append_at(t, no, TRUE, Continue("collided"))
  <2>1. /\ op.tx = t /\ op.at = "collided" /\ op.at # "idle" /\ op.change = "none"
        /\ op.name \in {"startup", "undo"} /\ op \in Operations /\ op.steps \in Nat
        /\ op.name = "undo" => op.steps = 0
        /\ op.plan \subseteq Admitted(wal[t].ledger) /\ Spent(wal[t], op.steps)
    BY <1>3, Undoing
  <2>2. wal[t].state = "UndoRenameIntent" /\ Stays(t, "staged")
    BY <2>1 DEF IInv, OpInv, OpUndo
  <2>3. no.ledger = wal[t].ledger /\ no.state = wal[t].state
    BY NowIsSound, OneTx DEF Transactions
  <2>4. append_at(t, no, TRUE, Continue("collided")) /\ RecordsUndo(t, no)
    BY Zenon, <1>3, <2>2 DEF RecordsUndo
  <2> HIDE DEF no
  <2>5. Advances(t, no)
    BY <2>4 DEF Advances
  <2>6. \/ Synced(t, no) /\ Continue("collided")
        \/ Stood(t, no) /\ Fails
    BY ZenonT(60), <2>4, AppendCases
  <2>7. CASE Stood(t, no) /\ Fails
    BY <2>1, <2>5, <2>7, FailsStep DEF Journalled
  <2>8. CASE Synced(t, no) /\ Continue("collided")
    <3>1. Journalled(t) /\ wal'[t] = no
      BY <2>5, <2>8, SyncedTx
    <3>2. /\ op' \in Operations /\ op'.name = op.name /\ op'.tx = t /\ op'.change = "none"
          /\ op'.plan = op.plan /\ op'.steps = op.steps /\ op'.at = "collided"
      BY <2>1, <2>8 DEF Operations, Ats, Continue
    <3>3. Stays(t, "staged")'
      BY <2>2 DEF Stays, JournalFrame, fsVars
    <3>4. OpShape' /\ OpChange' /\ OpRecovery'
      BY <2>1, <2>3, <3>1, <3>2 DEF OpShape, OpChange, OpRecovery, Spent
    <3>5. OpStage' /\ OpUndo' /\ OpPurge'
      BY <2>1, <2>2, <2>3, <3>1, <3>2, <3>3 DEF OpStage, OpUndo, OpPurge
    <3> QED
      BY <3>1, <3>2, <3>4, <3>5, JournalStep DEF OpInv
  <2> QED
    BY <2>6, <2>7, <2>8
<1>4. CASE Undoes(t, "collided") /\ transition(t, "UndoConflict", UndoDone)
  <2>1. may_transition(wal[t], "UndoConflict") => wal[t].state = "UndoRenameIntent"
    BY DEF may_transition, transition_inner, valid_transition
  <2> QED
    BY <1>4, <2>1, UndoneStep
<1> QED
  BY Zenon, <1>1, <1>2, <1>3, <1>4 DEF record_undo_rename_outcome

LEMMA PurgeStopsStep ==
  ASSUME StagingAssumption, IInv, NEW t \in Tx, JournalFrame, purge_drifted(t) \/ purge_error(t)
  PROVE  IInv'
<1>1. /\ op.tx = t /\ op.at # "idle"
      /\ transition(t, "RecoveryRequired", Fails) \/ Error("error")
  BY DEF purge_drifted, purge_error, At
<1> QED
  BY <1>1, StepsBack

LEMMA PurgeDriftStep ==
  ASSUME StagingAssumption, IInv, NEW t \in Tx, JournalFrame, purge_drift(t)
  PROVE  IInv'
<1>1. At("purge", t, "requested") /\ UNCHANGED walVars /\ Continue("drifted")
  BY DEF purge_drift
<1>2. Journalled(t) /\ wal' = wal
  BY <1>1, Unwritten DEF walVars
<1>3. op.tx = t /\ op.at # "idle" /\ op.change = "none" /\ \A x : Spent(x, op.steps)
  BY <1>1, Staging
<1> QED
  BY <1>1, <1>2, <1>3, QuietStep DEF QuietAts, Continue

LEMMA PurgedStep ==
  ASSUME StagingAssumption, IInv, NEW t \in Tx, JournalFrame, record_purged(t)
  PROVE  IInv'
<1> DEFINE y == [wal[t] EXCEPT !.removed = EntryCount]
<1>1. /\ op.tx = t /\ op.at # "idle" /\ op.change = "none" /\ \A x : Spent(x, op.steps)
  BY Zenon, Staging DEF record_purged
<1>2. CASE /\ At("purge", t, "removed") /\ may_record_removed(wal[t], EntryCount)
           /\ append_at(t, y, TRUE, Continue("counted"))
  <2>1. RecordsRemoved(t, y)
    BY <1>1, <1>2 DEF RecordsRemoved, may_record_removed, IInv, OpInv, OpPurge, At
  <2>2. y.ledger = wal[t].ledger
    BY NowIsSound, OneTx DEF Transactions
  <2>3. append_at(t, y, TRUE, Continue("counted"))
    BY ZenonT(60), <1>2
  <2> HIDE DEF y
  <2>4. Advances(t, y)
    BY <2>1 DEF Advances
  <2> QED
    BY Zenon, <1>1, <2>2, <2>3, <2>4, AppendQuiet DEF QuietAts
<1>3. CASE transition(t, "PurgeOutcome", Continue("outcome"))
  BY <1>1, <1>3, MoveQuiet DEF QuietAts
<1>4. CASE transition(t, "Purged", Finish(Idle))
  <2>1. \/ Moved(t, "Purged") /\ Finish(Idle)
        \/ Journalled(t) /\ Fails
    BY <1>4, TransitionCases
  <2>2. CASE Moved(t, "Purged") /\ Finish(Idle)
    BY <2>2, MovedTx, RestOp, JournalStep DEF Finish
  <2> QED
    BY <1>1, <2>1, <2>2, FailsStep
<1>5. CASE Err
  BY <1>1, <1>5, StepsBack
<1> QED
  BY Zenon, <1>2, <1>3, <1>4, <1>5 DEF record_purged

LEMMA JournalActions ==
  ASSUME StagingAssumption, IInv, NEW t \in Tx, Journal(t), JournalFrame
  PROVE  IInv'
BY RecordOutcomeStep, BeginStep, SealParentStep, SealTreeStep, CompleteTreeStep, RenameIntentStep,
   RenamedErrorStep, RenameOutcomeStep, TerminalStep, ForbiddenStep, FinalizeStep, ResolveStep,
   DriftStep, VerifyStep, RestoreBeginStep, RestoreNextStep, RestoreErrorStep,
   RestoreCompleteStep, ResumeUndoStep, UndoIntentStep, UndoModesStep, UndoRenameIntentStep,
   UndoUnknownStep, UndoOutcomeStep, PurgeStopsStep, PurgeDriftStep, PurgedStep
   DEF Journal
=============================================================================
