------------------------ MODULE SealedStagingProofs -------------------------
(***************************************************************************)
(* Where SealedStaging leaves the trees, for any transactions, trees,      *)
(* modes and failures: in every WAL a crash may leave, the records of a    *)
(* transaction agree with where its tree is, now and once the power is     *)
(* gone; nothing is deleted without a claim; recovery looks where the tree *)
(* is, finds the sidecar it needs, and fits its turns.                     *)
(*                                                                         *)
(* The argument does not depend on permissions: it follows the states of   *)
(* the transactions and the two renames and the deletion between them.     *)
(***************************************************************************)
EXTENDS SealedStagingJournal

-----------------------------------------------------------------------------
(* The steps that are not frames *)

LEMMA SameLogs ==
  ASSUME IInv, Held' \subseteq Held, loc' = loc, stable' = stable,
         \A t \in Tx : sidecar[t] # "absent" => sidecar'[t] # "absent"
  PROVE  Logs'
<1>1. ASSUME NEW w \in Held
      PROVE  Sound(w, loc', stable', sidecar')
  <2>1. Sound(w, loc, stable, sidecar)
    BY DEF IInv, Logs
  <2>2. \A t \in Tx : Backed(w[t], sidecar'[t])
    BY <2>1 DEF Sound, Backed
  <2> QED
    BY <2>1, <2>2 DEF Sound
<1> QED
  BY <1>1 DEF Logs

LEMMA ModeTyped ==
  ASSUME NEW t \in Tx, NEW d \in Directories, NEW mode \in Modes, modes \in ModeTables
  PROVE  SetMode(modes, t, d, mode) \in ModeTables
<1>1. CASE d = Parent
  BY <1>1 DEF SetMode, ModeTables
<1>2. CASE d # Parent
  BY ZenonT(60), <1>2 DEF SetMode, ModeTables, Directories
<1> QED
  BY <1>1, <1>2

LEMMA ApplyStep ==
  ASSUME StagingAssumption, IInv, NEW t \in Tx, apply_wal_bound_mode_change(t)
  PROVE  IInv'
<1>1. /\ op.tx = t /\ op.change = "intended"
      /\ Apply(t) \/ UNCHANGED <<modes, kept>>
      /\ \E change \in Changes \ {"none"} : op' = [op EXCEPT !.change = change]
      /\ UNCHANGED <<wal, original, loc, stable, sidecar, issued, authority>>
  BY DEF apply_wal_bound_mode_change, Changes
<1>2. /\ op.at \in {"ready", "restoring", "undoing"} /\ op.at # "idle"
      /\ InFlight(t) \in PermissionEntries
  <2>1. /\ op.at \in {"ready", "restoring", "undoing"}
        /\ wal[t].ledger.recorded - 1 \in MutationIds
        /\ may_resolve(wal[t], wal[t].ledger.recorded - 1)
    BY <1>1 DEF IInv, OpInv, OpChange
  <2> QED
    BY <2>1, NowIsSound, OneTx DEF InFlight, may_resolve, Ledgers
<1>3. /\ modes' \in ModeTables /\ kept' \in Seq(Moments) /\ kept' # <<>>
      /\ Held' = Held
  <2>1. CASE UNCHANGED <<modes, kept>>
    BY <1>1, <2>1 DEF IInv, Types, Held
  <2>2. CASE Apply(t)
    <3>1. modes' \in ModeTables
      BY <1>2, <2>2, ModeTyped DEF Apply, PermissionEntries, IInv, Types
    <3> DEFINE m == [File EXCEPT !.modes = modes']
    <3>2. m \in Moments /\ m.wal = File.wal /\ File.wal \in Held
      BY <3>1, LastMoment DEF IInv, Moments
    <3>3. kept' = kept \/ kept' = Append(kept, m)
      BY <2>2 DEF Apply
    <3> HIDE DEF m
    <3>4. CASE kept' = kept
      BY <1>1, <3>1, <3>4 DEF IInv, Types, Held
    <3>5. CASE kept' = Append(kept, m)
      <4>1. /\ kept' \in Seq(Moments) /\ kept' # <<>>
            /\ {kept'[k].wal : k \in 1..Len(kept')} = {kept[k].wal : k \in 1..Len(kept)} \cup {m.wal}
        BY <3>2, <3>5, NextMoment DEF IInv, Types
      <4> QED
        BY <1>1, <3>1, <3>2, <4>1 DEF Held
    <3> QED
      BY <3>3, <3>4, <3>5
  <2> QED
    BY <1>1, <2>1, <2>2
<1>4. PICK change \in Changes \ {"none"} : op' = [op EXCEPT !.change = change]
  BY <1>1
<1>5. /\ op \in Operations /\ op.name \in Names \ {"idle", "down"}
      /\ op.plan \subseteq Admitted(wal[t].ledger) /\ Spent(wal[t], op.steps)
      /\ op.name \notin {"startup", "forward"} => op.steps = 0
  BY <1>1, <1>2, BusyOp
<1>6. /\ op' \in Operations /\ op'.name = op.name /\ op'.tx = t /\ op'.at = op.at
      /\ op'.plan = op.plan /\ op'.steps = op.steps
  BY <1>1, <1>4, <1>5 DEF Operations
<1>7. OpChange'
  BY <1>1, <1>6 DEF IInv, OpInv, OpChange
<1>8. op.at = "restoring" =>
        wal'[t].state \in {"RestoreIntent", "SourceParentRestoreIntent", "Quarantined"}
  BY <1>1 DEF IInv, OpInv, OpRecovery
<1>9. OpInv'
  BY <1>1, <1>2, <1>5, <1>6, <1>7, <1>8, QuietOp DEF QuietAts
<1>10. Types'
  BY <1>1, <1>3, <1>6 DEF IInv, Types
<1>11. Logs'
  BY <1>1, <1>3, SameLogs
<1> QED
  BY <1>9, <1>10, <1>11 DEF IInv

LEMMA SidecarStep ==
  ASSUME StagingAssumption, IInv, NEW t \in Tx,
         publish_sidecar(t) \/ corrupt(t) \/ \E side \in {"source", "staged"} : occupy(t, side)
  PROVE  IInv'
<1>1. /\ UNCHANGED <<wal, kept, original, modes, loc, stable, issued, authority, op>>
      /\ \/ sidecar' = sidecar
         \/ \E file \in {"valid", "corrupt"} : sidecar' = [sidecar EXCEPT ![t] = file]
  BY DEF publish_sidecar, corrupt, occupy, walVars, fsVars
<1>2. /\ sidecar' \in [Tx -> {"absent", "valid", "corrupt"}]
      /\ \A u \in Tx : sidecar[u] # "absent" => sidecar'[u] # "absent"
  BY <1>1 DEF IInv, Types
<1>3. Held' = Held
  BY <1>1 DEF Held
<1>4. op' \in Operations /\ OpInv'
  BY <1>1, <1>3, SameOp
<1>5. Types'
  BY <1>1, <1>2 DEF IInv, Types
<1>6. Logs'
  BY <1>1, <1>2, <1>3, SameLogs
<1> QED
  BY <1>4, <1>5, <1>6 DEF IInv

\* While every WAL says a rename of t was begun, its tree may be on either side.
LEMMA EitherSide ==
  ASSUME StagingAssumption, IInv, NEW t \in Tx, NEW state \in {"RenameIntent", "UndoRenameIntent"},
         Renaming(t, state), Held' = Held, sidecar' = sidecar,
         NEW now \in {"source", "staged"}, NEW stays \in {"source", "staged"},
         loc' = [loc EXCEPT ![t] = now], stable' = [stable EXCEPT ![t] = stays]
  PROVE  Logs' /\ loc' \in [Tx -> Places] /\ stable' \in [Tx -> Places]
<1>1. /\ loc' \in [Tx -> Places] /\ stable' \in [Tx -> Places]
      /\ loc'[t] = now /\ stable'[t] = stays
      /\ \A u \in Tx \ {t} : loc'[u] = loc[u] /\ stable'[u] = stable[u]
  BY DEF IInv, Types, Places
<1>2. ASSUME NEW w \in Held
      PROVE  Sound(w, loc', stable', sidecar')
  <2>1. Sound(w, loc, stable, sidecar)
    BY DEF IInv, Logs
  <2>2. /\ w[t].state = state
        /\ state = "RenameIntent" => w[t].rename = None
        /\ state = "UndoRenameIntent" => w[t].undo = None
    BY DEF Renaming
  <2>3. None \notin {"Applied", "NotApplied", "Collision"} /\ None \notin TransactionStates
    BY SealWalAssumption DEF StagingAssumption
  <2>4. state \notin AtSource \cup AtStaged
    BY <2>3 DEF AtSource, AtStaged, TransactionStates
  <2>5. InPlace(w[t], now, stays)
    BY <2>2, <2>3, <2>4 DEF InPlace
  <2>6. \A u \in Tx : InPlace(w[u], loc'[u], stable'[u])
    BY <1>1, <2>1, <2>5 DEF Sound
  <2> QED
    BY <2>1, <2>6 DEF Sound
<1> QED
  BY Zenon, <1>1, <1>2 DEF Logs

\* The two renames: out of the source parent and back into it.
LEMMA RenameStep ==
  ASSUME StagingAssumption, IInv, NEW t \in Tx, rename_noreplace(t) \/ undo_rename(t)
  PROVE  IInv'
<1>1. /\ op.tx = t /\ op.at \in {"rename", "return"} /\ op.at # "idle" /\ op.change = "none"
      /\ op.at = "rename" => op.name = "stage"
      /\ op.at = "return" => op.name \in {"startup", "undo"}
      /\ UNCHANGED <<wal, kept, original, modes, stable, sidecar, issued, authority>>
  BY DEF rename_noreplace, undo_rename, Undoes, At, walVars
<1>2. PICK state \in {"RenameIntent", "UndoRenameIntent"}, here \in {"source", "staged"},
           there \in {"source", "staged"} :
        /\ op.at = "rename" => state = "RenameIntent" /\ here = "source" /\ there = "staged"
        /\ op.at = "return" => state = "UndoRenameIntent" /\ here = "staged" /\ there = "source"
        /\ here # there /\ Renaming(t, state) /\ Stays(t, here)
  BY <1>1 DEF IInv, OpInv, OpStage, OpUndo
<1>3. /\ \/ loc' = loc
         \/ loc' = [loc EXCEPT ![t] = there]
      /\ \/ op' = [op EXCEPT !.at = "collided"] /\ loc' = loc
         \/ op' = [op EXCEPT !.at = "renamed"] /\ loc' = [loc EXCEPT ![t] = there]
         \/ op' = Working("forward", t, "decide")
         \/ op' = [op EXCEPT !.at = "drifted"]
  BY <1>1, <1>2 DEF rename_noreplace, undo_rename, Undoes, At, Move, Continue
<1>4. Held' = Held
  BY <1>1 DEF Held
<1>5. PICK now \in {"source", "staged"} :
        /\ loc' = [loc EXCEPT ![t] = now]
        /\ loc' = loc => now = here
        /\ loc' = [loc EXCEPT ![t] = there] => now = there
  <2>1. loc \in [Tx -> Places] /\ loc[t] = here
    BY <1>2 DEF IInv, Types, Stays
  <2>2. CASE loc' = loc
    <3>1. loc' = [loc EXCEPT ![t] = here] /\ loc' # [loc EXCEPT ![t] = there]
      BY <1>2, <2>1, <2>2
    <3> QED
      BY Zenon, <3>1
  <2>3. CASE loc' = [loc EXCEPT ![t] = there]
    <3>1. loc' # loc
      BY <1>2, <2>1, <2>3
    <3> QED
      BY Zenon, <2>3, <3>1
  <2> QED
    BY <1>3, <2>2, <2>3
<1>6. stable' = [stable EXCEPT ![t] = here]
  BY <1>1, <1>2 DEF IInv, Types, Stays
<1>7. Logs' /\ loc' \in [Tx -> Places] /\ stable' \in [Tx -> Places]
  BY ZenonT(60), <1>1, <1>2, <1>4, <1>5, <1>6, EitherSide
<1>8. op' \in Operations /\ OpInv'
  <2>1. /\ op \in Operations /\ op.name \in Names \ {"idle", "down"}
        /\ op.plan \subseteq Admitted(wal[t].ledger) /\ Spent(wal[t], op.steps)
        /\ op.name \notin {"startup", "forward"} => op.steps = 0
    BY <1>1, BusyOp
  <2>2. CASE op' = Working("forward", t, "decide")
    BY <2>2, WorkingOp
  <2>3. ASSUME NEW at \in {"collided", "renamed", "drifted"}, op' = [op EXCEPT !.at = at]
        PROVE  /\ op' \in Operations /\ op'.name = op.name /\ op'.tx = t /\ op'.change = "none"
               /\ op'.plan = op.plan /\ op'.steps = op.steps /\ op'.at = at
    BY <1>1, <2>1, <2>3 DEF Operations, Ats
  <2>4. CASE op' = [op EXCEPT !.at = "drifted"]
    <3>1. /\ op' \in Operations /\ op'.name = op.name /\ op'.tx = t /\ op'.change = "none"
          /\ op'.plan = op.plan /\ op'.steps = op.steps /\ op'.at = "drifted"
      BY <2>3, <2>4
    <3> QED
      BY <1>1, <2>1, <3>1, QuietOp DEF QuietAts, OpChange
  <2>5. Renaming(t, state)'
    BY <1>2, <1>4 DEF Renaming
  <2>6. ASSUME NEW at \in {"collided", "renamed"}, op' = [op EXCEPT !.at = at],
               at = "collided" => Stays(t, here)', at = "renamed" => loc'[t] = there
        PROVE  op' \in Operations /\ OpInv'
    <3>1. /\ op' \in Operations /\ op'.name = op.name /\ op'.tx = t /\ op'.change = "none"
          /\ op'.plan = op.plan /\ op'.steps = op.steps /\ op'.at = at
      BY <2>3, <2>6
    <3>2. OpShape' /\ OpChange' /\ OpRecovery' /\ OpPurge'
      BY <1>1, <2>1, <3>1 DEF OpShape, OpChange, OpRecovery, OpPurge
    <3>3. wal \in Held
      BY DEF Held
    <3>4. wal'[t].state = state
      BY <1>1, <1>2, <3>3 DEF Renaming
    <3>5. OpStage' /\ OpUndo'
      BY <1>1, <1>2, <2>5, <2>6, <3>1, <3>4 DEF OpStage, OpUndo
    <3> QED
      BY <3>1, <3>2, <3>5 DEF OpInv
  <2>7. CASE op' = [op EXCEPT !.at = "collided"] /\ loc' = loc
    <3>1. Stays(t, here)'
      BY <1>1, <1>2, <2>7 DEF Stays
    <3> QED
      BY <2>6, <2>7, <3>1
  <2>8. CASE op' = [op EXCEPT !.at = "renamed"] /\ loc' = [loc EXCEPT ![t] = there]
    <3>1. loc'[t] = there
      BY <2>8 DEF IInv, Types
    <3> QED
      BY <2>6, <2>8, <3>1
  <2> QED
    BY <1>3, <2>2, <2>4, <2>7, <2>8
<1>9. Types'
  BY <1>1, <1>7, <1>8 DEF IInv, Types
<1> QED
  BY <1>7, <1>8, <1>9 DEF IInv

LEMMA SyncParentsStep ==
  ASSUME StagingAssumption, IInv, NEW t \in Tx, sync_parents(t)
  PROVE  IInv'
<1>1. /\ op.tx = t /\ op.at = "renamed" /\ op.at # "idle"
      /\ stable' = [stable EXCEPT ![t] = loc[t]]
      /\ op' = [op EXCEPT !.at = "synced"]
      /\ UNCHANGED <<wal, kept, original, modes, loc, sidecar, issued, authority>>
  BY DEF sync_parents, walVars, Continue
<1>2. op.change = "none"
  BY <1>1 DEF IInv, OpInv, OpChange
<1>3. PICK state \in {"RenameIntent", "UndoRenameIntent"}, there \in {"source", "staged"} :
        /\ op.name = "stage" => state = "RenameIntent" /\ there = "staged"
        /\ op.name # "stage" => state = "UndoRenameIntent" /\ there = "source"
        /\ Renaming(t, state) /\ loc[t] = there
  BY <1>1 DEF IInv, OpInv, OpStage, OpUndo
<1>4. Held' = Held
  BY <1>1 DEF Held
<1>5. loc' = [loc EXCEPT ![t] = there] /\ stable' = [stable EXCEPT ![t] = there]
  BY <1>1, <1>3 DEF IInv, Types
<1>6. Logs' /\ loc' \in [Tx -> Places] /\ stable' \in [Tx -> Places]
  BY ZenonT(60), <1>1, <1>3, <1>4, <1>5, EitherSide
<1>7. /\ op \in Operations /\ op.name \in Names \ {"idle", "down"}
      /\ op.plan \subseteq Admitted(wal[t].ledger) /\ Spent(wal[t], op.steps)
      /\ op.name \notin {"startup", "forward"} => op.steps = 0
  BY <1>1, BusyOp
<1>8. /\ op' \in Operations /\ op'.name = op.name /\ op'.tx = t /\ op'.change = "none"
      /\ op'.plan = op.plan /\ op'.steps = op.steps /\ op'.at = "synced"
  BY <1>1, <1>2, <1>7 DEF Operations, Ats
<1>9. Renaming(t, state)' /\ Stays(t, there)'
  <2>1. Renaming(t, state)'
    BY <1>3, <1>4 DEF Renaming
  <2>2. loc'[t] = there /\ stable'[t] = there
    BY <1>1, <1>3, <1>5 DEF IInv, Types
  <2> QED
    BY <2>1, <2>2 DEF Stays
<1>10. OpShape' /\ OpChange' /\ OpRecovery' /\ OpPurge'
  BY <1>1, <1>7, <1>8 DEF OpShape, OpChange, OpRecovery, OpPurge
<1>11. OpStage' /\ OpUndo'
  BY <1>3, <1>8, <1>9 DEF OpStage, OpUndo
<1>12. Types'
  BY <1>1, <1>6, <1>8 DEF IInv, Types
<1> QED
  BY <1>6, <1>10, <1>11, <1>12 DEF IInv, OpInv

LEMMA AuthorizeStep ==
  ASSUME StagingAssumption, IInv, NEW t \in Tx, authorize(t)
  PROVE  IInv'
<1> DEFINE y == [wal[t] EXCEPT !.state = "Purgeable"]
<1>1. At("purge", t, "requested") /\ UNCHANGED <<original, fsVars, sidecar, foreign>>
  BY DEF authorize
<1>2. op.tx = t /\ op.at = "requested" /\ op.at # "idle" /\ op.name = "purge"
  BY <1>1 DEF At
<1>3. CASE /\ transition(t, "RecoveryRequired", Fails) \/ Error("error")
           /\ UNCHANGED <<issued, authority>>
  BY <1>1, <1>2, <1>3, StepsBack DEF JournalFrame
<1>4. CASE /\ \/ wal[t].state = "Purgeable" /\ UNCHANGED walVars /\ Finish(Idle)
              \/ /\ wal[t].state # "Purgeable"
                 /\ append_at(t, y, TRUE, Finish(Idle))
           /\ issued' = IF poisoned' THEN issued ELSE issued \cup {t}
           /\ authority' = IF poisoned' THEN authority ELSE authority \cup {t}
  <2>1. wal[t].state \in {"VerifiedCommitted", "Purgeable"}
    BY <1>2 DEF IInv, OpInv, OpPurge
  <2>2. Journalled(t) /\ op' = Idle
    <3>1. CASE UNCHANGED walVars /\ Finish(Idle)
      BY <3>1, Unwritten DEF walVars, Finish
    <3>2. CASE wal[t].state # "Purgeable" /\ append_at(t, y, TRUE, Finish(Idle))
      <4>1. Authorizes(t, y)
        BY <2>1, <3>2 DEF Authorizes
      <4>2. append_at(t, y, TRUE, Finish(Idle))
        BY Zenon, <3>2
      <4> HIDE DEF y
      <4>3. Advances(t, y)
        BY <4>1 DEF Advances
      <4>4. \/ Wrote(t, y) /\ Finish(Idle)
            \/ Stood(t, y) /\ Fails
        BY Zenon, <4>2, AppendCases
      <4> QED
        BY <1>2, <4>3, <4>4 DEF Journalled, Fails, Finish
    <3> QED
      BY ZenonT(60), <1>4, <3>1, <3>2
  <2>3. issued' \subseteq Tx /\ authority' \subseteq issued'
    BY <1>4 DEF IInv, Types
  <2> QED
    BY <1>1, <2>2, <2>3, RestOp, LogStep
<1> QED
  BY ZenonT(60), <1>3, <1>4 DEF authorize

LEMMA ClaimStep ==
  ASSUME StagingAssumption, IInv, NEW t \in Tx, record_purge_intent(t)
  PROVE  IInv'
<1> DEFINE y == [wal[t] EXCEPT !.state = "PurgeIntent"]
<1>1. At("purge", t, "claim") /\ UNCHANGED <<original, fsVars, sidecar, foreign, authority>>
  BY DEF record_purge_intent
<1>2. /\ op.tx = t /\ op.at = "claim" /\ op.at # "idle" /\ op.name = "purge"
      /\ op.change = "none" /\ op \in Operations /\ op.steps = 0
      /\ op.plan \subseteq Admitted(wal[t].ledger)
  BY <1>1, Staging DEF At
<1>3. CASE Err /\ UNCHANGED issued
  BY <1>1, <1>2, <1>3, StepsBack DEF JournalFrame
<1>4. CASE Error("error") /\ issued' = issued \ {t}
  <2>1. Journalled(t) /\ op' = Idle
    BY <1>2, <1>4, ErrorCases DEF Fails, Finish
  <2>2. issued' \subseteq Tx /\ authority' \subseteq issued'
    BY <1>1, <1>2, <1>4 DEF IInv, Types, OpInv, OpPurge
  <2> QED
    BY <1>1, <2>1, <2>2, RestOp, LogStep
<1>5. CASE /\ wal[t].state = "Purgeable" /\ UNCHANGED issued
           /\ append_at(t, y, TRUE, op' = [op EXCEPT !.at = "deleting"] /\ blocked' = TRUE)
  <2>1. ClaimsPurge(t, y)
    BY <1>5 DEF ClaimsPurge
  <2>2. y.ledger = wal[t].ledger /\ y.state = "PurgeIntent"
    BY NowIsSound, OneTx DEF Transactions
  <2>3. append_at(t, y, TRUE, op' = [op EXCEPT !.at = "deleting"] /\ blocked' = TRUE)
    BY Zenon, <1>5
  <2>4. JournalFrame
    BY <1>1, <1>5 DEF JournalFrame
  <2> HIDE DEF y
  <2>5. Advances(t, y)
    BY <2>1 DEF Advances
  <2>6. \/ Synced(t, y) /\ op' = [op EXCEPT !.at = "deleting"]
        \/ Stood(t, y) /\ Fails
    BY ZenonT(60), <2>3, AppendCases
  <2>7. CASE Stood(t, y) /\ Fails
    BY <1>2, <2>4, <2>5, <2>7, FailsStep DEF Journalled
  <2>8. CASE Synced(t, y) /\ op' = [op EXCEPT !.at = "deleting"]
    <3>1. Journalled(t) /\ wal'[t] = y /\ Held' = {wal'}
      BY <2>5, <2>8, SyncedTx
    <3>2. /\ op' \in Operations /\ op'.name = "purge" /\ op'.tx = t /\ op'.change = "none"
          /\ op'.plan = op.plan /\ op'.steps = 0 /\ op'.at = "deleting"
      BY <1>2, <2>8 DEF Operations, Ats
    <3>3. OpInv'
      BY <1>2, <2>2, <3>1, <3>2, NothingSpent
         DEF OpInv, OpShape, OpChange, OpStage, OpUndo, OpPurge, OpRecovery
    <3> QED
      BY <2>4, <3>1, <3>2, <3>3, JournalStep
  <2> QED
    BY <2>6, <2>7, <2>8
<1> QED
  BY ZenonT(60), <1>3, <1>4, <1>5 DEF record_purge_intent

LEMMA DeleteStep ==
  ASSUME StagingAssumption, IInv, NEW t \in Tx, purge_postorder(t)
  PROVE  IInv'
<1>1. /\ At("purge", t, "deleting")
      /\ UNCHANGED <<wal, kept, original, modes, sidecar, issued, authority>>
  BY DEF purge_postorder, walVars
<1>2. /\ op.tx = t /\ op.at = "deleting" /\ op.at # "idle" /\ op.name = "purge"
      /\ op.change = "none" /\ op \in Operations /\ op.steps = 0
      /\ op.plan \subseteq Admitted(wal[t].ledger)
  BY <1>1, Staging DEF At
<1>3. Held' = Held /\ \A w \in Held : w[t].state = "PurgeIntent"
  BY <1>1, <1>2 DEF Held, IInv, OpInv, OpPurge
<1>4. PICK now \in {"partial", "gone"}, stays \in Places :
        /\ loc' = [loc EXCEPT ![t] = now] /\ stable' = [stable EXCEPT ![t] = stays]
        /\ \/ op' = op /\ stays = stable[t] /\ loc[t] \in {"staged", "partial"}
           \/ op' = [op EXCEPT !.at = "removed"] /\ now = "gone" /\ stays = "gone"
  <2>1. loc \in [Tx -> Places] /\ stable \in [Tx -> Places]
    BY DEF IInv, Types
  <2>2. CASE loc[t] = "staged" /\ Move(t, "partial") /\ UNCHANGED <<stable, op, blocked>>
    BY <2>1, <2>2 DEF Move
  <2>3. CASE loc[t] = "partial" /\ Move(t, "gone") /\ UNCHANGED <<stable, op, blocked>>
    BY <2>1, <2>3 DEF Move
  <2>4. CASE /\ loc[t] = "gone" /\ stable' = [stable EXCEPT ![t] = "gone"]
             /\ Continue("removed") /\ UNCHANGED loc
    <3>1. loc' = [loc EXCEPT ![t] = "gone"]
      BY <2>1, <2>4
    <3> QED
      BY ZenonT(60), <2>4, <3>1 DEF Continue, Places
  <2> QED
    BY <2>2, <2>3, <2>4 DEF purge_postorder
<1>5. /\ loc' \in [Tx -> Places] /\ stable' \in [Tx -> Places]
      /\ loc'[t] = now /\ stable'[t] = stays
      /\ \A u \in Tx \ {t} : loc'[u] = loc[u] /\ stable'[u] = stable[u]
  BY <1>4 DEF IInv, Types, Places
<1>6. ASSUME NEW w \in Held
      PROVE  Sound(w, loc', stable', sidecar')
  <2>1. Sound(w, loc, stable, sidecar)
    BY DEF IInv, Logs
  <2>2. w[t].state = "PurgeIntent" /\ InPlace(w[t], loc[t], stable[t])
    BY <1>3, <2>1 DEF Sound
  <2>3. stays \in {"staged", "partial", "gone"} /\ (w[t].removed # 0 => now = "gone" /\ stays = "gone")
    BY <1>4, <2>2 DEF InPlace
  <2>4. None \notin TransactionStates
    BY SealWalAssumption
  <2>5. InPlace(w[t], now, stays)
    BY <2>2, <2>3, <2>4 DEF InPlace, AtSource, AtStaged, TransactionStates
  <2>6. \A u \in Tx : InPlace(w[u], loc'[u], stable'[u])
    BY <1>5, <2>1, <2>5 DEF Sound
  <2> QED
    BY <1>1, <2>1, <2>6 DEF Sound
<1>7. Logs'
  BY <1>3, <1>6 DEF Logs
<1>8. op' \in Operations /\ OpInv'
  <2>1. /\ op' \in Operations /\ op'.name = "purge" /\ op'.tx = t /\ op'.change = "none"
        /\ op'.plan = op.plan /\ op'.steps = 0
        /\ \/ op'.at = "deleting"
           \/ op'.at = "removed" /\ now = "gone" /\ stays = "gone"
    BY <1>2, <1>4 DEF Operations, Ats
  <2>2. OpPurge'
    BY <1>3, <1>5, <2>1 DEF OpPurge, Stays
  <2>3. OpInv'
    BY <1>1, <1>2, <2>1, <2>2, NothingSpent
       DEF OpInv, OpShape, OpChange, OpStage, OpUndo, OpRecovery
  <2> QED
    BY <2>1, <2>3
<1>9. Types'
  BY <1>1, <1>5, <1>8 DEF IInv, Types
<1> QED
  BY <1>7, <1>8, <1>9 DEF IInv

\* A call begins an operation and changes nothing else but the authorities.
LEMMA CallStep ==
  ASSUME StagingAssumption, IInv, NEW t \in Tx, Call(t)
  PROVE  IInv'
<1>1. /\ UNCHANGED <<wal, kept, original, modes, loc, stable, sidecar, issued>>
      /\ authority' \subseteq authority
  BY DEF Call, stage_to_verified_commit, undo_verified, request_verified_purge,
     execute_verified_purge, walVars, fsVars
<1>2. PICK name \in {"stage", "undo", "purge"}, at \in {"begin", "prepared", "requested", "claim"} :
        /\ op' = Working(name, t, at)
        /\ at = "begin" => can_begin_staging_transaction(wal, poisoned) /\ wal[t].state = None
        /\ at = "prepared" => name = "undo"
        /\ at = "requested" => wal[t].state \in {"VerifiedCommitted", "Purgeable"}
        /\ at = "claim" => t \notin authority'
  BY DEF Call, stage_to_verified_commit, undo_verified, request_verified_purge,
     execute_verified_purge
<1>3. /\ op' \in Operations /\ op'.name = name /\ op'.tx = t /\ op'.change = "none"
      /\ op'.plan = {} /\ op'.steps = 0 /\ op'.at = at
  BY ZenonT(60), <1>2 DEF Working, Idle, Operations, Names, Ats, Changes
<1>4. at = "begin" => \A u \in Tx : wal[u].state \notin Forward
  <2>1. DOMAIN wal = Tx
    BY DEF IInv, Types
  <2>2. None \notin Forward
    BY SealWalAssumption DEF Forward, TransactionStates, IntentPhases, SealPhases, InversePhases
  <2> QED
    BY <1>2, <2>1, <2>2 DEF can_begin_staging_transaction, safe_terminal_state, Forward
<1>5. OpInv'
  BY ZenonT(60), <1>1, <1>2, <1>3, <1>4, NothingSpent
     DEF OpInv, OpShape, OpChange, OpStage, OpUndo, OpPurge, OpRecovery
<1>6. Held' \subseteq Held
  BY <1>1 DEF Held
<1>7. Logs'
  BY <1>1, <1>6, SameLogs
<1>8. Types'
  BY <1>1, <1>3 DEF IInv, Types
<1> QED
  BY <1>5, <1>7, <1>8 DEF IInv

-----------------------------------------------------------------------------
(* The engine's life *)

\* open stops a transaction whose sidecar is unusable for recovery.
Recovered(x, file) ==
  IF x.sidecar /\ tree_sidecar_required_for_state(x.state) /\ file # "valid"
  THEN [x EXCEPT !.state = "RecoveryRequired"] ELSE x

LEMMA RecoveredTx ==
  ASSUME NEW x, Good(x), NEW now, NEW stays, InPlace(x, now, stays), Timely(x), NEW file,
         Backed(x, file), NEW y, y = Recovered(x, file)
  PROVE  /\ y \in Transactions /\ Good(y) /\ InPlace(y, now, stays) /\ Timely(y) /\ Backed(y, file)
         /\ y.state \in Forward => y.state = x.state
<1>1. CASE y = x
  BY <1>1 DEF Good
<1>2. CASE /\ x.sidecar /\ tree_sidecar_required_for_state(x.state)
           /\ y = [x EXCEPT !.state = "RecoveryRequired"]
  <2>1. /\ y \in Transactions /\ y.state = "RecoveryRequired" /\ y.ledger = x.ledger
        /\ y.sidecar = x.sidecar
    BY ZenonT(60), <1>2 DEF Good, Transactions, TransactionStates
  <2>2. y.state # None
    BY <2>1, SealWalAssumption DEF TransactionStates
  <2>3. PathSound(y)
    BY <2>1, PathFree
  <2>4. Good(y)
    BY <2>1, <2>2, <2>3, SameLedger
  <2>5. InPlace(y, now, stays)
    BY <2>1, <2>2 DEF InPlace, AtSource, AtStaged
  <2>6. Timely(y)
    BY <2>1 DEF Timely
  <2>7. Backed(y, file) /\ y.state \notin Forward
    BY <1>2, <2>1 DEF Backed, Forward
  <2> QED
    BY <2>1, <2>4, <2>5, <2>6, <2>7
<1> QED
  BY <1>1, <1>2 DEF Recovered

LEMMA OpenStep ==
  ASSUME StagingAssumption, IInv, open
  PROVE  IInv'
<1> DEFINE w == [t \in Tx |-> Recovered(File.wal[t], sidecar[t])]
           candidates == {t \in Tx : recovery_work_requires_candidate(w[t])}
           first == CHOOSE t \in candidates : \A u \in candidates : t <= u
<1>1. /\ wal' = w /\ kept' = <<[wal |-> w, modes |-> modes]>>
      /\ \A t \in Tx : w[t].sidecar /\ tree_sidecar_required_for_state(w[t].state) =>
                         sidecar'[t] = sidecar[t]
      /\ sidecar' \in [Tx -> {"absent", "valid", "corrupt"}]
      /\ issued' = {} /\ authority' = {}
      /\ op' = IF candidates = {} THEN Idle ELSE Working("startup", first, "decide")
      /\ UNCHANGED <<original, modes, loc, stable>>
  <2>1. sidecar \in [Tx -> {"absent", "valid", "corrupt"}]
    BY DEF IInv, Types
  <2>2. \A t \in Tx : w[t] = IF /\ File.wal[t].sidecar
                                /\ tree_sidecar_required_for_state(File.wal[t].state)
                                /\ sidecar[t] # "valid"
                             THEN [File.wal[t] EXCEPT !.state = "RecoveryRequired"]
                             ELSE File.wal[t]
    BY DEF Recovered
  <2>3. w = [t \in Tx |-> IF /\ File.wal[t].sidecar
                             /\ tree_sidecar_required_for_state(File.wal[t].state)
                             /\ sidecar[t] # "valid"
                          THEN [File.wal[t] EXCEPT !.state = "RecoveryRequired"]
                          ELSE File.wal[t]]
    BY DEF Recovered
  <2>4. wal' = w /\ kept' = <<[wal |-> w, modes |-> modes]>>
    BY ZenonT(60), <2>3 DEF open
  <2>5. sidecar' = [t \in Tx |-> IF /\ sidecar[t] = "valid"
                                    /\ ~(/\ wal'[t].sidecar
                                         /\ tree_sidecar_required_for_state(wal'[t].state))
                                 THEN "absent" ELSE sidecar[t]]
    BY DEF open
  <2>6. /\ issued' = {} /\ authority' = {} /\ UNCHANGED <<original, modes, loc, stable>>
    BY DEF open, fsVars
  <2>7. op' = IF {t \in Tx : recovery_work_requires_candidate(wal'[t])} = {} THEN Idle
              ELSE Working("startup", CHOOSE t \in {v \in Tx : recovery_work_requires_candidate(wal'[v])} :
                             \A u \in {v \in Tx : recovery_work_requires_candidate(wal'[v])} : t <= u,
                           "decide")
    BY DEF open
  <2>8. candidates = {t \in Tx : recovery_work_requires_candidate(wal'[t])}
    BY <2>4
  <2> HIDE DEF w
  <2>9. /\ \A t \in Tx : w[t].sidecar /\ tree_sidecar_required_for_state(w[t].state) =>
                           sidecar'[t] = sidecar[t]
        /\ sidecar' \in [Tx -> {"absent", "valid", "corrupt"}]
    BY <2>1, <2>4, <2>5
  <2> HIDE DEF candidates
  <2> QED
    BY <2>4, <2>6, <2>7, <2>8, <2>9
<1>2. File.wal \in Held
  BY LastMoment DEF IInv
<1>3. Sound(File.wal, loc, stable, sidecar)
  BY <1>2 DEF IInv, Logs
<1>4. \A t \in Tx : /\ w[t] \in Transactions /\ Good(w[t]) /\ InPlace(w[t], loc[t], stable[t])
                    /\ Timely(w[t]) /\ Backed(w[t], sidecar[t])
                    /\ w[t].state \in Forward => w[t].state = File.wal[t].state
  <2> SUFFICES ASSUME NEW t \in Tx
               PROVE  /\ w[t] \in Transactions /\ Good(w[t]) /\ InPlace(w[t], loc[t], stable[t])
                      /\ Timely(w[t]) /\ Backed(w[t], sidecar[t])
                      /\ w[t].state \in Forward => w[t].state = File.wal[t].state
    OBVIOUS
  <2>1. w[t] = Recovered(File.wal[t], sidecar[t])
    OBVIOUS
  <2> HIDE DEF w
  <2>2. /\ Good(File.wal[t]) /\ InPlace(File.wal[t], loc[t], stable[t]) /\ Timely(File.wal[t])
        /\ Backed(File.wal[t], sidecar[t])
    BY <1>3 DEF Sound
  <2> QED
    BY <2>1, <2>2, RecoveredTx
<1>5. DOMAIN w = Tx /\ w = [t \in Tx |-> w[t]]
  OBVIOUS
<1>6. candidates \in SUBSET Tx
  OBVIOUS
<1>7. candidates # {} => first \in Tx
  <2> HIDE DEF candidates
  <2> QED
    BY <1>6, FirstIsOne
<1> HIDE DEF w, first, candidates
<1>8. w \in [Tx -> Transactions]
  BY <1>4, <1>5
<1>9. \A t \in Tx : Backed(w[t], sidecar'[t])
  BY <1>1, <1>4 DEF Backed
<1>10. AloneForward(w)
  BY <1>3, <1>4 DEF AloneForward, Sound
<1>11. Sound(w, loc', stable', sidecar')
  BY <1>1, <1>4, <1>8, <1>9, <1>10 DEF Sound
<1>12. kept' \in Seq(Moments) /\ kept' # <<>> /\ Held' = {w}
  <2> DEFINE m == [wal |-> w, modes |-> modes]
  <2>1. m \in Moments /\ m.wal = w
    BY <1>8 DEF Moments, IInv, Types
  <2>2. kept' = <<m>>
    BY <1>1
  <2> HIDE DEF m
  <2>3. kept' \in Seq(Moments) /\ kept' # <<>> /\ {kept'[k].wal : k \in 1..Len(kept')} = {m.wal}
    BY <2>1, <2>2, OneMoment
  <2> QED
    BY <1>1, <2>1, <2>3 DEF Held
<1>13. Logs'
  BY <1>11, <1>12 DEF Logs
<1>14. op' \in Operations /\ OpInv'
  <2>1. CASE candidates = {}
    BY <1>1, <2>1, RestOp
  <2>2. CASE candidates # {}
    BY <1>1, <1>7, <2>2, WorkingOp
  <2> QED
    BY <2>1, <2>2
<1>15. Types'
  BY <1>1, <1>8, <1>12, <1>14 DEF IInv, Types
<1> QED
  BY <1>13, <1>14, <1>15 DEF IInv

LEMMA CloseStep ==
  ASSUME StagingAssumption, IInv, close \/ kill
  PROVE  IInv'
<1>1. /\ wal' = File.wal /\ op' = Down /\ issued' = {} /\ authority' = {}
      /\ UNCHANGED <<kept, original, modes, loc, stable, sidecar>>
  BY DEF close, kill, Gone, fsVars
<1>2. File.wal \in Held /\ File \in Moments
  BY LastMoment DEF IInv
<1>3. Held' \subseteq Held
  BY <1>1, <1>2 DEF Held
<1>4. Logs'
  BY <1>1, <1>3, SameLogs
<1>5. op' \in Operations /\ OpInv'
  BY <1>1, RestOp
<1>6. Types'
  BY <1>1, <1>2, <1>5 DEF IInv, Types, Moments
<1> QED
  BY <1>4, <1>5, <1>6 DEF IInv

\* What a power loss leaves of names agrees with every WAL it leaves.
LEMMA CrashInPlace ==
  ASSUME NEW x, NEW now, NEW stays, InPlace(x, now, stays), NEW after,
         \/ after \in {now, stays}
         \/ after = "partial" /\ now = "gone" /\ stays = "staged"
  PROVE  InPlace(x, after, after)
BY DEF InPlace

LEMMA PowerStep ==
  ASSUME StagingAssumption, IInv, power_loss
  PROVE  IInv'
<1>1. /\ op' = Down /\ issued' = {} /\ authority' = {} /\ UNCHANGED <<original, sidecar>>
      /\ loc' \in [Tx -> Places] /\ stable' = loc'
      /\ \A t \in Tx : \/ loc'[t] \in {loc[t], stable[t]}
                       \/ loc'[t] = "partial" /\ loc[t] = "gone" /\ stable[t] = "staged"
  BY DEF power_loss, Gone, Places
<1>2. PICK left \in Remains : kept' = <<left>> /\ wal' = left.wal /\ modes' = left.modes
  BY DEF power_loss
<1>3. PICK k \in 1..Len(kept), j \in 1..Len(kept) :
        left = [wal |-> kept[k].wal, modes |-> kept[j].modes]
  BY DEF Remains
<1>4. left.wal = kept[k].wal /\ left.modes = kept[j].modes
  BY <1>3
<1>5. kept[k] \in Moments /\ kept[j] \in Moments
  BY DEF IInv, Types
<1>6. left.wal \in Held /\ left \in Moments /\ left.wal \in [Tx -> Transactions] /\ left.modes \in ModeTables
  BY <1>3, <1>4, <1>5 DEF Held, Moments
<1>7. kept' \in Seq(Moments) /\ kept' # <<>> /\ Held' = {left.wal}
  <2>1. /\ kept' \in Seq(Moments) /\ kept' # <<>>
        /\ {kept'[i].wal : i \in 1..Len(kept')} = {left.wal}
    BY <1>2, <1>6, OneMoment
  <2> QED
    BY <1>2, <2>1 DEF Held
<1>8. Sound(left.wal, loc', stable', sidecar')
  <2>1. Sound(left.wal, loc, stable, sidecar)
    BY <1>6 DEF IInv, Logs
  <2>2. \A t \in Tx : InPlace(left.wal[t], loc'[t], stable'[t])
    BY <1>1, <2>1, CrashInPlace DEF Sound
  <2> QED
    BY <1>1, <2>1, <2>2 DEF Sound
<1>9. Logs'
  BY <1>7, <1>8 DEF Logs
<1>10. op' \in Operations /\ OpInv'
  BY <1>1, RestOp
<1>11. Types'
  BY <1>1, <1>2, <1>6, <1>7, <1>10 DEF IInv, Types
<1> QED
  BY <1>9, <1>10, <1>11 DEF IInv

-----------------------------------------------------------------------------
(* The invariant *)

LEMMA Initially ==
  ASSUME StagingAssumption, Init
  PROVE  IInv
<1> DEFINE m == [wal |-> wal, modes |-> modes]
<1>1. /\ original \in ModeTables /\ modes = original /\ wal = [t \in Tx |-> NotBegun]
      /\ kept = <<m>>
      /\ loc = [t \in Tx |-> "source"] /\ stable = loc /\ sidecar = [t \in Tx |-> "absent"]
      /\ issued = {} /\ authority = {} /\ op = Down
  BY DEF Init, ModeTables
<1>2. Good(NotBegun)
  BY NotBegunGood
<1>3. wal \in [Tx -> Transactions] /\ \A t \in Tx : wal[t] = NotBegun
  BY <1>1, <1>2 DEF Good
<1>4. m \in Moments /\ m.wal = wal
  BY <1>1, <1>3 DEF Moments
<1> HIDE DEF m
<1>5. kept \in Seq(Moments) /\ kept # <<>> /\ Held = {wal}
  <2>1. kept \in Seq(Moments) /\ kept # <<>> /\ {kept[k].wal : k \in 1..Len(kept)} = {m.wal}
    BY <1>1, <1>4, OneMoment
  <2> QED
    BY ZenonT(60), <1>4, <2>1 DEF Held
<1>6. op \in Operations /\ OpInv
  <2>1. /\ op \in Operations /\ op.name = "down" /\ op.at = "idle" /\ op.change = "none" /\ op.steps = 0
    BY <1>1 DEF Idle, Down, Operations, Names, Ats, Changes
  <2> QED
    BY <1>1, <2>1 DEF OpInv, OpShape, OpChange, OpStage, OpUndo, OpPurge, OpRecovery
<1>7. Types
  BY <1>1, <1>3, <1>5, <1>6 DEF Types, Places
<1>8. NotBegun.state = None /\ NotBegun.undo = None /\ NotBegun.removed = 0
      /\ NotBegun.sidecar = FALSE /\ NotBegun.ledger = EmptyLedger
  BY DEF NotBegun
<1>9. None \notin TransactionStates
  BY SealWalAssumption
<1>10. InPlace(NotBegun, "source", "source")
  BY <1>8, <1>9 DEF InPlace, AtSource, AtStaged, TransactionStates, IntentPhases, InversePhases
<1>11. Timely(NotBegun) /\ Backed(NotBegun, "absent")
  <2>1. Unresolved(EmptyLedger) = {}
    BY DEF Unresolved, Admitted, EmptyLedger
  <2> QED
    BY <1>8, <2>1 DEF Timely, Backed
<1>12. AloneForward(wal)
  BY <1>3, <1>8, <1>9 DEF AloneForward, Forward, TransactionStates, IntentPhases, SealPhases,
     InversePhases
<1>13. Sound(wal, loc, stable, sidecar)
  BY <1>1, <1>2, <1>3, <1>10, <1>11, <1>12 DEF Sound
<1> QED
  BY <1>5, <1>6, <1>7, <1>13 DEF IInv, Logs

LEMMA NextStep ==
  ASSUME StagingAssumption, IInv, [Next]_vars
  PROVE  IInv'
<1>1. ASSUME NEW t \in Tx, Step(t)
      PROVE  IInv'
  <2>1. CASE Journal(t) /\ UNCHANGED <<original, fsVars, sidecar, foreign, issued, authority>>
    BY <2>1, JournalActions DEF JournalFrame
  <2>2. CASE \/ apply_wal_bound_mode_change(t) \/ publish_sidecar(t) \/ rename_noreplace(t)
             \/ sync_parents(t) \/ undo_rename(t) \/ authorize(t) \/ record_purge_intent(t)
             \/ purge_postorder(t)
    BY <2>2, ApplyStep, SidecarStep, RenameStep, SyncParentsStep, AuthorizeStep, ClaimStep,
       DeleteStep
  <2> QED
    BY <1>1, <2>1, <2>2 DEF Step
<1>2. CASE UNCHANGED vars
  <2>1. UNCHANGED <<wal, kept, original, modes, loc, stable, sidecar, issued, authority, op>>
    BY <1>2 DEF vars
  <2>2. Held' = Held
    BY <2>1 DEF Held
  <2>3. op' \in Operations /\ OpInv'
    BY <2>1, <2>2, SameOp
  <2>4. Types'
    BY <2>1 DEF IInv, Types
  <2>5. Logs'
    BY <2>1, <2>2, SameLogs
  <2> QED
    BY <2>3, <2>4, <2>5 DEF IInv
<1>3. CASE Next
  BY <1>1, <1>3, CallStep, SidecarStep, OpenStep, CloseStep, PowerStep DEF Next
<1> QED
  BY <1>2, <1>3

LEMMA Invariance ==
  ASSUME StagingAssumption
  PROVE  Spec => []IInv
<1>1. Init => IInv
  BY Initially
<1>2. IInv /\ [Next]_vars => IInv'
  BY NextStep
<1> QED
  BY <1>1, <1>2, PTL DEF Spec

\* Every WAL a power loss may leave is sound.
LEMMA LeftIsSound ==
  ASSUME IInv, NEW left \in Remains
  PROVE  left.wal \in Held /\ Sound(left.wal, loc, stable, sidecar)
<1>1. PICK k \in 1..Len(kept), j \in 1..Len(kept) :
        left = [wal |-> kept[k].wal, modes |-> kept[j].modes]
  BY DEF Remains
<1>2. left.wal \in Held
  BY <1>1 DEF Held
<1> QED
  BY <1>2 DEF IInv, Logs

-----------------------------------------------------------------------------
(* The theorems *)

\* The engine's state keeps the shape the code gives it, in every WAL a crash may
\* leave, whatever fails.
THEOREM TypeCorrect ==
  ASSUME StagingAssumption
  PROVE  Spec => []TypeOK
<1>1. IInv => TypeOK
  <2> SUFFICES ASSUME IInv
               PROVE  TypeOK
    OBVIOUS
  <2>1. \A left \in Remains : left.wal \in [Tx -> Transactions]
    BY LeftIsSound DEF Sound
  <2>2. op.tx \in Tx \cup {None} /\ op.plan \subseteq MutationIds
    BY DEF IInv, Types, Operations
  <2> QED
    BY <2>1, <2>2 DEF IInv, Types, TypeOK
<1> QED
  BY <1>1, Invariance, PTL

\* A settled transaction's tree is where its state says, now and after a power
\* loss, although a rename and its fsyncs come before the frame that records them.
THEOREM SettledTreesAreInPlace ==
  ASSUME StagingAssumption
  PROVE  Spec => []SettledPlaces
<1>1. IInv => SettledPlaces
  <2> SUFFICES ASSUME IInv, NEW t \in Tx, NEW left \in Remains
               PROVE  LET state == left.wal[t].state
                      IN  /\ state = "Restored" => Stays(t, "source")
                          /\ state \in {"VerifiedCommitted", "Purgeable", "UndoConflict",
                                        "Quarantined"} => Stays(t, "staged")
                          /\ state \in {"PurgeOutcome", "Purged"} => Stays(t, "gone")
    BY DEF SettledPlaces
  <2>1. InPlace(left.wal[t], loc[t], stable[t])
    BY LeftIsSound DEF Sound
  <2> QED
    BY ZenonT(60), <2>1 DEF InPlace, AtSource, AtStaged, Stays
<1> QED
  BY <1>1, Invariance, PTL

\* Nothing of a tree is deleted unless every WAL a power loss may leave holds the
\* claim: the claim is synced before the first unlink.
THEOREM DeletionIsClaimed ==
  ASSUME StagingAssumption
  PROVE  Spec => []DeletedOnlyUnderClaim
<1>1. IInv => DeletedOnlyUnderClaim
  <2> SUFFICES ASSUME IInv, NEW t \in Tx, NEW left \in Remains,
                      {loc[t], stable[t]} \cap {"partial", "gone"} # {}
               PROVE  left.wal[t].state \in {"PurgeIntent", "PurgeOutcome", "Purged", "RecoveryRequired"}
    BY DEF DeletedOnlyUnderClaim
  <2>1. InPlace(left.wal[t], loc[t], stable[t]) /\ left.wal[t] \in Transactions
    BY ZenonT(60), LeftIsSound DEF Sound
  <2>2. left.wal[t].state \in TransactionStates \cup {None}
    BY <2>1 DEF Transactions
  <2> QED
    BY <2>1, <2>2 DEF InPlace, AtSource, AtStaged, TransactionStates, IntentPhases, SealPhases,
       InversePhases
<1> QED
  BY <1>1, Invariance, PTL

\* Wherever the WAL that is left lets recovery look for a tree, the tree is there,
\* in both outcomes of a power loss.
THEOREM RecoveryFindsTheTree ==
  ASSUME StagingAssumption
  PROVE  Spec => []RecoveryLooksWhereTheTreeIs
<1>1. IInv => RecoveryLooksWhereTheTreeIs
  <2> SUFFICES ASSUME IInv, NEW t \in Tx, NEW left \in Remains
               PROVE  LET work == decide_recovery(left.wal[t])
                      IN  /\ work = "RestoreBeforeRename" => loc[t] = "source" /\ stable[t] = "source"
                          /\ work \in {"VerifyOrQuarantineAfterRename",
                                       "RestoreSourceParentAfterRename",
                                       "RestoreQuarantinedSeals", "ResumeVerifiedUndo"} =>
                               loc[t] = "staged" /\ stable[t] = "staged"
    BY DEF RecoveryLooksWhereTheTreeIs
  <2>1. InPlace(left.wal[t], loc[t], stable[t]) /\ left.wal[t] \in Transactions
    BY LeftIsSound DEF Sound
  <2> QED
    BY <2>1, WorkOf DEF InPlace, AtSource, AtStaged, BeforeRenameStates, BeforeRename
<1> QED
  BY <1>1, Invariance, PTL

\* Only another program damages a sidecar.
DamageIsForeign == \A t \in Tx : sidecar[t] = "corrupt" => "corrupt" \in Faults

LEMMA DamageStep ==
  ASSUME IInv, DamageIsForeign, [Next]_vars
  PROVE  DamageIsForeign'
<1>1. ASSUME NEW t \in Tx, publish_sidecar(t) \/ corrupt(t)
      PROVE  DamageIsForeign'
  <2>1. sidecar \in [Tx -> {"absent", "valid", "corrupt"}]
    BY DEF IInv, Types
  <2>2. CASE publish_sidecar(t)
    BY <2>1, <2>2 DEF DamageIsForeign, publish_sidecar
  <2>3. CASE corrupt(t)
    BY <2>1, <2>3 DEF DamageIsForeign, corrupt, Fault
  <2> QED
    BY <1>1, <2>2, <2>3
<1>2. CASE open
  BY <1>2 DEF DamageIsForeign, open
<1>3. CASE sidecar' = sidecar
  BY <1>3 DEF DamageIsForeign
<1>4. ASSUME NEW t \in Tx, Step(t), ~publish_sidecar(t)
      PROVE  sidecar' = sidecar
  BY <1>4 DEF Step, apply_wal_bound_mode_change, rename_noreplace, sync_parents, undo_rename,
     authorize, record_purge_intent, purge_postorder
<1>5. ASSUME NEW t \in Tx, Call(t)
      PROVE  sidecar' = sidecar
  BY <1>5 DEF Call, stage_to_verified_commit, undo_verified, request_verified_purge,
     execute_verified_purge
<1>6. ASSUME NEW t \in Tx, NEW side \in {"source", "staged"}, occupy(t, side)
      PROVE  sidecar' = sidecar
  BY <1>6 DEF occupy
<1>7. ASSUME close \/ kill \/ power_loss
      PROVE  sidecar' = sidecar
  BY <1>7 DEF close, kill, power_loss, Gone
<1>8. ASSUME UNCHANGED vars
      PROVE  sidecar' = sidecar
  BY <1>8 DEF vars
<1> QED
  BY <1>1, <1>2, <1>3, <1>4, <1>5, <1>6, <1>7, <1>8 DEF Next

\* A transaction that may still need its tree's manifest finds its sidecar in the
\* store, valid, or damaged where another program may damage it: no crash takes it
\* away and no step of degu's removes or breaks it too early.
THEOREM SidecarIsThere ==
  ASSUME StagingAssumption
  PROVE  Spec => []SidecarOutlivesItsReference
<1>1. Init => DamageIsForeign
  BY DEF Init, DamageIsForeign
<1>2. IInv /\ DamageIsForeign => SidecarOutlivesItsReference
  <2> SUFFICES ASSUME IInv, DamageIsForeign, NEW t \in Tx, NEW left \in Remains,
                      left.wal[t].sidecar, tree_sidecar_required_for_state(left.wal[t].state)
               PROVE  sidecar[t] = "valid" \/ (sidecar[t] = "corrupt" /\ "corrupt" \in Faults)
    BY DEF SidecarOutlivesItsReference
  <2>1. sidecar[t] # "absent"
    BY LeftIsSound DEF Sound, Backed
  <2>2. sidecar[t] \in {"absent", "valid", "corrupt"}
    BY DEF IInv, Types
  <2> QED
    BY <2>1, <2>2 DEF DamageIsForeign
<1> QED
  BY <1>1, <1>2, DamageStep, Invariance, PTL DEF Spec

\* Two transactions are never in flight at once, in no WAL a crash may leave.
THEOREM OneInFlight ==
  ASSUME StagingAssumption
  PROVE  Spec => []OneForwardTransaction
<1>1. IInv => OneForwardTransaction
  BY LeftIsSound DEF OneForwardTransaction, Sound, AloneForward
<1> QED
  BY <1>1, Invariance, PTL

\* No recovery runs out of the turns of recover_transaction_to_terminal's loop.
THEOREM RecoveryIsLongEnough ==
  ASSUME StagingAssumption
  PROVE  Spec => []RecoveryFitsItsSteps
<1>1. IInv => RecoveryFitsItsSteps
  <2> SUFFICES ASSUME IInv, NEW t \in Tx, At("startup", t, "decide") \/ At("forward", t, "decide")
               PROVE  op.steps < MAX_RECOVERY_STEPS
    BY DEF RecoveryFitsItsSteps
  <2>1. op.tx = t /\ op.at # "idle"
    BY DEF At
  <2>2. Spent(wal[t], op.steps) /\ op.steps \in Nat
    BY <2>1, BusyOp DEF Operations
  <2> QED
    BY <2>2 DEF Spent, MAX_RECOVERY_STEPS
<1> QED
  BY <1>1, Invariance, PTL
=============================================================================
