------------------------ MODULE SealedStagingFrames -------------------------
(***************************************************************************)
(* The inductive invariant of SealedStaging and what keeps it in one frame *)
(* of the log: a frame that fits its transaction keeps every WAL a crash   *)
(* may leave sound, and the operation that wrote it knows where it is.     *)
(***************************************************************************)
EXTENDS SealedStaging, SealWalProofs, WellFoundedInduction

Names == {"idle", "down", "stage", "forward", "startup", "undo", "purge"}

Ats ==
  {"idle", "begin", "ready", "rename", "renamed", "synced", "collided", "moved", "decide",
   "drifted", "mismatch", "restoring", "prepared", "undoing", "undone", "return",
   "requested", "claim", "deleting", "removed", "counted", "outcome"}

Changes == {"none", "intended", "applied", "refused", "unknown"}

Operations ==
  [name : Names, tx : Tx \cup {None}, at : Ats, change : Changes,
   plan : SUBSET MutationIds, steps : Nat]

ModeTables == [parent : Modes, tree : [Tx -> [TreeDirs -> Modes]]]

Moments == [wal : [Tx -> Transactions], modes : ModeTables]

Types ==
  /\ wal \in [Tx -> Transactions]
  /\ kept \in Seq(Moments) /\ kept # <<>>
  /\ original \in ModeTables /\ modes \in ModeTables
  /\ loc \in [Tx -> Places] /\ stable \in [Tx -> Places]
  /\ sidecar \in [Tx -> {"absent", "valid", "corrupt"}]
  /\ op \in Operations
  /\ issued \subseteq Tx /\ authority \subseteq issued

\* The WAL in memory and every WAL a crash may leave.
Held == {wal} \cup {kept[k].wal : k \in 1..Len(kept)}

AtSource ==
  {None, "Prepared", "ParentSealIntent", "ParentSealed", "TreeSealIntent", "TreeSealed",
   "RestoreIntent", "Restored"}

AtStaged ==
  {"StagedUnverified", "StagedSealed", "SourceParentRestoreIntent", "SourceParentRestored",
   "VerifiedCommitted", "Quarantined", "UndoIntent", "UndoModesRestored", "UndoConflict",
   "Purgeable"}

\* Where the tree of transaction x is now and where it stays.
InPlace(x, now, stays) ==
  /\ x.state \notin {"RollbackIntent", "RolledBack"}
  /\ x.state \in AtSource => now = "source" /\ stays = "source"
  /\ x.state \in AtStaged => now = "staged" /\ stays = "staged"
  /\ x.state \in {"RenameIntent", "UndoRenameIntent"} =>
       now \in {"source", "staged"} /\ stays \in {"source", "staged"}
  /\ x.state = "RenameIntent" /\ x.rename = "Applied" => now = "staged" /\ stays = "staged"
  /\ x.state = "RenameIntent" /\ x.rename = "NotApplied" => now = "source" /\ stays = "source"
  /\ x.state = "UndoRenameIntent" /\ x.undo = "Applied" => now = "source" /\ stays = "source"
  /\ x.state = "UndoRenameIntent" /\ x.undo = "Collision" => now = "staged" /\ stays = "staged"
  /\ x.state = "PurgeIntent" =>
       now \in {"staged", "partial", "gone"} /\ stays \in {"staged", "partial", "gone"}
  /\ x.state = "PurgeIntent" /\ x.removed # 0 => now = "gone" /\ stays = "gone"
  /\ x.state \in {"PurgeOutcome", "Purged"} => now = "gone" /\ stays = "gone"

\* What is recorded is recorded in its time.
Timely(x) ==
  /\ \A m \in Unresolved(x.ledger) :
       x.state \in {x.ledger.permissions[m].phase, "RecoveryRequired"}
  /\ x.undo # None =>
       x.state \in {"UndoRenameIntent", "Restored", "UndoConflict", "RecoveryRequired"}
  /\ x.removed # 0 =>
       x.state \in {"PurgeIntent", "PurgeOutcome", "Purged", "RecoveryRequired"}

\* The sidecar x refers to is there.
Backed(x, file) ==
  x.sidecar /\ tree_sidecar_required_for_state(x.state) => file # "absent"

AloneForward(w) ==
  \A t, u \in Tx : w[t].state \in Forward /\ w[u].state \in Forward => t = u

Sound(w, now, stays, files) ==
  /\ w \in [Tx -> Transactions]
  /\ \A t \in Tx : Good(w[t])
  /\ \A t \in Tx : InPlace(w[t], now[t], stays[t])
  /\ \A t \in Tx : Timely(w[t])
  /\ \A t \in Tx : Backed(w[t], files[t])
  /\ AloneForward(w)

Logs == \A w \in Held : Sound(w, loc, stable, sidecar)

\* An operation at rest, and one that has a transaction.
OpShape ==
  /\ op.name \in {"idle", "down"} => op \in {Idle, Down}
  /\ op.name \notin {"idle", "down"} => op.tx \in Tx /\ op.plan \subseteq Admitted(wal[op.tx].ledger)

\* A mode change in progress has its intent, unresolved, in the ledger.
OpChange ==
  op.change # "none" =>
    /\ op.at \in {"ready", "restoring", "undoing"}
    /\ wal[op.tx].ledger.recorded - 1 \in MutationIds
    /\ may_resolve(wal[op.tx], wal[op.tx].ledger.recorded - 1)

\* Every WAL a crash may leave says that a rename of t was begun.
Renaming(t, state) ==
  \A w \in Held : /\ w[t].state = state
                  /\ state = "RenameIntent" => w[t].rename = None
                  /\ state = "UndoRenameIntent" => w[t].undo = None

OpStage ==
  /\ op.at = "begin" => wal[op.tx].state = None /\ \A u \in Tx : wal[u].state \notin Forward
  /\ op.at = "rename" => Renaming(op.tx, "RenameIntent") /\ Stays(op.tx, "source")
  /\ op.name = "stage" =>
       /\ op.at = "renamed" => Renaming(op.tx, "RenameIntent") /\ loc[op.tx] = "staged"
       /\ op.at = "synced" => Renaming(op.tx, "RenameIntent") /\ Stays(op.tx, "staged")
       /\ op.at = "collided" => Renaming(op.tx, "RenameIntent") /\ Stays(op.tx, "source")

OpUndo ==
  /\ op.at = "prepared" => op.name = "undo"
  /\ op.at = "return" => Renaming(op.tx, "UndoRenameIntent") /\ Stays(op.tx, "staged")
  /\ op.name # "stage" =>
       /\ op.at = "renamed" => Renaming(op.tx, "UndoRenameIntent") /\ loc[op.tx] = "source"
       /\ op.at = "synced" => Renaming(op.tx, "UndoRenameIntent") /\ Stays(op.tx, "source")
       /\ op.at = "collided" =>
            wal[op.tx].state = "UndoRenameIntent" /\ Stays(op.tx, "staged")

OpPurge ==
  /\ op.at = "requested" => wal[op.tx].state \in {"VerifiedCommitted", "Purgeable"}
  /\ op.at = "claim" => op.tx \notin authority
  /\ op.at \in {"deleting", "removed"} => \A w \in Held : w[op.tx].state = "PurgeIntent"
  /\ op.at = "removed" => Stays(op.tx, "gone")

\* The turns a recovery has taken, by the state it has reached.
Spent(x, steps) ==
  /\ steps <= 3
  /\ x.state # "VerifiedCommitted" => steps <= 2
  /\ x.state \notin {"VerifiedCommitted", "SourceParentRestored"} => steps <= 1
  /\ x.state \notin {"VerifiedCommitted", "SourceParentRestored", "StagedSealed",
                     "SourceParentRestoreIntent", "Quarantined", "Restored", "UndoConflict",
                     "Purged"} => steps = 0

OpRecovery ==
  /\ op.name \notin {"idle", "down"} => Spent(wal[op.tx], op.steps)
  /\ op.name \notin {"startup", "forward"} => op.steps = 0
  /\ op.at = "mismatch" => wal[op.tx].state = "StagedUnverified"
  /\ op.at = "restoring" =>
       wal[op.tx].state \in {"RestoreIntent", "SourceParentRestoreIntent", "Quarantined"}

OpInv == OpShape /\ OpChange /\ OpStage /\ OpUndo /\ OpPurge /\ OpRecovery

IInv == Types /\ Logs /\ OpInv

-----------------------------------------------------------------------------
(* The directories and the log *)

\* A set of directories has a deepest one.
LEMMA DeepestIsOne ==
  ASSUME StagingAssumption, NEW S \in SUBSET Directories, S # {}
  PROVE  Deepest(S) \in S
<1> DEFINE n == Cardinality(TreeDirs)
           T == {n - i : i \in S}
<1>1. n \in Nat /\ S \subseteq 0..n
  BY FS_CardinalityType DEF StagingAssumption, Directories
<1> HIDE DEF n
<1>2. PICK i \in S : TRUE
  OBVIOUS
<1>3. T \subseteq Nat /\ n - i \in T
  BY <1>1
<1>4. PICK x \in T : \A y \in T : ~(<<y, x>> \in OpToRel(<, Nat))
  BY Zenon, <1>3, NatLessThanWellFounded, WFMin
<1>5. \A y \in T : ~(y < x)
  BY Zenon, <1>3, <1>4 DEF OpToRel
<1>6. PICK d \in S : x = n - d
  BY Zenon, <1>4
<1>7. \A j \in S : j <= d
  <2> TAKE j \in S
  <2>1. n - j \in T /\ j \in Nat /\ d \in Nat
    BY <1>1
  <2> HIDE DEF T
  <2>2. ~(n - j < x)
    BY <2>1, <1>5
  <2> QED
    BY <2>1, <2>2, <1>1, <1>6
<1> QED
  BY <1>7 DEF Deepest

\* The moment a frame for t is written.
Moment(t, y) == [wal |-> [wal EXCEPT ![t] = y], modes |-> modes]

Wrote(t, y) ==
  /\ wal' = [wal EXCEPT ![t] = y]
  /\ kept' \in {<<Moment(t, y)>>, Append(kept, Moment(t, y))}

Synced(t, y) ==
  /\ wal' = [wal EXCEPT ![t] = y]
  /\ kept' = <<Moment(t, y)>>

Stood(t, y) ==
  /\ wal' = wal
  /\ kept' \in {kept, <<File>>, Append(kept, Moment(t, y))}

LEMMA OneMoment ==
  ASSUME NEW m \in Moments, NEW s, s = <<m>>
  PROVE  /\ s \in Seq(Moments) /\ s # <<>> /\ Len(s) = 1 /\ s[1] = m
         /\ {s[k].wal : k \in 1..Len(s)} = {m.wal}
<1>1. s \in Seq(Moments) /\ s # <<>> /\ Len(s) = 1 /\ s[1] = m
  OBVIOUS
<1> QED
  BY <1>1

LEMMA NextMoment ==
  ASSUME NEW m \in Moments, NEW s \in Seq(Moments), NEW r, r = Append(s, m)
  PROVE  /\ r \in Seq(Moments) /\ r # <<>>
         /\ {r[k].wal : k \in 1..Len(r)} = {s[k].wal : k \in 1..Len(s)} \cup {m.wal}
<1>1. /\ r \in Seq(Moments) /\ r # <<>> /\ Len(r) = Len(s) + 1 /\ Len(s) \in Nat
      /\ \A k \in 1..Len(s) : r[k] = s[k]
      /\ r[Len(r)] = m
  OBVIOUS
<1>2. 1..Len(r) = 1..Len(s) \cup {Len(r)}
  BY <1>1
<1> QED
  BY <1>1, <1>2

LEMMA LastMoment ==
  ASSUME Types
  PROVE  /\ Len(kept) \in Nat \ {0} /\ Len(kept) \in 1..Len(kept)
         /\ File \in Moments /\ File.wal \in Held
<1>1. Len(kept) \in Nat \ {0} /\ Len(kept) \in 1..Len(kept)
  BY DEF Types
<1>2. kept[Len(kept)] \in Moments
  BY <1>1 DEF Types
<1> QED
  BY <1>1, <1>2 DEF File, Held

\* What appending, or failing to append, may leave in the log.
LEMMA LogGrows ==
  ASSUME Types, NEW t \in Tx, NEW y \in Transactions, Wrote(t, y) \/ Stood(t, y)
  PROVE  /\ wal' \in [Tx -> Transactions] /\ kept' \in Seq(Moments) /\ kept' # <<>>
         /\ Held' \subseteq Held \cup {[wal EXCEPT ![t] = y]}
<1> DEFINE m == Moment(t, y)
<1>1. m \in Moments /\ m.wal = [wal EXCEPT ![t] = y]
  BY DEF Moment, Moments, Types
<1> HIDE DEF m
<1>2. wal' \in {wal, m.wal} /\ kept' \in {kept, <<File>>, <<m>>, Append(kept, m)}
  BY <1>1 DEF Wrote, Stood, m
<1>3. wal' \in [Tx -> Transactions]
  BY <1>1, <1>2 DEF Types, Moments
<1>4. CASE kept' = kept
  BY <1>1, <1>2, <1>3, <1>4 DEF Types, Held
<1>5. CASE kept' = <<File>>
  BY <1>1, <1>2, <1>3, <1>5, LastMoment, OneMoment DEF Held
<1>6. CASE kept' = <<m>>
  BY <1>1, <1>2, <1>3, <1>6, OneMoment DEF Held
<1>7. CASE kept' = Append(kept, m)
  <2>1. kept \in Seq(Moments)
    BY DEF Types
  <2>2. /\ kept' \in Seq(Moments) /\ kept' # <<>>
        /\ {kept'[k].wal : k \in 1..Len(kept')} = {kept[k].wal : k \in 1..Len(kept)} \cup {m.wal}
    BY <2>1, <1>1, <1>7, NextMoment
  <2> QED
    BY Zenon, <2>2, <1>1, <1>2, <1>3 DEF Held
<1> QED
  BY <1>2, <1>4, <1>5, <1>6, <1>7

\* A synced frame leaves one WAL.
LEMMA LogIsOne ==
  ASSUME Types, NEW t \in Tx, NEW y \in Transactions, Synced(t, y)
  PROVE  Held' = {[wal EXCEPT ![t] = y]}
<1> DEFINE m == Moment(t, y)
<1>1. m \in Moments /\ m.wal = [wal EXCEPT ![t] = y]
  BY DEF Moment, Moments, Types
<1> HIDE DEF m
<1>2. wal' = m.wal /\ kept' = <<m>>
  BY <1>1 DEF Synced, m
<1>3. Len(kept') = 1 /\ kept'[1] = m
  BY <1>2
<1>4. 1..Len(kept') = {1}
  BY <1>3
<1>5. {kept'[k].wal : k \in 1..Len(kept')} = {m.wal}
  BY <1>3, <1>4
<1> QED
  BY <1>1, <1>2, <1>5 DEF Held

-----------------------------------------------------------------------------
(* One frame *)

SealIntended(t, d, expected, reverses) ==
  [wal[t] EXCEPT !.ledger = record_intent(wal[t].ledger, wal[t].ledger.recorded, wal[t].state,
                                          d, ModeOf(modes, t, d), expected, reverses)]

Resolved(t, m, resolution) ==
  [wal[t] EXCEPT !.ledger = record_resolution(wal[t].ledger, m, resolution)]

Intends(t, y) ==
  \E d \in Directories, expected \in Modes, reverses \in MutationIds \cup {None} :
    /\ wal[t].ledger.recorded \in MutationIds
    /\ may_intend_mutation(wal[t], wal[t].ledger.recorded, d, ModeOf(modes, t, d), expected,
                           reverses)
    /\ wal[t].state = "TreeSealIntent" => d # Parent
    /\ y = SealIntended(t, d, expected, reverses)

Resolves(t, y) ==
  \E m \in MutationIds, resolution \in {"Applied", "ConfirmedNotApplied"} :
    may_resolve(wal[t], m) /\ y = Resolved(t, m, resolution)

Begins(t, y) ==
  /\ wal[t].state = None /\ \A u \in Tx : wal[u].state \notin Forward
  /\ y = Begun("PermissionSeal", TRUE)

ChangesState(t, y) ==
  \E next \in TransactionStates :
    may_transition(wal[t], next) /\ y = [wal[t] EXCEPT !.state = next]

CompletesTree(t, y) ==
  /\ wal[t].state = "TreeSealIntent" /\ sidecar[t] # "absent"
  /\ y = [wal[t] EXCEPT !.manifest = TRUE, !.sidecar = TRUE]

IntendsRename(t, y) ==
  wal[t].state = "TreeSealed" /\ y = [wal[t] EXCEPT !.state = "RenameIntent"]

RecordsRename(t, y) ==
  /\ wal[t].state = "RenameIntent"
  /\ \/ Stays(t, "staged") /\ y = [wal[t] EXCEPT !.rename = "Applied"]
     \/ Stays(t, "source") /\ y = [wal[t] EXCEPT !.rename = "NotApplied"]

RecordsUndo(t, y) ==
  /\ wal[t].state = "UndoRenameIntent"
  /\ \/ Stays(t, "source") /\ y = [wal[t] EXCEPT !.undo = "Applied"]
     \/ Stays(t, "staged") /\ y = [wal[t] EXCEPT !.undo = "Collision"]

Authorizes(t, y) ==
  wal[t].state = "VerifiedCommitted" /\ y = [wal[t] EXCEPT !.state = "Purgeable"]

ClaimsPurge(t, y) ==
  wal[t].state = "Purgeable" /\ y = [wal[t] EXCEPT !.state = "PurgeIntent"]

RecordsRemoved(t, y) ==
  /\ wal[t].state = "PurgeIntent" /\ Stays(t, "gone")
  /\ y = [wal[t] EXCEPT !.removed = EntryCount]

\* The frames the engine writes for t.
Advances(t, y) ==
  \/ y = wal[t]
  \/ Intends(t, y) \/ Resolves(t, y) \/ Begins(t, y) \/ ChangesState(t, y)
  \/ CompletesTree(t, y) \/ IntendsRename(t, y) \/ RecordsRename(t, y) \/ RecordsUndo(t, y)
  \/ Authorizes(t, y) \/ ClaimsPurge(t, y) \/ RecordsRemoved(t, y)

\* What a frame must leave of t for the WAL it is in to be sound.
Fits(t, y) ==
  /\ Good(y)
  /\ InPlace(y, loc[t], stable[t])
  /\ Timely(y)
  /\ Backed(y, sidecar[t])
  /\ y.state \in Forward => wal[t].state \in Forward \/ \A u \in Tx : wal[u].state \notin Forward

SoundNow == Types /\ Sound(wal, loc, stable, sidecar)

LEMMA OneTx ==
  ASSUME SoundNow, NEW t \in Tx
  PROVE  /\ wal[t] \in Transactions /\ Good(wal[t]) /\ InPlace(wal[t], loc[t], stable[t])
         /\ Timely(wal[t]) /\ Backed(wal[t], sidecar[t])
         /\ wal[t].ledger \in Ledgers /\ wal[t].state \in TransactionStates \cup {None}
BY DEF SoundNow, Sound, Transactions

LEMMA FitsSound ==
  ASSUME SoundNow, NEW t \in Tx, NEW y, Fits(t, y)
  PROVE  y \in Transactions /\ Sound([wal EXCEPT ![t] = y], loc, stable, sidecar)
<1> DEFINE w == [wal EXCEPT ![t] = y]
<1>1. y \in Transactions
  BY DEF Fits, Good
<1>2. w \in [Tx -> Transactions] /\ w[t] = y /\ \A u \in Tx \ {t} : w[u] = wal[u]
  BY <1>1 DEF SoundNow, Types
<1> HIDE DEF w
<1>3. AloneForward(w)
  BY <1>2 DEF AloneForward, Fits, SoundNow, Sound
<1>4. Sound(w, loc, stable, sidecar)
  BY <1>2, <1>3 DEF Sound, SoundNow, Fits
<1> QED
  BY <1>1, <1>4 DEF w

\* A frame that changes the ledger only.
LEMMA LedgerFits ==
  ASSUME SoundNow, NEW t \in Tx, NEW l \in Ledgers, NEW y, y = [wal[t] EXCEPT !.ledger = l],
         Good(y), wal[t].state # None,
         \A m \in Unresolved(l) : wal[t].state \in {l.permissions[m].phase, "RecoveryRequired"}
  PROVE  Fits(t, y)
<1>1. /\ y.state = wal[t].state /\ y.rename = wal[t].rename /\ y.undo = wal[t].undo
      /\ y.removed = wal[t].removed /\ y.sidecar = wal[t].sidecar /\ y.ledger = l
  BY OneTx DEF Transactions
<1>2. InPlace(y, loc[t], stable[t]) /\ Timely(y) /\ Backed(y, sidecar[t])
  BY <1>1, OneTx DEF InPlace, Timely, Backed
<1> QED
  BY <1>1, <1>2 DEF Fits

LEMMA IntendsFits ==
  ASSUME SoundNow, NEW t \in Tx, NEW y, Intends(t, y), modes \in ModeTables
  PROVE  Fits(t, y)
<1> DEFINE l == wal[t].ledger
           m == l.recorded
<1>1. PICK d \in Directories, expected \in Modes, reverses \in MutationIds \cup {None} :
        /\ m \in MutationIds
        /\ may_intend_mutation(wal[t], m, d, ModeOf(modes, t, d), expected, reverses)
        /\ wal[t].state = "TreeSealIntent" => d # Parent
        /\ y = SealIntended(t, d, expected, reverses)
  BY DEF Intends
<1>2. ModeOf(modes, t, d) \in Modes
  BY DEF ModeOf, ModeTables, Directories
<1> DEFINE pre == ModeOf(modes, t, d)
           after == record_intent(l, m, wal[t].state, d, pre, expected, reverses)
<1> HIDE DEF pre
<1>3. pre \in Modes /\ y = [wal[t] EXCEPT !.ledger = after]
      /\ may_intend_mutation(wal[t], m, d, pre, expected, reverses)
  BY <1>1, <1>2 DEF pre, SealIntended
<1>4. Good(y)
  BY <1>1, <1>3, OneTx, IntentGood
<1>5. wal[t].state \in IntentPhases /\ l.permissions[m] = None
  BY <1>3 DEF may_intend_mutation
<1>6. after \in Ledgers
  BY <1>1, <1>3, <1>5, OneTx, IntentType
<1>7. /\ \A k \in Unresolved(after) : k = m \/ k \in Unresolved(l)
      /\ \A k \in Unresolved(after) \ {m} : after.permissions[k] = l.permissions[k]
      /\ after.permissions[m].phase = wal[t].state
  <2>1. /\ Admitted(after) = Admitted(l) \cup {m}
        /\ \A k \in Admitted(l) : after.permissions[k] = l.permissions[k]
        /\ after.permissions[m].phase = wal[t].state
    <3>1. after = record_intent(l, m, wal[t].state, d, pre, expected, reverses)
      OBVIOUS
    <3>2. l \in Ledgers /\ m \in MutationIds /\ pre \in Modes
      BY <1>1, <1>3, OneTx
    <3> HIDE DEF after, l, m
    <3> QED
      BY <1>5, <3>1, <3>2, IntentAdds
  <2> HIDE DEF after, l, m
  <2> QED
    BY <2>1 DEF Unresolved
<1> HIDE DEF after
<1>8. \A k \in Unresolved(after) : wal[t].state \in {after.permissions[k].phase, "RecoveryRequired"}
  BY <1>7, OneTx DEF Timely
<1>9. wal[t].state # None
  BY <1>5, SealWalAssumption DEF TransactionStates
<1> QED
  BY <1>3, <1>4, <1>6, <1>8, <1>9, LedgerFits

LEMMA ResolvesFits ==
  ASSUME SoundNow, NEW t \in Tx, NEW y, Resolves(t, y)
  PROVE  Fits(t, y)
<1> DEFINE l == wal[t].ledger
<1>1. PICK m \in MutationIds, resolution \in {"Applied", "ConfirmedNotApplied"} :
        may_resolve(wal[t], m) /\ y = Resolved(t, m, resolution)
  BY DEF Resolves
<1> DEFINE after == record_resolution(l, m, resolution)
<1>2. y = [wal[t] EXCEPT !.ledger = after]
  BY <1>1 DEF Resolved
<1>3. Good(y)
  <2>1. Good([wal[t] EXCEPT !.ledger = after])
    BY ZenonT(60), <1>1, OneTx, ResolutionGood
  <2> QED
    BY <2>1, <1>2
<1>4. /\ m \in Admitted(l) /\ l.permissions[m] # None /\ l.permissions[m] \in PermissionEntries
      /\ wal[t].state = l.permissions[m].phase
  BY <1>1, OneTx DEF may_resolve, Admitted, Ledgers
<1>5. after \in Ledgers
  BY <1>1, <1>4, OneTx, ResolutionType
<1>6. /\ Unresolved(after) \subseteq Unresolved(l)
      /\ \A k \in Admitted(l) : after.permissions[k].phase = l.permissions[k].phase
  <2>1. /\ Admitted(after) = Admitted(l)
        /\ \A k \in Admitted(l) : after.permissions[k].phase = l.permissions[k].phase
    BY <1>1, <1>4, OneTx, ResolutionEntries
  <2> after.permissions = [l.permissions EXCEPT ![m].application = resolution]
    BY DEF record_resolution
  <2>2. l.permissions \in [MutationIds -> PermissionEntries \cup {None}]
    BY OneTx DEF Ledgers
  <2> HIDE DEF after, l
  <2>3. \A k \in MutationIds \ {m} : after.permissions[k] = l.permissions[k]
    BY <2>1, <2>2
  <2>4. after.permissions[m].application = resolution /\ resolution # Unknown
    BY <1>4, <2>1, <2>2 DEF PermissionEntries, Unknown
  <2> QED
    BY <2>1, <2>3, <2>4 DEF Unresolved, Admitted
<1> HIDE DEF after
<1>7. \A k \in Unresolved(after) : wal[t].state \in {after.permissions[k].phase, "RecoveryRequired"}
  BY <1>6, OneTx DEF Timely, Unresolved
<1>8. wal[t].state # None
  BY <1>4, SealWalAssumption DEF PermissionEntries, TransactionStates
<1> QED
  BY <1>2, <1>3, <1>5, <1>7, <1>8, LedgerFits

\* A frame that leaves the ledger alone.
LEMMA SameLedgerFits ==
  ASSUME SoundNow, NEW t \in Tx, NEW y \in Transactions, y.ledger = wal[t].ledger,
         y.state # None, PathSound(y), InPlace(y, loc[t], stable[t]), Backed(y, sidecar[t]),
         Unresolved(y.ledger) = {} \/ y.state = wal[t].state \/ y.state = "RecoveryRequired",
         y.undo # None =>
           y.state \in {"UndoRenameIntent", "Restored", "UndoConflict", "RecoveryRequired"},
         y.removed # 0 =>
           y.state \in {"PurgeIntent", "PurgeOutcome", "Purged", "RecoveryRequired"},
         y.state \in Forward => wal[t].state \in Forward \/ \A u \in Tx : wal[u].state \notin Forward
  PROVE  Fits(t, y)
<1>1. Good(y)
  BY OneTx, SameLedger
<1>2. Timely(y)
  BY OneTx DEF Timely
<1> QED
  BY <1>1, <1>2 DEF Fits

\* No mutation is unresolved in a state that is no phase of one.
LEMMA NothingUnresolved ==
  ASSUME SoundNow, NEW t \in Tx, wal[t].state \notin IntentPhases \cup {"RecoveryRequired"}
  PROVE  Unresolved(wal[t].ledger) = {}
<1>1. \A m \in Unresolved(wal[t].ledger) : wal[t].ledger.permissions[m].phase \in IntentPhases
  BY OneTx DEF Unresolved, Admitted, Ledgers, PermissionEntries
<1> QED
  BY <1>1, OneTx DEF Timely

\* The ledger's own test for it.
LEMMA ResolvedAll ==
  ASSUME NEW x, Good(x), ~has_unresolved(x.ledger)
  PROVE  Unresolved(x.ledger) = {}
<1> DEFINE U == Unresolved(x.ledger)
<1>1. IsFiniteSet(U)
  <2>1. IsFiniteSet(Admitted(x.ledger)) /\ U \subseteq Admitted(x.ledger)
    BY DEF Good, LedgerSound, CountsSound, Unresolved
  <2> QED
    BY <2>1, FS_Subset
<1>2. /\ x.ledger.recorded = x.ledger.resolved + Cardinality(U)
      /\ x.ledger.recorded = x.ledger.resolved /\ x.ledger.resolved \in Nat
  BY DEF Good, LedgerSound, CountsSound, has_unresolved, Transactions, Ledgers
<1>3. Cardinality(U) \in Nat
  BY <1>1, FS_CardinalityType
<1> HIDE DEF U
<1>4. Cardinality(U) = 0
  BY <1>2, <1>3
<1>5. U = {}
  BY <1>1, <1>4, FS_EmptySet
<1> QED
  BY <1>5 DEF U

LEMMA BeginsFits ==
  ASSUME SoundNow, NEW t \in Tx, NEW y, Begins(t, y)
  PROVE  Fits(t, y)
<1>1. wal[t] = NotBegun
  BY OneTx DEF Begins, Good
<1>2. /\ y = [NotBegun EXCEPT !.state = "Prepared", !.strategy = "PermissionSeal",
                              !.association = TRUE]
      /\ NotBegun \in Transactions
  BY <1>1, OneTx DEF Begins, Begun
<1>3. /\ y \in Transactions /\ y.ledger = EmptyLedger /\ wal[t].ledger = EmptyLedger
      /\ y.state = "Prepared" /\ y.undo = None /\ y.rename = None /\ y.removed = 0
      /\ y.sidecar = FALSE
  <2>1. y \in Transactions
    BY Zenon, <1>2 DEF Transactions, TransactionStates, Strategies
  <2> QED
    BY <2>1, <1>1, <1>2 DEF NotBegun
<1>4. y.state # None /\ Admitted(y.ledger) = {}
  BY <1>3, SealWalAssumption DEF TransactionStates, Admitted, EmptyLedger
<1>5. PathSound(y)
  BY <1>3, <1>4 DEF PathSound, AfterParentRestore
<1>6. InPlace(y, loc[t], stable[t])
  BY ZenonT(60), <1>3, OneTx DEF InPlace, AtSource, AtStaged, Begins
<1>7. Backed(y, sidecar[t]) /\ Unresolved(y.ledger) = {}
  BY <1>3, <1>4 DEF Backed, Unresolved
<1> QED
  BY Zenon, <1>3, <1>4, <1>5, <1>6, <1>7, SameLedgerFits DEF Begins

\* A transition takes the tree to where the next state says it is.
LEMMA TransitionInPlace ==
  ASSUME StagingAssumption, SoundNow, NEW t \in Tx, NEW next, may_transition(wal[t], next),
         NEW y, y.state = next, y.rename = wal[t].rename, y.undo = wal[t].undo,
         y.removed = wal[t].removed
  PROVE  InPlace(y, loc[t], stable[t])
<1> DEFINE x == wal[t]
<1>1. InPlace(x, loc[t], stable[t]) /\ Timely(x) /\ x.removed \in Nat
  BY OneTx DEF Transactions
<1>2. /\ valid_transition(x.state, next) /\ next \in FoundationTargets \cup ProvenTargets
      /\ x.state = "UndoRenameIntent" => UndoOutcomeMatches(x, next)
      /\ x.state = "RenameIntent" => RenameOutcomeMatches(x, next)
      /\ next = "PurgeOutcome" => x.removed # 0
  BY SealWalAssumption DEF may_transition, transition_inner
<1> HIDE DEF x
<1>3. next \notin {None, "RollbackIntent", "RolledBack", "RenameIntent", "PurgeIntent", "Purgeable"}
  BY <1>2, SealWalAssumption DEF FoundationTargets, ProvenTargets, TransactionStates, IntentPhases,
     SealPhases, InversePhases
<1>4. next \in AtSource => loc[t] = "source" /\ stable[t] = "source"
  <2>1. next \in AtSource =>
          \/ x.state \in AtSource
          \/ x.state = "RenameIntent" /\ x.rename = "NotApplied"
          \/ x.state = "UndoRenameIntent" /\ x.undo = "Applied"
    BY <1>2, <1>3 DEF valid_transition, AtSource, BeforeRename, MayBeQuarantined,
       RenameOutcomeMatches, UndoOutcomeMatches
  <2> QED
    BY <1>1, <2>1 DEF InPlace
<1>5. next \in AtStaged => loc[t] = "staged" /\ stable[t] = "staged"
  <2>1. next \in AtStaged =>
          \/ x.state \in AtStaged
          \/ x.state = "RenameIntent" /\ x.rename = "Applied"
          \/ x.state = "UndoRenameIntent" /\ x.undo = "Collision"
    BY <1>1, <1>2, <1>3 DEF valid_transition, AtStaged, BeforeRename, MayBeQuarantined,
       RenameOutcomeMatches, UndoOutcomeMatches, InPlace
  <2> QED
    BY <1>1, <2>1 DEF InPlace
<1>6. next = "UndoRenameIntent" => x.undo = None /\ loc[t] = "staged" /\ stable[t] = "staged"
  <2>1. next = "UndoRenameIntent" => x.state = "UndoModesRestored"
    BY <1>2 DEF valid_transition
  <2> QED
    BY <1>1, <2>1 DEF InPlace, AtStaged, Timely
<1>7. next \in {"PurgeOutcome", "Purged"} => loc[t] = "gone" /\ stable[t] = "gone"
  <2>1. next = "PurgeOutcome" => x.state = "PurgeIntent"
    BY <1>2 DEF valid_transition
  <2>2. next = "Purged" => x.state = "PurgeOutcome"
    BY <1>2 DEF valid_transition
  <2> QED
    BY <1>1, <1>2, <2>1, <2>2 DEF InPlace
<1>8. None # "Applied" /\ None # "Collision"
  BY SealWalAssumption DEF StagingAssumption
<1> QED
  BY <1>3, <1>4, <1>5, <1>6, <1>7, <1>8 DEF InPlace, x

LEMMA TransitionFits ==
  ASSUME StagingAssumption, SoundNow, NEW t \in Tx, NEW y, ChangesState(t, y)
  PROVE  Fits(t, y)
<1> DEFINE x == wal[t]
<1>1. PICK next \in TransactionStates : may_transition(x, next) /\ y = [x EXCEPT !.state = next]
  BY DEF ChangesState
<1>2. /\ y \in Transactions /\ y.ledger = x.ledger /\ y.state = next /\ y.rename = x.rename
      /\ y.undo = x.undo /\ y.removed = x.removed /\ y.sidecar = x.sidecar
  BY <1>1, OneTx DEF Transactions
<1>3. InPlace(y, loc[t], stable[t])
  BY Zenon, <1>1, <1>2, TransitionInPlace
<1>4. PathSound(y)
  BY ZenonT(60), <1>1, <1>2, OneTx, PathTransition DEF may_transition, Good
<1>5. /\ valid_transition(x.state, next) /\ Timely(x) /\ Good(x) /\ Backed(x, sidecar[t])
      /\ next # "RecoveryRequired" => ~has_unresolved(x.ledger)
      /\ next \in FoundationTargets \cup ProvenTargets
  BY <1>1, OneTx DEF may_transition, transition_inner
<1>6. Unresolved(y.ledger) = {} \/ y.state = "RecoveryRequired"
  BY <1>2, <1>5, ResolvedAll
<1> HIDE DEF x
<1>7. y.undo # None =>
        y.state \in {"UndoRenameIntent", "Restored", "UndoConflict", "RecoveryRequired"}
  BY <1>2, <1>5 DEF Timely, valid_transition, BeforeRename, MayBeQuarantined
<1>8. y.removed # 0 => y.state \in {"PurgeIntent", "PurgeOutcome", "Purged", "RecoveryRequired"}
  BY <1>2, <1>5 DEF Timely, valid_transition, BeforeRename, MayBeQuarantined
<1>9. y.state \in Forward => x.state \in Forward
  BY <1>2, <1>5 DEF Forward, valid_transition, BeforeRename, MayBeQuarantined,
     FoundationTargets, ProvenTargets
<1>10. Backed(y, sidecar[t])
  BY <1>2, <1>5 DEF Backed, tree_sidecar_required_for_state, valid_transition, BeforeRename,
     MayBeQuarantined, MayStopForRecovery
<1>11. y.state # None
  BY <1>1, <1>2, SealWalAssumption
<1> QED
  BY <1>2, <1>3, <1>4, <1>6, <1>7, <1>8, <1>9, <1>10, <1>11, SameLedgerFits DEF x

LEMMA CompletesTreeFits ==
  ASSUME SoundNow, NEW t \in Tx, NEW y, CompletesTree(t, y)
  PROVE  Fits(t, y)
<1> DEFINE x == wal[t]
<1>1. /\ y \in Transactions /\ y.ledger = x.ledger /\ y.state = x.state /\ y.rename = x.rename
      /\ y.undo = x.undo /\ y.removed = x.removed /\ x.state = "TreeSealIntent"
      /\ sidecar[t] # "absent"
  BY ZenonT(60), OneTx DEF Transactions, CompletesTree
<1>2. PathSound(y)
  BY <1>1, OneTx, PathKept DEF Good
<1>3. InPlace(y, loc[t], stable[t]) /\ Backed(y, sidecar[t])
  BY <1>1, OneTx DEF InPlace, Backed
<1>4. y.state # None
  BY <1>1, SealWalAssumption DEF TransactionStates, IntentPhases, SealPhases
<1>5. Timely(x)
  BY OneTx
<1> HIDE DEF x
<1> QED
  BY <1>1, <1>2, <1>3, <1>4, <1>5, SameLedgerFits DEF x, Timely

LEMMA IntendsRenameFits ==
  ASSUME StagingAssumption, SoundNow, NEW t \in Tx, NEW y, IntendsRename(t, y)
  PROVE  Fits(t, y) /\ y.rename = None
<1> DEFINE x == wal[t]
<1>1. /\ y \in Transactions /\ y.ledger = x.ledger /\ y.state = "RenameIntent"
      /\ y.rename = x.rename /\ y.undo = x.undo /\ y.removed = x.removed
      /\ x.state = "TreeSealed" /\ y.sidecar = x.sidecar
  BY OneTx DEF Transactions, IntendsRename, TransactionStates
<1>2. PathSound(x) /\ Timely(x) /\ InPlace(x, loc[t], stable[t]) /\ Backed(x, sidecar[t])
  BY OneTx DEF Good
<1>3. Unresolved(x.ledger) = {}
  BY <1>1, NothingUnresolved DEF IntentPhases, SealPhases, InversePhases
<1> HIDE DEF x
<1>4. y.rename = None
  BY <1>1, <1>2 DEF PathSound, BeforeRenameStates, BeforeRename
<1>5. PathSound(y)
  BY <1>1, <1>2, PathRename
<1>6. InPlace(y, loc[t], stable[t])
  <2>1. None # "Applied" /\ None # "NotApplied"
    BY SealWalAssumption DEF StagingAssumption
  <2>2. None # "RenameIntent"
    BY SealWalAssumption DEF TransactionStates
  <2> QED
    BY <1>1, <1>2, <1>4, <2>1, <2>2 DEF InPlace, AtSource, AtStaged
<1>7. Backed(y, sidecar[t])
  BY <1>1, <1>2 DEF Backed, tree_sidecar_required_for_state
<1>8. y.state # None
  BY <1>1, SealWalAssumption DEF TransactionStates
<1>9. y.undo = None /\ y.removed = 0
  BY <1>1, <1>2 DEF Timely
<1>10. x.state \in Forward
  BY <1>1 DEF Forward
<1>11. Fits(t, y)
  BY <1>1, <1>3, <1>5, <1>6, <1>7, <1>8, <1>9, <1>10, SameLedgerFits DEF x
<1> QED
  BY <1>4, <1>11

LEMMA RecordsRenameFits ==
  ASSUME StagingAssumption, SoundNow, NEW t \in Tx, NEW y, RecordsRename(t, y)
  PROVE  Fits(t, y)
<1> DEFINE x == wal[t]
<1>1. /\ y \in Transactions /\ y.ledger = x.ledger /\ y.state = "RenameIntent"
      /\ y.undo = x.undo /\ y.removed = x.removed
      /\ x.state = "RenameIntent" /\ y.sidecar = x.sidecar
      /\ \/ Stays(t, "staged") /\ y.rename = "Applied"
         \/ Stays(t, "source") /\ y.rename = "NotApplied"
  BY OneTx DEF Transactions, RecordsRename
<1>2. PathSound(x) /\ Timely(x) /\ Backed(x, sidecar[t])
  BY OneTx DEF Good
<1> HIDE DEF x
<1>3. PathSound(y)
  BY <1>1, <1>2, PathRename
<1>4. y.state # None
  BY <1>1, SealWalAssumption DEF TransactionStates
<1>5. InPlace(y, loc[t], stable[t])
  BY <1>1, <1>4 DEF InPlace, AtSource, AtStaged, Stays
<1>6. Backed(y, sidecar[t])
  BY <1>1, <1>2 DEF Backed
<1>7. y.undo = None /\ y.removed = 0
  BY <1>1, <1>2 DEF Timely
<1> QED
  BY <1>1, <1>3, <1>4, <1>5, <1>6, <1>7, SameLedgerFits DEF x

LEMMA RecordsUndoFits ==
  ASSUME StagingAssumption, SoundNow, NEW t \in Tx, NEW y, RecordsUndo(t, y)
  PROVE  Fits(t, y)
<1> DEFINE x == wal[t]
<1>1. /\ y \in Transactions /\ y.ledger = x.ledger /\ y.state = "UndoRenameIntent"
      /\ y.removed = x.removed
      /\ x.state = "UndoRenameIntent" /\ y.sidecar = x.sidecar
      /\ \/ Stays(t, "source") /\ y.undo = "Applied"
         \/ Stays(t, "staged") /\ y.undo = "Collision"
  BY OneTx DEF Transactions, RecordsUndo
<1>2. Timely(x) /\ Backed(x, sidecar[t])
  BY OneTx
<1> HIDE DEF x
<1>3. PathSound(y)
  BY <1>1, PathFree
<1>4. y.state # None
  BY <1>1, SealWalAssumption DEF TransactionStates
<1>5. InPlace(y, loc[t], stable[t])
  BY <1>1, <1>4 DEF InPlace, AtSource, AtStaged, Stays
<1>6. Backed(y, sidecar[t])
  BY <1>1, <1>2 DEF Backed
<1>7. y.removed = 0 /\ y.state \notin Forward
  BY <1>1, <1>2 DEF Timely, Forward
<1> QED
  BY <1>1, <1>3, <1>4, <1>5, <1>6, <1>7, SameLedgerFits DEF x

LEMMA PurgeFits ==
  ASSUME StagingAssumption, SoundNow, NEW t \in Tx, NEW y,
         Authorizes(t, y) \/ ClaimsPurge(t, y)
  PROVE  Fits(t, y)
<1> DEFINE x == wal[t]
<1>1. /\ y \in Transactions /\ y.ledger = x.ledger
      /\ y.undo = x.undo /\ y.removed = x.removed /\ y.sidecar = x.sidecar
      /\ <<x.state, y.state>> \in {<<"VerifiedCommitted", "Purgeable">>, <<"Purgeable", "PurgeIntent">>}
  BY OneTx DEF Transactions, Authorizes, ClaimsPurge, TransactionStates
<1>2. Timely(x) /\ Backed(x, sidecar[t]) /\ InPlace(x, loc[t], stable[t])
  BY OneTx
<1>3. Unresolved(x.ledger) = {}
  BY <1>1, NothingUnresolved DEF IntentPhases, SealPhases, InversePhases
<1> HIDE DEF x
<1>4. PathSound(y)
  BY <1>1, PathFree
<1>5. y.state # None
  BY <1>1, SealWalAssumption DEF TransactionStates
<1>6. y.undo = None /\ y.removed = 0 /\ y.state \notin Forward
  BY <1>1, <1>2 DEF Timely, Forward
<1>7. InPlace(y, loc[t], stable[t])
  BY <1>1, <1>2, <1>5, <1>6 DEF InPlace, AtSource, AtStaged
<1>8. Backed(y, sidecar[t])
  BY <1>1, <1>2 DEF Backed, tree_sidecar_required_for_state
<1> QED
  BY <1>1, <1>3, <1>4, <1>5, <1>6, <1>7, <1>8, SameLedgerFits DEF x

LEMMA RecordsRemovedFits ==
  ASSUME StagingAssumption, SoundNow, NEW t \in Tx, NEW y, RecordsRemoved(t, y)
  PROVE  Fits(t, y)
<1> DEFINE x == wal[t]
<1>1. /\ y \in Transactions /\ y.ledger = x.ledger /\ y.undo = x.undo /\ y.sidecar = x.sidecar
      /\ x.state = "PurgeIntent" /\ y.state = "PurgeIntent" /\ Stays(t, "gone")
  BY OneTx, SealWalAssumption DEF Transactions, RecordsRemoved
<1>2. Timely(x) /\ Backed(x, sidecar[t])
  BY OneTx
<1> HIDE DEF x
<1>3. PathSound(y)
  BY <1>1, PathFree
<1>4. y.state # None
  BY <1>1, SealWalAssumption DEF TransactionStates
<1>5. InPlace(y, loc[t], stable[t])
  BY <1>1, <1>4 DEF InPlace, AtSource, AtStaged, Stays
<1>6. Backed(y, sidecar[t])
  BY <1>1, <1>2 DEF Backed
<1>7. y.undo = None /\ y.state \notin Forward
  BY <1>1, <1>2 DEF Timely, Forward
<1> QED
  BY <1>1, <1>3, <1>4, <1>5, <1>6, <1>7, SameLedgerFits DEF x

\* Every frame the engine writes leaves a sound WAL.
LEMMA AdvanceIsSound ==
  ASSUME StagingAssumption, SoundNow, NEW t \in Tx, NEW y, Advances(t, y)
  PROVE  y \in Transactions /\ Fits(t, y) /\ Sound([wal EXCEPT ![t] = y], loc, stable, sidecar)
<1>1. modes \in ModeTables
  BY DEF SoundNow, Types
<1>2. y = wal[t] => Fits(t, y)
  BY OneTx DEF Fits
<1>3. Fits(t, y)
  BY <1>1, <1>2, IntendsFits, ResolvesFits, BeginsFits, TransitionFits, CompletesTreeFits,
     IntendsRenameFits, RecordsRenameFits, RecordsUndoFits, PurgeFits, RecordsRemovedFits
     DEF Advances
<1> QED
  BY <1>3, FitsSound

-----------------------------------------------------------------------------
(* The operation *)

JournalFrame == UNCHANGED <<original, fsVars, sidecar, foreign, issued, authority>>

\* At most a frame of t is written.
Journalled(t) == \E y : Advances(t, y) /\ (Wrote(t, y) \/ Stood(t, y))

LEMMA NowIsSound ==
  ASSUME IInv
  PROVE  SoundNow
BY DEF IInv, Logs, Held, SoundNow

\* The log stays sound whatever the operation goes on to.
LEMMA LogStep ==
  ASSUME StagingAssumption, IInv, NEW t \in Tx, Journalled(t),
         UNCHANGED <<original, fsVars, sidecar>>, issued' \subseteq Tx, authority' \subseteq issued',
         op' \in Operations, OpInv'
  PROVE  IInv'
<1>1. PICK y : Advances(t, y) /\ (Wrote(t, y) \/ Stood(t, y))
  BY DEF Journalled
<1>2. y \in Transactions /\ Sound([wal EXCEPT ![t] = y], loc, stable, sidecar)
  BY <1>1, NowIsSound, AdvanceIsSound
<1>3. /\ wal' \in [Tx -> Transactions] /\ kept' \in Seq(Moments) /\ kept' # <<>>
      /\ Held' \subseteq Held \cup {[wal EXCEPT ![t] = y]}
  BY <1>1, <1>2, LogGrows DEF IInv
<1>4. Types'
  BY <1>3 DEF IInv, Types, fsVars
<1>5. loc' = loc /\ stable' = stable /\ sidecar' = sidecar
  BY DEF fsVars
<1>6. Logs'
  BY <1>2, <1>3, <1>5 DEF IInv, Logs
<1> QED
  BY <1>4, <1>6 DEF IInv

LEMMA JournalStep ==
  ASSUME StagingAssumption, IInv, NEW t \in Tx, Journalled(t), JournalFrame,
         op' \in Operations, OpInv'
  PROVE  IInv'
BY LogStep DEF JournalFrame, IInv, Types

\* Points of an operation that say nothing of where trees are.
QuietAts ==
  {"ready", "moved", "decide", "drifted", "undoing", "undone", "counted", "outcome"}

LEMMA QuietOp ==
  ASSUME op' \in Operations, op'.name \notin {"idle", "down"}, op'.tx \in Tx,
         OpChange', op'.plan \subseteq Admitted(wal'[op'.tx].ledger),
         Spent(wal'[op'.tx], op'.steps),
         op'.name \notin {"startup", "forward"} => op'.steps = 0,
         op'.at \in QuietAts \cup {"restoring"},
         op'.at = "restoring" =>
           wal'[op'.tx].state \in {"RestoreIntent", "SourceParentRestoreIntent", "Quarantined"}
  PROVE  OpInv'
<1>1. OpShape'
  BY DEF OpShape
<1>2. OpStage' /\ OpUndo' /\ OpPurge'
  BY DEF OpStage, OpUndo, OpPurge, QuietAts
<1>3. OpRecovery'
  BY DEF OpRecovery, QuietAts
<1> QED
  BY <1>1, <1>2, <1>3 DEF OpInv

LEMMA RestOp ==
  ASSUME op' \in {Idle, Down}
  PROVE  op' \in Operations /\ OpInv'
<1>1. /\ op' \in Operations /\ op'.name \in {"idle", "down"} /\ op'.at = "idle"
      /\ op'.change = "none" /\ op'.steps = 0
  BY DEF Idle, Down, Operations, Names, Ats, Changes
<1> QED
  BY <1>1 DEF OpInv, OpShape, OpChange, OpStage, OpUndo, OpPurge, OpRecovery

LEMMA NothingSpent ==
  ASSUME NEW x
  PROVE  Spent(x, 0)
BY DEF Spent

LEMMA WorkingOp ==
  ASSUME NEW t \in Tx, NEW name \in {"forward", "startup"}, op' = Working(name, t, "decide")
  PROVE  op' \in Operations /\ OpInv'
<1>1. /\ op' \in Operations /\ op'.name = name /\ op'.at = "decide" /\ op'.tx = t
      /\ op'.change = "none" /\ op'.steps = 0 /\ op'.plan = {}
  BY ZenonT(60) DEF Working, Idle, Operations, Names, Ats, Changes
<1>2. OpInv'
  BY <1>1, NothingSpent, QuietOp DEF QuietAts, OpChange
<1> QED
  BY <1>1, <1>2

\* What is known of an operation of t.
LEMMA BusyOp ==
  ASSUME IInv, NEW t \in Tx, op.tx = t, op.at # "idle"
  PROVE  /\ op \in Operations /\ op.name \in Names \ {"idle", "down"}
         /\ op.plan \subseteq Admitted(wal[t].ledger) /\ Spent(wal[t], op.steps)
         /\ op.name \notin {"startup", "forward"} => op.steps = 0
<1>1. op \in Operations /\ Idle.at = "idle" /\ Down.at = "idle"
  BY DEF IInv, Types, Idle, Down
<1>2. op.name \in Names \ {"idle", "down"}
  BY <1>1 DEF IInv, OpInv, OpShape, Operations
<1> QED
  BY <1>1, <1>2 DEF IInv, OpInv, OpShape, OpRecovery

LEMMA FailedOp ==
  ASSUME NEW t \in Tx, op.tx = t, op.name \in Names \ {"idle", "down"}, Fails
  PROVE  op' \in Operations /\ OpInv'
<1>1. op' \in {Idle, Down, Working("forward", t, "decide")}
  BY Zenon DEF Fails, Finish, Names
<1> QED
  BY <1>1, RestOp, WorkingOp

\* An operation that fails, whatever it wrote.
LEMMA FailsStep ==
  ASSUME StagingAssumption, IInv, NEW t \in Tx, op.tx = t, op.at # "idle", Journalled(t),
         JournalFrame, Fails
  PROVE  IInv'
BY BusyOp, FailedOp, JournalStep

\* A frame that is there to stay.
LEMMA SyncedTx ==
  ASSUME StagingAssumption, IInv, NEW t \in Tx, NEW y, Advances(t, y), Synced(t, y)
  PROVE  /\ Journalled(t) /\ Fits(t, y) /\ y \in Transactions
         /\ wal'[t] = y /\ \A u \in Tx \ {t} : wal'[u] = wal[u]
         /\ Held' = {wal'}
<1>1. y \in Transactions /\ Fits(t, y)
  BY Zenon, NowIsSound, AdvanceIsSound
<1>2. wal' = [wal EXCEPT ![t] = y] /\ wal \in [Tx -> Transactions]
  BY DEF Synced, IInv, Types
<1>3. Held' = {[wal EXCEPT ![t] = y]}
  BY <1>1, LogIsOne DEF IInv
<1>4. Journalled(t)
  BY Zenon DEF Journalled, Synced, Wrote
<1> QED
  BY <1>1, <1>2, <1>3, <1>4

\* transition: the new state is synced, or the operation fails.
Moved(t, next) ==
  may_transition(wal[t], next) /\ Synced(t, [wal[t] EXCEPT !.state = next])

LEMMA MovedTx ==
  ASSUME StagingAssumption, IInv, NEW t \in Tx, NEW next, Moved(t, next)
  PROVE  /\ Journalled(t)
         /\ Fits(t, wal'[t])
         /\ wal'[t].state = next /\ wal'[t].ledger = wal[t].ledger
         /\ wal'[t].rename = wal[t].rename /\ wal'[t].undo = wal[t].undo
         /\ Held' = {wal'}
<1> DEFINE y == [wal[t] EXCEPT !.state = next]
<1>1. next \in TransactionStates
  BY DEF Moved, may_transition, FoundationTargets, ProvenTargets, TransactionStates, IntentPhases,
     SealPhases, InversePhases
<1>2. Advances(t, y)
  BY <1>1 DEF Moved, Advances, ChangesState
<1>3. Synced(t, y)
  BY DEF Moved
<1>4. wal[t] \in Transactions
  BY NowIsSound, OneTx
<1>5. /\ y.state = next /\ y.ledger = wal[t].ledger /\ y.rename = wal[t].rename
      /\ y.undo = wal[t].undo
  BY <1>4 DEF Transactions
<1> HIDE DEF y
<1> QED
  BY <1>2, <1>3, <1>5, SyncedTx

LEMMA Unwritten ==
  ASSUME NEW t \in Tx, UNCHANGED wal, kept' \in {kept, <<File>>}
  PROVE  Journalled(t)
<1>1. Advances(t, wal[t]) /\ Stood(t, wal[t])
  BY DEF Advances, Stood
<1> QED
  BY <1>1 DEF Journalled

\* append_at: the frame is written and the operation goes on, or it fails.
LEMMA AppendCases ==
  ASSUME NEW t \in Tx, NEW y, NEW sync, NEW ACTION Done, append_at(t, y, sync, Done)
  PROVE  \/ Wrote(t, y) /\ (sync => Synced(t, y)) /\ Done
         \/ Stood(t, y) /\ Fails
BY DEF append_at, Wrote, Synced, Stood, Moment, Err, walVars

LEMMA MayAdvance ==
  ASSUME NEW t \in Tx, NEW next, may_transition(wal[t], next), NEW y,
         y = [wal[t] EXCEPT !.state = next]
  PROVE  Advances(t, y)
<1>1. next \in TransactionStates
  BY DEF may_transition, FoundationTargets, ProvenTargets, TransactionStates, IntentPhases,
     SealPhases, InversePhases
<1> QED
  BY <1>1 DEF Advances, ChangesState

LEMMA ErrCases ==
  ASSUME NEW t \in Tx, Err
  PROVE  Journalled(t) /\ Fails
BY Unwritten DEF Err, walVars

LEMMA TransitionCases ==
  ASSUME NEW t \in Tx, NEW next, NEW ACTION Done, transition(t, next, Done)
  PROVE  \/ Moved(t, next) /\ Done
         \/ Journalled(t) /\ Fails
<1> DEFINE y == [wal[t] EXCEPT !.state = next]
<1>1. CASE ~may_transition(wal[t], next)
  BY <1>1, ErrCases DEF transition
<1>2. CASE may_transition(wal[t], next)
  <2>1. append_at(t, y, TRUE, Done)
    BY Zenon, <1>2 DEF transition
  <2>2. Advances(t, y)
    BY <1>2, MayAdvance
  <2>3. \/ Synced(t, y) /\ Done
        \/ Stood(t, y) /\ Fails
    <3> HIDE DEF y
    <3> QED
      BY ZenonT(60), <2>1, AppendCases
  <2>4. CASE Synced(t, y) /\ Done
    BY <1>2, <2>4 DEF Moved
  <2>5. CASE Stood(t, y) /\ Fails
    <3> HIDE DEF y
    <3> QED
      BY <2>2, <2>5 DEF Journalled
  <2> QED
    BY <2>3, <2>4, <2>5
<1> QED
  BY <1>1, <1>2

LEMMA FailClosedCases ==
  ASSUME StagingAssumption, IInv, NEW t \in Tx, fail_closed(t)
  PROVE  Journalled(t) /\ Fails
<1>1. CASE wal[t].state = "RecoveryRequired"
  BY <1>1, ErrCases DEF fail_closed
<1>2. CASE wal[t].state # "RecoveryRequired"
  <2>1. transition(t, "RecoveryRequired", Fails)
    BY <1>2 DEF fail_closed
  <2> QED
    BY <2>1, TransitionCases, MovedTx
<1> QED
  BY <1>1, <1>2

LEMMA ErrorCases ==
  ASSUME NEW t \in Tx, Error("error")
  PROVE  Journalled(t) /\ Fails
BY Unwritten DEF Error

\* Only the log and the operation have been at work.
LEMMA StepsBack ==
  ASSUME StagingAssumption, IInv, NEW t \in Tx, op.tx = t, op.at # "idle", JournalFrame,
         \/ fail_closed(t)
         \/ transition(t, "RecoveryRequired", Fails)
         \/ Error("error")
         \/ Err
  PROVE  IInv'
<1>1. Journalled(t) /\ Fails
  BY FailClosedCases, TransitionCases, MovedTx, ErrorCases, ErrCases
<1> QED
  BY <1>1, FailsStep

\* The operation stays where it is.
LEMMA SameOp ==
  ASSUME IInv, op' = op, wal' = wal, Held' \subseteq Held, loc' = loc, stable' = stable,
         authority' = authority
  PROVE  op' \in Operations /\ OpInv'
<1>1. op' \in Operations
  BY DEF IInv, Types
<1>2. OpShape' /\ OpChange' /\ OpRecovery'
  BY DEF IInv, OpInv, OpShape, OpChange, OpRecovery
<1>3. /\ \A s : Renaming(op.tx, s) => Renaming(op.tx, s)'
      /\ \A p : Stays(op.tx, p) => Stays(op.tx, p)'
  BY DEF Renaming, Stays
<1>4. OpStage' /\ OpUndo'
  BY <1>3 DEF IInv, OpInv, OpStage, OpUndo
<1>5. OpPurge'
  BY <1>3 DEF IInv, OpInv, OpPurge
<1> QED
  BY <1>1, <1>2, <1>4, <1>5 DEF OpInv

LEMMA SettleStep ==
  ASSUME StagingAssumption, IInv, NEW t \in Tx, op.tx = t, op.at # "idle", JournalFrame, settle
  PROVE  IInv'
<1>1. \/ kept' = <<File>> /\ UNCHANGED <<wal, op>>
      \/ UNCHANGED <<wal, kept>> /\ Fails
  BY DEF settle
<1>2. Journalled(t)
  BY <1>1, Unwritten
<1>3. CASE kept' = <<File>> /\ UNCHANGED <<wal, op>>
  <2>1. Held' \subseteq Held
    <3>1. File \in Moments /\ File.wal \in Held
      BY LastMoment DEF IInv
    <3> QED
      BY <1>3, <3>1, OneMoment DEF Held
  <2> QED
    BY <1>2, <1>3, <2>1, SameOp, JournalStep DEF JournalFrame, fsVars
<1>4. CASE Fails
  BY <1>2, <1>4, FailsStep
<1> QED
  BY <1>1, <1>3, <1>4

\* An operation goes on at a quiet point after what it may have written.
LEMMA QuietStep ==
  ASSUME StagingAssumption, IInv, NEW t \in Tx, op.tx = t, op.at # "idle", JournalFrame,
         Journalled(t), NEW at \in QuietAts, op' = [op EXCEPT !.at = at], op.change = "none",
         Admitted(wal[t].ledger) \subseteq Admitted(wal'[t].ledger),
         Spent(wal'[t], op.steps)
  PROVE  IInv'
<1>1. /\ op \in Operations /\ op.name \in Names \ {"idle", "down"}
      /\ op.plan \subseteq Admitted(wal[t].ledger)
      /\ op.name \notin {"startup", "forward"} => op.steps = 0
  BY BusyOp
<1>2. /\ op' \in Operations /\ op'.name = op.name /\ op'.tx = t /\ op'.change = "none"
      /\ op'.plan = op.plan /\ op'.steps = op.steps /\ op'.at = at
  BY <1>1 DEF Operations, QuietAts, Ats
<1>3. OpChange'
  BY <1>2 DEF OpChange
<1>4. OpInv'
  BY <1>1, <1>2, <1>3, QuietOp DEF QuietAts
<1> QED
  BY <1>2, <1>4, JournalStep

\* A turn of the recovery loop ends.
LEMMA TurnStep ==
  ASSUME StagingAssumption, IInv, NEW t \in Tx, op.tx = t, op.at # "idle", JournalFrame,
         op.name \in {"startup", "forward"}, Journalled(t), Turn, op.change = "none",
         Admitted(wal[t].ledger) \subseteq Admitted(wal'[t].ledger),
         Spent(wal'[t], op.steps), safe_terminal_state(wal'[t]) \/ Spent(wal'[t], op.steps + 1)
  PROVE  IInv'
<1>1. op \in Operations /\ op.plan \subseteq Admitted(wal[t].ledger)
  BY BusyOp
<1>2. op' = [op EXCEPT !.at = "decide",
                       !.steps = IF safe_terminal_state(wal'[op.tx]) THEN op.steps ELSE op.steps + 1]
  BY DEF Turn, Finish
<1>3. op.steps + 1 \in Nat
  BY <1>1 DEF Operations
<1>4. /\ op' \in Operations /\ op'.name = op.name /\ op'.tx = t /\ op'.change = "none"
      /\ op'.plan = op.plan /\ op'.at = "decide"
      /\ op'.steps = IF safe_terminal_state(wal'[t]) THEN op.steps ELSE op.steps + 1
  BY ZenonT(60), <1>1, <1>2, <1>3 DEF Operations, Ats
<1>5. OpInv'
  BY <1>1, <1>4, QuietOp DEF QuietAts, OpChange
<1> QED
  BY <1>4, <1>5, JournalStep

-----------------------------------------------------------------------------
(* One fchmod between its two frames *)

Changing == {"ready", "restoring", "undoing"}

LEMMA IntendStep ==
  ASSUME StagingAssumption, IInv, NEW t \in Tx, op.tx = t, op.change = "none", op.at \in Changing,
         JournalFrame, NEW d \in Directories, NEW reverses \in MutationIds \cup {None},
         wal[t].state = "TreeSealIntent" /\ reverses = None => d # Parent,
         intend(t, d, reverses)
  PROVE  IInv'
<1> DEFINE l == wal[t].ledger
           m == l.recorded
           pre == ModeOf(modes, t, d)
           expected == IF reverses = None THEN sealed_mode(pre) ELSE l.permissions[reverses].pre
           y == SealIntended(t, d, expected, reverses)
<1>0. op.at # "idle" /\ wal[t] \in Transactions /\ l \in Ledgers /\ m \in MutationIds
  BY NowIsSound, OneTx DEF Changing, intend
<1>1. CASE ~may_intend_mutation(wal[t], m, d, pre, expected, reverses)
  <2>1. Err
    BY <1>1 DEF intend
  <2> QED
    BY <1>0, <2>1, StepsBack
<1>2. CASE may_intend_mutation(wal[t], m, d, pre, expected, reverses)
  <2>1. expected \in Modes
    <3>1. CASE reverses = None
      BY <3>1 DEF sealed_mode, StagingAssumption
    <3>2. CASE reverses # None
      <4>1. l.permissions[reverses] # None /\ reverses \in MutationIds
        BY ZenonT(60), <1>2, <3>2 DEF may_intend_mutation, InverseMatches
      <4>2. l.permissions[reverses] \in PermissionEntries
        BY <1>0, <4>1 DEF Ledgers
      <4> QED
        BY <3>2, <4>2 DEF PermissionEntries
    <3> QED
      BY <3>1, <3>2
  <2>2. wal[t].state = "TreeSealIntent" => d # Parent
    BY <1>2 DEF may_intend_mutation, SealPhases
  <2>3. append_at(t, y, TRUE, op' = [op EXCEPT !.change = "intended"] /\ UNCHANGED blocked)
    BY Zenon, <1>2 DEF intend, SealIntended
  <2>4. wal[t].state \in IntentPhases /\ l.permissions[m] = None /\ pre \in Modes
    <3>1. modes.parent \in Modes /\ modes.tree \in [Tx -> [TreeDirs -> Modes]]
      BY DEF IInv, Types, ModeTables
    <3>2. pre \in Modes
      BY <3>1 DEF ModeOf, Directories
    <3> HIDE DEF pre, expected
    <3> QED
      BY <1>2, <3>2 DEF may_intend_mutation
  <2> DEFINE after == record_intent(l, m, wal[t].state, d, pre, expected, reverses)
  <2>5. y = [wal[t] EXCEPT !.ledger = after]
    BY DEF SealIntended
  <2> HIDE DEF expected, pre
  <2>6. Intends(t, y)
    BY <1>0, <1>2, <2>1, <2>2 DEF Intends, pre
  <2>7. /\ Admitted(after) = Admitted(l) \cup {m}
        /\ after.permissions[m].phase = wal[t].state
        /\ after.permissions[m].application = Unknown
        /\ after.recorded = m + 1
    <3>1. /\ Admitted(after) = Admitted(l) \cup {m}
          /\ after.permissions[m].phase = wal[t].state
      <4>1. after = record_intent(l, m, wal[t].state, d, pre, expected, reverses)
        OBVIOUS
      <4>2. l \in Ledgers /\ m \in MutationIds
        BY <1>0
      <4> HIDE DEF after, l, m
      <4> QED
        BY SMTT(60), <2>1, <2>4, <4>1, <4>2, IntentAdds
    <3>2. after.permissions[m].application = Unknown /\ after.recorded = m + 1
      BY <1>0 DEF record_intent, Ledgers
    <3> QED
      BY ZenonT(60), <3>1, <3>2
  <2>8. after \in Ledgers
    BY <1>0, <2>1, <2>4, IntentType
  <2> HIDE DEF after, l, m
  <2>9. y.ledger = after /\ y.state = wal[t].state /\ m \in Nat
    BY <1>0, <2>5 DEF Transactions, Ledgers, m, l
  <2> HIDE DEF y
  <2>10. \/ Synced(t, y) /\ op' = [op EXCEPT !.change = "intended"]
         \/ Stood(t, y) /\ Fails
    BY ZenonT(60), <2>3, AppendCases
  <2>11. CASE Stood(t, y) /\ Fails
    BY Zenon, <1>0, <2>6, <2>11, FailsStep DEF Journalled, Advances
  <2>12. CASE Synced(t, y) /\ op' = [op EXCEPT !.change = "intended"]
    <3>1. Journalled(t) /\ wal'[t] = y
      BY <2>6, <2>12, SyncedTx DEF Advances
    <3>2. /\ op \in Operations /\ op.name \in Names \ {"idle", "down"}
          /\ op.plan \subseteq Admitted(wal[t].ledger) /\ Spent(wal[t], op.steps)
          /\ op.name \notin {"startup", "forward"} => op.steps = 0
      BY <1>0, BusyOp
    <3>3. /\ op' \in Operations /\ op'.name = op.name /\ op'.tx = t /\ op'.at = op.at
          /\ op'.plan = op.plan /\ op'.steps = op.steps
      BY <2>12, <3>2 DEF Operations, Changes
    <3>4. OpChange'
      <4>1. m \in Admitted(after) /\ after.recorded - 1 = m
        BY <2>7, <2>9
      <4>2. may_resolve(y, m)
        BY <2>7, <2>9, <4>1 DEF may_resolve, Admitted
      <4> QED
        BY <1>0, <2>9, <3>1, <3>3, <4>1, <4>2 DEF OpChange, Changing, m, l
    <3>5. Spent(wal'[t], op.steps) /\ op.plan \subseteq Admitted(wal'[t].ledger)
      BY <2>7, <2>9, <3>1, <3>2 DEF Spent, l
    <3>6. op.at = "restoring" =>
            wal'[t].state \in {"RestoreIntent", "SourceParentRestoreIntent", "Quarantined"}
      BY <2>9, <3>1 DEF IInv, OpInv, OpRecovery
    <3>7. OpInv'
      BY <3>2, <3>3, <3>4, <3>5, <3>6, QuietOp DEF Changing, QuietAts
    <3> QED
      BY <3>1, <3>3, <3>7, JournalStep
  <2> QED
    BY <2>10, <2>11, <2>12
<1> QED
  BY <1>1, <1>2

LEMMA RecordOutcomeStep ==
  ASSUME StagingAssumption, IInv, NEW t \in Tx, record_outcome(t), JournalFrame
  PROVE  IInv'
<1> DEFINE l == wal[t].ledger
           m == l.recorded - 1
<1>1. /\ op.tx = t /\ op.change # "none" /\ op.at \in Changing /\ op.at # "idle"
      /\ m \in MutationIds /\ may_resolve(wal[t], m)
  BY ZenonT(60) DEF record_outcome, IInv, OpInv, OpChange, Changing
<1>2. wal[t] \in Transactions /\ l \in Ledgers /\ m \in Admitted(l)
  BY Zenon, <1>1, NowIsSound, OneTx DEF may_resolve, Admitted
<1>3. ASSUME NEW resolution \in {"Applied", "ConfirmedNotApplied"}, NEW y,
             y = Resolved(t, m, resolution)
      PROVE  /\ Advances(t, y) /\ y.state = wal[t].state
             /\ Admitted(y.ledger) = Admitted(l)
  <2> DEFINE after == record_resolution(l, m, resolution)
  <2>1. Advances(t, y)
    BY <1>1, <1>3 DEF Advances, Resolves
  <2>2. Admitted(after) = Admitted(l)
    BY <1>2, ResolutionEntries
  <2>3. y = [wal[t] EXCEPT !.ledger = after]
    BY <1>3 DEF Resolved
  <2> HIDE DEF after, l
  <2>4. y.ledger = after /\ y.state = wal[t].state
    BY <1>2, <2>3 DEF Transactions
  <2> QED
    BY <2>1, <2>2, <2>4
<1>4. ASSUME NEW resolution \in {"Applied", "ConfirmedNotApplied"}, NEW y,
             y = Resolved(t, m, resolution), Wrote(t, y), MutationDone(t)
      PROVE  IInv'
  <2>1. Advances(t, y) /\ y.state = wal[t].state /\ Admitted(y.ledger) = Admitted(l)
    BY <1>3, <1>4
  <2>2. Journalled(t)
    BY <1>4, <2>1 DEF Journalled
  <2>3. wal'[t] = y
    BY <1>4 DEF Wrote, IInv, Types
  <2>4. /\ op \in Operations /\ op.name \in Names \ {"idle", "down"}
        /\ op.plan \subseteq Admitted(l) /\ Spent(wal[t], op.steps)
        /\ op.name \notin {"startup", "forward"} => op.steps = 0
    BY <1>1, BusyOp
  <2>5. op' = [op EXCEPT !.change = "none", !.plan = op.plan \ {InFlight(t).reverses}]
    BY <1>4 DEF MutationDone
  <2>6. /\ op' \in Operations /\ op'.name = op.name /\ op'.tx = t /\ op'.at = op.at
        /\ op'.plan \subseteq op.plan /\ op'.steps = op.steps /\ op'.change = "none"
    BY ZenonT(60), <1>1, <2>4, <2>5 DEF Operations, Changes
  <2>7. Spent(wal'[t], op.steps) /\ op'.plan \subseteq Admitted(wal'[t].ledger)
    BY <2>1, <2>3, <2>4, <2>6 DEF Spent
  <2>8. op.at = "restoring" =>
          wal'[t].state \in {"RestoreIntent", "SourceParentRestoreIntent", "Quarantined"}
    BY <1>1, <2>1, <2>3 DEF IInv, OpInv, OpRecovery
  <2>9. OpInv'
    BY <1>1, <2>4, <2>6, <2>7, <2>8, QuietOp DEF Changing, QuietAts, OpChange
  <2> QED
    BY <2>2, <2>6, <2>9, JournalStep
<1>5. ASSUME NEW resolution \in {"Applied", "ConfirmedNotApplied"}, NEW y,
             y = Resolved(t, m, resolution), Wrote(t, y) \/ Stood(t, y), Fails
      PROVE  IInv'
  <2>1. Journalled(t)
    BY <1>3, <1>5 DEF Journalled
  <2> QED
    BY <1>1, <1>5, <2>1, FailsStep
<1> DEFINE yes == Resolved(t, m, "Applied")
           no == Resolved(t, m, "ConfirmedNotApplied")
<1>6. \/ append_at(t, yes, op.name = "stage" /\ InFlight(t).dir \in {Parent, 1}, MutationDone(t))
      \/ append_at(t, no, TRUE, IF op.name = "stage" THEN Fails ELSE MutationDone(t))
      \/ transition(t, "RecoveryRequired", Fails)
  BY Zenon DEF record_outcome, Resolved
<1> HIDE DEF yes, no
<1>7. \/ Wrote(t, yes) /\ MutationDone(t)
      \/ (Wrote(t, yes) \/ Stood(t, yes)) /\ Fails
      \/ Wrote(t, no) /\ MutationDone(t)
      \/ (Wrote(t, no) \/ Stood(t, no)) /\ Fails
      \/ transition(t, "RecoveryRequired", Fails)
  BY Zenon, <1>6, AppendCases
<1> QED
  BY ZenonT(60), <1>1, <1>4, <1>5, <1>7, StepsBack DEF yes, no
=============================================================================
