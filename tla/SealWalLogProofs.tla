-------------------------- MODULE SealWalLogProofs --------------------------
(***************************************************************************)
(* SealWalLog for any transactions, mutation ids, directories and modes:   *)
(* replay accepts and rebuilds whatever the writer wrote, no crash takes a *)
(* state back, the ledger's running counts are those of a scan, and what   *)
(* they gate is what the states they lead to promise.                      *)
(***************************************************************************)
EXTENDS SealWalLog, SealWalProofs

IInv ==
  /\ txs \in [Tx -> Transactions] /\ \A x \in Tx : Good(txs[x])
  /\ prefixes \in Seq([Tx -> Transactions]) /\ prefixes # <<>>
  /\ \A n \in 1..Len(prefixes), x \in Tx : Good(prefixes[n][x])
  /\ poisoned \in BOOLEAN
  /\ ~poisoned => File = txs
  /\ \A n \in 1..Len(prefixes), x \in Tx :
       \/ prefixes[n][x].state = txs[x].state
       \/ poisoned /\ Later(txs[x].state, prefixes[n][x].state)

Advances == \A x \in Tx : Later(txs[x].state, txs'[x].state)

-----------------------------------------------------------------------------
(* The inductive invariant *)

\* A file with nothing unsynced has one prefix.
LEMMA OneFile ==
  ASSUME NEW w \in [Tx -> Transactions], NEW s, s = <<w>>
  PROVE  /\ s \in Seq([Tx -> Transactions]) /\ s # <<>> /\ s[Len(s)] = w
         /\ \A n \in 1..Len(s) : s[n] = w
OBVIOUS

\* append_at, synced, deferred or failed, preserves the invariant.
LEMMA AppendStep ==
  ASSUME IInv, NEW x \in Tx, NEW f, NEW after, NEW sync \in BOOLEAN,
         append_at(x, f, after, sync), Follows(txs[x], f, after),
         sync \/ after.state = txs[x].state
  PROVE  IInv'
<1> DEFINE written == replay_records(File, x, f)
<1>1. /\ txs \in [Tx -> Transactions] /\ poisoned = FALSE /\ File = txs
      /\ prefixes \in Seq([Tx -> Transactions]) /\ Len(prefixes) \in Nat \ {0}
      /\ \A y \in Tx : Good(txs[y])
      /\ \A n \in 1..Len(prefixes), y \in Tx :
           Good(prefixes[n][y]) /\ prefixes[n][y].state = txs[y].state
  BY DEF IInv, append_at
<1>2. Good(after) /\ after \in Transactions /\ Later(txs[x].state, after.state)
  BY DEF Follows, Good
<1>3. written = [txs EXCEPT ![x] = after]
  <2>1. txs[x] # Invalid
    BY <1>1, InvalidAssumption
  <2>2. ReplayRecord(txs[x], f) = after
    BY <2>1 DEF ReplayRecord, Follows
  <2> QED BY <1>1, <2>2 DEF replay_records
<1> HIDE DEF written
<1>4. /\ written \in [Tx -> Transactions]
      /\ \A y \in Tx : Good(written[y]) /\ Later(txs[y].state, written[y].state)
      /\ ~sync => \A y \in Tx : written[y].state = txs[y].state
  BY <1>1, <1>2, <1>3 DEF Later
<1>5. CASE /\ prefixes' = IF sync THEN <<written>> ELSE Append(prefixes, written)
           /\ txs' = [txs EXCEPT ![x] = after] /\ UNCHANGED poisoned
  <2>1. txs' = written
    BY <1>3, <1>5
  <2>2. CASE sync
    BY <1>1, <1>4, <1>5, <2>1, <2>2 DEF IInv, File, Later
  <2>3. CASE ~sync
    <3>1. /\ prefixes' \in Seq([Tx -> Transactions]) /\ Len(prefixes') = Len(prefixes) + 1
          /\ prefixes'[Len(prefixes')] = written
          /\ \A n \in 1..Len(prefixes) : prefixes'[n] = prefixes[n]
      BY <1>1, <1>4, <1>5, <2>3
    <3>2. \A n \in 1..Len(prefixes'), y \in Tx :
            Good(prefixes'[n][y]) /\ prefixes'[n][y].state = written[y].state
      BY <1>1, <1>4, <2>3, <3>1
    <3>3. poisoned' = FALSE /\ File' = txs'
      BY Zenon, <1>1, <1>5, <2>1, <3>1 DEF File
    <3>4. prefixes' # <<>>
      BY <1>1, <3>1
    <3> QED
      BY Zenon, <1>4, <2>1, <3>1, <3>2, <3>3, <3>4 DEF IInv
  <2> QED BY <2>2, <2>3
<1>6. CASE /\ poisoned' = TRUE /\ prefixes' \in {prefixes, Append(prefixes, written)}
           /\ UNCHANGED txs
  <2>1. CASE prefixes' = prefixes
    BY <1>1, <1>6, <2>1 DEF IInv, Later
  <2>2. CASE prefixes' = Append(prefixes, written)
    <3>1. /\ prefixes' \in Seq([Tx -> Transactions]) /\ Len(prefixes') = Len(prefixes) + 1
          /\ prefixes'[Len(prefixes')] = written
          /\ \A n \in 1..Len(prefixes) : prefixes'[n] = prefixes[n]
      BY <1>1, <1>4, <2>2
    <3>2. \A n \in 1..Len(prefixes'), y \in Tx :
            Good(prefixes'[n][y]) /\ Later(txs[y].state, prefixes'[n][y].state)
      BY <1>1, <1>4, <3>1 DEF Later
    <3>3. txs' = txs /\ poisoned' /\ poisoned' \in BOOLEAN /\ prefixes' # <<>>
      BY <1>1, <1>6, <3>1
    <3> QED
      BY <1>1, <3>1, <3>2, <3>3 DEF IInv
  <2> QED BY <1>6, <2>1, <2>2
<1> QED
  BY Zenon, <1>5, <1>6 DEF append_at, written

\* settle preserves the invariant.
LEMMA SettleStep == IInv /\ settle => IInv'
<1> SUFFICES ASSUME IInv, settle PROVE IInv'
  OBVIOUS
<1>1. /\ poisoned = FALSE /\ File = txs /\ txs' = txs /\ Len(prefixes) \in Nat \ {0}
      /\ txs \in [Tx -> Transactions] /\ \A y \in Tx : Good(txs[y])
  BY DEF IInv, settle
<1>2. CASE prefixes' = <<File>> /\ UNCHANGED poisoned
  BY <1>1, <1>2 DEF IInv, File
<1>3. CASE poisoned' = TRUE /\ UNCHANGED prefixes
  BY <1>1, <1>3 DEF IInv
<1> QED
  BY Zenon, <1>2, <1>3 DEF settle

\* Replay and resume after a crash preserve the invariant.
LEMMA ResumeStep == IInv /\ resume => IInv'
<1> SUFFICES ASSUME IInv, NEW survivor \in 1..Len(prefixes),
                    prefixes' = <<prefixes[survivor]>>, txs' = prefixes[survivor],
                    poisoned' = FALSE
             PROVE  IInv'
  BY Zenon DEF resume
<1>1. /\ prefixes[survivor] \in [Tx -> Transactions]
      /\ \A y \in Tx : Good(prefixes[survivor][y])
  BY DEF IInv
<1>2. /\ prefixes' \in Seq([Tx -> Transactions]) /\ prefixes' # <<>> /\ File' = txs'
      /\ \A n \in 1..Len(prefixes') : prefixes'[n] = txs'
  BY <1>1, OneFile DEF File
<1> QED
  BY Zenon, <1>1, <1>2 DEF IInv

\* The empty WAL satisfies the invariant.
LEMMA InitInv == Init => IInv
<1> SUFFICES ASSUME Init PROVE IInv
  OBVIOUS
<1>1. NotBegun \in Transactions
  BY NotBegunGood DEF Good
<1>2. /\ txs = [x \in Tx |-> NotBegun] /\ txs \in [Tx -> Transactions]
      /\ \A x \in Tx : txs[x] = NotBegun
  BY <1>1 DEF Init
<1>3. prefixes = <<txs>> /\ poisoned = FALSE
  BY DEF Init
<1>4. /\ prefixes \in Seq([Tx -> Transactions]) /\ prefixes # <<>> /\ File = txs
      /\ \A n \in 1..Len(prefixes) : prefixes[n] = txs
  BY <1>2, <1>3, OneFile DEF File
<1> QED
  BY Zenon, <1>2, <1>3, <1>4, NotBegunGood DEF IInv

\* append_at moves a state only along the transition table.
LEMMA AppendAdvances ==
  ASSUME IInv, NEW x \in Tx, NEW f, NEW after, NEW sync \in BOOLEAN,
         append_at(x, f, after, sync), Follows(txs[x], f, after)
  PROVE  Advances
BY DEF IInv, append_at, Advances, Follows, Later

\* An append by a guarded writer preserves the invariant.
LEMMA WriteStep ==
  ASSUME IInv, NEW x \in Tx,
         \/ begin_staging(x)
         \/ \E next \in TransactionStates : Transition(x, next)
         \/ complete_tree_manifest_with_sidecar(x) \/ record_rename_intent(x)
         \/ record_rename_outcome(x) \/ record_undo_rename_outcome(x)
         \/ record_purgeable(x) \/ record_purge_intent(x) \/ record_purge_removed(x)
         \/ IntendMutation(x) \/ ResolveMutation(x)
  PROVE  IInv' /\ Advances
<1> DEFINE t == txs[x]
<1>1. Good(t)
  BY DEF IInv
<1>2. ASSUME NEW f, NEW after, append_at(x, f, after, TRUE), Follows(t, f, after)
      PROVE  IInv' /\ Advances
  BY Zenon, <1>2, AppendStep, AppendAdvances
<1>3. CASE begin_staging(x)
  BY Zenon, <1>1, <1>2, <1>3, FollowsBegin DEF begin_staging
<1>4. CASE \E next \in TransactionStates : Transition(x, next)
  BY Zenon, <1>1, <1>2, <1>4, FollowsState DEF Transition
<1>5. CASE complete_tree_manifest_with_sidecar(x)
  BY Zenon, <1>1, <1>2, <1>5, FollowsTree DEF complete_tree_manifest_with_sidecar
<1>6. CASE record_rename_intent(x)
  BY Zenon, <1>1, <1>2, <1>6, FollowsRenameIntent DEF record_rename_intent
<1>7. CASE record_rename_outcome(x)
  BY Zenon, <1>1, <1>2, <1>7, FollowsRenameOutcome DEF record_rename_outcome
<1>8. CASE record_undo_rename_outcome(x)
  BY Zenon, <1>1, <1>2, <1>8, FollowsUndoOutcome DEF record_undo_rename_outcome
<1>9. CASE record_purgeable(x)
  BY Zenon, <1>1, <1>2, <1>9, FollowsPurgeable DEF record_purgeable
<1>10. CASE record_purge_intent(x)
  BY Zenon, <1>1, <1>2, <1>10, FollowsPurgeIntent DEF record_purge_intent
<1>11. CASE record_purge_removed(x)
  <2>1. PICK removed \in 0..EntryCount :
          /\ may_record_removed(t, removed)
          /\ append_at(x, Frame("PurgeProgress", removed), [t EXCEPT !.removed = removed], TRUE)
    BY Zenon, <1>11 DEF record_purge_removed
  <2>2. removed \in Nat
    BY SealWalAssumption
  <2> QED
    BY Zenon, <1>1, <1>2, <2>1, <2>2, FollowsRemoved
<1>12. CASE IntendMutation(x)
  BY ZenonT(60), <1>1, <1>2, <1>12, FollowsIntent DEF IntendMutation
<1>13. CASE ResolveMutation(x)
  <2>1. PICK m \in MutationIds :
          /\ may_resolve(t, m)
          /\ \/ \E sync \in BOOLEAN :
                  append_at(x, Frame("PermissionApplied", m),
                            [t EXCEPT !.ledger = record_resolution(@, m, "Applied")], sync)
             \/ append_at(x, Frame("PermissionNotApplied", m),
                          [t EXCEPT !.ledger =
                             record_resolution(@, m, "ConfirmedNotApplied")], TRUE)
    BY Zenon, <1>13 DEF ResolveMutation
  <2>2. CASE \E sync \in BOOLEAN :
               append_at(x, Frame("PermissionApplied", m),
                         [t EXCEPT !.ledger = record_resolution(@, m, "Applied")], sync)
    <3>1. [t EXCEPT !.ledger = record_resolution(@, m, "Applied")].state = t.state
      BY <1>1 DEF Good, Transactions
    <3> QED
      BY Zenon, <1>1, <2>1, <2>2, <3>1, FollowsApplied, AppendStep, AppendAdvances
  <2>3. CASE append_at(x, Frame("PermissionNotApplied", m),
                       [t EXCEPT !.ledger =
                          record_resolution(@, m, "ConfirmedNotApplied")], TRUE)
    BY Zenon, <1>1, <1>2, <2>1, <2>3, FollowsNotApplied
  <2> QED BY Zenon, <2>1, <2>2, <2>3
<1> QED
  BY <1>3, <1>4, <1>5, <1>6, <1>7, <1>8, <1>9, <1>10, <1>11, <1>12, <1>13

\* Every step preserves the invariant and moves states along the table.
LEMMA NextStep == IInv /\ [Next]_vars => IInv' /\ Advances
<1> SUFFICES ASSUME IInv, [Next]_vars PROVE IInv' /\ Advances
  OBVIOUS
<1>1. CASE settle
  BY <1>1, SettleStep DEF settle, Advances, Later
<1>2. CASE resume
  <2>1. PICK survivor \in 1..Len(prefixes) : txs' = prefixes[survivor]
    BY <1>2 DEF resume
  <2> QED
    BY <1>2, <2>1, ResumeStep DEF IInv, Advances, Later
<1>3. CASE UNCHANGED vars
  BY <1>3 DEF vars, IInv, File, Advances, Later
<1> QED
  BY <1>1, <1>2, <1>3, WriteStep DEF Next

\* The inductive invariant of the writer and its file holds always.
THEOREM Invariance == Spec => []IInv
<1> QED
  BY InitInv, NextStep, PTL DEF Spec

\* The writer's projections and whatever a crash leaves of the file are
\* transactions (SealWal's maps, wal.rs), for any constants.
THEOREM TypeCorrect == Spec => []TypeOK
<1>1. IInv => TypeOK
  <2> SUFFICES ASSUME IInv PROVE TypeOK
    OBVIOUS
  <2>1. prefixes \in Seq([Tx -> Transactions \cup {Invalid}])
    <3>1. \A n \in 1..Len(prefixes) : prefixes[n] \in [Tx -> Transactions \cup {Invalid}]
      BY DEF IInv
    <3> QED BY <3>1 DEF IInv
  <2> QED BY <2>1 DEF IInv, TypeOK
<1> QED
  BY <1>1, Invariance, PTL

\* The counters that gate every terminal transition (permission_ledger.rs) are
\* those of a scan of the records, in every state of every transaction: by
\* Invariance, whose part about the inverses says why no seal is counted twice.
THEOREM CountsMatch == Spec => []CoverageMatchesScan
<1>1. IInv => CoverageMatchesScan
  <2> SUFFICES ASSUME IInv, NEW x \in Tx, NEW ledger, ledger = txs[x].ledger
               PROVE  /\ CountsSound(ledger)
                      /\ has_unresolved(ledger) <=>
                           \E m \in Admitted(ledger) : ledger.permissions[m].application = Unknown
    BY DEF CoverageMatchesScan, CountsSound
  <2>1. CountsSound(ledger) /\ ledger \in Ledgers
    BY DEF IInv, Good, LedgerSound, Transactions
  <2>2. IsFiniteSet(Unresolved(ledger)) /\ Cardinality(Unresolved(ledger)) \in Nat
    BY <2>1, FiniteScans, FS_CardinalityType
  <2>3. has_unresolved(ledger) <=> Cardinality(Unresolved(ledger)) # 0
    BY <2>1, <2>2 DEF has_unresolved, CountsSound, Ledgers
  <2>4. has_unresolved(ledger) <=> Unresolved(ledger) # {}
    BY <2>2, <2>3, FS_EmptySet
  <2> QED BY <2>1, <2>4 DEF Unresolved
<1> QED
  BY <1>1, Invariance, PTL

\* A transaction ends Restored only with every applied seal reversed and its
\* tree at the source (the guards of transition_inner on Restored), whatever
\* mix of recovery, rollback and undo led there.
THEOREM RestoredIsWhole == Spec => []RestoredLeavesNothingBehind
<1>1. IInv => RestoredLeavesNothingBehind
  <2> SUFFICES ASSUME IInv, NEW x \in Tx, txs[x].state = "Restored"
               PROVE  /\ txs[x].rename # "Applied" \/ txs[x].undo = "Applied"
                      /\ \A phase \in SealPhases :
                           AppliedSeals(txs[x].ledger, phase)
                             = ReversedSeals(txs[x].ledger, phase, IntentPhases)
    BY DEF RestoredLeavesNothingBehind
  <2> DEFINE ledger == txs[x].ledger
  <2>1. /\ txs[x].rename # "Applied" \/ txs[x].undo = "Applied"
        /\ every_applied_seal_is_reversed(ledger) /\ CountsSound(ledger)
    BY DEF IInv, Good, PathSound, LedgerSound
  <2> HIDE DEF ledger
  <2>2. ASSUME NEW phase \in SealPhases
        PROVE  AppliedSeals(ledger, phase) = ReversedSeals(ledger, phase, IntentPhases)
    <3>1. ReversedSeals(ledger, phase, IntentPhases) \subseteq AppliedSeals(ledger, phase)
      BY DEF ReversedSeals
    <3>2. Cardinality(AppliedSeals(ledger, phase))
            = Cardinality(ReversedSeals(ledger, phase, IntentPhases))
      BY <2>1 DEF CountsSound, every_applied_seal_is_reversed, SealPhases
    <3>3. IsFiniteSet(AppliedSeals(ledger, phase))
      BY <2>1, FiniteScans
    <3> QED BY <3>1, <3>2, <3>3, FS_Subset
  <2> QED BY <2>1, <2>2 DEF ledger
<1> QED
  BY <1>1, Invariance, PTL

\* The comment at UndoModesRestored (wal.rs) holds of every reachable ledger: on
\* the way to a verified undo the whole-transaction count and the tree-specific
\* one cannot differ.
THEOREM UndoCountsAgree == Spec => []UndoCountsCannotDiffer
<1>1. IInv => UndoCountsCannotDiffer
  <2> SUFFICES ASSUME IInv, NEW x \in Tx,
                      txs[x].state \in {"VerifiedCommitted", "UndoIntent", "UndoModesRestored"}
               PROVE  every_applied_tree_seal_is_undone(txs[x].ledger)
                        <=> every_applied_seal_is_reversed(txs[x].ledger)
    BY DEF UndoCountsCannotDiffer
  <2> DEFINE ledger == txs[x].ledger
             c == ledger.coverage
  <2>1. /\ every_applied_parent_seal_is_restored(ledger)
        /\ \A m \in Admitted(ledger) :
             ledger.permissions[m].phase \in
               SealPhases \cup {"SourceParentRestoreIntent", "UndoIntent"}
        /\ LedgerSound(ledger) /\ ledger \in Ledgers
    BY Zenon DEF IInv, Good, PathSound, Transactions, OnTheWayToUndo, AfterParentRestore
  <2> HIDE DEF ledger
  <2>2. ReversedSeals(ledger, "TreeSealIntent", IntentPhases) =
          ReversedSeals(ledger, "TreeSealIntent", {"UndoIntent"})
    <3>1. ASSUME NEW m \in AppliedSeals(ledger, "TreeSealIntent"), NEW i \in Admitted(ledger),
                 ledger.permissions[i].reverses = m
          PROVE  ledger.permissions[i].phase = "UndoIntent"
      <4>1. m # None /\ ledger.permissions[m].phase = "TreeSealIntent"
        BY SealWalAssumption DEF AppliedSeals, Admitted
      <4>2. /\ ledger.permissions[i].phase \notin SealPhases
            /\ ledger.permissions[i].phase # "SourceParentRestoreIntent"
        BY <2>1, <3>1, <4>1 DEF LedgerSound, SealsSound, InversesSound
      <4> QED BY <2>1, <4>2
    <3>2. "UndoIntent" \in IntentPhases
      BY DEF IntentPhases, InversePhases
    <3> QED BY <3>1, <3>2 DEF ReversedSeals
  <2>3. c.reversed_tree = c.undone_tree
    BY <2>1, <2>2 DEF LedgerSound, CountsSound
  <2>4. c.reversed_parent = c.applied_parent
    <3> DEFINE A == AppliedSeals(ledger, "ParentSealIntent")
               R == ReversedSeals(ledger, "ParentSealIntent", IntentPhases)
               S == ReversedSeals(ledger, "ParentSealIntent", {"SourceParentRestoreIntent"})
    <3>1. S \subseteq R /\ R \subseteq A
      BY DEF ReversedSeals, IntentPhases, InversePhases
    <3>2. IsFiniteSet(A) /\ IsFiniteSet(R)
      BY <2>1, FiniteScans DEF LedgerSound
    <3>3. Cardinality(S) = Cardinality(A)
      BY <2>1 DEF every_applied_parent_seal_is_restored, LedgerSound, CountsSound
    <3>4. S = A
      BY <3>1, <3>2, <3>3, FS_Subset
    <3>5. R = A
      BY Zenon, <3>1, <3>4
    <3> QED BY <2>1, <3>5 DEF LedgerSound, CountsSound
  <2> QED
    BY <2>3, <2>4 DEF every_applied_tree_seal_is_undone, every_applied_seal_is_reversed, ledger
<1> QED
  BY <1>1, Invariance, PTL

\* replay_records accepts and rebuilds what the append side of SealWal wrote, in
\* every tail a crash can leave: by Invariance, whose two facts about admitted
\* entries are what replay checks and the writer does not.
THEOREM ReplayRebuilds == Spec => []ReplayRebuildsWriter
<1>1. IInv => ReplayRebuildsWriter
  BY InvalidAssumption DEF IInv, ReplayRebuildsWriter, Good
<1> QED
  BY <1>1, Invariance, PTL

\* An acknowledged state of a transaction changes only along valid_transition,
\* through crashes and power losses, although applied frames are left unsynced.
THEOREM NoRegression == Spec => StateNeverRegresses
<1>1. IInv /\ [Next]_vars =>
        [\A x \in Tx : txs'[x].state # txs[x].state /\ txs[x].state # None
             => valid_transition(txs[x].state, txs'[x].state)]_vars
  BY NextStep DEF Advances, Later
<1> QED
  BY <1>1, Invariance, PTL DEF Spec, StateNeverRegresses

=============================================================================
