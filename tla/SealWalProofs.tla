---------------------------- MODULE SealWalProofs ----------------------------
(***************************************************************************)
(* What every frame the seal WAL's writer may append does to a transaction, *)
(* for any mutation ids, directories and modes: the ledger's running counts *)
(* stay those of a scan, the outcomes recorded stay those of the states the *)
(* transaction has been through, and replay accepts the frame and rebuilds  *)
(* what the writer holds.                                                   *)
(***************************************************************************)
EXTENDS SealWal, FiniteSetTheorems, TLAPS

(***************************************************************************)
(* Replay checks two things of an inverse that the writer does not: that   *)
(* the mutation it reverses is a seal itself, and that only the source     *)
(* parent's seal has the source parent's evidence.  Both hold of every     *)
(* entry the writer admits.                                                *)
(***************************************************************************)
SealsSound(ledger) ==
  \A m \in Admitted(ledger) :
    /\ ledger.permissions[m].phase \in SealPhases <=> ledger.permissions[m].reverses = None
    /\ ledger.permissions[m].phase = "TreeSealIntent" => ledger.permissions[m].dir # Parent

\* The inverses whose chmod is applied or may be.
LiveInverses(ledger) ==
  {i \in Admitted(ledger) : /\ ledger.permissions[i].reverses # None
                            /\ ledger.permissions[i].application # "ConfirmedNotApplied"}

\* An inverse reverses an applied seal of the kind its phase reverses, and of
\* the live inverses at most one reverses a given seal: active_inverses holds it.
InversesSound(ledger) ==
  /\ \A i \in Admitted(ledger) :
       LET entry == ledger.permissions[i]
       IN  entry.reverses # None =>
             /\ entry.reverses \in Admitted(ledger)
             /\ ledger.permissions[entry.reverses].phase \in SealPhases
             /\ ledger.permissions[entry.reverses].application = "Applied"
             /\ entry.phase = "SourceParentRestoreIntent" =>
                  ledger.permissions[entry.reverses].phase = "ParentSealIntent"
             /\ entry.phase = "UndoIntent" =>
                  ledger.permissions[entry.reverses].phase = "TreeSealIntent"
  /\ \A i \in LiveInverses(ledger) :
       /\ ledger.permissions[i].reverses \in ledger.active_inverses
       /\ \A j \in LiveInverses(ledger) :
            ledger.permissions[i].reverses = ledger.permissions[j].reverses => i = j

\* The running counts are those of a scan.
CountsSound(ledger) ==
  /\ IsFiniteSet(Admitted(ledger))
  /\ ledger.recorded = ledger.resolved + Cardinality(Unresolved(ledger))
  /\ ledger.coverage.applied_parent = Cardinality(AppliedSeals(ledger, "ParentSealIntent"))
  /\ ledger.coverage.applied_tree = Cardinality(AppliedSeals(ledger, "TreeSealIntent"))
  /\ ledger.coverage.reversed_parent =
       Cardinality(ReversedSeals(ledger, "ParentSealIntent", IntentPhases))
  /\ ledger.coverage.restored_parent =
       Cardinality(ReversedSeals(ledger, "ParentSealIntent", {"SourceParentRestoreIntent"}))
  /\ ledger.coverage.reversed_tree =
       Cardinality(ReversedSeals(ledger, "TreeSealIntent", IntentPhases))
  /\ ledger.coverage.undone_tree =
       Cardinality(ReversedSeals(ledger, "TreeSealIntent", {"UndoIntent"}))

LedgerSound(ledger) == SealsSound(ledger) /\ InversesSound(ledger) /\ CountsSound(ledger)

\* The states on the way to a verified undo, before and after the rename.
BeforeRenameStates == BeforeRename \ {"RenameIntent"}

AfterParentRestore == {"SourceParentRestored", "VerifiedCommitted", "UndoIntent",
                       "UndoModesRestored"}

OnTheWayToUndo ==
  BeforeRename \cup {"StagedUnverified", "StagedSealed", "SourceParentRestoreIntent"}
               \cup AfterParentRestore

\* What the states a transaction has been through leave behind in it: a rename
\* is recorded only once it is intended, and is taken back before Restored; up
\* to the end of an undo no inverse but the source parent's restoration and the
\* undo's own is admitted, and the first is complete before the second begins.
PathSound(t) ==
  /\ t.state \in BeforeRenameStates => t.rename = None
  /\ t.state = "RestoreIntent" => t.rename # "Applied"
  /\ t.state = "Restored" => /\ t.rename # "Applied" \/ t.undo = "Applied"
                             /\ every_applied_seal_is_reversed(t.ledger)
  /\ t.state \in OnTheWayToUndo =>
       \A m \in Admitted(t.ledger) :
         t.ledger.permissions[m].phase \in
           SealPhases \cup {"SourceParentRestoreIntent", "UndoIntent"}
  /\ t.state \in AfterParentRestore => every_applied_parent_seal_is_restored(t.ledger)

\* A transaction that has not begun is empty; its ledger and its path are sound.
Good(t) ==
  /\ t \in Transactions
  /\ t.state = None => t = NotBegun
  /\ LedgerSound(t.ledger)
  /\ PathSound(t)

\* A state a transaction in state s may have in a later file.
Later(s, next) == next = s \/ s = None \/ valid_transition(s, next)

\* Frame f is what replay needs to follow the writer from t to after.
Follows(t, f, after) ==
  /\ ReplayAccepts(t, f) /\ ReplayedAs(t, f) = after
  /\ Good(after)
  /\ Later(t.state, after.state)

-----------------------------------------------------------------------------
(* The ledger *)

\* A transaction no frame has begun is good.
LEMMA NotBegunGood == Good(NotBegun)
<1>1. NotBegun \in Transactions
  BY SealWalAssumption DEF NotBegun, Transactions, EmptyLedger, EmptyCoverage, Strategies,
     Ledgers, Coverages
<1>2. NotBegun.ledger = EmptyLedger /\ NotBegun.state = None
  BY DEF NotBegun
<1>3. Admitted(EmptyLedger) = {}
  BY DEF Admitted, EmptyLedger
<1>4. SealsSound(EmptyLedger) /\ InversesSound(EmptyLedger)
  BY <1>3 DEF SealsSound, InversesSound, LiveInverses
<1>5. CountsSound(EmptyLedger)
  <2>1. /\ Unresolved(EmptyLedger) = {}
        /\ \A phase : AppliedSeals(EmptyLedger, phase) = {}
    BY <1>3 DEF Unresolved, AppliedSeals
  <2>2. \A phase, inverses : ReversedSeals(EmptyLedger, phase, inverses) = {}
    BY <2>1 DEF ReversedSeals
  <2>3. /\ EmptyLedger.recorded = 0 /\ EmptyLedger.resolved = 0
        /\ EmptyLedger.coverage = EmptyCoverage
    BY DEF EmptyLedger
  <2> QED BY <1>3, <2>1, <2>2, <2>3, FS_EmptySet DEF CountsSound, EmptyCoverage
<1>6. PathSound(NotBegun)
  BY <1>2, SealWalAssumption DEF PathSound, BeforeRenameStates, BeforeRename, OnTheWayToUndo,
     AfterParentRestore, TransactionStates, IntentPhases, SealPhases, InversePhases
<1> QED
  BY <1>1, <1>2, <1>4, <1>5, <1>6 DEF Good, LedgerSound

\* A transaction that differs from a good one only outside its ledger is good
\* if its path is sound.
LEMMA SameLedger ==
  ASSUME NEW t, NEW u, Good(t), u \in Transactions, u.ledger = t.ledger, u.state # None,
         PathSound(u)
  PROVE  Good(u)
BY DEF Good

\* The type of a ledger put together from its parts.
LEMMA MakeLedger ==
  ASSUME NEW p \in [MutationIds -> PermissionEntries \cup {None}], NEW n \in Nat, NEW r \in Nat,
         NEW a \in SUBSET MutationIds,
         NEW q \in [IntentPhases -> [recorded : Nat, completed : Nat]], NEW c \in Coverages
  PROVE  [permissions |-> p, recorded |-> n, resolved |-> r, active_inverses |-> a,
          phases |-> q, coverage |-> c] \in Ledgers
BY DEF Ledgers

\* record_intent yields a ledger.
LEMMA IntentType ==
  ASSUME NEW ledger \in Ledgers, NEW m \in MutationIds, NEW phase \in IntentPhases,
         NEW dir \in Directories, NEW pre \in Modes, NEW expected \in Modes,
         NEW reverses \in MutationIds \cup {None}
  PROVE  record_intent(ledger, m, phase, dir, pre, expected, reverses) \in Ledgers
<1> DEFINE entry == [phase |-> phase, reverses |-> reverses, application |-> Unknown,
                     dir |-> dir, pre |-> pre, expected |-> expected]
           p == [ledger.permissions EXCEPT ![m] = entry]
           a == ledger.active_inverses \cup ({reverses} \ {None})
           q == [ledger.phases EXCEPT ![phase].recorded = @ + 1]
<1>1. record_intent(ledger, m, phase, dir, pre, expected, reverses) =
        [permissions |-> p, recorded |-> ledger.recorded + 1, resolved |-> ledger.resolved,
         active_inverses |-> a, phases |-> q, coverage |-> ledger.coverage]
  BY DEF record_intent
<1>2. entry \in PermissionEntries
  BY DEF PermissionEntries, ApplicationStatus
<1>3. p \in [MutationIds -> PermissionEntries \cup {None}]
  <2> HIDE DEF entry
  <2> QED BY <1>2 DEF Ledgers
<1>4. a \in SUBSET MutationIds /\ q \in [IntentPhases -> [recorded : Nat, completed : Nat]]
  BY DEF Ledgers
<1>5. ledger.recorded + 1 \in Nat /\ ledger.resolved \in Nat /\ ledger.coverage \in Coverages
  BY DEF Ledgers
<1> HIDE DEF p, a, q
<1>6. [permissions |-> p, recorded |-> ledger.recorded + 1, resolved |-> ledger.resolved,
       active_inverses |-> a, phases |-> q, coverage |-> ledger.coverage] \in Ledgers
  BY Zenon, <1>3, <1>4, <1>5, MakeLedger
<1> QED
  BY <1>1, <1>6

\* The two ways a resolution changes the coverage counts yield counts.
LEMMA CoverageType ==
  ASSUME NEW c \in Coverages, NEW phase, NEW sealed
  PROVE  record_applied_seal(c, phase) \in Coverages
         /\ record_applied_inverse(c, sealed, phase) \in Coverages
<1>1. \A condition \in BOOLEAN : One(condition) \in Nat
  BY DEF One
<1>2. \A n \in Nat, condition \in BOOLEAN : n + One(condition) \in Nat
  BY <1>1
<1>3. record_applied_seal(c, phase) \in Coverages
  BY Zenon, <1>2 DEF record_applied_seal, Coverages
<1>4. record_applied_inverse(c, sealed, phase) \in Coverages
  BY ZenonT(60), <1>2 DEF record_applied_inverse, Coverages
<1> QED BY <1>3, <1>4

\* record_resolution yields a ledger.
LEMMA ResolutionType ==
  ASSUME NEW ledger \in Ledgers, NEW m \in MutationIds, ledger.permissions[m] # None,
         NEW resolution \in {"Applied", "ConfirmedNotApplied"}
  PROVE  record_resolution(ledger, m, resolution) \in Ledgers
<1> DEFINE entry == ledger.permissions[m]
           p == [ledger.permissions EXCEPT ![m].application = resolution]
           a == IF resolution = "ConfirmedNotApplied"
                THEN ledger.active_inverses \ {entry.reverses} ELSE ledger.active_inverses
           q == [ledger.phases EXCEPT ![entry.phase].completed =
                   @ + One(phase_accepts_resolution(entry.phase, resolution))]
           c == CoverageAfter(ledger, entry, resolution)
<1>1. record_resolution(ledger, m, resolution) =
        [permissions |-> p, recorded |-> ledger.recorded, resolved |-> ledger.resolved + 1,
         active_inverses |-> a, phases |-> q, coverage |-> c]
  BY DEF record_resolution
<1>2. entry \in PermissionEntries
  BY DEF Ledgers
<1>3. [entry EXCEPT !.application = resolution] \in PermissionEntries
  BY <1>2 DEF PermissionEntries, ApplicationStatus
<1>4. p \in [MutationIds -> PermissionEntries \cup {None}]
  BY <1>2, <1>3 DEF Ledgers
<1>5. a \in SUBSET MutationIds
  BY DEF Ledgers
<1>6. q \in [IntentPhases -> [recorded : Nat, completed : Nat]]
  <2>1. entry.phase \in IntentPhases
    BY <1>2 DEF PermissionEntries
  <2>2. One(phase_accepts_resolution(entry.phase, resolution)) \in Nat
    BY DEF One
  <2> QED BY <2>1, <2>2 DEF Ledgers
<1>7. c \in Coverages
  <2>1. ledger.coverage \in Coverages
    BY DEF Ledgers
  <2> QED BY <2>1, CoverageType DEF CoverageAfter
<1>8. ledger.recorded \in Nat /\ ledger.resolved + 1 \in Nat
  BY DEF Ledgers
<1> HIDE DEF p, a, q, c
<1> QED
  BY SMTT(30), <1>1, <1>4, <1>5, <1>6, <1>7, <1>8, MakeLedger

\* One element more, or none.
LEMMA Tally ==
  ASSUME NEW S, IsFiniteSet(S), NEW x, x \notin S, NEW more \in BOOLEAN
  PROVE  Cardinality(S \cup (IF more THEN {x} ELSE {})) = Cardinality(S) + One(more)
<1>1. CASE more
  BY <1>1, FS_AddElement DEF One
<1>2. CASE ~more
  <2>1. S \cup (IF more THEN {x} ELSE {}) = S
    BY <1>2
  <2>2. Cardinality(S) \in Nat
    BY FS_CardinalityType
  <2> QED BY <1>2, <2>1, <2>2 DEF One
<1> QED BY <1>1, <1>2

\* The sets the counts count are finite.
LEMMA FiniteScans ==
  ASSUME NEW ledger, CountsSound(ledger)
  PROVE  /\ IsFiniteSet(Unresolved(ledger))
         /\ \A phase : IsFiniteSet(AppliedSeals(ledger, phase))
         /\ \A phase, inverses : IsFiniteSet(ReversedSeals(ledger, phase, inverses))
<1>1. IsFiniteSet(Admitted(ledger))
  BY DEF CountsSound
<1>2. Unresolved(ledger) \subseteq Admitted(ledger)
  BY DEF Unresolved
<1>3. \A phase : AppliedSeals(ledger, phase) \subseteq Admitted(ledger)
  BY DEF AppliedSeals
<1>4. \A phase, inverses : ReversedSeals(ledger, phase, inverses) \subseteq Admitted(ledger)
  BY <1>3 DEF ReversedSeals
<1> QED BY <1>1, <1>2, <1>3, <1>4, FS_Subset

\* What record_intent does to the entries.
LEMMA IntentEntries ==
  ASSUME NEW ledger \in Ledgers, NEW m \in MutationIds, ledger.permissions[m] = None,
         NEW phase \in IntentPhases, NEW dir \in Directories, NEW pre \in Modes,
         NEW expected \in Modes, NEW reverses \in MutationIds \cup {None}
  PROVE  LET l == record_intent(ledger, m, phase, dir, pre, expected, reverses)
         IN  /\ Admitted(l) = Admitted(ledger) \cup {m} /\ m \notin Admitted(ledger)
             /\ \A k \in Admitted(ledger) : l.permissions[k] = ledger.permissions[k]
             /\ l.permissions[m].phase = phase /\ l.permissions[m].reverses = reverses
             /\ l.permissions[m].application = Unknown /\ l.permissions[m].dir = dir
             /\ l.recorded = ledger.recorded + 1 /\ l.resolved = ledger.resolved
             /\ l.coverage = ledger.coverage
             /\ l.active_inverses = ledger.active_inverses \cup ({reverses} \ {None})
<1> DEFINE l == record_intent(ledger, m, phase, dir, pre, expected, reverses)
           entry == [phase |-> phase, reverses |-> reverses, application |-> Unknown,
                     dir |-> dir, pre |-> pre, expected |-> expected]
<1>1. /\ l.permissions = [ledger.permissions EXCEPT ![m] = entry]
      /\ l.recorded = ledger.recorded + 1 /\ l.resolved = ledger.resolved
      /\ l.coverage = ledger.coverage
      /\ l.active_inverses = ledger.active_inverses \cup ({reverses} \ {None})
  BY DEF record_intent
<1>2. entry # None
  <2>1. entry \in PermissionEntries
    BY DEF PermissionEntries, ApplicationStatus
  <2> QED BY <2>1, EntryAssumption
<1>3. /\ entry.phase = phase /\ entry.reverses = reverses /\ entry.application = Unknown
      /\ entry.dir = dir
  OBVIOUS
<1>4. ledger.permissions \in [MutationIds -> PermissionEntries \cup {None}]
  BY DEF Ledgers
<1> HIDE DEF l, entry
<1>5. l.permissions[m] = entry /\ \A k \in MutationIds \ {m} : l.permissions[k] = ledger.permissions[k]
  BY <1>1, <1>4
<1>6. Admitted(l) = Admitted(ledger) \cup {m} /\ m \notin Admitted(ledger)
  BY <1>2, <1>5 DEF Admitted
<1>7. \A k \in Admitted(ledger) : l.permissions[k] = ledger.permissions[k]
  BY <1>5 DEF Admitted
<1> QED
  BY <1>1, <1>3, <1>5, <1>6, <1>7 DEF l

\* The same, of a ledger by another name.
LEMMA IntentAdds ==
  ASSUME NEW ledger \in Ledgers, NEW m \in MutationIds, ledger.permissions[m] = None,
         NEW phase \in IntentPhases, NEW dir \in Directories, NEW pre \in Modes,
         NEW expected \in Modes, NEW reverses \in MutationIds \cup {None},
         NEW l, l = record_intent(ledger, m, phase, dir, pre, expected, reverses)
  PROVE  /\ Admitted(l) = Admitted(ledger) \cup {m}
         /\ \A k \in Admitted(ledger) : l.permissions[k] = ledger.permissions[k]
         /\ l.permissions[m].phase = phase /\ l.coverage = ledger.coverage
BY IntentEntries

\* What record_resolution does to the entries.
LEMMA ResolutionEntries ==
  ASSUME NEW ledger \in Ledgers, NEW m \in Admitted(ledger),
         NEW resolution \in {"Applied", "ConfirmedNotApplied"},
         NEW l, l = record_resolution(ledger, m, resolution)
  PROVE  /\ Admitted(l) = Admitted(ledger)
         /\ \A k \in Admitted(ledger) :
              /\ l.permissions[k].phase = ledger.permissions[k].phase
              /\ l.permissions[k].reverses = ledger.permissions[k].reverses
              /\ l.permissions[k].dir = ledger.permissions[k].dir
         /\ \A k \in Admitted(ledger) \ {m} :
              l.permissions[k].application = ledger.permissions[k].application
         /\ l.permissions[m].application = resolution
         /\ l.recorded = ledger.recorded /\ l.resolved = ledger.resolved + 1
         /\ l.coverage = CoverageAfter(ledger, ledger.permissions[m], resolution)
         /\ resolution = "ConfirmedNotApplied" =>
              l.active_inverses = ledger.active_inverses \ {ledger.permissions[m].reverses}
         /\ resolution = "Applied" => l.active_inverses = ledger.active_inverses
<1> DEFINE entry == [ledger.permissions[m] EXCEPT !.application = resolution]
<1>1. /\ l.permissions = [ledger.permissions EXCEPT ![m].application = resolution]
      /\ l.recorded = ledger.recorded /\ l.resolved = ledger.resolved + 1
      /\ l.coverage = CoverageAfter(ledger, ledger.permissions[m], resolution)
      /\ resolution = "ConfirmedNotApplied" =>
           l.active_inverses = ledger.active_inverses \ {ledger.permissions[m].reverses}
      /\ resolution = "Applied" => l.active_inverses = ledger.active_inverses
  BY DEF record_resolution
<1>2. /\ ledger.permissions \in [MutationIds -> PermissionEntries \cup {None}]
      /\ m \in MutationIds /\ ledger.permissions[m] \in PermissionEntries
      /\ Admitted(ledger) \subseteq MutationIds
  BY DEF Ledgers, Admitted
<1>3. /\ entry.phase = ledger.permissions[m].phase
      /\ entry.reverses = ledger.permissions[m].reverses
      /\ entry.dir = ledger.permissions[m].dir /\ entry.application = resolution
  BY <1>2 DEF PermissionEntries
<1>4. entry # None
  BY <1>2, EntryAssumption DEF PermissionEntries, ApplicationStatus
<1>5. l.permissions[m] = entry /\ \A k \in MutationIds \ {m} : l.permissions[k] = ledger.permissions[k]
  BY <1>1, <1>2
<1> HIDE DEF entry
<1>6. Admitted(l) = Admitted(ledger)
  BY <1>4, <1>5 DEF Admitted
<1>7. \A k \in Admitted(ledger) :
        /\ l.permissions[k].phase = ledger.permissions[k].phase
        /\ l.permissions[k].reverses = ledger.permissions[k].reverses
        /\ l.permissions[k].dir = ledger.permissions[k].dir
  BY <1>2, <1>3, <1>5
<1>8. /\ \A k \in Admitted(ledger) \ {m} :
           l.permissions[k].application = ledger.permissions[k].application
      /\ l.permissions[m].application = resolution
  BY <1>2, <1>3, <1>5
<1> QED
  BY <1>1, <1>6, <1>7, <1>8

\* An intent with no seal to reverse, or one whose seal InverseMatches accepts,
\* leaves the ledger sound.
LEMMA IntentSound ==
  ASSUME NEW ledger \in Ledgers, LedgerSound(ledger), NEW m \in MutationIds,
         ledger.permissions[m] = None,
         NEW phase \in IntentPhases, NEW dir \in Directories, NEW pre \in Modes,
         NEW expected \in Modes, NEW reverses \in MutationIds \cup {None},
         phase \in SealPhases <=> reverses = None,
         phase = "TreeSealIntent" => dir # Parent,
         reverses # None =>
           /\ ledger.permissions[reverses] # None
           /\ ledger.permissions[reverses].application = "Applied"
           /\ ledger.permissions[reverses].phase \in SealPhases
           /\ phase = "SourceParentRestoreIntent" =>
                ledger.permissions[reverses].phase = "ParentSealIntent"
           /\ phase = "UndoIntent" => ledger.permissions[reverses].phase = "TreeSealIntent"
           /\ reverses \notin ledger.active_inverses
  PROVE  LedgerSound(record_intent(ledger, m, phase, dir, pre, expected, reverses))
<1> DEFINE l == record_intent(ledger, m, phase, dir, pre, expected, reverses)
<1>1. /\ Admitted(l) = Admitted(ledger) \cup {m} /\ m \notin Admitted(ledger)
      /\ \A k \in Admitted(ledger) : l.permissions[k] = ledger.permissions[k]
      /\ l.permissions[m].phase = phase /\ l.permissions[m].reverses = reverses
      /\ l.permissions[m].application = Unknown /\ l.permissions[m].dir = dir
      /\ l.recorded = ledger.recorded + 1 /\ l.resolved = ledger.resolved
      /\ l.coverage = ledger.coverage
      /\ l.active_inverses = ledger.active_inverses \cup ({reverses} \ {None})
  BY IntentEntries
<1>2. reverses # None => reverses \in Admitted(ledger)
  BY DEF Admitted
<1> HIDE DEF l
<1>3. SealsSound(l)
  BY <1>1 DEF SealsSound, LedgerSound
<1>4. Unknown # "Applied" /\ Unknown # "ConfirmedNotApplied"
  BY DEF Unknown
<1>5. LiveInverses(l) = LiveInverses(ledger) \cup (IF reverses = None THEN {} ELSE {m})
  BY <1>1, <1>4 DEF LiveInverses
<1>6. InversesSound(l)
  <2>1. ASSUME NEW i \in Admitted(l), l.permissions[i].reverses # None
        PROVE  LET entry == l.permissions[i]
               IN  /\ entry.reverses \in Admitted(l)
                   /\ l.permissions[entry.reverses].phase \in SealPhases
                   /\ l.permissions[entry.reverses].application = "Applied"
                   /\ entry.phase = "SourceParentRestoreIntent" =>
                        l.permissions[entry.reverses].phase = "ParentSealIntent"
                   /\ entry.phase = "UndoIntent" =>
                        l.permissions[entry.reverses].phase = "TreeSealIntent"
    <3>1. CASE i = m
      BY <1>1, <1>2, <2>1, <3>1
    <3>2. CASE i \in Admitted(ledger)
      BY <1>1, <2>1, <3>2 DEF LedgerSound, InversesSound
    <3> QED BY <1>1, <3>1, <3>2
  <2>2. \A i \in LiveInverses(ledger) :
          /\ i \in Admitted(ledger) /\ ledger.permissions[i].reverses \in ledger.active_inverses
          /\ l.permissions[i].reverses = ledger.permissions[i].reverses
    BY <1>1 DEF LedgerSound, InversesSound, LiveInverses
  <2>3. ASSUME NEW i \in LiveInverses(l)
        PROVE  l.permissions[i].reverses \in l.active_inverses
    BY <1>1, <1>5, <2>2, <2>3
  <2>4. ASSUME NEW i \in LiveInverses(l), NEW j \in LiveInverses(l),
               l.permissions[i].reverses = l.permissions[j].reverses
        PROVE  i = j
    <3>1. CASE i \in LiveInverses(ledger) /\ j \in LiveInverses(ledger)
      BY <2>2, <2>4, <3>1 DEF LedgerSound, InversesSound
    <3>2. CASE i = m \/ j = m
      <4>1. reverses # None /\ reverses \notin ledger.active_inverses
        BY <1>1, <1>5, <2>4, <3>2 DEF LiveInverses
      <4> QED BY <1>1, <1>5, <2>2, <2>4, <3>2, <4>1
    <3> QED BY <1>5, <2>4, <3>1, <3>2
  <2> QED BY <2>1, <2>3, <2>4 DEF InversesSound
<1>7. CountsSound(l)
  <2>1. \A ph : AppliedSeals(l, ph) = AppliedSeals(ledger, ph)
    BY <1>1, <1>4 DEF AppliedSeals
  <2>2. \A ph, inverses : ReversedSeals(l, ph, inverses) = ReversedSeals(ledger, ph, inverses)
    <3> SUFFICES ASSUME NEW ph, NEW inverses
                 PROVE  ReversedSeals(l, ph, inverses) = ReversedSeals(ledger, ph, inverses)
      OBVIOUS
    <3> QED BY <1>1, <1>4, <2>1 DEF ReversedSeals
  <2>3. Unresolved(l) = Unresolved(ledger) \cup {m} /\ m \notin Unresolved(ledger)
    BY <1>1 DEF Unresolved
  <2>4. IsFiniteSet(Admitted(ledger)) /\ IsFiniteSet(Unresolved(ledger))
    <3>1. Unresolved(ledger) \subseteq Admitted(ledger)
      BY DEF Unresolved
    <3> QED BY <3>1, FS_Subset DEF LedgerSound, CountsSound
  <2>5. IsFiniteSet(Admitted(l)) /\ Cardinality(Unresolved(l)) = Cardinality(Unresolved(ledger)) + 1
    <3>1. IsFiniteSet(Admitted(ledger) \cup {m})
      BY <2>4, FS_AddElement
    <3>2. Cardinality(Unresolved(ledger) \cup {m}) = Cardinality(Unresolved(ledger)) + 1
      BY Zenon, <2>3, <2>4, FS_AddElement
    <3> QED BY <1>1, <2>3, <3>1, <3>2
  <2>6. Cardinality(Unresolved(ledger)) \in Nat /\ ledger.resolved \in Nat /\ ledger.recorded \in Nat
    BY <2>4, FS_CardinalityType DEF Ledgers
  <2>7. l.recorded = l.resolved + Cardinality(Unresolved(l))
    BY <1>1, <2>5, <2>6 DEF LedgerSound, CountsSound
  <2> QED BY <1>1, <2>1, <2>2, <2>5, <2>7 DEF LedgerSound, CountsSound
<1> QED
  BY <1>3, <1>6, <1>7 DEF LedgerSound, l

\* A resolution of an unresolved entry leaves the ledger sound.
LEMMA ResolutionSound ==
  ASSUME NEW ledger \in Ledgers, LedgerSound(ledger), NEW m \in Admitted(ledger),
         ledger.permissions[m].application = Unknown,
         NEW resolution \in {"Applied", "ConfirmedNotApplied"}
  PROVE  LedgerSound(record_resolution(ledger, m, resolution))
<1> DEFINE l == record_resolution(ledger, m, resolution)
           entry == ledger.permissions[m]
<1>0. l = record_resolution(ledger, m, resolution)
  OBVIOUS
<1> HIDE DEF l
<1>1. /\ Admitted(l) = Admitted(ledger)
      /\ \A k \in Admitted(ledger) :
           /\ l.permissions[k].phase = ledger.permissions[k].phase
           /\ l.permissions[k].reverses = ledger.permissions[k].reverses
           /\ l.permissions[k].dir = ledger.permissions[k].dir
      /\ \A k \in Admitted(ledger) \ {m} :
           l.permissions[k].application = ledger.permissions[k].application
      /\ l.permissions[m].application = resolution
      /\ l.recorded = ledger.recorded /\ l.resolved = ledger.resolved + 1
      /\ l.coverage = CoverageAfter(ledger, entry, resolution)
      /\ resolution = "ConfirmedNotApplied" =>
           l.active_inverses = ledger.active_inverses \ {entry.reverses}
      /\ resolution = "Applied" => l.active_inverses = ledger.active_inverses
  BY <1>0, ResolutionEntries
<1>2. Unknown # "Applied" /\ Unknown # "ConfirmedNotApplied"
  BY DEF Unknown
<1>3. SealsSound(l)
  BY <1>1 DEF SealsSound, LedgerSound
<1>4. \A i \in Admitted(ledger) :
        ledger.permissions[i].reverses # None =>
          /\ ledger.permissions[i].reverses \in Admitted(ledger) \ {m}
          /\ ledger.permissions[ledger.permissions[i].reverses].phase \in SealPhases
  BY <1>2 DEF LedgerSound, InversesSound
<1>5. \A i \in LiveInverses(ledger) :
        /\ i \in Admitted(ledger) /\ ledger.permissions[i].reverses # None
        /\ ledger.permissions[i].reverses \in ledger.active_inverses
        /\ \A j \in LiveInverses(ledger) :
             ledger.permissions[i].reverses = ledger.permissions[j].reverses => i = j
  BY DEF LedgerSound, InversesSound, LiveInverses
<1>6. entry.reverses # None => m \in LiveInverses(ledger)
  BY <1>2 DEF LiveInverses
<1>7. InversesSound(l)
  <2>1. ASSUME NEW i \in Admitted(l), l.permissions[i].reverses # None
        PROVE  LET other == l.permissions[i]
               IN  /\ other.reverses \in Admitted(l)
                   /\ l.permissions[other.reverses].phase \in SealPhases
                   /\ l.permissions[other.reverses].application = "Applied"
                   /\ other.phase = "SourceParentRestoreIntent" =>
                        l.permissions[other.reverses].phase = "ParentSealIntent"
                   /\ other.phase = "UndoIntent" =>
                        l.permissions[other.reverses].phase = "TreeSealIntent"
    BY SMTT(40), <1>1, <1>4, <2>1 DEF LedgerSound, InversesSound
  <2>2. \A i \in LiveInverses(l) :
          /\ i \in LiveInverses(ledger)
          /\ l.permissions[i].reverses = ledger.permissions[i].reverses
          /\ resolution = "ConfirmedNotApplied" => i # m
    BY <1>1, <1>2 DEF LiveInverses
  <2>3. ASSUME NEW i \in LiveInverses(l)
        PROVE  l.permissions[i].reverses \in l.active_inverses
    <3>1. CASE resolution = "ConfirmedNotApplied"
      <4>1. ledger.permissions[i].reverses # entry.reverses
        BY <1>5, <1>6, <2>2, <2>3, <3>1
      <4> QED BY <1>1, <1>5, <2>2, <2>3, <3>1, <4>1
    <3>2. CASE resolution = "Applied"
      BY <1>1, <1>5, <2>2, <2>3, <3>2
    <3> QED BY <3>1, <3>2
  <2>4. \A i \in LiveInverses(l), j \in LiveInverses(l) :
          l.permissions[i].reverses = l.permissions[j].reverses => i = j
    BY <1>5, <2>2
  <2> QED BY <2>1, <2>3, <2>4 DEF InversesSound
<1>8. /\ IsFiniteSet(Unresolved(ledger))
      /\ \A phase : IsFiniteSet(AppliedSeals(ledger, phase))
      /\ \A phase, inverses : IsFiniteSet(ReversedSeals(ledger, phase, inverses))
  BY FiniteScans DEF LedgerSound
<1>9. IsFiniteSet(Admitted(l)) /\ l.recorded = l.resolved + Cardinality(Unresolved(l))
  <2>1. Unresolved(l) = Unresolved(ledger) \ {m} /\ m \in Unresolved(ledger)
    BY <1>1, <1>2 DEF Unresolved, Unknown
  <2>2. Cardinality(Unresolved(l)) = Cardinality(Unresolved(ledger)) - 1
    BY Zenon, <1>8, <2>1, FS_RemoveElement
  <2>3. Cardinality(Unresolved(ledger)) \in Nat /\ ledger.resolved \in Nat
    BY <1>8, FS_CardinalityType DEF Ledgers
  <2> QED BY <1>1, <2>2, <2>3 DEF LedgerSound, CountsSound
<1>10. CASE resolution = "ConfirmedNotApplied"
  <2>1. \A phase : AppliedSeals(l, phase) = AppliedSeals(ledger, phase)
    BY <1>1, <1>2, <1>10 DEF AppliedSeals
  <2>2. ASSUME NEW phase, NEW inverses
        PROVE  ReversedSeals(l, phase, inverses) = ReversedSeals(ledger, phase, inverses)
    BY <1>1, <1>2, <1>10, <2>1 DEF ReversedSeals
  <2>3. l.coverage = ledger.coverage
    BY <1>1, <1>10 DEF CoverageAfter
  <2>4. CountsSound(l)
    BY <1>9, <2>1, <2>2, <2>3 DEF LedgerSound, CountsSound
  <2> QED BY <1>3, <1>7, <2>4 DEF LedgerSound, l
<1>11. CASE resolution = "Applied" /\ entry.reverses = None
  <2>1. ASSUME NEW phase
        PROVE  Cardinality(AppliedSeals(l, phase)) =
                 Cardinality(AppliedSeals(ledger, phase)) + One(entry.phase = phase)
    <3>1. /\ AppliedSeals(l, phase) =
               AppliedSeals(ledger, phase) \cup (IF entry.phase = phase THEN {m} ELSE {})
          /\ m \notin AppliedSeals(ledger, phase)
      BY <1>1, <1>2, <1>11 DEF AppliedSeals
    <3> QED BY ZenonT(60), <1>8, <3>1, Tally
  <2>2. \A i \in Admitted(ledger) : ledger.permissions[i].reverses # m
    BY <1>4, SealWalAssumption DEF Admitted
  <2>3. ASSUME NEW phase, NEW inverses
        PROVE  ReversedSeals(l, phase, inverses) = ReversedSeals(ledger, phase, inverses)
    <3>1. \A k \in Admitted(ledger) \ {m} :
            k \in AppliedSeals(l, phase) <=> k \in AppliedSeals(ledger, phase)
      BY <1>1 DEF AppliedSeals
    <3>2. \A k : k \in ReversedSeals(l, phase, inverses) =>
                   k \in ReversedSeals(ledger, phase, inverses)
      BY <1>1, <1>11, <2>2, <3>1, SealWalAssumption DEF ReversedSeals, AppliedSeals, Admitted
    <3>3. \A k : k \in ReversedSeals(ledger, phase, inverses) =>
                   k \in ReversedSeals(l, phase, inverses)
      BY <1>1, <1>2, <1>11, <2>2, <3>1 DEF ReversedSeals, AppliedSeals
    <3> QED BY <3>2, <3>3 DEF ReversedSeals
  <2>4. l.coverage = record_applied_seal(ledger.coverage, entry.phase)
    BY <1>1, <1>11 DEF CoverageAfter
  <2>5. /\ l.coverage.applied_parent =
             ledger.coverage.applied_parent + One(entry.phase = "ParentSealIntent")
        /\ l.coverage.applied_tree =
             ledger.coverage.applied_tree + One(entry.phase = "TreeSealIntent")
        /\ \A f \in {"reversed_parent", "restored_parent", "reversed_tree", "undone_tree"} :
             l.coverage[f] = ledger.coverage[f]
    BY <2>4 DEF record_applied_seal, Ledgers, Coverages
  <2>6. CountsSound(l)
    BY <1>9, <2>1, <2>3, <2>5 DEF LedgerSound, CountsSound
  <2> QED BY <1>3, <1>7, <2>6 DEF LedgerSound, l
<1>12. CASE resolution = "Applied" /\ entry.reverses # None
  <2> DEFINE s == entry.reverses
             sealed == ledger.permissions[s].phase
  <2>1. /\ s \in Admitted(ledger) /\ s # m /\ sealed \in SealPhases
        /\ ledger.permissions[s].application = "Applied"
        /\ entry.phase \notin SealPhases
    BY <1>4, <1>12 DEF LedgerSound, InversesSound, SealsSound
  <2> HIDE DEF s, sealed
  <2>2. \A phase \in SealPhases : AppliedSeals(l, phase) = AppliedSeals(ledger, phase)
    BY <1>1, <1>2, <2>1 DEF AppliedSeals
  <2>3. ASSUME NEW i \in Admitted(ledger), ledger.permissions[i].reverses = s,
               ledger.permissions[i].application = "Applied"
        PROVE  FALSE
    <3>1. i \in LiveInverses(ledger)
      BY <1>12, <2>3 DEF LiveInverses, s
    <3>2. i = m
      BY <1>5, <1>6, <1>12, <2>3, <3>1 DEF s
    <3> QED BY <1>2, <2>3, <3>2
  <2>4. ASSUME NEW phase \in SealPhases, NEW inverses
        PROVE  Cardinality(ReversedSeals(l, phase, inverses)) =
                 Cardinality(ReversedSeals(ledger, phase, inverses))
                 + One(sealed = phase /\ entry.phase \in inverses)
    <3>1. s \notin ReversedSeals(ledger, phase, inverses)
      BY <2>3 DEF ReversedSeals
    <3>2. s \in AppliedSeals(ledger, phase) <=> sealed = phase
      BY <2>1 DEF AppliedSeals, sealed
    <3>3. \A i \in Admitted(ledger) :
            l.permissions[i].application = "Applied" <=>
              (i = m \/ ledger.permissions[i].application = "Applied")
      BY <1>1, <1>12
    <3>4. ReversedSeals(l, phase, inverses) =
            ReversedSeals(ledger, phase, inverses)
            \cup (IF sealed = phase /\ entry.phase \in inverses THEN {s} ELSE {})
      <4>1. ASSUME NEW k \in AppliedSeals(ledger, phase)
            PROVE  k \in ReversedSeals(l, phase, inverses) <=>
                     \E i \in Admitted(ledger) : /\ ledger.permissions[i].reverses = k
                                                /\ l.permissions[i].application = "Applied"
                                                /\ ledger.permissions[i].phase \in inverses
        <5>1. k \in AppliedSeals(l, phase)
          BY <2>2
        <5> QED BY <1>1, <5>1 DEF ReversedSeals
      <4>2. ASSUME NEW k \in AppliedSeals(ledger, phase)
            PROVE  k \in ReversedSeals(l, phase, inverses) <=>
                     \/ k \in ReversedSeals(ledger, phase, inverses)
                     \/ k = s /\ entry.phase \in inverses
        <5>1. k \in ReversedSeals(ledger, phase, inverses) <=>
                \E i \in Admitted(ledger) : /\ ledger.permissions[i].reverses = k
                                           /\ ledger.permissions[i].application = "Applied"
                                           /\ ledger.permissions[i].phase \in inverses
          BY DEF ReversedSeals
        <5> QED BY <3>3, <4>1, <5>1 DEF s
      <4>3. /\ ReversedSeals(l, phase, inverses) \subseteq AppliedSeals(ledger, phase)
            /\ ReversedSeals(ledger, phase, inverses) \subseteq AppliedSeals(ledger, phase)
        BY <2>2 DEF ReversedSeals
      <4> QED BY <3>2, <4>2, <4>3
    <3> QED BY Zenon, <1>8, <3>1, <3>4, Tally
  <2>5. l.coverage = record_applied_inverse(record_applied_seal(ledger.coverage, entry.phase),
                                            sealed, entry.phase)
    BY <1>1, <1>12 DEF CoverageAfter, s, sealed
  <2>6. /\ One(entry.phase = "ParentSealIntent") = 0 /\ One(entry.phase = "TreeSealIntent") = 0
    BY <2>1 DEF One, SealPhases
  <2>7. /\ l.coverage.applied_parent = ledger.coverage.applied_parent
        /\ l.coverage.applied_tree = ledger.coverage.applied_tree
        /\ l.coverage.reversed_parent =
             ledger.coverage.reversed_parent + One(sealed = "ParentSealIntent")
        /\ l.coverage.restored_parent =
             ledger.coverage.restored_parent
             + One(sealed = "ParentSealIntent" /\ entry.phase = "SourceParentRestoreIntent")
        /\ l.coverage.reversed_tree =
             ledger.coverage.reversed_tree + One(sealed = "TreeSealIntent")
        /\ l.coverage.undone_tree =
             ledger.coverage.undone_tree
             + One(sealed = "TreeSealIntent" /\ entry.phase = "UndoIntent")
    <3>1. ledger.coverage \in Coverages
      BY DEF Ledgers
    <3> DEFINE c == record_applied_seal(ledger.coverage, entry.phase)
    <3>2. c = ledger.coverage
      <4>1. /\ ledger.coverage.applied_parent + One(entry.phase = "ParentSealIntent")
                 = ledger.coverage.applied_parent
            /\ ledger.coverage.applied_tree + One(entry.phase = "TreeSealIntent")
                 = ledger.coverage.applied_tree
        BY <2>6, <3>1 DEF Coverages
      <4> QED BY ZenonT(60), <3>1, <4>1 DEF record_applied_seal, Coverages
    <3> HIDE DEF c
    <3>3. l.coverage = record_applied_inverse(ledger.coverage, sealed, entry.phase)
      BY <2>5, <3>2 DEF c
    <3> QED BY <3>1, <3>3 DEF record_applied_inverse, Coverages
  <2>8. entry.phase \in IntentPhases
    BY DEF Ledgers, PermissionEntries, Admitted
  <2>9. CountsSound(l)
    <3>1. /\ l.coverage.applied_parent = Cardinality(AppliedSeals(l, "ParentSealIntent"))
          /\ l.coverage.applied_tree = Cardinality(AppliedSeals(l, "TreeSealIntent"))
      BY <2>2, <2>7 DEF LedgerSound, CountsSound, SealPhases
    <3>2. l.coverage.reversed_parent =
            Cardinality(ReversedSeals(l, "ParentSealIntent", IntentPhases))
      BY <2>4, <2>7, <2>8 DEF LedgerSound, CountsSound, SealPhases
    <3>3. l.coverage.restored_parent =
            Cardinality(ReversedSeals(l, "ParentSealIntent", {"SourceParentRestoreIntent"}))
      BY <2>4, <2>7 DEF LedgerSound, CountsSound, SealPhases
    <3>4. l.coverage.reversed_tree =
            Cardinality(ReversedSeals(l, "TreeSealIntent", IntentPhases))
      BY <2>4, <2>7, <2>8 DEF LedgerSound, CountsSound, SealPhases
    <3>5. l.coverage.undone_tree =
            Cardinality(ReversedSeals(l, "TreeSealIntent", {"UndoIntent"}))
      BY <2>4, <2>7 DEF LedgerSound, CountsSound, SealPhases
    <3> QED BY <1>9, <3>1, <3>2, <3>3, <3>4, <3>5 DEF CountsSound
  <2> QED BY <1>3, <1>7, <2>9 DEF LedgerSound, l
<1> QED
  BY <1>10, <1>11, <1>12

\* An intent its writer admits keeps the transaction good.
LEMMA IntentGood ==
  ASSUME NEW t, Good(t), NEW m \in MutationIds, NEW dir \in Directories,
         NEW pre \in Modes, NEW expected \in Modes, NEW reverses \in MutationIds \cup {None},
         may_intend_mutation(t, m, dir, pre, expected, reverses),
         t.state = "TreeSealIntent" => dir # Parent
  PROVE  Good([t EXCEPT !.ledger = record_intent(t.ledger, m, t.state, dir, pre, expected,
                                                 reverses)])
<1> DEFINE l == record_intent(t.ledger, m, t.state, dir, pre, expected, reverses)
           u == [t EXCEPT !.ledger = l]
<1>1. t \in Transactions /\ t.ledger \in Ledgers /\ LedgerSound(t.ledger) /\ PathSound(t)
  BY DEF Good, Transactions
<1>2. t.state \in IntentPhases /\ t.ledger.permissions[m] = None
  BY DEF may_intend_mutation
<1>3. l \in Ledgers
  BY <1>1, <1>2, IntentType
<1>4. t.state \in SealPhases <=> reverses = None
  BY DEF may_intend_mutation
<1>5. reverses # None =>
        /\ t.ledger.permissions[reverses] # None
        /\ t.ledger.permissions[reverses].application = "Applied"
        /\ t.ledger.permissions[reverses].phase \in SealPhases
        /\ t.state = "SourceParentRestoreIntent" =>
             t.ledger.permissions[reverses].phase = "ParentSealIntent"
        /\ t.state = "UndoIntent" => t.ledger.permissions[reverses].phase = "TreeSealIntent"
        /\ reverses \notin t.ledger.active_inverses
  BY DEF may_intend_mutation, InverseMatches
<1>6. LedgerSound(l)
  BY <1>1, <1>2, <1>4, <1>5, IntentSound
<1>7. /\ Admitted(l) = Admitted(t.ledger) \cup {m}
      /\ \A k \in Admitted(t.ledger) : l.permissions[k] = t.ledger.permissions[k]
      /\ l.permissions[m].phase = t.state /\ l.coverage = t.ledger.coverage
  <2>1. l = record_intent(t.ledger, m, t.state, dir, pre, expected, reverses)
    OBVIOUS
  <2> HIDE DEF l
  <2> QED
    BY <1>1, <1>2, <2>1, IntentAdds
<1> HIDE DEF l
<1>8. /\ u \in Transactions /\ u.ledger = l /\ u.state = t.state /\ u.rename = t.rename
      /\ u.undo = t.undo /\ u.state # None
  BY <1>1, <1>2, <1>3, SealWalAssumption DEF Transactions, TransactionStates
<1> HIDE DEF u
<1>9. PathSound(u)
  <2>1. t.state # "Restored" /\ t.state # "SourceParentRestored"
    BY <1>2 DEF IntentPhases, SealPhases, InversePhases
  <2>2. t.state \in OnTheWayToUndo =>
          t.state \in SealPhases \cup {"SourceParentRestoreIntent", "UndoIntent"}
    BY <1>2 DEF OnTheWayToUndo, BeforeRename, AfterParentRestore, IntentPhases, SealPhases,
       InversePhases
  <2>3. t.state \in OnTheWayToUndo =>
          \A k \in Admitted(l) :
            l.permissions[k].phase \in SealPhases \cup {"SourceParentRestoreIntent", "UndoIntent"}
    BY <1>1, <1>7, <2>2 DEF PathSound
  <2>4. t.state \in AfterParentRestore => every_applied_parent_seal_is_restored(l)
    BY <1>1, <1>7 DEF PathSound, every_applied_parent_seal_is_restored
  <2> QED BY <1>1, <1>8, <2>1, <2>3, <2>4 DEF PathSound
<1>10. Good(u)
  BY <1>6, <1>8, <1>9 DEF Good
<1> QED
  BY <1>10 DEF u, l

\* An undo's inverse leaves the source parent's counts alone.
LEMMA UndoLeavesTheParent ==
  ASSUME NEW ledger \in Ledgers, LedgerSound(ledger), NEW m \in Admitted(ledger),
         ledger.permissions[m].phase = "UndoIntent",
         NEW resolution \in {"Applied", "ConfirmedNotApplied"},
         every_applied_parent_seal_is_restored(ledger)
  PROVE  every_applied_parent_seal_is_restored(record_resolution(ledger, m, resolution))
<1> DEFINE entry == ledger.permissions[m]
           c == ledger.coverage
           after == CoverageAfter(ledger, entry, resolution)
<1>1. entry.reverses # None /\ ledger.permissions[entry.reverses].phase = "TreeSealIntent"
  BY DEF LedgerSound, SealsSound, InversesSound, SealPhases
<1>2. c \in Coverages
  BY DEF Ledgers
<1>3. CASE resolution = "Applied"
  <2>1. after = record_applied_inverse(record_applied_seal(c, "UndoIntent"), "TreeSealIntent",
                                       "UndoIntent")
    BY <1>1, <1>3 DEF CoverageAfter
  <2>2. /\ One("UndoIntent" = "ParentSealIntent") = 0 /\ One("UndoIntent" = "TreeSealIntent") = 0
        /\ One("TreeSealIntent" = "ParentSealIntent") = 0
        /\ One("TreeSealIntent" = "ParentSealIntent"
               /\ "UndoIntent" = "SourceParentRestoreIntent") = 0
    BY DEF One
  <2> DEFINE d == record_applied_seal(c, "UndoIntent")
  <2>3. d.applied_parent = c.applied_parent /\ d.restored_parent = c.restored_parent
    BY <1>2, <2>2 DEF record_applied_seal, Coverages
  <2>5. d \in Coverages
    BY <1>2, CoverageType
  <2> HIDE DEF d
  <2>4. after.applied_parent = d.applied_parent /\ after.restored_parent = d.restored_parent
    BY <2>1, <2>2, <2>5 DEF record_applied_inverse, Coverages, d
  <2> QED BY <2>3, <2>4 DEF every_applied_parent_seal_is_restored, record_resolution
<1>4. CASE resolution = "ConfirmedNotApplied"
  BY <1>4 DEF CoverageAfter, every_applied_parent_seal_is_restored, record_resolution
<1> QED BY <1>3, <1>4

\* A resolution its writer admits keeps the transaction good.
LEMMA ResolutionGood ==
  ASSUME NEW t, Good(t), NEW m \in MutationIds, may_resolve(t, m),
         NEW resolution \in {"Applied", "ConfirmedNotApplied"}
  PROVE  Good([t EXCEPT !.ledger = record_resolution(t.ledger, m, resolution)])
<1> DEFINE l == record_resolution(t.ledger, m, resolution)
           u == [t EXCEPT !.ledger = l]
<1>1. t \in Transactions /\ t.ledger \in Ledgers /\ LedgerSound(t.ledger) /\ PathSound(t)
  BY DEF Good, Transactions
<1>2. /\ m \in Admitted(t.ledger) /\ t.ledger.permissions[m] # None
      /\ t.ledger.permissions[m].application = Unknown
      /\ t.ledger.permissions[m].phase = t.state
  BY DEF may_resolve, Admitted
<1>3. t.state \in IntentPhases
  BY <1>1, <1>2 DEF Ledgers, PermissionEntries
<1>4. l \in Ledgers /\ LedgerSound(l)
  BY <1>1, <1>2, ResolutionType, ResolutionSound
<1>5. /\ Admitted(l) = Admitted(t.ledger)
      /\ \A k \in Admitted(t.ledger) : l.permissions[k].phase = t.ledger.permissions[k].phase
  BY <1>1, <1>2, ResolutionEntries
<1>6. t.state = "UndoIntent" /\ every_applied_parent_seal_is_restored(t.ledger) =>
        every_applied_parent_seal_is_restored(l)
  BY <1>1, <1>2, UndoLeavesTheParent
<1> HIDE DEF l
<1>7. /\ u \in Transactions /\ u.ledger = l /\ u.state = t.state /\ u.rename = t.rename
      /\ u.undo = t.undo /\ u.state # None
  BY <1>1, <1>3, <1>4, SealWalAssumption DEF Transactions, TransactionStates
<1> HIDE DEF u
<1>8. PathSound(u)
  <2>1. /\ t.state # "Restored"
        /\ t.state \in AfterParentRestore => t.state = "UndoIntent"
    BY <1>3 DEF IntentPhases, SealPhases, InversePhases, AfterParentRestore
  <2>2. t.state \in OnTheWayToUndo =>
          \A k \in Admitted(l) :
            l.permissions[k].phase \in SealPhases \cup {"SourceParentRestoreIntent", "UndoIntent"}
    BY <1>1, <1>5 DEF PathSound
  <2>3. t.state \in AfterParentRestore => every_applied_parent_seal_is_restored(l)
    BY <1>1, <1>6, <2>1 DEF PathSound
  <2> QED BY <1>1, <1>7, <2>1, <2>2, <2>3 DEF PathSound
<1>9. Good(u)
  BY <1>4, <1>7, <1>8 DEF Good
<1> QED
  BY <1>9 DEF u, l

-----------------------------------------------------------------------------
(* The path.  What PathSound says survives every change of state. *)

\* A transaction whose state, ledger and outcomes are those of a good one.
LEMMA PathKept ==
  ASSUME NEW t, NEW u, PathSound(t), u.state = t.state, u.ledger = t.ledger,
         u.rename = t.rename, u.undo = t.undo
  PROVE  PathSound(u)
BY DEF PathSound

\* No clause speaks of these states.
LEMMA PathFree ==
  ASSUME NEW t, t.state \in {"UndoRenameIntent", "Purgeable", "PurgeIntent", "RecoveryRequired"}
  PROVE  PathSound(t)
BY DEF PathSound, BeforeRenameStates, BeforeRename, OnTheWayToUndo, AfterParentRestore

\* A rename that is intended may be recorded either way.
LEMMA PathRename ==
  ASSUME NEW t, NEW u, PathSound(t), t.state \in {"TreeSealed", "RenameIntent"},
         u.state = "RenameIntent", u.ledger = t.ledger
  PROVE  PathSound(u)
BY DEF PathSound, BeforeRenameStates, BeforeRename, OnTheWayToUndo, AfterParentRestore

\* transition_inner leaves the path sound.
LEMMA PathTransition ==
  ASSUME NEW t, NEW u, NEW next, PathSound(t), transition_inner(t, next), u.state = next,
         u.ledger = t.ledger, u.rename = t.rename, u.undo = t.undo
  PROVE  PathSound(u)
<1>1. valid_transition(t.state, next)
  BY DEF transition_inner
<1>2. next \in BeforeRenameStates => u.rename = None
  <2>1. next \in BeforeRenameStates => t.state \in BeforeRenameStates
    BY <1>1 DEF valid_transition, BeforeRenameStates, BeforeRename
  <2> QED BY <2>1 DEF PathSound
<1>3. next = "RestoreIntent" => u.rename # "Applied"
  <2>1. next = "RestoreIntent" => t.state \in BeforeRename
    BY <1>1 DEF valid_transition
  <2>2. next = "RestoreIntent" /\ t.state = "RenameIntent" => t.rename = "NotApplied"
    BY DEF transition_inner, RenameOutcomeMatches
  <2> QED BY <2>1, <2>2, SealWalAssumption DEF PathSound, BeforeRenameStates
<1>4. next = "Restored" => /\ u.rename # "Applied" \/ u.undo = "Applied"
                           /\ every_applied_seal_is_reversed(u.ledger)
  <2>1. next = "Restored" => t.state \in {"RestoreIntent", "UndoRenameIntent"}
    BY <1>1 DEF valid_transition
  <2>2. next = "Restored" /\ t.state = "UndoRenameIntent" => t.undo = "Applied"
    BY DEF transition_inner, UndoOutcomeMatches
  <2>3. next = "Restored" => every_applied_seal_is_reversed(t.ledger)
    BY DEF transition_inner
  <2> QED BY <2>1, <2>2, <2>3 DEF PathSound
<1>5. next \in OnTheWayToUndo => t.state \in OnTheWayToUndo
  BY <1>1 DEF valid_transition, OnTheWayToUndo, BeforeRename, AfterParentRestore
<1>6. next \in AfterParentRestore => every_applied_parent_seal_is_restored(u.ledger)
  <2>1. next \in AfterParentRestore => next = "SourceParentRestored"
                                       \/ t.state \in AfterParentRestore
    BY <1>1 DEF valid_transition, AfterParentRestore
  <2> QED BY <2>1 DEF PathSound, transition_inner
<1> QED
  BY <1>2, <1>3, <1>4, <1>5, <1>6 DEF PathSound

-----------------------------------------------------------------------------
(* Replay follows each writer.  One lemma per frame. *)

\* begin_staging.
LEMMA FollowsBegin ==
  ASSUME NEW t, Good(t), NEW strategy \in Strategies, NEW association \in BOOLEAN,
         t.state = None
  PROVE  Follows(t, Frame("StagingBegin", [strategy |-> strategy, association |-> association]),
                 Begun(strategy, association))
<1> DEFINE f == Frame("StagingBegin", [strategy |-> strategy, association |-> association])
           u == Begun(strategy, association)
<1>1. ReplayAccepts(t, f)
  BY DEF ReplayAccepts, Frame
<1>2. t = NotBegun /\ ReplayedAs(t, f) = u
  BY Zenon DEF ReplayedAs, Frame, Begun, Good
<1>3. u \in Transactions /\ u.ledger = t.ledger /\ u.state # None
  BY ZenonT(60), <1>2, SealWalAssumption DEF Begun, Good, Transactions, TransactionStates
<1>4. PathSound(u)
  <2>1. u.state = "Prepared" /\ u.rename = None /\ Admitted(u.ledger) = {}
    BY DEF Begun, NotBegun, Admitted, EmptyLedger
  <2> QED
    BY <2>1, SealWalAssumption DEF PathSound, AfterParentRestore
<1>5. Good(u)
  BY <1>3, <1>4, SameLedger
<1> QED
  BY <1>1, <1>2, <1>5 DEF Follows, Later

\* transition_inner, by either of its callers.
LEMMA FollowsState ==
  ASSUME NEW t, Good(t), NEW next \in TransactionStates, may_transition(t, next)
  PROVE  Follows(t, Frame("State", next), [t EXCEPT !.state = next])
<1> DEFINE f == Frame("State", next)
           u == [t EXCEPT !.state = next]
<1>1. replays_state(t, next)
  BY DEF may_transition, transition_inner, replays_state, FoundationTargets, ProvenTargets
<1>2. ReplayAccepts(t, f)
  BY <1>1 DEF ReplayAccepts, Frame
<1>3. ReplayedAs(t, f) = u
  BY DEF ReplayedAs, Frame
<1>4. u \in Transactions /\ u.ledger = t.ledger /\ u.state = next
  BY DEF Good, Transactions
<1>5. Good(u)
  <2>1. u.rename = t.rename /\ u.undo = t.undo
    BY DEF Good, Transactions
  <2>2. PathSound(u)
    BY Zenon, <1>4, <2>1, PathTransition DEF Good, may_transition
  <2> QED
    BY Zenon, <1>4, <2>2, SameLedger, SealWalAssumption
<1>6. valid_transition(t.state, next)
  BY DEF may_transition, transition_inner
<1> QED
  BY <1>2, <1>3, <1>4, <1>5, <1>6 DEF Follows, Later

\* complete_tree_manifest_with_sidecar.
LEMMA FollowsTree ==
  ASSUME NEW t, Good(t), may_complete_tree(t)
  PROVE  Follows(t, Frame("TreeManifestSidecarComplete", None), [t EXCEPT !.manifest = TRUE, !.sidecar = TRUE])
<1> DEFINE f == Frame("TreeManifestSidecarComplete", None)
           u == [t EXCEPT !.manifest = TRUE, !.sidecar = TRUE]
<1>1. ReplayAccepts(t, f)
  BY DEF may_complete_tree, ReplayAccepts, Frame
<1>2. ReplayedAs(t, f) = u
  BY DEF ReplayedAs, Frame
<1>3. /\ u \in Transactions /\ u.ledger = t.ledger /\ u.state # None
      /\ Later(t.state, u.state)
  BY Zenon, SealWalAssumption DEF Good, Transactions, TransactionStates, Later, IntentPhases, SealPhases,
     may_complete_tree
<1>4. Good(u)
  <2>1. u.state = t.state /\ u.rename = t.rename /\ u.undo = t.undo
    BY DEF Good, Transactions
  <2>2. PathSound(u)
    BY Zenon, <1>3, <2>1, PathKept DEF Good
  <2> QED
    BY Zenon, <1>3, <2>2, SameLedger
<1> QED
  BY <1>1, <1>2, <1>3, <1>4 DEF Follows

\* record_rename_intent.
LEMMA FollowsRenameIntent ==
  ASSUME NEW t, Good(t), may_intend_rename(t)
  PROVE  Follows(t, Frame("RenameIntent", None), [t EXCEPT !.state = "RenameIntent"])
<1> DEFINE f == Frame("RenameIntent", None)
           u == [t EXCEPT !.state = "RenameIntent"]
<1>1. ReplayAccepts(t, f)
  BY DEF may_intend_rename, ReplayAccepts, Frame
<1>2. ReplayedAs(t, f) = u
  BY DEF ReplayedAs, Frame
<1>3. /\ u \in Transactions /\ u.ledger = t.ledger /\ u.state # None
      /\ Later(t.state, u.state)
  BY SealWalAssumption DEF Good, Transactions, TransactionStates, Later, valid_transition, may_intend_rename
<1>4. Good(u)
  <2>1. u.state = "RenameIntent" /\ t.state = "TreeSealed"
    BY DEF Good, Transactions, may_intend_rename
  <2>2. PathSound(u)
    BY Zenon, <1>3, <2>1, PathRename DEF Good
  <2> QED
    BY Zenon, <1>3, <2>2, SameLedger
<1> QED
  BY <1>1, <1>2, <1>3, <1>4 DEF Follows

\* record_rename_outcome.
LEMMA FollowsRenameOutcome ==
  ASSUME NEW t, Good(t), may_record_rename_outcome(t), NEW outcome \in {"Applied", "NotApplied"}
  PROVE  Follows(t, Frame("RenameOutcome", outcome), [t EXCEPT !.rename = outcome])
<1> DEFINE f == Frame("RenameOutcome", outcome)
           u == [t EXCEPT !.rename = outcome]
<1>1. ReplayAccepts(t, f)
  BY DEF may_record_rename_outcome, ReplayAccepts, Frame
<1>2. ReplayedAs(t, f) = u
  BY DEF ReplayedAs, Frame
<1>3. /\ u \in Transactions /\ u.ledger = t.ledger /\ u.state # None
      /\ Later(t.state, u.state)
  BY SealWalAssumption DEF Good, Transactions, TransactionStates, Later, valid_transition, may_record_rename_outcome
<1>4. Good(u)
  <2>1. u.state = "RenameIntent" /\ t.state = "RenameIntent"
    BY DEF Good, Transactions, may_record_rename_outcome
  <2>2. PathSound(u)
    BY Zenon, <1>3, <2>1, PathRename DEF Good
  <2> QED
    BY Zenon, <1>3, <2>2, SameLedger
<1> QED
  BY <1>1, <1>2, <1>3, <1>4 DEF Follows

\* record_undo_rename_outcome.
LEMMA FollowsUndoOutcome ==
  ASSUME NEW t, Good(t), may_record_undo_outcome(t), NEW outcome \in {"Applied", "Collision"}
  PROVE  Follows(t, Frame("UndoRenameOutcome", outcome), [t EXCEPT !.undo = outcome])
<1> DEFINE f == Frame("UndoRenameOutcome", outcome)
           u == [t EXCEPT !.undo = outcome]
<1>1. ReplayAccepts(t, f)
  BY DEF may_record_undo_outcome, ReplayAccepts, Frame
<1>2. ReplayedAs(t, f) = u
  BY DEF ReplayedAs, Frame
<1>3. /\ u \in Transactions /\ u.ledger = t.ledger /\ u.state # None
      /\ Later(t.state, u.state)
  BY SealWalAssumption DEF Good, Transactions, TransactionStates, Later, valid_transition, may_record_undo_outcome
<1>4. Good(u)
  <2>1. u.state = "UndoRenameIntent"
    BY DEF Good, Transactions, may_record_undo_outcome
  <2> HIDE DEF u
  <2>2. PathSound(u)
    BY <2>1, PathFree
  <2> QED
    BY <1>3, <2>2, SameLedger
<1> QED
  BY <1>1, <1>2, <1>3, <1>4 DEF Follows

\* record_purgeable.
LEMMA FollowsPurgeable ==
  ASSUME NEW t, Good(t), may_authorize_purge(t)
  PROVE  Follows(t, Frame("PurgeAuthorized", None), [t EXCEPT !.state = "Purgeable"])
<1> DEFINE f == Frame("PurgeAuthorized", None)
           u == [t EXCEPT !.state = "Purgeable"]
<1>1. ReplayAccepts(t, f)
  BY DEF may_authorize_purge, ReplayAccepts, Frame
<1>2. ReplayedAs(t, f) = u
  BY DEF ReplayedAs, Frame
<1>3. /\ u \in Transactions /\ u.ledger = t.ledger /\ u.state # None
      /\ Later(t.state, u.state)
  BY SealWalAssumption DEF Good, Transactions, TransactionStates, Later, valid_transition, may_authorize_purge
<1>4. Good(u)
  <2>1. u.state = "Purgeable"
    BY DEF Good, Transactions
  <2> HIDE DEF u
  <2>2. PathSound(u)
    BY <2>1, PathFree
  <2> QED
    BY <1>3, <2>2, SameLedger
<1> QED
  BY <1>1, <1>2, <1>3, <1>4 DEF Follows

\* record_purge_intent.
LEMMA FollowsPurgeIntent ==
  ASSUME NEW t, Good(t), may_claim_purge(t)
  PROVE  Follows(t, Frame("PurgeClaimed", None), [t EXCEPT !.state = "PurgeIntent"])
<1> DEFINE f == Frame("PurgeClaimed", None)
           u == [t EXCEPT !.state = "PurgeIntent"]
<1>1. ReplayAccepts(t, f)
  BY DEF may_claim_purge, ReplayAccepts, Frame
<1>2. ReplayedAs(t, f) = u
  BY DEF ReplayedAs, Frame
<1>3. /\ u \in Transactions /\ u.ledger = t.ledger /\ u.state # None
      /\ Later(t.state, u.state)
  BY SealWalAssumption DEF Good, Transactions, TransactionStates, Later, valid_transition, may_claim_purge
<1>4. Good(u)
  <2>1. u.state = "PurgeIntent"
    BY DEF Good, Transactions
  <2> HIDE DEF u
  <2>2. PathSound(u)
    BY <2>1, PathFree
  <2> QED
    BY <1>3, <2>2, SameLedger
<1> QED
  BY <1>1, <1>2, <1>3, <1>4 DEF Follows

\* record_purge_removed.
LEMMA FollowsRemoved ==
  ASSUME NEW t, Good(t), NEW removed \in Nat, may_record_removed(t, removed)
  PROVE  Follows(t, Frame("PurgeProgress", removed), [t EXCEPT !.removed = removed])
<1> DEFINE f == Frame("PurgeProgress", removed)
           u == [t EXCEPT !.removed = removed]
<1>1. ReplayAccepts(t, f)
  BY DEF may_record_removed, ReplayAccepts, Frame
<1>2. ReplayedAs(t, f) = u
  BY DEF ReplayedAs, Frame
<1>3. /\ u \in Transactions /\ u.ledger = t.ledger /\ u.state # None
      /\ Later(t.state, u.state)
  BY SealWalAssumption DEF Good, Transactions, TransactionStates, Later, valid_transition, may_record_removed
<1>4. Good(u)
  <2>1. u.state = "PurgeIntent"
    BY DEF Good, Transactions, may_record_removed
  <2> HIDE DEF u
  <2>2. PathSound(u)
    BY <2>1, PathFree
  <2> QED
    BY <1>3, <2>2, SameLedger
<1> QED
  BY <1>1, <1>2, <1>3, <1>4 DEF Follows

\* apply_permission_mutation_inner, where replay checks more than the writer.
LEMMA FollowsIntent ==
  ASSUME NEW t, Good(t), NEW m \in MutationIds, NEW dir \in Directories, NEW pre \in Modes,
         NEW expected \in Modes, NEW reverses \in MutationIds \cup {None},
         t.state = "TreeSealIntent" => dir \in TreeDirs,
         may_intend_mutation(t, m, dir, pre, expected, reverses)
  PROVE  Follows(t, IntentFrame(m, dir, pre, expected, reverses),
                 [t EXCEPT !.ledger = record_intent(t.ledger, m, t.state, dir, pre, expected,
                                                    reverses)])
<1> DEFINE f == IntentFrame(m, dir, pre, expected, reverses)
           i == f.value
           u == [t EXCEPT !.ledger = record_intent(t.ledger, m, t.state, dir, pre, expected,
                                                   reverses)]
<1>1. /\ f.kind = "PermissionIntent" /\ i.m = m /\ i.dir = dir /\ i.pre = pre
      /\ i.expected = expected /\ i.reverses = reverses
  BY DEF IntentFrame, Frame
<1>2. t.state = "TreeSealIntent" => dir # Parent
  BY SealWalAssumption
<1>3. ASSUME reverses = None PROVE replays_intent(t, i)
  <2>1. t.state \in SealPhases
    BY <1>3 DEF may_intend_mutation
  <2>2. EmptyPathIsSourceParent(t, i)
    BY <1>1, <1>2, <1>3, <2>1 DEF EmptyPathIsSourceParent, SealPhases
  <2> QED
    BY <1>1, <1>3, <2>1, <2>2 DEF replays_intent, may_intend_mutation
<1>4. ASSUME reverses # None PROVE replays_intent(t, i)
  <2>1. t.state \notin SealPhases /\ InverseMatches(t, t.state, dir, pre, expected, reverses)
    BY <1>4 DEF may_intend_mutation
  <2>2. /\ t.ledger.permissions[reverses].reverses = None
        /\ dir = Parent => t.ledger.permissions[reverses].phase = "ParentSealIntent"
    BY ZenonT(60), <1>4, <2>1, SealWalAssumption DEF InverseMatches, Good, LedgerSound, SealsSound, Admitted,
       SealPhases
  <2>3. EmptyPathIsSourceParent(t, i)
    BY ZenonT(60), <1>1, <1>4, <2>1, <2>2 DEF EmptyPathIsSourceParent, InverseMatches
  <2>4. validate_replayed_inverse(t, i)
    BY ZenonT(60), <1>1, <2>1, <2>2 DEF validate_replayed_inverse, InverseMatches
  <2> QED
    BY <1>1, <1>4, <2>1, <2>3, <2>4 DEF replays_intent, may_intend_mutation
<1>5. ReplayAccepts(t, f)
  BY Zenon, <1>1, <1>3, <1>4 DEF ReplayAccepts
<1>6. ReplayedAs(t, f) = u
  BY <1>1 DEF ReplayedAs
<1>7. Good(u)
  BY <1>2, IntentGood
<1>8. u.state = t.state
  BY DEF Good, Transactions
<1> QED
  BY <1>5, <1>6, <1>7, <1>8 DEF Follows, Later

\* Only a transaction that has begun has an entry to resolve.
LEMMA ResolvesBegun ==
  ASSUME NEW t, Good(t), NEW m \in MutationIds, may_resolve(t, m)
  PROVE  t.state # None
<1>1. t.ledger.permissions \in [MutationIds -> PermissionEntries \cup {None}]
  BY DEF Good, Transactions, Ledgers
<1>2. t.ledger.permissions[m] \in PermissionEntries
  BY <1>1 DEF may_resolve
<1>3. t.ledger.permissions[m].phase \in IntentPhases
  BY <1>2 DEF PermissionEntries
<1> QED
  BY <1>3, SealWalAssumption DEF may_resolve, TransactionStates

\* PermissionApplied.
LEMMA FollowsApplied ==
  ASSUME NEW t, Good(t), NEW m \in MutationIds, may_resolve(t, m)
  PROVE  Follows(t, Frame("PermissionApplied", m),
                 [t EXCEPT !.ledger = record_resolution(t.ledger, m, "Applied")])
<1> DEFINE f == Frame("PermissionApplied", m)
           u == [t EXCEPT !.ledger = record_resolution(t.ledger, m, "Applied")]
<1>1. ReplayAccepts(t, f)
  BY DEF ReplayAccepts, Frame, may_resolve, resolve_replayed_permission
<1>2. ReplayedAs(t, f) = u
  BY DEF ReplayedAs, Frame
<1>3. t.state # None
  BY ResolvesBegun
<1>4. Good(u)
  BY Zenon, ResolutionGood
<1>5. u.state = t.state
  BY DEF Good, Transactions
<1> QED
  BY <1>1, <1>2, <1>4, <1>5 DEF Follows, Later

\* PermissionNotApplied.
LEMMA FollowsNotApplied ==
  ASSUME NEW t, Good(t), NEW m \in MutationIds, may_resolve(t, m)
  PROVE  Follows(t, Frame("PermissionNotApplied", m),
                 [t EXCEPT !.ledger = record_resolution(t.ledger, m, "ConfirmedNotApplied")])
<1> DEFINE f == Frame("PermissionNotApplied", m)
           u == [t EXCEPT !.ledger = record_resolution(t.ledger, m, "ConfirmedNotApplied")]
<1>1. ReplayAccepts(t, f)
  BY DEF ReplayAccepts, Frame, may_resolve, resolve_replayed_permission
<1>2. ReplayedAs(t, f) = u
  BY DEF ReplayedAs, Frame
<1>3. t.state # None
  BY ResolvesBegun
<1>4. Good(u)
  BY Zenon, ResolutionGood
<1>5. u.state = t.state
  BY DEF Good, Transactions
<1> QED
  BY <1>1, <1>2, <1>4, <1>5 DEF Follows, Later
==============================================================================
