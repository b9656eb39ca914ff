------------------------------- MODULE MCTrash ------------------------------
(***************************************************************************)
(* The life of a trash entry: clean, purge, expiry and undo over paths and *)
(* the operation log (Lifecycle), the same commands over sealed            *)
(* transactions (LifecycleSession), and the registry of trash roots        *)
(* (TrashRegistry).                                                        *)
(***************************************************************************)
EXTENDS Naturals, Sequences, TLC

CONSTANTS p1, p2, m1, m2

VARIABLES
  part,  \* the component, and its bounds, this behaviour is about
  fs, markers, log, op, report, budget, place, entry, xattr, claims, wal, reg,
  after, roots, ns, lock, proc, g

Symmetry == Permutations({p1, p2}) \cup Permutations({m1, m2})

\* Three commands on one item, with a kill, a failing call and a change by
\* somebody else.
Long ==
  INSTANCE Lifecycle WITH Items <- {"a"}, MaxSeq <- 1, MaxClaims <- 1,
    MaxIno <- 2, MaxLog <- 7, MaxCommands <- 3, MaxFaults <- 1,
    MaxCrashes <- 1, MaxExternal <- 1, MaxDay <- 1, CrashKinds <- {"killed"},
    Foreign <- {<<"source", "a">>, <<"trash", 1>>},
    CleanPurges <- {TRUE, FALSE}, Commands <- {"clean", "purge", "undo"}

\* Two commands on two items, with a power cut or a kill, a failing call and a
\* change by somebody else.
Cut ==
  INSTANCE Lifecycle WITH Items <- {"a", "b"}, MaxSeq <- 2, MaxClaims <- 1,
    MaxIno <- 3, MaxLog <- 8, MaxCommands <- 2, MaxFaults <- 1,
    MaxCrashes <- 1, MaxExternal <- 1, MaxDay <- 0,
    CrashKinds <- {"killed", "power"}, Foreign <- {<<"source", "a">>},
    CleanPurges <- {TRUE, FALSE}, Commands <- {"clean", "purge", "undo"}

\* Two commands on two items and an entry staged without a seal.
Sealed ==
  INSTANCE LifecycleSession WITH Items <- {"a", "b"}, Old <- {"o"},
    MaxFaults <- 1, MaxCrashes <- 1, MaxTouches <- 1, MaxCommands <- 2

\* Three commands on one item and an entry staged without a seal.
Again ==
  INSTANCE LifecycleSession WITH Items <- {"a"}, Old <- {"o"}, MaxFaults <- 1,
    MaxCrashes <- 1, MaxTouches <- 1, MaxCommands <- 3

\* Two file systems, two processes, three commands, one interruption.
Registry ==
  INSTANCE TrashRegistry WITH Mounts <- {m1, m2}, Processes <- {p1, p2},
    MaxOps <- 3, MaxFaults <- 1, MaxMounts <- 2

\* A behaviour is one of one component; the variables of the others rest.
vars == <<part, fs, markers, log, op, report, budget, place, entry, xattr,
          claims, wal, reg, after, roots, ns, lock, proc, g>>

Init ==
  \/ /\ part = "long" /\ Long!Init
     /\ place = 0 /\ entry = 0 /\ xattr = 0 /\ claims = 0 /\ wal = 0
     /\ reg = 0 /\ after = 0 /\ roots = 0 /\ ns = 0 /\ lock = 0 /\ proc = 0
     /\ g = 0
  \/ /\ part = "cut" /\ Cut!Init
     /\ place = 0 /\ entry = 0 /\ xattr = 0 /\ claims = 0 /\ wal = 0
     /\ reg = 0 /\ after = 0 /\ roots = 0 /\ ns = 0 /\ lock = 0 /\ proc = 0
     /\ g = 0
  \/ /\ part = "sealed" /\ Sealed!Init
     /\ fs = 0 /\ markers = 0 /\ report = 0 /\ reg = 0 /\ after = 0
     /\ roots = 0 /\ ns = 0 /\ lock = 0 /\ proc = 0 /\ g = 0
  \/ /\ part = "again" /\ Again!Init
     /\ fs = 0 /\ markers = 0 /\ report = 0 /\ reg = 0 /\ after = 0
     /\ roots = 0 /\ ns = 0 /\ lock = 0 /\ proc = 0 /\ g = 0
  \/ /\ part = "registry" /\ Registry!Init
     /\ fs = 0 /\ markers = 0 /\ log = 0 /\ op = 0 /\ report = 0
     /\ place = 0 /\ entry = 0 /\ xattr = 0 /\ claims = 0 /\ wal = 0

Next ==
  /\ part' = part
  /\ \/ /\ part = "long" /\ Long!Next
        /\ UNCHANGED <<place, entry, xattr, claims, wal, reg, after, roots,
                       ns, lock, proc, g>>
     \/ /\ part = "cut" /\ Cut!Next
        /\ UNCHANGED <<place, entry, xattr, claims, wal, reg, after, roots,
                       ns, lock, proc, g>>
     \/ /\ part = "sealed" /\ Sealed!Next
        /\ UNCHANGED <<fs, markers, report, reg, after, roots, ns, lock, proc,
                       g>>
     \/ /\ part = "again" /\ Again!Next
        /\ UNCHANGED <<fs, markers, report, reg, after, roots, ns, lock, proc,
                       g>>
     \/ /\ part = "registry" /\ Registry!Next
        /\ UNCHANGED <<fs, markers, log, op, report, place, entry, xattr,
                       claims, wal>>
     \* These end: their budget is spent, or the call has returned.
     \/ part \in {"long", "cut", "sealed", "again",
                "registry"} /\ UNCHANGED vars

Spec == Init /\ [][Next]_vars

-----------------------------------------------------------------------------
(* Properties *)

\* What is staged stays undoable.
\* - Whatever crashes, failed appends, reused entry names and earlier undos
\*   did, an object in the trash that nobody touched since it was staged, and
\*   whose staging left any record, is restorable while its original path is
\*   free, unless it was recorded as a destination that could not be verified.
\* - Expiry deletes nothing that has been in the trash for less than the time
\*   to live, even when the record that speaks for its name is an older one.
StagedIsUndoable ==
  /\ part = "long" =>
       /\ Long!TypeOK
       /\ Long!StagedIsUndoable
       /\ Long!ExpirySparesFresh
  /\ part = "cut" => Cut!StagedIsUndoable

\* The operation log and the reports of a session say what the seal log
\* decided.
\* - A record of a sealed transaction is written only after the seal log
\*   decided what the record says, so no failure or kill leaves a log that
\*   claims a deletion or a return that did not happen.
\* - While a staging is open or given up, its reservation marker is still there
\*   as evidence; the entry name of one that ended in quarantine is not handed
\*   out again, also when a purge found its marker expired and removed it.
\* - Whatever records were never written, were lost or speak of objects that
\*   have moved on, a group with a committed transaction is never refused as a
\*   mixed one.
\* - What a finished command reports of every item is so, and a purge accounts
\*   for every entry it planned exactly once.
LogFollowsTheSealLog ==
  /\ part = "sealed" =>
       /\ Sealed!TypeOK
       /\ Sealed!LogFollowsTheSealLog
       /\ Sealed!ClaimOutlivesUncertainty
       /\ Sealed!SealedGroupsUndoable
       /\ Sealed!ReportsAreTrue
  /\ part = "again" =>
       /\ Again!TypeOK
       /\ Again!LogFollowsTheSealLog
       /\ Again!ClaimOutlivesUncertainty
       /\ Again!SealedGroupsUndoable
       /\ Again!ReportsAreTrue

\* No tree is lost with the list of trash roots.
\* - A tree in a trash root is findable whatever happens: the root is in the
\*   registry, on the disk too, unless the user had it forgotten while it was
\*   absent.
\* - No tree vanishes with the trash root it was moved to, before the root was
\*   on the disk.
\* - A listing names every root that was there and held a tree when it began,
\*   under one spelling, unless it was unmounted or forgotten meanwhile.
\* - The state namespace is readable by others only once every file in it is
\*   private.
NothingOrphaned ==
  part = "registry" =>
    /\ Registry!TypeOK
    /\ Registry!NothingOrphaned
    /\ Registry!NothingLost
    /\ Registry!ListingIsComplete
    /\ Registry!NothingExposed

\* No step moves or deletes an object it has no authority over.
\* - No step of a command makes an object disappear, except the deletion of the
\*   very object its plan named when the account confirmed it.
\* - undo brings an object back to the path it was staged from and never to
\*   another, whatever sits at the recorded trash entry up to the identity
\*   check, and brings back a tree that a failed purge had begun to delete only
\*   where the staging left no final record; what is swapped in between the
\*   check and the rename is reported and recorded as a failure.
\* - What an item is reported as is where its object is: staged in its entry,
\*   purged nowhere, and after a failed purge still in the trash or its claim.
\* - The arm that knows only paths and the operation log never moves or deletes
\*   an object that the seal log still has authority over, whatever name the
\*   object has by now and whatever the operation log has lost.
\* - Once an item of a command leaves recovery blocked, nothing that the same
\*   command does afterwards touches an object or the seal log.
MovesOnlyWhatItMay ==
  [][/\ part = "long" =>
          /\ Long!DeletesOnlyPlanned
          /\ Long!UndoBringsHome
     /\ part = "cut" => Cut!ReportsMatchTheTrash
     /\ part = "sealed" =>
          /\ Sealed!LegacySparesSealed
          /\ Sealed!NothingAfterABlock
     /\ part = "again" =>
          /\ Again!LegacySparesSealed
          /\ Again!NothingAfterABlock]_vars
=============================================================================
