------------------------------ MODULE MCStaging -----------------------------
(***************************************************************************)
(* Sealed staging, SealedStaging, on a tree of two directories with every  *)
(* kind of failure, the same with crashes alone, and with two              *)
(* transactions; and that it implements StagedTree.                        *)
(***************************************************************************)
EXTENDS FiniteSets, Integers

CONSTANTS None

VARIABLES
  part,  \* the component, and its bounds, this behaviour is about
  wal, poisoned, kept, original, modes, loc, stable, sidecar, foreign,
  blocked, issued, authority, op, faults

EveryFault ==
  {"kill", "power", "append", "refuse", "unknown", "error", "rename", "drift",
   "full", "occupy", "corrupt"}

\* Three failures of any kind at any point of one transaction.
Failing ==
  INSTANCE SealedStaging WITH MutationIds <- 0..13, Parent <- 0,
    Modes <- {"open", "sealed"}, EntryCount <- 2, TreeDirs <- {1, 2},
    Tx <- {1}, MayBeOpen <- {0, 1, 2}, Faults <- EveryFault, MaxFaults <- 3

\* Four crashes of one transaction and of its recoveries.
Crashing ==
  INSTANCE SealedStaging WITH MutationIds <- 0..13, Parent <- 0,
    Modes <- {"open", "sealed"}, EntryCount <- 2, TreeDirs <- {1, 2},
    Tx <- {1}, MayBeOpen <- {0, 1, 2}, Faults <- {"kill", "power"}, MaxFaults <- 4

\* Two transactions that share their source parent, and one failure.
Two ==
  INSTANCE SealedStaging WITH MutationIds <- 0..13, Parent <- 0,
    Modes <- {"open", "sealed"}, EntryCount <- 2, TreeDirs <- {1},
    Tx <- {1, 2}, MayBeOpen <- {0, 1}, Faults <- EveryFault, MaxFaults <- 1

ASSUME Failing!StagingAssumption
ASSUME Crashing!StagingAssumption
ASSUME Two!StagingAssumption

\* A behaviour is one of one component; the variables of the others rest.
vars == <<part, wal, poisoned, kept, original, modes, loc, stable, sidecar,
          foreign, blocked, issued, authority, op, faults>>

Init ==
  \/ /\ part = "faults" /\ Failing!Init
  \/ /\ part = "crashes" /\ Crashing!Init
  \/ /\ part = "two" /\ Two!Init

Next ==
  /\ part' = part
  /\ \/ part = "faults" /\ Failing!Next
     \/ part = "crashes" /\ Crashing!Next
     \/ part = "two" /\ Two!Next

Spec == Init /\ [][Next]_vars

-----------------------------------------------------------------------------
(* Properties *)

\* What StagedTree calls the state of a transaction.
Verdict(x) ==
  CASE x.state = None -> "none"
    [] x.state \in {"VerifiedCommitted", "Purgeable"} -> "committed"
    [] x.state \in {"UndoIntent", "UndoModesRestored", "UndoRenameIntent"} -> "returning"
    [] x.state = "Restored" -> "restored"
    [] x.state = "UndoConflict" -> "conflict"
    [] x.state = "Quarantined" /\ Failing!safe_terminal_state(x) -> "quarantined"
    [] x.state \in {"PurgeIntent", "PurgeOutcome"} -> "purging"
    [] x.state = "Purged" -> "purged"
    [] x.state = "RecoveryRequired" -> "stuck"
    [] OTHER -> "staging"

\* The verdict is what the WAL that survives any loss of power says: the oldest one
\* in `kept`.  Where there is one transaction the second tree stays where it was.
Abstract ==
  INSTANCE StagedTree WITH
    Trees <- {1, 2},
    place <- [t \in {1, 2} |-> IF t \in DOMAIN loc THEN loc[t] ELSE "source"],
    intact <- [t \in {1, 2} |-> t \in DOMAIN loc => Failing!Original(modes, t)],
    verdict <- [t \in {1, 2} |-> IF t \in DOMAIN loc THEN Verdict(kept[1].wal[t]) ELSE "none"]

\* The WAL accounts for every mode.
\* - Whenever the power goes, the WAL that is left accounts for the mode of
\*   every directory: none is sealed without a record recovery would undo it
\*   from, none is recorded sealed or restored that is not.
\* - Two transactions are never in flight at once, so a source parent is never
\*   sealed twice and the mode one gives back is not the seal of the other.
RecordsExplainModes ==
  /\ part = "faults" =>
       /\ Failing!TypeOK
       /\ Failing!RecordsExplainModes
  /\ part = "crashes" => Crashing!TypeOK
  /\ part = "two" =>
       /\ Two!RecordsExplainModes
       /\ Two!OneForwardTransaction

\* What the WAL says of a tree is so.
\* - What a settled transaction says of its tree is so, now and after a power
\*   loss.
\* - Nothing of a tree is deleted, in any file system a power loss may leave,
\*   unless the WAL that is left with it holds the claim of a purge.
\* - Recovery never picks a side of a rename the tree is not on.
\* - A transaction that may still need its tree's manifest finds its sidecar,
\*   whichever WAL a crash leaves: never removed, and damaged only by others.
\* - No recovery runs out of the turns of the loop that runs it
\*   (MAX_RECOVERY_STEPS).
SettledStatesAreTrue ==
  /\ part = "faults" =>
       /\ Failing!SettledStatesAreTrue
       /\ Failing!DeletedOnlyUnderClaim
       /\ Failing!RecoveryLooksWhereTheTreeIs
       /\ Failing!SidecarOutlivesItsReference
       /\ Failing!RecoveryFitsItsSteps
  /\ part = "crashes" => Crashing!RecoveryFitsItsSteps
  /\ part = "two" => Two!RecoveryFitsItsSteps

\* Of crashes alone, recovery gives up on a transaction only where the WAL
\* cannot tell which side of a rename or of a deletion the crash fell on, or
\* where the way to a directory it looks for is open to others.
CrashesBlockOnlyTheUnknowable ==
  [][part = "crashes" => Crashing!BlocksOnlyTheUnknowable]_vars

\* Every step of the engine, its failures, crashes and losses of power
\* included, is a step of StagedTree or none: no tree is moved, given other
\* modes or deleted outside an open decision, and no verdict is reached, left
\* or taken back unless it is true of the tree.
ImplementsStagedTree ==
  Abstract!Spec
=============================================================================
