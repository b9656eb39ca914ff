---------------------------- MODULE MCActivation ----------------------------
(***************************************************************************)
(* How an account gets its seal store: provisioning the authority anchor   *)
(* (Provisioning), activating one store under it (Activation), and setting *)
(* up relocated roots (RelocateInit).                                      *)
(***************************************************************************)
EXTENDS Naturals, TLC

CONSTANTS p1, p2, None

VARIABLES
  part,  \* the component, and its bounds, this behaviour is about
  anchors, records, synced, stores, marked, lock, admin, procs, used,
  witnessed, faults, ent, dent, mode, dmode, owner, acct, proc, g, budget,
  kind

ProcessSymmetry == Permutations({p1, p2})

\* The C library knows the account.
Local == {[libc |-> "home", tools |-> <<"absent", "absent">>]}

\* It does not; the second resolver does.
Directory == {[libc |-> "none", tools |-> <<"absent", "home">>]}

\* Three store paths, one on an unsupported backend; stores, or anchors that
\* were selected beside their peer, are lost.
Losing ==
  INSTANCE Activation WITH Processes <- {p1, p2},
    Stores <- {"s1", "s2", "s3"}, Supported <- {"s1", "s2"},
    Losses <- {"store", "witnessed"}, MaxFaults <- 2

\* Crashes alone.
Crashing ==
  INSTANCE Activation WITH Processes <- {p1, p2}, Stores <- {"s1", "s2"},
    Supported <- {"s1", "s2"}, Losses <- {}, MaxFaults <- 3

\* The account's own anchor is lost.
Bare ==
  INSTANCE Activation WITH Processes <- {p1, p2}, Stores <- {"s1"},
    Supported <- {"s1"}, Losses <- {"anchor"}, MaxFaults <- 3

\* Two calls of two processes and two crashes.
Calls ==
  INSTANCE Provisioning WITH Processes <- {p1, p2}, Existing <- {1},
    Accounts <- Local, MaxCalls <- 2, MaxFaults <- 0, MaxCuts <- 2,
    MaxMeddling <- 0, MaxObjects <- 13

\* Two calls and one failing system call.
Faults ==
  INSTANCE Provisioning WITH Processes <- {p1, p2}, Existing <- {0},
    Accounts <- Local, MaxCalls <- 2, MaxFaults <- 1, MaxCuts <- 0,
    MaxMeddling <- 0, MaxObjects <- 13

\* Two calls one after the other, one failing call, one step of another
\* program.
Meddled ==
  INSTANCE Provisioning WITH Processes <- {p1}, Existing <- {2},
    Accounts <- Directory, MaxCalls <- 2, MaxFaults <- 1, MaxCuts <- 0,
    MaxMeddling <- 1, MaxObjects <- 9

\* Two runs on one target and one failing call.
Roots ==
  INSTANCE RelocateInit WITH Processes <- {p1, p2}, MaxFaults <- 1,
    MaxMeddling <- 0, MaxObjects <- 10

\* One run, one failing call and two steps of another program.
Moved ==
  INSTANCE RelocateInit WITH Processes <- {p1}, MaxFaults <- 1,
    MaxMeddling <- 2, MaxObjects <- 10

ASSUME Losing!ActivationAssumption
ASSUME Crashing!ActivationAssumption
ASSUME Bare!ActivationAssumption

\* A behaviour is one of one component; the variables of the others rest.
vars == <<part, anchors, records, synced, stores, marked, lock, admin, procs,
          used, witnessed, faults, ent, dent, mode, dmode, owner, acct, proc,
          g, budget, kind>>

Init ==
  \/ /\ part = "lost" /\ Losing!Init
     /\ ent = 0 /\ dent = 0 /\ mode = 0 /\ dmode = 0 /\ owner = 0
     /\ acct = 0 /\ proc = 0 /\ g = 0 /\ budget = 0 /\ kind = 0
  \/ /\ part = "crash" /\ Crashing!Init
     /\ ent = 0 /\ dent = 0 /\ mode = 0 /\ dmode = 0 /\ owner = 0
     /\ acct = 0 /\ proc = 0 /\ g = 0 /\ budget = 0 /\ kind = 0
  \/ /\ part = "bare" /\ Bare!Init
     /\ ent = 0 /\ dent = 0 /\ mode = 0 /\ dmode = 0 /\ owner = 0
     /\ acct = 0 /\ proc = 0 /\ g = 0 /\ budget = 0 /\ kind = 0
  \/ /\ part = "calls" /\ Calls!Init
     /\ anchors = 0 /\ records = 0 /\ synced = 0 /\ stores = 0
     /\ marked = 0 /\ admin = 0 /\ procs = 0 /\ used = 0 /\ witnessed = 0
     /\ faults = 0 /\ kind = 0
  \/ /\ part = "faults" /\ Faults!Init
     /\ anchors = 0 /\ records = 0 /\ synced = 0 /\ stores = 0
     /\ marked = 0 /\ admin = 0 /\ procs = 0 /\ used = 0 /\ witnessed = 0
     /\ faults = 0 /\ kind = 0
  \/ /\ part = "meddled" /\ Meddled!Init
     /\ anchors = 0 /\ records = 0 /\ synced = 0 /\ stores = 0
     /\ marked = 0 /\ admin = 0 /\ procs = 0 /\ used = 0 /\ witnessed = 0
     /\ faults = 0 /\ kind = 0
  \/ /\ part = "roots" /\ Roots!Init
     /\ anchors = 0 /\ records = 0 /\ synced = 0 /\ stores = 0
     /\ marked = 0 /\ lock = 0 /\ admin = 0 /\ procs = 0 /\ used = 0
     /\ witnessed = 0 /\ faults = 0 /\ dent = 0 /\ mode = 0 /\ dmode = 0
     /\ acct = 0
  \/ /\ part = "moved" /\ Moved!Init
     /\ anchors = 0 /\ records = 0 /\ synced = 0 /\ stores = 0
     /\ marked = 0 /\ lock = 0 /\ admin = 0 /\ procs = 0 /\ used = 0
     /\ witnessed = 0 /\ faults = 0 /\ dent = 0 /\ mode = 0 /\ dmode = 0
     /\ acct = 0

Next ==
  /\ part' = part
  /\ \/ /\ part = "lost" /\ Losing!Next
        /\ UNCHANGED <<ent, dent, mode, dmode, owner, acct, proc, g, budget,
                       kind>>
     \/ /\ part = "crash" /\ Crashing!Next
        /\ UNCHANGED <<ent, dent, mode, dmode, owner, acct, proc, g, budget,
                       kind>>
     \/ /\ part = "bare" /\ Bare!Next
        /\ UNCHANGED <<ent, dent, mode, dmode, owner, acct, proc, g, budget,
                       kind>>
     \/ /\ part = "calls" /\ Calls!Next
        /\ UNCHANGED <<anchors, records, synced, stores, marked, admin, procs,
                       used, witnessed, faults, kind>>
     \/ /\ part = "faults" /\ Faults!Next
        /\ UNCHANGED <<anchors, records, synced, stores, marked, admin, procs,
                       used, witnessed, faults, kind>>
     \/ /\ part = "meddled" /\ Meddled!Next
        /\ UNCHANGED <<anchors, records, synced, stores, marked, admin, procs,
                       used, witnessed, faults, kind>>
     \/ /\ part = "roots" /\ Roots!Next
        /\ UNCHANGED <<anchors, records, synced, stores, marked, lock, admin,
                       procs, used, witnessed, faults, dent, mode, dmode,
                       acct>>
     \/ /\ part = "moved" /\ Moved!Next
        /\ UNCHANGED <<anchors, records, synced, stores, marked, lock, admin,
                       procs, used, witnessed, faults, dent, mode, dmode,
                       acct>>
     \* These end: their budget is spent, or the call has returned.
     \/ part \in {"calls", "faults", "meddled", "roots",
                "moved"} /\ UNCHANGED vars

Spec == Init /\ [][Next]_vars

-----------------------------------------------------------------------------
(* Properties *)

\* One account has one store.
\* - One account, one store: whatever stops where, whatever store the
\*   environment names, and though stores are lost or replaced, all the
\*   mutations ever made went through one store.
\* - The lifecycle without sealed staging runs only for an account that never
\*   activated a store, and never beside a sealed session.
\* - degu init never publishes a fresh authority over a store that has already
\*   been activated.
OneStore ==
  /\ part = "lost" =>
       /\ Losing!TypeOK
       /\ Losing!OneStore
       /\ Losing!LegacyOnlyBeforeActivation
  /\ part = "bare" => Bare!InitNeverAbandonsAStore

\* Crashes cost an account nothing.
\* - A sealed session never begins on evidence the power could take back:
\*   claim, prepare, active and the store's marker are durable and agree,
\*   whichever killed commands wrote them.
\* - An anchor claimed in the presence of its peer has its witness there, in
\*   whatever the power leaves (ensure_authority_claim).
\* - Commands killed at any step, and losses of power, leave an account that
\*   the next command can use.
CrashesLeaveItResumable ==
  /\ part = "lost" => Losing!SessionEvidenceIsDurable
  /\ part = "crash" =>
       /\ Crashing!WitnessFirst
       /\ Crashing!CrashesLeaveItResumable

\* Provisioning makes one anchor, or leaves nothing unsaid.
\* - A call that reported the anchor as there has the whole path on the disk,
\*   with its permissions, also when another call made part of it and had not
\*   synced it yet.
\* - However many calls run at once or again, after failures and crashes, they
\*   report one leaf, and one of them at most says that it made it.
\* - No earlier crash, failure or lost race leaves something behind that a
\*   later undisturbed call refuses.
\* - A call that fails names every directory it made and left.
\* - Taking back removes only directories this very call made, whatever was
\*   moved under their names up to the comparison before unlinkat.
\* - An account served by the host's resolver is never reported as missing
\*   because the resolver could not answer.
AnchorIsProvisioned ==
  /\ part = "calls" =>
       /\ Calls!TypeOK
       /\ Calls!SuccessIsDurable
       /\ Calls!OneAnchor
       /\ Calls!RetrySucceeds
  /\ part = "faults" =>
       /\ Faults!RetrySucceeds
       /\ Faults!FailureNamesWhatIsLeft
  /\ part = "meddled" =>
       /\ Meddled!RemovesOnlyItsOwn
       /\ Meddled!OutageIsNotAbsence

\* relocate init hands out, tags and takes back only what it made.
\* - What relocate init prints never leads to another directory than the one
\*   that was initialized, also when the target was moved while the roots were
\*   made.
\* - A root that a committed run made stays, whole, whatever other runs on the
\*   same target do.
\* - A cache tag goes only into a directory the same run made, never into one
\*   that appeared after the preflight.
\* - A run that fails names every directory it made and left.
\* - Taking back removes only what this run made, outside the moment between
\*   mkdirat and the look at the new name.
ExportsNameTheInitialized ==
  /\ part = "roots" =>
       /\ Roots!TypeOK
       /\ Roots!CommittedRootsStay
       /\ Roots!TagsOnlyWhatItMade
       /\ Roots!FailureNamesWhatIsLeft
       /\ Roots!RollbackRemovesOnlyItsOwn
  /\ part = "moved" =>
       /\ Moved!ExportsNameTheInitialized
       /\ Moved!TagsOnlyWhatItMade
       /\ Moved!FailureNamesWhatIsLeft
       /\ Moved!RollbackRemovesOnlyItsOwn
=============================================================================
