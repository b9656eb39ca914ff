------------------------------- MODULE MCTools ------------------------------
(***************************************************************************)
(* What degu does around the trash: measuring trees with a pool of threads *)
(* (Walker), running foreign tools (NativeRunner), observing quotas before *)
(* and after (QuotaObservation) and pruning the uv cache (UvPrune).        *)
(***************************************************************************)
EXTENDS Naturals, TLC

CONSTANTS w1, w2, w3

VARIABLES
  part,  \* the component, and its bounds, this behaviour is about
  fs, late, main, queue, active, stats, worker, seen, g, pc, rn, proc, pipe,
  fds, clock, result, budget, requests, canon, mount, used, tool, batch,
  report, todo, cli, w, d, exit

Symmetry == Permutations({w1, w2})

\* r holds a, b and the file f; a holds c and the file h.
Entries == {"r", "a", "b", "c", "f", "h"}

Below ==
  [x \in Entries \ {"r"} |-> IF x \in {"a", "b", "f"} THEN "r" ELSE "a"]

Plain == [x \in Entries |-> "plain"]

Mixed ==
  [x \in Entries |->
     CASE x = "b" -> "unreadable" [] x = "c" -> "other" [] x = "h" -> "excluded"
       [] x = "f" -> "foreign" [] OTHER -> "plain"]

\* Four directories beside each other, one in each of them.
Wide == [a |-> "r", b |-> "r", c |-> "r", d |-> "r", e |-> "a", f |-> "b", h |-> "c", k |-> "d"]

WidePlain == [x \in DOMAIN Wide \cup {"r"} |-> "plain"]

\* Two threads, two changes of the tree and an error.
Walk ==
  INSTANCE Walker WITH Workers <- {w1, w2}, Root <- "r",
    Dirs <- {"r", "a", "b", "c"}, Files <- {"f", "h"}, Parent <- Below,
    Kind <- Plain, Deadline <- TRUE, MaxChanges <- 2, MaxErrors <- 1

\* Three threads and an error.
Pool ==
  INSTANCE Walker WITH Workers <- {w1, w2, w3}, Root <- "r",
    Dirs <- {"r", "a", "b", "c"}, Files <- {"f", "h"}, Parent <- Below,
    Kind <- Plain, Deadline <- TRUE, MaxChanges <- 0, MaxErrors <- 1

\* Three threads over entries of every kind.
Mix ==
  INSTANCE Walker WITH Workers <- {w1, w2, w3}, Root <- "r",
    Dirs <- {"r", "a", "b", "c"}, Files <- {"f", "h"}, Parent <- Below,
    Kind <- Mixed, Deadline <- TRUE, MaxChanges <- 1, MaxErrors <- 1

\* One thread in a wide tree.
Alone ==
  INSTANCE Walker WITH Workers <- {w1}, Root <- "r", Dirs <- DOMAIN WidePlain,
    Files <- {}, Parent <- Wide, Kind <- WidePlain, Deadline <- TRUE,
    MaxChanges <- 1, MaxErrors <- 0

\* One run with one failing call, a turn's share of one unit, pipes of one.
Runner ==
  INSTANCE NativeRunner WITH Timeout <- 2, KillGrace <- 1, DrainGrace <- 1,
    MaxDrain <- 1, Limit <- 1, Capacity <- 1, MaxFaults <- 1, MaxTicks <- 1

\* Two requests out of two absolute paths and a relative one, over two
\* canonical paths, and two file systems, one of which is mounted twice.
Quota ==
  INSTANCE QuotaObservation WITH Anchors <- {"a1", "a2"}, Relative <- {"r"},
    Paths <- {"c1", "c2"}, Filesystems <- {"f1", "f2"}, Subjects <- {"u1"},
    Mounts <- {[filesystem |-> "f1", at |-> "m1"], [filesystem |-> "f1", at |-> "m2"],
               [filesystem |-> "f2", at |-> "m2"]},
    MaxRequests <- 2, MaxChanges <- 1, MaxFreed <- 1, MaxFaults <- 1

\* One step of another program and one failing call at any point.
Prune ==
  INSTANCE UvPrune WITH MaxChanges <- 1, MaxFaults <- 1

ASSUME Walk!ConstantsAssumption
ASSUME Mix!ConstantsAssumption
ASSUME Alone!ConstantsAssumption
ASSUME Runner!RunnerAssumption

\* A behaviour is one of one component; the variables of the others rest.
vars == <<part, fs, late, main, queue, active, stats, worker, seen, g, pc, rn,
          proc, pipe, fds, clock, result, budget, requests, canon, mount,
          used, tool, batch, report, todo, cli, w, d, exit>>

Init ==
  \/ /\ part = "walk" /\ Walk!Init
     /\ pc = 0 /\ rn = 0 /\ proc = 0 /\ pipe = 0 /\ fds = 0 /\ clock = 0
     /\ result = 0 /\ budget = 0 /\ requests = 0 /\ canon = 0 /\ mount = 0
     /\ used = 0 /\ tool = 0 /\ batch = 0 /\ report = 0 /\ todo = 0
     /\ cli = 0 /\ w = 0 /\ d = 0 /\ exit = 0
  \/ /\ part = "pool" /\ Pool!Init
     /\ pc = 0 /\ rn = 0 /\ proc = 0 /\ pipe = 0 /\ fds = 0 /\ clock = 0
     /\ result = 0 /\ budget = 0 /\ requests = 0 /\ canon = 0 /\ mount = 0
     /\ used = 0 /\ tool = 0 /\ batch = 0 /\ report = 0 /\ todo = 0
     /\ cli = 0 /\ w = 0 /\ d = 0 /\ exit = 0
  \/ /\ part = "mixed" /\ Mix!Init
     /\ pc = 0 /\ rn = 0 /\ proc = 0 /\ pipe = 0 /\ fds = 0 /\ clock = 0
     /\ result = 0 /\ budget = 0 /\ requests = 0 /\ canon = 0 /\ mount = 0
     /\ used = 0 /\ tool = 0 /\ batch = 0 /\ report = 0 /\ todo = 0
     /\ cli = 0 /\ w = 0 /\ d = 0 /\ exit = 0
  \/ /\ part = "alone" /\ Alone!Init
     /\ pc = 0 /\ rn = 0 /\ proc = 0 /\ pipe = 0 /\ fds = 0 /\ clock = 0
     /\ result = 0 /\ budget = 0 /\ requests = 0 /\ canon = 0 /\ mount = 0
     /\ used = 0 /\ tool = 0 /\ batch = 0 /\ report = 0 /\ todo = 0
     /\ cli = 0 /\ w = 0 /\ d = 0 /\ exit = 0
  \/ /\ part = "runner" /\ Runner!Init
     /\ fs = 0 /\ late = 0 /\ main = 0 /\ queue = 0 /\ active = 0
     /\ stats = 0 /\ worker = 0 /\ seen = 0 /\ g = 0 /\ requests = 0
     /\ canon = 0 /\ mount = 0 /\ used = 0 /\ tool = 0 /\ batch = 0
     /\ report = 0 /\ todo = 0 /\ cli = 0 /\ w = 0 /\ d = 0 /\ exit = 0
  \/ /\ part = "quota" /\ Quota!Init
     /\ fs = 0 /\ late = 0 /\ main = 0 /\ queue = 0 /\ active = 0
     /\ stats = 0 /\ worker = 0 /\ seen = 0 /\ g = 0 /\ rn = 0 /\ proc = 0
     /\ pipe = 0 /\ fds = 0 /\ clock = 0 /\ result = 0 /\ todo = 0
     /\ cli = 0 /\ w = 0 /\ d = 0 /\ exit = 0
  \/ /\ part = "prune" /\ Prune!Init
     /\ fs = 0 /\ late = 0 /\ main = 0 /\ queue = 0 /\ active = 0
     /\ stats = 0 /\ worker = 0 /\ seen = 0 /\ pc = 0 /\ rn = 0 /\ proc = 0
     /\ pipe = 0 /\ fds = 0 /\ clock = 0 /\ result = 0 /\ requests = 0
     /\ canon = 0 /\ mount = 0 /\ used = 0 /\ tool = 0 /\ batch = 0
     /\ report = 0

Next ==
  /\ part' = part
  /\ \/ /\ part = "walk" /\ Walk!Next
        /\ UNCHANGED <<pc, rn, proc, pipe, fds, clock, result, budget,
                       requests, canon, mount, used, tool, batch, report,
                       todo, cli, w, d, exit>>
     \/ /\ part = "pool" /\ Pool!Next
        /\ UNCHANGED <<pc, rn, proc, pipe, fds, clock, result, budget,
                       requests, canon, mount, used, tool, batch, report,
                       todo, cli, w, d, exit>>
     \/ /\ part = "mixed" /\ Mix!Next
        /\ UNCHANGED <<pc, rn, proc, pipe, fds, clock, result, budget,
                       requests, canon, mount, used, tool, batch, report,
                       todo, cli, w, d, exit>>
     \/ /\ part = "alone" /\ Alone!Next
        /\ UNCHANGED <<pc, rn, proc, pipe, fds, clock, result, budget,
                       requests, canon, mount, used, tool, batch, report,
                       todo, cli, w, d, exit>>
     \/ /\ part = "runner" /\ Runner!Next
        /\ UNCHANGED <<fs, late, main, queue, active, stats, worker, seen, g,
                       requests, canon, mount, used, tool, batch, report,
                       todo, cli, w, d, exit>>
     \/ /\ part = "quota" /\ Quota!Next
        /\ UNCHANGED <<fs, late, main, queue, active, stats, worker, seen, g,
                       rn, proc, pipe, fds, clock, result, todo, cli, w, d,
                       exit>>
     \/ /\ part = "prune" /\ Prune!Next
        /\ UNCHANGED <<fs, late, main, queue, active, stats, worker, seen, pc,
                       rn, proc, pipe, fds, clock, result, requests, canon,
                       mount, used, tool, batch, report>>
     \* These end: their budget is spent, or the call has returned.
     \/ part \in {"runner", "quota", "prune"} /\ UNCHANGED vars

Spec == Init /\ [][Next]_vars

-----------------------------------------------------------------------------
(* Properties *)

\* A walk reports what it saw.
\* - What measure returns adds up: every entry is counted once, and the
\*   directories found and neither read to the end, nor skipped, nor seen to
\*   vanish are exactly the unvisited ones it reports, whichever threads were
\*   at work when the walk was cut short.
\* - A walk that reports nothing skipped, excluded or cut short has counted
\*   every entry that was left alone together with the directories above it: no
\*   pending directory is lost between two threads.
\* - No directory is read that another user moved into the place of the one
\*   inspected, however long it was pending.
\* - With one thread, the descriptors held never exceed the depth of the tree,
\*   however wide it is.
WalkAddsUp ==
  /\ part = "walk" =>
       /\ Walk!TypeOK
       /\ Walk!TotalsAddUp
       /\ Walk!CompleteMeansAll
       /\ Walk!NeverStrays
  /\ part = "pool" =>
       /\ Pool!TypeOK
       /\ Pool!TotalsAddUp
       /\ Pool!CompleteMeansAll
  /\ part = "mixed" => Mix!TotalsAddUp
  /\ part = "alone" => Alone!HeldByDepth

\* A run of a tool is bounded and told truly.
\* - The adapter's parser is given the output only of a tool that exited with
\*   success in time, and all that was ever written to either stream, whatever
\*   a helper still held when the tool exited.
\* - An exit failure or a signal is the tool's own doing: the runner's SIGKILL
\*   is reported as a timeout or as the failure that led to it, never as the
\*   way the tool ended.
\* - When the call returns nothing of the tool goes on working: it was reaped,
\*   or the caller is told that its end is unconfirmed and it was signalled,
\*   with whatever stayed in its process group.
\* - The caller is asleep no longer than the timeout and one grace, plus the
\*   grace of a termination after an error, whatever the tool ignores or its
\*   helper keeps open.
\* - No descriptor of the program reaches the tool, those opened after the
\*   action was prepared included.
ToolIsContained ==
  part = "runner" =>
    /\ Runner!TypeOK
    /\ Runner!ParsedIsWhole
    /\ Runner!OutcomeIsItsOwn
    /\ Runner!NothingGoesOn
    /\ Runner!SleepIsBounded
    /\ Runner!NoDescriptorInherited

\* A quota record is about one scope and the whole action.
\* - A reported difference is all that the action did to that scope, also after
\*   links and mounts changed under it: no snapshot is taken while a tool may
\*   still work, and none of another scope is compared.
\* - The report names every path the action asked for in one record and no
\*   other path: folding by scope loses no anchor and repeats none.
\* - Two records never report the same scope: adding them up counts nothing
\*   twice, unless a file system is mounted twice, which is two scopes.
DeltaIsWhole ==
  part = "quota" =>
    /\ Quota!TypeOK
    /\ Quota!DeltaIsWhole
    /\ Quota!EveryRequestOnce
    /\ Quota!ScopeReportedOnce

\* uv prunes what was sealed, with what was probed.
\* - What is pruned is the root that was sealed and shown: the same directory
\*   at the path given to the tool, not HOME, with every bucket, the tag and
\*   the lock as sealed and every walked directory private.
\* - A copy that was asked for its version is one build, the one found when the
\*   selected executable was opened, even when that file was rewritten while it
\*   was copied.
\* - What prunes is a copy that answered with the audited version, whatever
\*   happened to the selected path, to the copy or during the confirmation.
\* - A prune that failed makes the command fail, also when the reader of its
\*   output is gone by then.
\* - The copy is removed however the command ends.  It stays if the process is
\*   killed, or if one of four calls fails: the opening of its directory, the
\*   fstat between guard and lease, the two that remove (best effort).  A file
\*   another program put into the directory keeps the directory, not the copy.
PrunesWhatWasSealed ==
  part = "prune" =>
    /\ Prune!TypeOK
    /\ Prune!PrunesWhatWasSealed
    /\ Prune!CopyIsOneBuild
    /\ Prune!PrunesWithWhatWasProbed
    /\ Prune!FailureIsNotHidden
    /\ Prune!CopyIsRemoved
=============================================================================
