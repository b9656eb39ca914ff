----------------------------- MODULE MCLiveness -----------------------------
(***************************************************************************)
(* What has to happen in the end, for every component that promises        *)
(* something of the kind, under the fairness its scheduling justifies.     *)
(***************************************************************************)
EXTENDS Integers, Sequences

CONSTANTS Nil

VARIABLES
  part,  \* the component, and its bounds, this behaviour is about
  wal, poisoned, kept, original, modes, loc, stable, sidecar, foreign,
  blocked, issued, authority, op, faults, inodes, dir, synced_dir, published,
  parent_lock, dir_lock, procs, acked, anchors, records, synced, stores,
  marked, lock, admin, used, witnessed, pc, rn, proc, pipe, fds, clock,
  result, budget, fs, late, main, queue, active, stats, worker, seen, g,
  unseen, order, input, pushed, disk, file, seq, mem, expected, kind, tree,
  named, frames, plan, out, chain, sealed

EveryFault ==
  {"kill", "power", "append", "refuse", "unknown", "error", "rename", "drift",
   "full", "occupy", "corrupt"}

GroupOf == [t \in {"t1", "t2"} |-> Nil]

K(id, path) == [id |-> id, path |-> path]

\* Enough runs of one record for two levels of merging and a collapse.
LongInputs ==
  {[i \in 1..7 |-> K(2 + (i % 2), <<8 - i>>)],
   [i \in 1..7 |-> K(2, <<(3 * i) % 7>>)],
   [i \in 1..7 |-> K(2, IF i % 2 = 0 THEN <<i>> ELSE <<i, i>>)]}

AllOrders == {"manifest", "structure", "hardlink", "purge"}

Nested == {{<<>>, <<<<3>>>>, <<<<3>>, <<3>>>>, <<<<3, 1>>>>}}

\* r holds a, b and the file f; a holds c and the file h.
Entries == {"r", "a", "b", "c", "f", "h"}

Below ==
  [x \in Entries \ {"r"} |-> IF x \in {"a", "b", "f"} THEN "r" ELSE "a"]

Plain == [x \in Entries |-> "plain"]

\* One transaction and a failure of any kind.
Staging ==
  INSTANCE SealedStaging WITH MutationIds <- 0..10, Parent <- 0,
    Modes <- {"open", "sealed"}, EntryCount <- 2, TreeDirs <- {1, 2},
    Tx <- {1}, MayBeOpen <- {0, 1, 2}, Faults <- EveryFault, None <- Nil,
    MaxFaults <- 1

\* A WAL of four frames, with less to reclaim than the thresholds ask for.
Store ==
  INSTANCE SealWalStore WITH Processes <- {"p1"}, Tx <- {"t1", "t2"},
    Group <- GroupOf, MAX_WAL_LEN <- 4, COMPACTION_PRESSURE_LEN <- 4,
    COMPACTION_MIN_RECLAIMED_BYTES <- 3, COMPACTION_MIN_RECLAIMED_SHARE <- 2,
    None <- Nil, MaxFaults <- 1

\* Three failures of any kind, and two paths to choose a store from.
Act ==
  INSTANCE Activation WITH Processes <- {"p1"}, Stores <- {"s1", "s2"},
    Supported <- {"s1", "s2"}, Losses <- {}, None <- Nil, MaxFaults <- 3

\* A tool and a helper that may do anything.
Runner ==
  INSTANCE NativeRunner WITH Timeout <- 1, KillGrace <- 1, DrainGrace <- 0,
    MaxDrain <- 1, Limit <- 1, Capacity <- 1, MaxFaults <- 0, MaxTicks <- 0

\* Two threads and a change of the tree.
Walk ==
  INSTANCE Walker WITH Workers <- {"w1", "w2"}, Root <- "r",
    Dirs <- {"r", "a", "b", "c"}, Files <- {"f", "h"}, Parent <- Below,
    Kind <- Plain, Deadline <- TRUE, MaxChanges <- 1, MaxErrors <- 0

\* A tree with hard links, and one change by another program.
Held ==
  INSTANCE HeldTree WITH Shapes <- {"alias"}, Schemas <- {3}, Limits <- {5},
    MaxTouches <- 1, MaxFaults <- 0

\* Enough runs for two levels of merging and a collapse.
Merge ==
  INSTANCE ScratchSort WITH Orders <- AllOrders, Inputs <- LongInputs,
    FanIn <- 2, Buffer <- 1, MaxRecords <- 9, MaxNames <- 20, MaxFaults <- 0,
    MaxKills <- 1

\* A nested tree and one change of the plan file.
Plan ==
  INSTANCE KeyedPlan WITH Kinds <- {"directory", "purge"}, Trees <- Nested,
    Slash <- 2, MaxAlters <- 1, MaxKills <- 1

ASSUME Staging!StagingAssumption
ASSUME Store!StoreAssumption
ASSUME Act!ActivationAssumption

\* A behaviour is one of one component; the variables of the others rest.
vars == <<part, wal, poisoned, kept, original, modes, loc, stable, sidecar,
          foreign, blocked, issued, authority, op, faults, inodes, dir,
          synced_dir, published, parent_lock, dir_lock, procs, acked, anchors,
          records, synced, stores, marked, lock, admin, used, witnessed, pc,
          rn, proc, pipe, fds, clock, result, budget, fs, late, main, queue,
          active, stats, worker, seen, g, unseen, order, input, pushed, disk,
          file, seq, mem, expected, kind, tree, named, frames, plan, out,
          chain, sealed>>

Init ==
  \/ /\ part = "staging" /\ Staging!Init
     /\ inodes = 0 /\ dir = 0 /\ synced_dir = 0 /\ published = 0
     /\ parent_lock = 0 /\ dir_lock = 0 /\ procs = 0 /\ acked = 0
     /\ anchors = 0 /\ records = 0 /\ synced = 0 /\ stores = 0
     /\ marked = 0 /\ lock = 0 /\ admin = 0 /\ used = 0 /\ witnessed = 0
     /\ pc = 0 /\ rn = 0 /\ proc = 0 /\ pipe = 0 /\ fds = 0 /\ clock = 0
     /\ result = 0 /\ budget = 0 /\ fs = 0 /\ late = 0 /\ main = 0
     /\ queue = 0 /\ active = 0 /\ stats = 0 /\ worker = 0 /\ seen = 0
     /\ g = 0 /\ unseen = 0 /\ order = 0 /\ input = 0 /\ pushed = 0
     /\ disk = 0 /\ file = 0 /\ seq = 0 /\ mem = 0 /\ expected = 0
     /\ kind = 0 /\ tree = 0 /\ named = 0 /\ frames = 0 /\ plan = 0
     /\ out = 0 /\ chain = 0 /\ sealed = 0
  \/ /\ part = "store" /\ Store!Init
     /\ wal = 0 /\ poisoned = 0 /\ kept = 0 /\ original = 0 /\ modes = 0
     /\ loc = 0 /\ stable = 0 /\ sidecar = 0 /\ foreign = 0 /\ blocked = 0
     /\ issued = 0 /\ authority = 0 /\ op = 0 /\ anchors = 0 /\ records = 0
     /\ synced = 0 /\ stores = 0 /\ marked = 0 /\ lock = 0 /\ admin = 0
     /\ used = 0 /\ witnessed = 0 /\ pc = 0 /\ rn = 0 /\ proc = 0
     /\ pipe = 0 /\ fds = 0 /\ clock = 0 /\ result = 0 /\ budget = 0
     /\ fs = 0 /\ late = 0 /\ main = 0 /\ queue = 0 /\ active = 0
     /\ stats = 0 /\ worker = 0 /\ seen = 0 /\ g = 0 /\ unseen = 0
     /\ order = 0 /\ input = 0 /\ pushed = 0 /\ disk = 0 /\ file = 0
     /\ seq = 0 /\ mem = 0 /\ expected = 0 /\ kind = 0 /\ tree = 0
     /\ named = 0 /\ frames = 0 /\ plan = 0 /\ out = 0 /\ chain = 0
     /\ sealed = 0
  \/ /\ part = "activation" /\ Act!Init
     /\ wal = 0 /\ poisoned = 0 /\ kept = 0 /\ original = 0 /\ modes = 0
     /\ loc = 0 /\ stable = 0 /\ sidecar = 0 /\ foreign = 0 /\ blocked = 0
     /\ issued = 0 /\ authority = 0 /\ op = 0 /\ inodes = 0 /\ dir = 0
     /\ synced_dir = 0 /\ published = 0 /\ parent_lock = 0 /\ dir_lock = 0
     /\ acked = 0 /\ pc = 0 /\ rn = 0 /\ proc = 0 /\ pipe = 0 /\ fds = 0
     /\ clock = 0 /\ result = 0 /\ budget = 0 /\ fs = 0 /\ late = 0
     /\ main = 0 /\ queue = 0 /\ active = 0 /\ stats = 0 /\ worker = 0
     /\ seen = 0 /\ g = 0 /\ unseen = 0 /\ order = 0 /\ input = 0
     /\ pushed = 0 /\ disk = 0 /\ file = 0 /\ seq = 0 /\ mem = 0
     /\ expected = 0 /\ kind = 0 /\ tree = 0 /\ named = 0 /\ frames = 0
     /\ plan = 0 /\ out = 0 /\ chain = 0 /\ sealed = 0
  \/ /\ part = "runner" /\ Runner!Init
     /\ wal = 0 /\ poisoned = 0 /\ kept = 0 /\ original = 0 /\ modes = 0
     /\ loc = 0 /\ stable = 0 /\ sidecar = 0 /\ foreign = 0 /\ blocked = 0
     /\ issued = 0 /\ authority = 0 /\ op = 0 /\ faults = 0 /\ inodes = 0
     /\ dir = 0 /\ synced_dir = 0 /\ published = 0 /\ parent_lock = 0
     /\ dir_lock = 0 /\ procs = 0 /\ acked = 0 /\ anchors = 0
     /\ records = 0 /\ synced = 0 /\ stores = 0 /\ marked = 0 /\ lock = 0
     /\ admin = 0 /\ used = 0 /\ witnessed = 0 /\ fs = 0 /\ late = 0
     /\ main = 0 /\ queue = 0 /\ active = 0 /\ stats = 0 /\ worker = 0
     /\ seen = 0 /\ g = 0 /\ unseen = 0 /\ order = 0 /\ input = 0
     /\ pushed = 0 /\ disk = 0 /\ file = 0 /\ seq = 0 /\ mem = 0
     /\ expected = 0 /\ kind = 0 /\ tree = 0 /\ named = 0 /\ frames = 0
     /\ plan = 0 /\ out = 0 /\ chain = 0 /\ sealed = 0
  \/ /\ part = "walk" /\ Walk!Init
     /\ wal = 0 /\ poisoned = 0 /\ kept = 0 /\ original = 0 /\ modes = 0
     /\ loc = 0 /\ stable = 0 /\ sidecar = 0 /\ foreign = 0 /\ blocked = 0
     /\ issued = 0 /\ authority = 0 /\ op = 0 /\ faults = 0 /\ inodes = 0
     /\ dir = 0 /\ synced_dir = 0 /\ published = 0 /\ parent_lock = 0
     /\ dir_lock = 0 /\ procs = 0 /\ acked = 0 /\ anchors = 0
     /\ records = 0 /\ synced = 0 /\ stores = 0 /\ marked = 0 /\ lock = 0
     /\ admin = 0 /\ used = 0 /\ witnessed = 0 /\ pc = 0 /\ rn = 0
     /\ proc = 0 /\ pipe = 0 /\ fds = 0 /\ clock = 0 /\ result = 0
     /\ budget = 0 /\ unseen = 0 /\ order = 0 /\ input = 0 /\ pushed = 0
     /\ disk = 0 /\ file = 0 /\ seq = 0 /\ mem = 0 /\ expected = 0
     /\ kind = 0 /\ tree = 0 /\ named = 0 /\ frames = 0 /\ plan = 0
     /\ out = 0 /\ chain = 0 /\ sealed = 0
  \/ /\ part = "held" /\ Held!Init
     /\ wal = 0 /\ poisoned = 0 /\ kept = 0 /\ original = 0 /\ modes = 0
     /\ loc = 0 /\ stable = 0 /\ sidecar = 0 /\ foreign = 0 /\ blocked = 0
     /\ issued = 0 /\ authority = 0 /\ faults = 0 /\ inodes = 0 /\ dir = 0
     /\ synced_dir = 0 /\ published = 0 /\ parent_lock = 0 /\ dir_lock = 0
     /\ procs = 0 /\ acked = 0 /\ anchors = 0 /\ records = 0 /\ synced = 0
     /\ stores = 0 /\ marked = 0 /\ lock = 0 /\ admin = 0 /\ used = 0
     /\ witnessed = 0 /\ pc = 0 /\ rn = 0 /\ proc = 0 /\ pipe = 0
     /\ fds = 0 /\ clock = 0 /\ result = 0 /\ late = 0 /\ main = 0
     /\ queue = 0 /\ active = 0 /\ stats = 0 /\ worker = 0 /\ seen = 0
     /\ g = 0 /\ order = 0 /\ input = 0 /\ pushed = 0 /\ disk = 0
     /\ file = 0 /\ seq = 0 /\ mem = 0 /\ expected = 0 /\ kind = 0
     /\ tree = 0 /\ named = 0 /\ frames = 0 /\ plan = 0 /\ out = 0
     /\ chain = 0 /\ sealed = 0
  \/ /\ part = "merge" /\ Merge!Init
     /\ wal = 0 /\ poisoned = 0 /\ kept = 0 /\ original = 0 /\ modes = 0
     /\ loc = 0 /\ stable = 0 /\ sidecar = 0 /\ foreign = 0 /\ blocked = 0
     /\ issued = 0 /\ authority = 0 /\ op = 0 /\ faults = 0 /\ inodes = 0
     /\ dir = 0 /\ synced_dir = 0 /\ published = 0 /\ parent_lock = 0
     /\ dir_lock = 0 /\ procs = 0 /\ acked = 0 /\ anchors = 0
     /\ records = 0 /\ synced = 0 /\ stores = 0 /\ marked = 0 /\ lock = 0
     /\ admin = 0 /\ used = 0 /\ witnessed = 0 /\ pc = 0 /\ rn = 0
     /\ proc = 0 /\ pipe = 0 /\ fds = 0 /\ clock = 0 /\ fs = 0 /\ late = 0
     /\ main = 0 /\ queue = 0 /\ active = 0 /\ stats = 0 /\ worker = 0
     /\ seen = 0 /\ g = 0 /\ unseen = 0 /\ kind = 0 /\ tree = 0
     /\ named = 0 /\ frames = 0 /\ plan = 0 /\ out = 0 /\ chain = 0
     /\ sealed = 0
  \/ /\ part = "plan" /\ Plan!Init
     /\ wal = 0 /\ poisoned = 0 /\ kept = 0 /\ original = 0 /\ modes = 0
     /\ loc = 0 /\ stable = 0 /\ sidecar = 0 /\ foreign = 0 /\ blocked = 0
     /\ issued = 0 /\ authority = 0 /\ op = 0 /\ faults = 0 /\ inodes = 0
     /\ dir = 0 /\ synced_dir = 0 /\ published = 0 /\ parent_lock = 0
     /\ dir_lock = 0 /\ procs = 0 /\ acked = 0 /\ anchors = 0
     /\ records = 0 /\ synced = 0 /\ stores = 0 /\ marked = 0 /\ lock = 0
     /\ admin = 0 /\ used = 0 /\ witnessed = 0 /\ pc = 0 /\ rn = 0
     /\ proc = 0 /\ pipe = 0 /\ fds = 0 /\ clock = 0 /\ result = 0
     /\ fs = 0 /\ late = 0 /\ main = 0 /\ queue = 0 /\ active = 0
     /\ stats = 0 /\ worker = 0 /\ seen = 0 /\ g = 0 /\ unseen = 0
     /\ order = 0 /\ input = 0 /\ pushed = 0 /\ disk = 0 /\ file = 0
     /\ seq = 0 /\ mem = 0 /\ expected = 0

Next ==
  /\ part' = part
  /\ \/ /\ part = "staging" /\ Staging!Next
        /\ UNCHANGED <<inodes, dir, synced_dir, published, parent_lock,
                       dir_lock, procs, acked, anchors, records, synced,
                       stores, marked, lock, admin, used, witnessed, pc, rn,
                       proc, pipe, fds, clock, result, budget, fs, late, main,
                       queue, active, stats, worker, seen, g, unseen, order,
                       input, pushed, disk, file, seq, mem, expected, kind,
                       tree, named, frames, plan, out, chain, sealed>>
     \/ /\ part = "store" /\ Store!Next
        /\ UNCHANGED <<wal, poisoned, kept, original, modes, loc, stable,
                       sidecar, foreign, blocked, issued, authority, op,
                       anchors, records, synced, stores, marked, lock, admin,
                       used, witnessed, pc, rn, proc, pipe, fds, clock,
                       result, budget, fs, late, main, queue, active, stats,
                       worker, seen, g, unseen, order, input, pushed, disk,
                       file, seq, mem, expected, kind, tree, named, frames,
                       plan, out, chain, sealed>>
     \/ /\ part = "activation" /\ Act!Next
        /\ UNCHANGED <<wal, poisoned, kept, original, modes, loc, stable,
                       sidecar, foreign, blocked, issued, authority, op,
                       inodes, dir, synced_dir, published, parent_lock,
                       dir_lock, acked, pc, rn, proc, pipe, fds, clock,
                       result, budget, fs, late, main, queue, active, stats,
                       worker, seen, g, unseen, order, input, pushed, disk,
                       file, seq, mem, expected, kind, tree, named, frames,
                       plan, out, chain, sealed>>
     \/ /\ part = "runner" /\ Runner!Next
        /\ UNCHANGED <<wal, poisoned, kept, original, modes, loc, stable,
                       sidecar, foreign, blocked, issued, authority, op,
                       faults, inodes, dir, synced_dir, published,
                       parent_lock, dir_lock, procs, acked, anchors, records,
                       synced, stores, marked, lock, admin, used, witnessed,
                       fs, late, main, queue, active, stats, worker, seen, g,
                       unseen, order, input, pushed, disk, file, seq, mem,
                       expected, kind, tree, named, frames, plan, out, chain,
                       sealed>>
     \/ /\ part = "walk" /\ Walk!Next
        /\ UNCHANGED <<wal, poisoned, kept, original, modes, loc, stable,
                       sidecar, foreign, blocked, issued, authority, op,
                       faults, inodes, dir, synced_dir, published,
                       parent_lock, dir_lock, procs, acked, anchors, records,
                       synced, stores, marked, lock, admin, used, witnessed,
                       pc, rn, proc, pipe, fds, clock, result, budget, unseen,
                       order, input, pushed, disk, file, seq, mem, expected,
                       kind, tree, named, frames, plan, out, chain, sealed>>
     \/ /\ part = "held" /\ Held!Next
        /\ UNCHANGED <<wal, poisoned, kept, original, modes, loc, stable,
                       sidecar, foreign, blocked, issued, authority, faults,
                       inodes, dir, synced_dir, published, parent_lock,
                       dir_lock, procs, acked, anchors, records, synced,
                       stores, marked, lock, admin, used, witnessed, pc, rn,
                       proc, pipe, fds, clock, result, late, main, queue,
                       active, stats, worker, seen, g, order, input, pushed,
                       disk, file, seq, mem, expected, kind, tree, named,
                       frames, plan, out, chain, sealed>>
     \/ /\ part = "merge" /\ Merge!Next
        /\ UNCHANGED <<wal, poisoned, kept, original, modes, loc, stable,
                       sidecar, foreign, blocked, issued, authority, op,
                       faults, inodes, dir, synced_dir, published,
                       parent_lock, dir_lock, procs, acked, anchors, records,
                       synced, stores, marked, lock, admin, used, witnessed,
                       pc, rn, proc, pipe, fds, clock, fs, late, main, queue,
                       active, stats, worker, seen, g, unseen, kind, tree,
                       named, frames, plan, out, chain, sealed>>
     \/ /\ part = "plan" /\ Plan!Next
        /\ UNCHANGED <<wal, poisoned, kept, original, modes, loc, stable,
                       sidecar, foreign, blocked, issued, authority, op,
                       faults, inodes, dir, synced_dir, published,
                       parent_lock, dir_lock, procs, acked, anchors, records,
                       synced, stores, marked, lock, admin, used, witnessed,
                       pc, rn, proc, pipe, fds, clock, result, fs, late, main,
                       queue, active, stats, worker, seen, g, unseen, order,
                       input, pushed, disk, file, seq, mem, expected>>
     \* These end: their budget is spent, or the call has returned.
     \/ part \in {"runner"} /\ UNCHANGED vars

Spec == Init /\ [][Next]_vars

\* An operation that has started goes on, every degu command ends, and somebody
\* runs another one.
FairStaging ==
  /\ WF_(Staging!vars)(part = "staging" /\ \E t \in {1} : Staging!Step(t))
  /\ WF_(Staging!vars)(part = "staging" /\ Staging!open)
  /\ WF_(Staging!vars)(part = "staging" /\ Staging!close)

\* A command that holds the store goes on and lets it go.
FairStore ==
  /\ WF_(Store!vars)(part = "store" /\ Store!Step("p1"))
  /\ WF_(Store!vars)(part = "store" /\ Store!close("p1"))

\* A started activation goes on, and the account asks again and again for its store.
FairActivation ==
  /\ WF_(Act!vars)(part = "activation" /\ Act!Continue("p1"))
  /\ SF_(Act!vars)(part = "activation" /\ Act!activate_current_euid_store("p1"))

\* Every thread that can run does run.  Nothing is asked of the tool, its helper,
\* the deadline, or whoever changes the tree.
FairThreads ==
  /\ WF_(Runner!vars)(part = "runner" /\ Runner!Runner)
  /\ WF_(Walk!vars)(part = "walk" /\ Walk!Measure)
  /\ \A i \in {"w1", "w2"} : WF_(Walk!vars)(part = "walk" /\ Walk!Work(i))
  /\ WF_(Held!vars)(part = "held" /\ Held!Process)
  /\ WF_(Merge!vars)(part = "merge" /\ Merge!Process)
  /\ WF_(Plan!vars)(part = "plan" /\ Plan!Process)

FairSpec == Spec /\ FairStaging /\ FairStore /\ FairActivation /\ FairThreads

-----------------------------------------------------------------------------
(* Properties *)

\* A transaction that is left open is settled in the end, in whatever state
\* crashes, failing calls and its own recoveries left it, unless it needs its
\* user.
RecoverySettles ==
  (part = "staging" /\ Staging!Unsettled(1)) ~>
    (part = "staging" /\ (~Staging!Unsettled(1) \/ Staging!WaitsForItsUser))

\* The store can be used in the end.
\* - A WAL that refuses every append although it holds something to drop is
\*   compacted in the end: no threshold keeps it full for good.
\* - An account whose claim is durable gets a session in the end, wherever the
\*   activation was interrupted and however often.
StoreBecomesUsable ==
  /\ (part = "store" /\ Store!FullOfDone) ~> (part = "store" /\ Store!HasRoom)
  /\ (part = "activation" /\ Act!Claimed) ~> (part = "activation" /\ Act!InSession)

\* Nothing degu waits for keeps it waiting.
\* - A call of a tool returns whatever the tool and its helper do, close or
\*   keep open.
\* - A walk returns however its threads overtake each other and whatever
\*   changes under them: no thread waits for a directory nobody holds.
\* - The passes over a held tree, the merging of its records and the reading of
\*   a plan end, in success or in refusal, whatever another program did
\*   meanwhile.
PassesEnd ==
  /\ (part = "runner") ~> (part = "runner" /\ pc = "returned")
  /\ (part = "walk") ~> (part = "walk" /\ Walk!Ended)
  /\ (part = "held") ~> (part = "held" /\ op.ph \in Held!Over)
  /\ (part = "merge") ~> (part = "merge" /\ mem.pc = "done")
  /\ (part = "plan") ~> (part = "plan" /\ plan.pc \in {"done", "refused"})
=============================================================================
