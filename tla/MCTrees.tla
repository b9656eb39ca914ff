------------------------------- MODULE MCTrees ------------------------------
(***************************************************************************)
(* How a tree is proven and its proof kept: walking, sealing and purging a *)
(* held tree (HeldTree), the external sort of its records (ScratchSort),   *)
(* the keyed plans (KeyedPlan), the manifest as a stream (ManifestStream)  *)
(* and the sidecar file that holds it (TreeSidecar).                       *)
(***************************************************************************)
EXTENDS Naturals, Sequences

VARIABLES
  part,  \* the component, and its bounds, this behaviour is about
  fs, op, unseen, budget, order, input, pushed, disk, file, seq, mem,
  expected, result, kind, tree, named, frames, plan, out, chain, sealed,
  phase, stream, dec, pack, task, actual, plans, fold, wal, dir, maybe,
  altered

Shape == {"plain", "alias", "outside", "foreign", "protected"}

K(id, path) == [id |-> id, path |-> path]

RootKey == K(2, <<>>)

A == K(3, <<1>>)

AB == K(2, <<1, 2>>)

B == K(3, <<2>>)

\* every presentation of up to three of the four keys, repetitions included,
\* and one of all four
ShortInputs ==
    UNION {[1..n -> {RootKey, A, AB, B}] : n \in 0..2}
    \cup {<<B, AB, A>>, <<A, RootKey, A>>, <<AB, A, RootKey>>}

\* long presentations: enough runs of one record for two levels of merging
\* and a collapse
LongInputs ==
    {[i \in 1..7 |-> K(2 + (i % 2), <<8 - i>>)],
     [i \in 1..7 |-> K(2, <<(3 * i) % 7>>)],
     [i \in 1..7 |-> K(2, IF i % 2 = 0 THEN <<i>> ELSE <<i, i>>)],
     <<B, AB, A, RootKey, B>>}

AllOrders == {"manifest", "structure", "hardlink", "purge"}

\* Names of bytes; "-" (1) sorts before "/" (2), letters after it.
Dashed == <<3, 1>>

AllPaths ==
  {<<>>, <<<<3>>>>, <<<<3>>, <<3>>>>, <<Dashed>>, <<Dashed, <<3>>>>, <<<<4>>>>}

AllTrees ==
  {t \in SUBSET AllPaths :
     <<>> \in t /\ \A p \in t : p # <<>> => SubSeq(p, 1, Len(p) - 1) \in t}

Listed == (AllPaths \ {<<<<4>>>>}) \cup {<<<<3>>, <<3>>, <<3>>>>}

\* Every shape of tree, both schemas, two changes by another program.
Held ==
  INSTANCE HeldTree WITH Shapes <- Shape, Schemas <- {2, 3}, Limits <- {4, 5},
    MaxTouches <- 2, MaxFaults <- 0

\* The same with an I/O error and nobody else.
Failing ==
  INSTANCE HeldTree WITH Shapes <- Shape, Schemas <- {2, 3}, Limits <- {5},
    MaxTouches <- 0, MaxFaults <- 1

\* Every presentation of up to two of four keys, a few of three, and one change
\* of a run file.
Sort ==
  INSTANCE ScratchSort WITH Orders <- AllOrders, Inputs <- ShortInputs,
    FanIn <- 2, Buffer <- 1, MaxRecords <- 3, MaxNames <- 8, MaxFaults <- 1,
    MaxKills <- 1

\* Enough runs of one record for two levels of merging and a collapse.
Merge ==
  INSTANCE ScratchSort WITH Orders <- AllOrders, Inputs <- LongInputs,
    FanIn <- 2, Buffer <- 1, MaxRecords <- 9, MaxNames <- 20, MaxFaults <- 0,
    MaxKills <- 1

\* Every tree of up to six paths, among them names that sort between a
\* directory and what is in it.
Plan ==
  INSTANCE KeyedPlan WITH Kinds <- {"directory", "purge"}, Trees <- AllTrees,
    Slash <- 2, MaxAlters <- 1, MaxKills <- 1

\* Listings of up to four entries two levels deep, two changes away.
Manifest ==
  INSTANCE ManifestStream WITH Paths <- Listed, Slash <- 2, MaxDepth <- 2,
    MaxEntries <- 4, MaxPathBytes <- 9, MaxPayload <- 6

\* Two transactions, a crash, a failing call, a changed file.
Sidecar ==
  INSTANCE TreeSidecar WITH Txn <- {"t1", "t2"}, MaxCrashes <- 1,
    MaxFaults <- 1, MaxAlters <- 1

ASSUME Held!HeldTreeAssumption
ASSUME Failing!HeldTreeAssumption
ASSUME Sort!SortBounds
ASSUME Merge!SortBounds

\* A behaviour is one of one component; the variables of the others rest.
vars == <<part, fs, op, unseen, budget, order, input, pushed, disk, file, seq,
          mem, expected, result, kind, tree, named, frames, plan, out, chain,
          sealed, phase, stream, dec, pack, task, actual, plans, fold, wal,
          dir, maybe, altered>>

Init ==
  \/ /\ part = "held" /\ Held!Init
     /\ order = 0 /\ input = 0 /\ pushed = 0 /\ disk = 0 /\ file = 0
     /\ seq = 0 /\ mem = 0 /\ expected = 0 /\ result = 0 /\ kind = 0
     /\ tree = 0 /\ named = 0 /\ frames = 0 /\ plan = 0 /\ out = 0
     /\ chain = 0 /\ sealed = 0 /\ phase = 0 /\ stream = 0 /\ dec = 0
     /\ pack = 0 /\ task = 0 /\ actual = 0 /\ plans = 0 /\ fold = 0
     /\ wal = 0 /\ dir = 0 /\ maybe = 0 /\ altered = 0
  \/ /\ part = "error" /\ Failing!Init
     /\ order = 0 /\ input = 0 /\ pushed = 0 /\ disk = 0 /\ file = 0
     /\ seq = 0 /\ mem = 0 /\ expected = 0 /\ result = 0 /\ kind = 0
     /\ tree = 0 /\ named = 0 /\ frames = 0 /\ plan = 0 /\ out = 0
     /\ chain = 0 /\ sealed = 0 /\ phase = 0 /\ stream = 0 /\ dec = 0
     /\ pack = 0 /\ task = 0 /\ actual = 0 /\ plans = 0 /\ fold = 0
     /\ wal = 0 /\ dir = 0 /\ maybe = 0 /\ altered = 0
  \/ /\ part = "sort" /\ Sort!Init
     /\ fs = 0 /\ op = 0 /\ unseen = 0 /\ kind = 0 /\ tree = 0 /\ named = 0
     /\ frames = 0 /\ plan = 0 /\ out = 0 /\ chain = 0 /\ sealed = 0
     /\ phase = 0 /\ stream = 0 /\ dec = 0 /\ pack = 0 /\ task = 0
     /\ actual = 0 /\ plans = 0 /\ fold = 0 /\ wal = 0 /\ dir = 0
     /\ maybe = 0 /\ altered = 0
  \/ /\ part = "merge" /\ Merge!Init
     /\ fs = 0 /\ op = 0 /\ unseen = 0 /\ kind = 0 /\ tree = 0 /\ named = 0
     /\ frames = 0 /\ plan = 0 /\ out = 0 /\ chain = 0 /\ sealed = 0
     /\ phase = 0 /\ stream = 0 /\ dec = 0 /\ pack = 0 /\ task = 0
     /\ actual = 0 /\ plans = 0 /\ fold = 0 /\ wal = 0 /\ dir = 0
     /\ maybe = 0 /\ altered = 0
  \/ /\ part = "plan" /\ Plan!Init
     /\ fs = 0 /\ op = 0 /\ unseen = 0 /\ order = 0 /\ input = 0
     /\ pushed = 0 /\ disk = 0 /\ file = 0 /\ seq = 0 /\ mem = 0
     /\ expected = 0 /\ result = 0 /\ phase = 0 /\ stream = 0 /\ dec = 0
     /\ pack = 0 /\ task = 0 /\ actual = 0 /\ plans = 0 /\ fold = 0
     /\ wal = 0 /\ dir = 0 /\ maybe = 0 /\ altered = 0
  \/ /\ part = "manifest" /\ Manifest!Init
     /\ fs = 0 /\ op = 0 /\ unseen = 0 /\ budget = 0 /\ order = 0
     /\ input = 0 /\ pushed = 0 /\ disk = 0 /\ file = 0 /\ seq = 0
     /\ mem = 0 /\ result = 0 /\ kind = 0 /\ tree = 0 /\ named = 0
     /\ frames = 0 /\ out = 0 /\ chain = 0 /\ sealed = 0 /\ wal = 0
     /\ dir = 0 /\ maybe = 0 /\ altered = 0
  \/ /\ part = "sidecar" /\ Sidecar!Init
     /\ fs = 0 /\ unseen = 0 /\ order = 0 /\ input = 0 /\ pushed = 0
     /\ disk = 0 /\ file = 0 /\ seq = 0 /\ mem = 0 /\ expected = 0
     /\ result = 0 /\ kind = 0 /\ tree = 0 /\ named = 0 /\ frames = 0
     /\ plan = 0 /\ out = 0 /\ chain = 0 /\ sealed = 0 /\ phase = 0
     /\ stream = 0 /\ dec = 0 /\ pack = 0 /\ task = 0 /\ actual = 0
     /\ plans = 0 /\ fold = 0

Next ==
  /\ part' = part
  /\ \/ /\ part = "held" /\ Held!Next
        /\ UNCHANGED <<order, input, pushed, disk, file, seq, mem, expected,
                       result, kind, tree, named, frames, plan, out, chain,
                       sealed, phase, stream, dec, pack, task, actual, plans,
                       fold, wal, dir, maybe, altered>>
     \/ /\ part = "error" /\ Failing!Next
        /\ UNCHANGED <<order, input, pushed, disk, file, seq, mem, expected,
                       result, kind, tree, named, frames, plan, out, chain,
                       sealed, phase, stream, dec, pack, task, actual, plans,
                       fold, wal, dir, maybe, altered>>
     \/ /\ part = "sort" /\ Sort!Next
        /\ UNCHANGED <<fs, op, unseen, kind, tree, named, frames, plan, out,
                       chain, sealed, phase, stream, dec, pack, task, actual,
                       plans, fold, wal, dir, maybe, altered>>
     \/ /\ part = "merge" /\ Merge!Next
        /\ UNCHANGED <<fs, op, unseen, kind, tree, named, frames, plan, out,
                       chain, sealed, phase, stream, dec, pack, task, actual,
                       plans, fold, wal, dir, maybe, altered>>
     \/ /\ part = "plan" /\ Plan!Next
        /\ UNCHANGED <<fs, op, unseen, order, input, pushed, disk, file, seq,
                       mem, expected, result, phase, stream, dec, pack, task,
                       actual, plans, fold, wal, dir, maybe, altered>>
     \/ /\ part = "manifest" /\ Manifest!Next
        /\ UNCHANGED <<fs, op, unseen, budget, order, input, pushed, disk,
                       file, seq, mem, result, kind, tree, named, frames, out,
                       chain, sealed, wal, dir, maybe, altered>>
     \/ /\ part = "sidecar" /\ Sidecar!Next
        /\ UNCHANGED <<fs, unseen, order, input, pushed, disk, file, seq, mem,
                       expected, result, kind, tree, named, frames, plan, out,
                       chain, sealed, phase, stream, dec, pack, task, actual,
                       plans, fold>>
     \* These end: their budget is spent, or the call has returned.
     \/ part \in {"manifest"} /\ UNCHANGED vars

Spec == Init /\ [][Next]_vars

-----------------------------------------------------------------------------
(* Properties *)

\* A held tree is what its manifest says, up to what changed after the last
\* look.
\* - A content digest is never torn: whatever is written while a file is read
\*   in pieces, the record pairs an inode and a ctime with bytes that inode
\*   really held at that ctime.
\* - The files of an accepted manifest are one snapshot: although the walk
\*   reads them one after the other, all of them held their recorded bytes at
\*   the instant it ended.
\* - At that instant no accepted file had a name outside the tree, so deleting
\*   the tree destroys no file that something else still names.
\* - The manifest a staging leaves describes the staged tree: wherever the tree
\*   differs from it, the name or a directory above it was changed after the
\*   last look the process had at it.
\* - What is about to be unlinked is the proven entry, with the proven bytes,
\*   unless that very name was changed between the comparison and unlinkat: a
\*   directory renamed away, or swapped, cannot redirect it.
\* - A tree nobody else touches is proven, sealed, staged and purged to the
\*   end: the process's own chmods and unlinks never look like a change.
ProvenTreeIsTheTree ==
  /\ part = "held" =>
       /\ Held!TypeOK
       /\ Held!NoTornDigest
       /\ Held!SnapshotIsConsistent
       /\ Held!NoOutsideName
       /\ Held!StagedAsProven
       /\ Held!DeletedAsProven
       /\ Held!RefusalHasACause
  /\ part = "error" => Failing!RefusalHasACause

\* The external sort gives back its input.
\* - What a consumer is given and told to be complete is what the producer
\*   presented, each record once, in strictly increasing key order, through any
\*   number of runs and merges and whatever another program did to the run
\*   files.
\* - Until a consumer takes them, the arena and the runs held open carry the
\*   presented records, each once: a merge that fails stops before its inputs
\*   are unlinked.
\* - Once the call is over no scratch name is left in the store, whether it
\*   succeeded, was refused or followed a kill.
\* - Between two records there are fewer than FanIn runs of any level, so open
\*   descriptors grow with the logarithm of the input; no merge opens more than
\*   FanIn of them.
\* - A call is refused only where another program touched its files or a call
\*   failed, at any number of runs.
OnlyTheInput ==
  /\ part = "sort" =>
       /\ Sort!TypeOK
       /\ Sort!OnlyTheInput
       /\ Sort!NoRecordDropped
       /\ Sort!NothingLeft
       /\ Sort!RunsBounded
       /\ Sort!RefusalHasACause
  /\ part = "merge" =>
       /\ Merge!OnlyTheInput
       /\ Merge!NoRecordDropped
       /\ Merge!NothingLeft
       /\ Merge!RunsBounded
       /\ Merge!RefusalHasACause

\* A pass is given the plan.
\* - What the sealing and the deleting pass are given is a prefix of what was
\*   planned, in the planned order, however the file was damaged, reordered,
\*   repeated, cut or extended, also between the authentication and the use of
\*   a record.
\* - A pass that ends well was given the whole plan, and a sealing pass has
\*   sealed every directory exactly once.
\* - A directory is sealed after every directory below it, and through the
\*   exact chain of its ancestors: any other order would lock the pass out of a
\*   subtree.
\* - No plan record is ever reachable through a name, the scratch name or one
\*   that another program gave the file.
\* - A plan nobody touched is read to its end, in either direction.
HandedIsThePlan ==
  part = "plan" =>
    /\ Plan!HandedIsThePlan
    /\ Plan!CompleteWhenDone
    /\ Plan!SealedDeepestFirst
    /\ Plan!NoRecordUnderAName
    /\ Plan!RefusalHasACause

\* The manifest as a stream says what the resident one does.
\* - The decoder, which keeps one path and a stack of offsets, admits exactly
\*   the listings of trees.
\* - Every record of the purge plan is readable alone and carries the
\*   directories above its entry; the order of the plan removes what is in a
\*   directory before it.
\* - The segments hold the stream, whole records in order, none empty, none
\*   above the bound.
\* - While the manifest is read again the open directories are those above the
\*   last entry, and the entry itself if it is one.
\* - The merge of tree and manifest finds a difference exactly if there is one,
\*   and names the first; the comparison of the resident inventory says the
\*   same.
\* - The two ways to verify a tree in recovery, streamed for the present schema
\*   and resident for the earlier ones, accept the same trees unless a path is
\*   planned twice.
\* - The expectation is the hash of the tree exactly if only the modes of its
\*   directories have changed, each to what its seal applied.
StreamIsExact ==
  part = "manifest" =>
    /\ Manifest!TypeOK
    /\ Manifest!DecoderIsExact
    /\ Manifest!PlanKnowsTheWay
    /\ Manifest!SegmentsCarryTheStream
    /\ Manifest!ActiveIsTheWayDown
    /\ Manifest!ComparisonIsExact
    /\ Manifest!VerifiersAgree
    /\ Manifest!ExpectationIsExact

\* The sidecar outlives its need and nothing else does.
\* - A bound commitment names a manifest that is whole, and that no kill or
\*   power cut can take away, for as long as the transaction needs it
\*   (publish_stream_with_sync).
\* - No crash makes degu give up a transaction: RecoveryRequired for a lost
\*   manifest is reached only after another program changed its files.
\* - When an open has finished, every bound manifest of a transaction that may
\*   still act is authentic, whatever was done to the files before.
\* - When an open has finished, undisturbed files are exactly the needed ones:
\*   no temporary file, no orphan and no manifest of an ended transaction is
\*   left by any earlier kill or power cut.
\* - A read succeeds, or blames the manifest codec or the callback, only if
\*   every segment handed out is the one committed to; a changed container is
\*   always reported as such.
\* - A step of the store takes a file from a final name only if the file, as
\*   last checked, authenticates itself, agrees with any commitment, and is not
\*   needed; only a change after that check goes with it unseen.
SidecarIsKept ==
  /\ [](part = "sidecar" =>
         /\ Sidecar!BoundIsDurable
         /\ Sidecar!OnlyDamageGivesUp
         /\ Sidecar!OpenExposesNoDamage
         /\ Sidecar!NothingUnreachableLeft
         /\ Sidecar!ReadIsAuthentic)
  /\ [][part = "sidecar" => Sidecar!OnlyProvenFinalsGo]_vars
=============================================================================
