------------------------------ MODULE HeldTree ------------------------------
(***************************************************************************)
(* The walks that prove a tree and the purge that deletes it               *)
(* (degu-core/src/backend/held.rs), against another program of the same    *)
(* account that keeps changing the tree.                                   *)
(*                                                                         *)
(* A staging collects the tree breadth first, looks at every regular file  *)
(* once more, seals the directories deepest first, collects the tree       *)
(* again depth first, compares the two manifests, and rewalks the names    *)
(* and the stable metadata just before the rename.  A purge collects the   *)
(* staged tree, compares it with the durable manifest, rewalks it, and     *)
(* then deletes entry by entry, each compared with its record first.       *)
(*                                                                         *)
(* Directories are inodes with entries, reached by descriptor or by name   *)
(* as in the code, so a directory can be renamed away under a held         *)
(* descriptor.  A file's content is two halves read in two steps.          *)
(* External: every change of an inode moves its ctime, and an inode number *)
(* with its birth time is never reused.                                    *)
(***************************************************************************)
EXTENDS Integers, FiniteSets, Sequences

CONSTANTS
    Shapes,         \* the trees the runs start from, see Shape
    Schemas,        \* manifest schemas: 3 streams, 2 is resident
    Limits,         \* values of HeldTreeLimits.max_entries
    MaxTouches,     \* changes the other program makes
    MaxFaults       \* I/O errors the walks meet

HeldTreeAssumption ==
    /\ Schemas \subseteq {2, 3}
    /\ Limits \subseteq Nat /\ MaxTouches \in Nat /\ MaxFaults \in Nat

VARIABLES
    fs,             \* the file system around the tree
    op,             \* the staging or the purge in progress
    unseen,         \* ghost: paths changed since the process last looked
    budget          \* remaining changes and faults

vars == <<fs, op, unseen, budget>>

(***************************************************************************)
(* Names and inodes.  The tree is named "r" in the directory Top; it holds *)
(* the directory d and the file c, and d holds a and b.                    *)
(***************************************************************************)
Top == 10
Root == 1
Dir == 2
FileA == 3
FileC == 4
SpareFile == 5
SpareDir == 6
None == 0
DirInodes == {Top, Root, Dir, SpareDir}
FileInodes == {FileA, FileC, SpareFile}
Inodes == DirInodes \cup FileInodes

Paths == {"", "d", "c", "d/a", "d/b"}
Parent == [p \in Paths \ {""} |-> IF p \in {"d/a", "d/b"} THEN "d" ELSE ""]
Base == [p \in Paths |-> CASE p = "" -> "r" [] p = "d" -> "d" [] p = "c" -> "c"
                           [] p = "d/a" -> "a" [] OTHER -> "b"]
Bases == {Base[p] : p \in Paths}
Depth == [p \in Paths |-> IF p = "" THEN 0 ELSE IF p \in {"d", "c"} THEN 1 ELSE 2]
Ancestry(p) == {p} \cup (IF p = "" THEN {} ELSE {""})
                   \cup (IF Depth[p] = 2 THEN {"d"} ELSE {})
ChildPath(p, b) == CHOOSE q \in Paths \ {""} : Parent[q] = p /\ Base[q] = b
ChildBases(p) == {Base[q] : q \in {x \in Paths \ {""} : Parent[x] = p}}

Lookup(d, b) == IF d \in DirInodes THEN fs.ent[d][b] ELSE None
(* What a path names now, resolved from the top. *)
At(p) ==
    LET root == Lookup(Top, "r")
    IN  IF p = "" THEN root
        ELSE IF Depth[p] = 1 THEN Lookup(root, Base[p])
        ELSE Lookup(Lookup(root, "d"), Base[p])
Nlink(i) ==
    Cardinality({x \in DirInodes \X Bases : fs.ent[x[1]][x[2]] = i}) + fs.extra[i]

(* inspect_at, inspect_held and inspect_raw_fd: one stat. *)
Inspection(i) ==
    [ino |-> i, ctime |-> fs.ctime[i], nlink |-> Nlink(i), mode |-> fs.mode[i],
     mine |-> fs.mine[i]]

(* into_manifest for a directory, whose timestamps and links are not proven, *)
(* and for a regular file.                                                   *)
DirectoryRecord(st) ==
    [ino |-> st.ino, mode |-> st.mode, ctime |-> 0, nlink |-> 0, data |-> <<>>]
RegularRecord(st, data) ==
    [ino |-> st.ino, mode |-> st.mode, ctime |-> st.ctime, nlink |-> st.nlink,
     data |-> data]
(* structure_evidence: a record without its content. *)
StructureEvidence(r) == [r EXCEPT !.data = <<>>]

NoRecord == [ino |-> None, mode |-> "", ctime |-> 0, nlink |-> 0, data |-> <<>>]
EmptyManifest == [p \in Paths |-> NoRecord]
Recorded(m) == {p \in Paths : m[p] # NoRecord}
RegularPaths(m) == {p \in Recorded(m) : m[p].ino \in FileInodes}
DirectoryPaths(m) == {p \in Recorded(m) : m[p].ino \in DirInodes}

(***************************************************************************)
(* The process between operations.  mid is a ghost: the files at the       *)
(* instant the last walk that reads content ended.                         *)
(***************************************************************************)
NoInstant == [i \in FileInodes |-> [ctime |-> 0, data |-> <<>>, extra |-> 0]]
Instant ==
    [i \in FileInodes |-> [ctime |-> fs.ctime[i], data |-> fs.data[i], extra |-> fs.extra[i]]]
NoCursor == [base |-> "", st |-> <<>>, half |-> 0]
Idle(ph, schema, limit, protected, man) ==
    [ph |-> ph, schema |-> schema, limit |-> limit, protected |-> protected,
     frames |-> <<>>,
     cur |-> NoCursor, root |-> None, rec |-> EmptyManifest, man |-> man,
     todo |-> {}, mid |-> NoInstant, pfd |-> None, path |-> "",
     gone |-> [i \in Inodes |-> 0], removed |-> 0, why |-> ""]

(* Where each walk goes when it ends, and which of them read content. *)
Walks == {"pre", "post", "rewalk", "auth", "authrewalk"}
StructureWalks == {"rewalk", "authrewalk"}
Finals == {"prefin", "postfin", "authfin"}
Refused == "refused"
Over == {Refused, "done"}

Refuse(why) ==
    op' = [Idle(Refused, op.schema, op.limit, op.protected, op.man) EXCEPT !.why = why,
               !.removed = op.removed]
Stop(why) == Refuse(why) /\ UNCHANGED <<fs, unseen, budget>>
Seen(ps) == unseen' = unseen \ ps

(***************************************************************************)
(* reopen_directory_from_root: every hop from the held root is opened by   *)
(* name and must still be the recorded directory in its recorded mode.     *)
(***************************************************************************)
verify_root_binding_fields(root) == Lookup(Top, "r") = root

HopHolds(p, expected) ==
    LET i == At(p)
    IN  i # None /\ i = expected[p].ino /\ fs.mode[i] = expected[p].mode /\ fs.mine[i]

Reopens(p, expected) ==
    /\ verify_root_binding_fields(op.root)
    /\ fs.mode[op.root] = expected[""].mode
    /\ \A q \in Ancestry(p) \ {""} : HopHolds(q, expected)

(***************************************************************************)
(* Starting a walk: the root is inspected by name, opened, and held.       *)
(***************************************************************************)
Frame(p, i) == [path |-> p, ino |-> i, listed |-> FALSE, names |-> {}]

BeginWalk(ph) ==
    LET i == Lookup(Top, "r")
    IN  IF i \in DirInodes /\ fs.mine[i] /\ op.limit >= 1
        THEN /\ op' = [op EXCEPT !.ph = ph, !.root = i, !.frames = <<Frame("", i)>>,
                           !.rec = [EmptyManifest EXCEPT
                                        ![""] = DirectoryRecord(Inspection(i))],
                           !.mid = NoInstant, !.cur = NoCursor]
             /\ Seen({""})
             /\ UNCHANGED <<fs, budget>>
        ELSE Stop("root")

collect_pre_seal == op.ph = "start" /\ BeginWalk("pre")
collect == op.ph = "sealed" /\ BeginWalk("post")
verify_rebound_v3 == op.ph = "staged" /\ op.schema = 3 /\ BeginWalk("auth")
collect_exact_tree == op.ph = "staged" /\ op.schema = 2 /\ BeginWalk("auth")

(* stream_structure_records: the root is still bound and held. *)
stream_structure_records(from, ph) ==
    /\ op.ph = from
    /\ IF verify_root_binding_fields(op.root)
       THEN /\ op' = [op EXCEPT !.ph = ph, !.frames = <<Frame("", op.root)>>,
                          !.rec = [EmptyManifest EXCEPT
                                       ![""] = DirectoryRecord(Inspection(op.root))]]
            /\ Seen({""})
            /\ UNCHANGED <<fs, budget>>
       ELSE Stop("root")
rewalk_streamed_v3_structure == stream_structure_records("verified", "rewalk")
rewalk_structure == stream_structure_records("authorized", "authrewalk")

(***************************************************************************)
(* Reading one directory.  The breadth-first walk reopens a queued         *)
(* directory from the root; the depth-first one reads the descriptor it    *)
(* opened when it met the directory.                                       *)
(***************************************************************************)
BreadthFirst == op.ph = "pre" \/ (op.ph \in {"auth", "authrewalk"} /\ op.schema = 2)
Walking == op.ph \in Walks /\ op.frames # <<>>
Top1 == Head(op.frames)

ListNames(i) == {b \in Bases : Lookup(i, b) # None}
Listed ==
    /\ op' = [op EXCEPT !.frames[1] =
                  [@ EXCEPT !.listed = TRUE, !.names = ListNames(Top1.ino)]]
    (* Every absent name of the directory has been looked for. *)
    /\ Seen((IF BreadthFirst THEN Ancestry(Top1.path) ELSE {}) \cup {q \in Paths \ {""} : Parent[q] = Top1.path /\ Lookup(Top1.ino, Base[q]) = None})
    /\ UNCHANGED <<fs, budget>>

read_v2_children_with_sink ==
    /\ Walking /\ BreadthFirst /\ ~Top1.listed
    /\ IF Reopens(Top1.path, op.rec)
       THEN Listed
       ELSE Stop("changed")

certify_directory_stream ==
    /\ Walking /\ ~BreadthFirst /\ ~Top1.listed
    /\ Listed

WithinLimits(rec) == Cardinality(Recorded(rec)) <= op.limit

(* Budget.add_path and emit_entry, then the entry is off the list. *)
Emit(p, r, frames) ==
    LET rec == [op.rec EXCEPT ![p] = r]
    IN  IF WithinLimits(rec)
        THEN op' = [op EXCEPT !.rec = rec, !.cur = NoCursor, !.frames = frames]
        ELSE Refuse("limit")

Rest(b) == [op.frames EXCEPT ![1] = [@ EXCEPT !.names = @ \ {b}]]

require_owner(st) == st.mine

require_unprotected(b) == b \notin op.protected

(* A directory entry is opened at once and its descriptor queued or pushed. *)
inspect_directory(b) ==
    /\ Walking /\ Top1.listed /\ op.cur = NoCursor /\ b \in Top1.names
    /\ Lookup(Top1.ino, b) \in DirInodes
    /\ LET p == ChildPath(Top1.path, b)
           i == Lookup(Top1.ino, b)
           frames == IF BreadthFirst THEN Append(Rest(b), Frame(p, i))
                     ELSE <<Frame(p, i)>> \o Rest(b)
       IN  IF require_unprotected(b) /\ require_owner(Inspection(i))
           THEN Emit(p, DirectoryRecord(Inspection(i)), frames) /\ Seen({p})
           ELSE Refuse("admission") /\ UNCHANGED unseen
    /\ UNCHANGED <<fs, budget>>

(* A name that was listed may be gone when it is inspected. *)
inspect_missing(b) ==
    /\ Walking /\ Top1.listed /\ op.cur = NoCursor /\ b \in Top1.names
    /\ Lookup(Top1.ino, b) = None
    /\ Stop("changed")

(* inspect_at for a regular file, in the walks that read its content. *)
inspect_entry(b) ==
    /\ Walking /\ op.ph \notin StructureWalks
    /\ Top1.listed /\ op.cur = NoCursor /\ b \in Top1.names
    /\ Lookup(Top1.ino, b) \in FileInodes
    /\ LET st == Inspection(Lookup(Top1.ino, b))
       IN  IF require_unprotected(b) /\ require_owner(st)
           THEN /\ op' = [op EXCEPT !.cur = [base |-> b, st |-> st, half |-> 0]]
                /\ Seen({ChildPath(Top1.path, b)})
           ELSE Refuse("admission") /\ UNCHANGED unseen
    /\ UNCHANGED <<fs, budget>>

(* inspect_structure: the structure walks record the stat and no content. *)
inspect_structure(b) ==
    /\ Walking /\ op.ph \in StructureWalks
    /\ Top1.listed /\ b \in Top1.names
    /\ Lookup(Top1.ino, b) \in FileInodes
    /\ LET st == Inspection(Lookup(Top1.ino, b))
           p == ChildPath(Top1.path, b)
       IN  IF require_unprotected(b) /\ require_owner(st)
           THEN Emit(p, StructureEvidence(RegularRecord(st, <<>>)), Rest(b)) /\ Seen({p})
           ELSE Refuse("admission") /\ UNCHANGED unseen
    /\ UNCHANGED <<fs, budget>>

(***************************************************************************)
(* inspect_regular_content: open by name, compare the descriptor with the  *)
(* stat before, read, and compare again.                                   *)
(***************************************************************************)
Reading == Walking /\ op.cur # NoCursor

open_regular_content ==
    /\ Reading /\ op.cur.half = 0
    /\ LET i == Lookup(Top1.ino, op.cur.base)
       IN  IF i \in FileInodes /\ Inspection(i) = op.cur.st
           THEN /\ op' = [op EXCEPT !.cur.half = fs.data[i][1]]
                /\ UNCHANGED <<fs, unseen, budget>>
           ELSE Stop("changed")

read_regular_contentMutant ==
    /\ Reading /\ op.cur.half # 0
    /\ LET i == op.cur.st.ino
           p == ChildPath(Top1.path, op.cur.base)
       IN  /\ Emit(p, RegularRecord(op.cur.st, <<op.cur.half, fs.data[i][2]>>), Rest(op.cur.base))
           /\ UNCHANGED <<fs, unseen, budget>>

read_regular_content ==
    /\ Reading /\ op.cur.half # 0
    /\ LET i == op.cur.st.ino
           p == ChildPath(Top1.path, op.cur.base)
       IN  IF Inspection(i) = op.cur.st
           THEN /\ Emit(p, RegularRecord(Inspection(i), <<op.cur.half, fs.data[i][2]>>),
                        Rest(op.cur.base))
                /\ UNCHANGED <<fs, unseen, budget>>
           ELSE Stop("changed")

(* The frame is read to its end; the next one is continued. *)
leave_directoryMutant ==
    /\ Walking /\ Top1.listed /\ Top1.names = {} /\ op.cur = NoCursor
    /\ Len(op.frames) > 1
    /\ UNCHANGED vars

leave_directory ==
    /\ Walking /\ Top1.listed /\ Top1.names = {} /\ op.cur = NoCursor
    /\ Len(op.frames) > 1
    /\ op' = [op EXCEPT !.frames = Tail(@)]
    /\ UNCHANGED <<fs, unseen, budget>>

WalkRead ==
    /\ op.ph \in Walks /\ Len(op.frames) = 1
    /\ Top1.listed /\ Top1.names = {} /\ op.cur = NoCursor

(* What the tree really is, for the properties about a finished walk. *)
Truth(p) ==
    LET i == At(p)
    IN  IF i = None THEN NoRecord
        ELSE IF i \in DirInodes THEN DirectoryRecord(Inspection(i))
        ELSE RegularRecord(Inspection(i), fs.data[i])

(* finish_v2_walk and the end of PendingV3Inventory::collect: the root is    *)
(* still the one named.  A recovery walk also compares the manifest at once. *)
finish_v2_walk ==
    /\ WalkRead /\ op.ph \in {"pre", "post", "auth"}
    /\ IF /\ verify_root_binding_fields(op.root)
          /\ op.ph = "auth" => op.rec = op.man
       THEN /\ op' = [op EXCEPT !.ph = CASE op.ph = "pre" -> "prefin"
                                         [] op.ph = "post" -> "postfin"
                                         [] OTHER -> "authfin",
                          !.frames = <<>>, !.todo = RegularPaths(op.rec),
                          !.mid = Instant]
            /\ UNCHANGED <<fs, unseen, budget>>
       ELSE Stop("changed")

(***************************************************************************)
(* final_reobserve_regular_record_with: the parent is reopened from the    *)
(* root, and the name and the descriptor must both still be the record.    *)
(***************************************************************************)
MatchesRecordMutant(p) == TRUE

MatchesRecord(p) ==
    /\ At(p) # None
    /\ StructureEvidence(op.rec[p]) = StructureEvidence(RegularRecord(Inspection(At(p)), <<>>))

final_reobserve_regular_record(p) ==
    /\ op.ph \in Finals /\ p \in op.todo
    /\ IF Reopens(Parent[p], op.rec) /\ MatchesRecord(p)
       THEN /\ op' = [op EXCEPT !.todo = @ \ {p}]
            /\ Seen(Ancestry(p))
            /\ UNCHANGED <<fs, budget>>
       ELSE Stop("changed")

(***************************************************************************)
(* HardlinkTopologyFold.finish and classify_regular_file_topology: every   *)
(* link of every file is a name of the tree.                               *)
(***************************************************************************)
Enumerated(m, i) == Cardinality({p \in Paths : m[p].ino = i})

TopologyHoldsMutant(m) ==
    \A p \in RegularPaths(m) : Enumerated(m, m[p].ino) <= m[p].nlink

TopologyHolds(m) ==
    /\ \A p \in RegularPaths(m) : Enumerated(m, m[p].ino) = m[p].nlink
    /\ \A p, q \in RegularPaths(m) : m[p].ino = m[q].ino => m[p] = m[q]

Finalized == op.todo = {} /\ op.ph \in Finals

finish_topology_pre ==
    /\ Finalized /\ op.ph = "prefin"
    /\ IF TopologyHolds(op.rec)
       THEN /\ op' = [op EXCEPT !.ph = "seal", !.man = op.rec,
                          !.todo = DirectoryPaths(op.rec)]
            /\ UNCHANGED <<fs, unseen, budget>>
       ELSE Stop("links")

(* PostSealManifestExpectation::verify. *)
finish_topology_post ==
    /\ Finalized /\ op.ph = "postfin"
    /\ IF ~TopologyHolds(op.rec)
       THEN Stop("links")
       ELSE IF op.rec = op.man
            THEN /\ op' = [op EXCEPT !.ph = "verified"]
                 /\ UNCHANGED <<fs, unseen, budget>>
            ELSE Stop("changed")

finish_topology_auth ==
    /\ Finalized /\ op.ph = "authfin"
    /\ IF TopologyHolds(op.rec)
       THEN /\ op' = [op EXCEPT !.ph = "authorized"]
            /\ UNCHANGED <<fs, unseen, budget>>
       ELSE Stop("links")

(***************************************************************************)
(* seal_directory_for_staging: the chain of the deepest unsealed directory *)
(* is reopened from the root and its mode changed, the root itself through *)
(* its held descriptor; the expectation takes the mode the log says was    *)
(* applied.                                                                *)
(***************************************************************************)
minimal_sealed_mode(m) == "sealed"

ChainTop(p) == \A q \in op.todo : p # q => p \notin Ancestry(q)

seal_directory_for_staging(p) ==
    /\ op.ph = "seal" /\ p \in op.todo /\ ChainTop(p)
    /\ IF IF p = "" THEN fs.mode[op.root] = op.rec[""].mode ELSE Reopens(p, op.rec)
       THEN LET i == op.man[p].ino
                sealed == minimal_sealed_mode(fs.mode[i])
            IN  /\ fs' = [fs EXCEPT !.mode[i] = sealed, !.ctime[i] = @ + 1]
                /\ op' = [op EXCEPT !.todo = @ \ {p}, !.man[p].mode = sealed,
                              !.ph = IF op.todo = {p} THEN "sealed" ELSE "seal"]
                /\ Seen({p})
                /\ UNCHANGED budget
       ELSE Stop("changed")

(* execute_staging_local_mode_mutation answered ConfirmedNotApplied. *)
seal_not_applied ==
    /\ op.ph = "seal" /\ budget.faults > 0
    /\ budget' = [budget EXCEPT !.faults = @ - 1]
    /\ Refuse("fault") /\ UNCHANGED <<fs, unseen>>

(***************************************************************************)
(* StreamedStructureComparison: the rewalk must be the manifest without    *)
(* its contents, name for name.                                            *)
(***************************************************************************)
SameStructureMutant ==
    \A p \in Recorded(op.man) : StructureEvidence(op.man[p]) = op.rec[p]

SameStructure ==
    op.rec = [p \in Paths |-> StructureEvidence(op.man[p])]

finish_streamed_structure_rewalk ==
    /\ WalkRead /\ op.ph \in StructureWalks
    /\ IF SameStructure /\ verify_root_binding_fields(op.root)
       THEN /\ op' = [op EXCEPT !.ph = IF op.ph = "rewalk" THEN "rename" ELSE "plan",
                          !.frames = <<>>, !.todo = IF op.ph = "rewalk" THEN {} ELSE Paths
                                                       \cap Recorded(op.man)]
            /\ UNCHANGED <<fs, unseen, budget>>
       ELSE Stop("changed")

(* rename_noreplace and verify_post_rename: the same root, at the staged name. *)
rename_noreplace ==
    /\ op.ph = "rename"
    /\ IF verify_root_binding_fields(op.root)
       THEN /\ op' = Idle("staged", op.schema, op.limit, op.protected, op.man)
            /\ UNCHANGED <<fs, unseen, budget>>
       ELSE Stop("root")

(***************************************************************************)
(* Deleting.  compare_v3_purge_paths orders the plan deepest first and, in *)
(* one depth, by descending path.                                          *)
(***************************************************************************)
PathRank == [p \in Paths |-> CASE p = "" -> 0 [] p = "c" -> 1 [] p = "d" -> 2
                               [] p = "d/a" -> 3 [] OTHER -> 4]

compare_v3_purge_paths(p, q) ==
    Depth[p] > Depth[q] \/ (Depth[p] = Depth[q] /\ PathRank[p] > PathRank[q])

NextInPlan(p) == \A q \in op.todo \ {p} : compare_v3_purge_paths(p, q)

(* reconcile_group_alias_drift: the links this purge removed itself are     *)
(* predicted, and then the record must be what it was.                      *)
reconcile_group_alias_driftMutant(expected, st) == st

reconcile_group_alias_drift(expected, st) ==
    LET gone == op.gone[expected.ino]
    IN  IF expected.ino \in FileInodes /\ expected.nlink > 1
           /\ st.nlink = expected.nlink - gone
           /\ gone # 0 => st.ctime >= expected.ctime
        THEN [st EXCEPT !.nlink = expected.nlink,
                  !.ctime = IF gone # 0 THEN expected.ctime ELSE @]
        ELSE st

(* The whole of an entry against its record, just before it is unlinked. *)
EntryIsRecordedMutant(p) ==
    At(p) # None /\ At(p) = op.man[p].ino

EntryIsRecorded(p) ==
    LET i == At(p)
        expected == op.man[p]
    IN  /\ i # None /\ fs.mine[i]
        /\ expected = IF i \in DirInodes THEN DirectoryRecord(Inspection(i))
                      ELSE RegularRecord(reconcile_group_alias_drift(expected, Inspection(i)),
                                         fs.data[i])

CheckEntry ==
    \E p \in op.todo \ {""} :
        /\ NextInPlan(p)
        /\ IF Reopens(Parent[p], op.man) /\ EntryIsRecorded(p)
           THEN /\ op' = [op EXCEPT !.ph = "unlink", !.path = p, !.pfd = At(Parent[p])]
                /\ Seen(Ancestry(p))
                /\ UNCHANGED <<fs, budget>>
           ELSE Stop("changed")

purge_plan_record == op.ph = "plan" /\ op.schema = 3 /\ CheckEntry
purge_postorder == op.ph = "plan" /\ op.schema = 2 /\ CheckEntry

(* unlinkat: whatever the name is now, except that REMOVEDIR takes only an  *)
(* empty directory and a plain unlink only a file.                          *)
note_group_alias_unlinked(expected) ==
    IF expected.ino \in FileInodes /\ expected.nlink > 1
    THEN [op.gone EXCEPT ![expected.ino] = @ + 1]
    ELSE op.gone

Unlinked(d, b) ==
    LET i == fs.ent[d][b]
    IN  [fs EXCEPT !.ent[d][b] = None, !.ctime[i] = @ + 1]

EmptyDirectory(i) == \A b \in Bases : fs.ent[i][b] = None

unlink_entryMutant ==
    /\ op.ph = "unlink"
    /\ LET d == op.pfd
           b == Base[op.path]
       IN  IF Lookup(d, b) # None
           THEN /\ fs' = Unlinked(d, b)
                /\ op' = [op EXCEPT !.ph = "plan", !.todo = @ \ {op.path}, !.path = "",
                              !.removed = @ + 1,
                              !.gone = note_group_alias_unlinked(op.man[op.path])]
                /\ UNCHANGED <<unseen, budget>>
           ELSE Stop("io")

unlink_entry ==
    /\ op.ph = "unlink"
    /\ LET d == op.pfd
           b == Base[op.path]
           i == Lookup(d, b)
           expected == op.man[op.path]
       IN  IF /\ i # None
              /\ expected.ino \in DirInodes => i \in DirInodes /\ EmptyDirectory(i)
              /\ expected.ino \in FileInodes => i \in FileInodes
           THEN /\ fs' = Unlinked(d, b)
                /\ op' = [op EXCEPT !.ph = "plan", !.todo = @ \ {op.path}, !.pfd = None,
                              !.path = "", !.removed = @ + 1,
                              !.gone = note_group_alias_unlinked(expected)]
                /\ UNCHANGED <<unseen, budget>>
           ELSE Stop("io")

(* StreamedV3Purger::finish: the root last, by name and by descriptor. *)
finish_purge ==
    /\ op.ph = "plan" /\ op.todo = {""}
    /\ IF /\ verify_root_binding_fields(op.root)
          /\ fs.mode[op.root] = op.man[""].mode
          /\ EmptyDirectory(op.root)
       THEN /\ fs' = Unlinked(Top, "r")
            /\ op' = [op EXCEPT !.ph = "done", !.todo = {}, !.removed = @ + 1]
            /\ UNCHANGED <<unseen, budget>>
       ELSE Stop("root")

(* Any system call may fail. *)
io_error ==
    /\ op.ph \notin Over \cup {"start", "staged"}
    /\ budget.faults > 0
    /\ budget' = [budget EXCEPT !.faults = @ - 1]
    /\ Refuse("fault") /\ UNCHANGED <<fs, unseen>>

(***************************************************************************)
(* The other program.  It works by path, it may hold any file open, and    *)
(* the seal of a directory does not bind a process of the same account.    *)
(***************************************************************************)
Touch == budget.touches > 0 /\ op.ph \notin Over
Spend == budget' = [budget EXCEPT !.touches = @ - 1]

NamesOf(i) == {p \in Paths : At(p) = i \/ op.rec[p].ino = i \/ op.man[p].ino = i}
PathsAt(d, b) ==
    {p \in Paths :
        /\ Base[p] = b
        /\ IF p = "" THEN d = Top
           ELSE At(Parent[p]) = d \/ op.rec[Parent[p]].ino = d \/ op.man[Parent[p]].ino = d}
Marks(ps) == unseen' = unseen \cup ps

(* The version a write leaves tells it from every other. *)
Version == 10 + MaxTouches - budget.touches

Remember(f, i) ==
    IF i \in FileInodes THEN [f EXCEPT !.past = @ \cup {<<i, f.ctime[i], f.data[i]>>}] ELSE f

OtherWrites(i, h) ==
    /\ Touch /\ i \in FileInodes /\ Nlink(i) > 0
    /\ fs' = Remember([fs EXCEPT !.data[i][h] = Version, !.ctime[i] = @ + 1], i)
    /\ Marks(NamesOf(i)) /\ Spend
    /\ UNCHANGED op

OtherLinksOutside(i) ==
    /\ Touch /\ i \in FileInodes /\ Nlink(i) > 0 /\ fs.extra[i] = 0
    /\ fs' = Remember([fs EXCEPT !.extra[i] = 1, !.ctime[i] = @ + 1], i)
    /\ Marks(NamesOf(i)) /\ Spend
    /\ UNCHANGED op

OtherUnlinks(p) ==
    /\ Touch /\ At(p) \in FileInodes
    /\ LET d == At(Parent[p]) i == At(p)
       IN  /\ fs' = Remember(Unlinked(d, Base[p]), i)
           /\ Marks(NamesOf(i) \cup PathsAt(d, Base[p]))
    /\ Spend /\ UNCHANGED op

(* A new file takes a free name, or replaces the file that had it. *)
OtherCreates(p) ==
    /\ Touch /\ p # "" /\ Depth[p] > 0 /\ p # "d"
    /\ At(Parent[p]) \in DirInodes /\ Nlink(SpareFile) = 0
    /\ At(p) \notin DirInodes
    /\ LET d == At(Parent[p])
           old == At(p)
           bumped == IF old = None THEN fs ELSE [fs EXCEPT !.ctime[old] = @ + 1]
           new == [bumped EXCEPT !.ent[d][Base[p]] = SpareFile,
                       !.data[SpareFile] = <<Version, Version>>,
                       !.ctime[SpareFile] = @ + 1]
       IN  /\ fs' = Remember(IF old = None THEN new ELSE Remember(new, old), SpareFile)
           /\ Marks(PathsAt(d, Base[p]) \cup (IF old = None THEN {} ELSE NamesOf(old)))
    /\ Spend /\ UNCHANGED op

(* A directory of the tree, or the tree itself, is renamed away and an empty *)
(* one takes its name.                                                       *)
OtherSwapsDirectory(p) ==
    /\ Touch /\ p \in {"", "d"} /\ At(p) \in DirInodes
    /\ Nlink(SpareDir) = 0 /\ EmptyDirectory(SpareDir)
    /\ LET d == IF p = "" THEN Top ELSE At("")
       IN  /\ fs' = [fs EXCEPT !.ent[d][Base[p]] = SpareDir]
           /\ Marks(PathsAt(d, Base[p]))
    /\ Spend /\ UNCHANGED op

OtherSwapsBack(p) ==
    /\ Touch /\ p \in {"", "d"} /\ At(p) = SpareDir
    /\ LET d == IF p = "" THEN Top ELSE At("")
       IN  /\ fs' = [fs EXCEPT !.ent[d][Base[p]] = IF p = "" THEN Root ELSE Dir]
           /\ Marks(PathsAt(d, Base[p]))
    /\ Spend /\ UNCHANGED op

OtherChangesMode(p) ==
    /\ Touch /\ p \in {"", "d"} /\ At(p) \in DirInodes
    /\ fs' = [fs EXCEPT !.mode[At(p)] = "odd", !.ctime[At(p)] = @ + 1]
    /\ Marks(NamesOf(At(p))) /\ Spend
    /\ UNCHANGED op

(***************************************************************************)
(* The trees a run starts from: b absent or a second name of a; a file     *)
(* with a link outside the tree; a file of another owner; a name the       *)
(* policy protects.                                                        *)
(***************************************************************************)
Shape == {"plain", "alias", "outside", "foreign", "protected"}

InitFs(shape) ==
    [ent |-> [d \in DirInodes |-> [b \in Bases |->
                 CASE d = Top /\ b = "r" -> Root
                   [] d = Root /\ b = "d" -> Dir
                   [] d = Root /\ b = "c" -> FileC
                   [] d = Dir /\ b = "a" -> FileA
                   [] d = Dir /\ b = "b" /\ shape = "alias" -> FileA
                   [] OTHER -> None]],
     data |-> [i \in FileInodes |-> <<1, 1>>],
     ctime |-> [i \in Inodes |-> 0],
     mode |-> [i \in Inodes |-> IF i \in DirInodes THEN "open" ELSE "file"],
     extra |-> [i \in Inodes |-> IF shape = "outside" /\ i = FileA THEN 1 ELSE 0],
     mine |-> [i \in Inodes |-> ~(shape = "foreign" /\ i = FileA)],
     past |-> {<<i, 0, <<1, 1>>>> : i \in {FileA, FileC}}]

Protected(shape) == IF shape = "protected" THEN {"c"} ELSE {}

Init ==
    /\ unseen = {}
    /\ budget = [touches |-> MaxTouches, faults |-> MaxFaults]
    /\ \E shape \in Shapes, limit \in Limits :
        /\ fs = InitFs(shape)
        /\ \/ 3 \in Schemas /\ op = Idle("start", 3, limit, Protected(shape), EmptyManifest)
           (* A tree an earlier release staged under the resident schema. *)
           \/ /\ 2 \in Schemas /\ shape \in {"plain", "alias"}
              /\ op = Idle("staged", 2, limit, {}, [p \in Paths |-> Truth(p)])

Walk ==
    \/ collect_pre_seal \/ collect \/ verify_rebound_v3 \/ collect_exact_tree
    \/ rewalk_streamed_v3_structure \/ rewalk_structure
    \/ read_v2_children_with_sink \/ certify_directory_stream
    \/ \E b \in Bases : inspect_directory(b) \/ inspect_missing(b) \/ inspect_entry(b)
                            \/ inspect_structure(b)
    \/ open_regular_content \/ read_regular_content \/ leave_directory \/ finish_v2_walk
    \/ \E p \in Paths : final_reobserve_regular_record(p)
    \/ finish_topology_pre \/ finish_topology_post \/ finish_topology_auth
    \/ finish_streamed_structure_rewalk

Staging ==
    \/ \E p \in Paths : seal_directory_for_staging(p)
    \/ seal_not_applied
    \/ rename_noreplace

Purging == purge_plan_record \/ purge_postorder \/ unlink_entry \/ finish_purge

Other ==
    \/ \E i \in FileInodes : OtherLinksOutside(i) \/ \E h \in 1..2 : OtherWrites(i, h)
    \/ \E p \in Paths : OtherUnlinks(p) \/ OtherCreates(p) \/ OtherSwapsDirectory(p)
                            \/ OtherSwapsBack(p) \/ OtherChangesMode(p)

Finished == op.ph \in Over /\ UNCHANGED vars

Next == Walk \/ Staging \/ Purging \/ io_error \/ Other \/ Finished

Spec == Init /\ [][Next]_vars

Process == Walk \/ Staging \/ Purging

-----------------------------------------------------------------------------
(***************************************************************************)
(* Properties.                                                             *)
(***************************************************************************)
TypeOK ==
    /\ op.ph \in Walks \cup Finals \cup Over \cup
          {"start", "seal", "sealed", "verified", "rename", "staged", "authorized", "plan", "unlink"}
    /\ op.todo \subseteq Paths /\ unseen \subseteq Paths
    /\ op.ph = "unlink" <=> op.pfd # None
    /\ op.root \in DirInodes \cup {None} /\ op.pfd \in DirInodes \cup {None}
    /\ budget.touches \in 0..MaxTouches /\ budget.faults \in 0..MaxFaults

(* A content digest is never torn: whatever is written while a file is read *)
(* (inspect_regular_content reads it in pieces), the record pairs an inode  *)
(* and a ctime with bytes that inode really held at that ctime.             *)
NoTornDigest ==
    op.ph \in (Walks \ StructureWalks) \cup Finals =>
        \A p \in RegularPaths(op.rec) :
            <<op.rec[p].ino, op.rec[p].ctime, op.rec[p].data>> \in fs.past

(* The files of an accepted manifest are one snapshot: although the walk    *)
(* reads them one after the other, all of them held their recorded bytes at *)
(* the instant it ended (final_reobserve_regular_files).                    *)
SnapshotIsConsistent ==
    op.ph \in {"seal", "verified", "authorized"} =>
        \A p \in RegularPaths(op.rec) :
            /\ op.mid[op.rec[p].ino].ctime = op.rec[p].ctime
            /\ op.mid[op.rec[p].ino].data = op.rec[p].data

(* At that instant no accepted file had a name outside the tree             *)
(* (HardlinkTopologyFold), so deleting the tree destroys no file that       *)
(* something else still names.                                              *)
NoOutsideName ==
    op.ph \in {"seal", "verified", "authorized"} =>
        \A p \in RegularPaths(op.rec) : op.mid[op.rec[p].ino].extra = 0

(* The manifest a staging leaves describes the staged tree: wherever the    *)
(* tree differs from it, the name or a directory above it was changed after *)
(* the last look the process had at it (the window held.rs documents).      *)
StagedAsProven ==
    op.ph \in {"rename", "staged"} =>
        \A p \in Paths : Truth(p) = op.man[p] \/ Ancestry(p) \cap unseen # {}

(* What is about to be unlinked is the proven entry, with the proven bytes, *)
(* unless that very name was changed in the window between the comparison   *)
(* and unlinkat: a directory renamed away, or swapped, cannot redirect it.  *)
DeletedAsProven ==
    op.ph = "unlink" =>
        \/ op.path \in unseen
        \/ LET i == Lookup(op.pfd, Base[op.path])
           IN  /\ i = op.man[op.path].ino
               /\ i \in FileInodes => fs.data[i] = op.man[op.path].data

(* A tree nobody else touches is staged and purged to the end: a refusal    *)
(* has a cause in the tree, and the process's own chmods and unlinks, which *)
(* move modes, link counts and ctimes, never look like a change.            *)
RefusalHasACause ==
    (op.ph = Refused /\ budget.touches = MaxTouches /\ budget.faults = MaxFaults) =>
        \/ op.why = "limit" /\ Cardinality({p \in Paths : At(p) # None}) > op.limit
        \/ op.why = "links" /\ \E i \in FileInodes : fs.extra[i] > 0
        \/ op.why = "admission" /\ (op.protected # {} \/ \E i \in FileInodes : ~fs.mine[i])

=============================================================================
