------------------------------ MODULE UvPrune ------------------------------
(***************************************************************************)
(* degu reclaim uv (commands/reclaim.rs over uv/): the executable the user *)
(* selected is copied, the copy is asked for its version, the cache root   *)
(* is sealed, the user confirms, and the copy prunes the root.             *)
(*                                                                         *)
(* The command is the sequence of its file-system calls; programs of the   *)
(* same user change the executable, the copy, the links and the root       *)
(* between any two of them, and any call may fail.  `todo' is what is left *)
(* of the command, head first; a refusal drops it.                         *)
(***************************************************************************)
EXTENDS Naturals, Sequences

CONSTANTS MaxChanges,    \* steps of other programs
          MaxFaults      \* failing calls

ExePaths == {"e1", "e2"}                \* canonical paths the selected link may lead to
Objects == {1, 2}                       \* files and directories found there
Bytes == {"audited", "newer"}           \* builds of uv
Roots == {"r1", "r2"}
Fixed == {"bucket", "other", "tag", "lock"}     \* sdists-v9, a bucket not in use, CACHEDIR.TAG, .lock
Entries == Fixed \cup {"stale"}                  \* a directory that prune would walk

VARIABLES todo,
          cli,      \* how the command was called
          w,        \* the file system
          d,        \* what the command holds
          g,        \* ghosts: what was true at the spawn, what came too late to be seen
          exit,     \* how the command ended
          budget

vars == <<todo, cli, w, d, g, exit, budget>>

Missing == 0         \* entry: absent, the first object, a later one
None == "none"

-----------------------------------------------------------------------------
(* The command as a sequence of calls.                                     *)
open_selected_executable == <<"exe_canonical", "exe_open", "exe_selected">>
snapshot_executable == <<"snap_directory", "snap_guard", "copy_head", "copy_tail", "snap_verify", "snap_hold">>
probe_uv_executable == open_selected_executable \o <<"exe_pin">> \o snapshot_executable
                       \o <<"source_unchanged", "probe_held", "probe_run">> \o open_selected_executable \o <<"exe_same">>
open_selected_root == <<"root_canonical", "root_open", "root_selected">>
seal_uv_cache_root == <<"discovered", "home_selected", "audited">> \o open_selected_root
                      \o <<"seal_root", "seal_buckets", "seal_tag", "seal_lock", "namespace", "matches", "home_sealed">>
revalidate_path == <<"source_pinned">> \o open_selected_executable \o <<"exe_same">>
root_revalidate == open_selected_root \o <<"root_same", "fixed_buckets", "fixed_tag", "fixed_lock", "namespace">>
plan_revalidate == revalidate_path \o <<"audited">> \o root_revalidate
into_execution == plan_revalidate \o <<"declare">> \o plan_revalidate
binding == <<"held_executable">> \o root_revalidate \o <<"spawn">>

(* Mutant: the root is not looked at again before the spawn.               *)
mutant_run_uv == <<"consumer">> \o probe_uv_executable \o seal_uv_cache_root \o plan_revalidate
          \o <<"preview", "consumer", "confirm", "consumer">> \o into_execution
          \o <<"quota", "held_executable", "spawn", "finish">>

run_uv == <<"consumer">> \o probe_uv_executable \o seal_uv_cache_root \o plan_revalidate
          \o <<"preview", "consumer", "confirm", "consumer">> \o into_execution
          \o <<"quota">> \o binding \o <<"finish">>

Init == /\ todo = run_uv
        /\ cli \in {c \in [dry_run : BOOLEAN, yes : BOOLEAN, json : BOOLEAN] :
                       c.json => c.dry_run \/ c.yes}             \* validate_mode
        /\ \E builds \in [Objects -> Bytes] :
              w = [exe_link |-> "e1", exe_at |-> [p \in ExePaths |-> IF p = "e1" THEN 1 ELSE 2],
                   exe |-> [o \in Objects |-> [bytes |-> builds[o], ctime |-> 0, safe |-> TRUE]],
                   snap |-> [directory |-> FALSE, file |-> <<>>, ctime |-> 0, guest |-> FALSE],
                   root_link |-> "r1", root_at |-> [p \in Roots |-> IF p = "r1" THEN 1 ELSE 2],
                   root_safe |-> [o \in Objects |-> TRUE],
                   entry |-> [n \in Entries |-> IF n = "other" THEN Missing ELSE 1],
                   unsafe |-> {},
                   consumer |-> TRUE]
        /\ d = [canon |-> None, current |-> <<>>, path |-> None, identity |-> <<>>,
                guard |-> FALSE, held |-> 0, version |-> None,
                root_canon |-> None, root_object |-> 0, root |-> 0, root_path |-> None,
                sealed |-> [n \in Fixed |-> Missing], confirmed |-> FALSE]
        /\ g = [read |-> None, late |-> FALSE, touched |-> FALSE, spoiled |-> FALSE,
                spawned |-> {}, outcome |-> None]
        /\ exit = None
        /\ budget = [changes |-> MaxChanges, faults |-> MaxFaults]

-----------------------------------------------------------------------------
(* Steps.  A step either does its work and leaves the rest, or ends the    *)
(* command; leaving drops the copy's guard or lease, which removes it.     *)
At(step) == exit = None /\ todo # <<>> /\ Head(todo) = step

Proceeds == todo' = Tail(todo) /\ exit' = exit

Ends(how) == /\ exit' = how
             /\ todo' = IF d.guard THEN <<"unlink_copy", "remove_directory">> ELSE <<>>
             /\ UNCHANGED <<w, d>>

(* Mutant: the lease only forgets the copy.                                *)
mutant_cleanup_executable_snapshot(step) == w.snap

(* What each of the two calls leaves.  The directory must be empty to go.  *)
cleanup_executable_snapshot(step) ==
    IF step = "unlink_copy" THEN [w.snap EXCEPT !.file = <<>>]
    ELSE [w.snap EXCEPT !.directory = @ /\ (w.snap.file # <<>> \/ w.snap.guest)]

(* Best effort: whether a call failed is not asked, and the next follows.  *)
raw_unlinkat == /\ exit # None /\ todo # <<>>
                /\ todo' = Tail(todo)
                /\ \/ /\ w' = [w EXCEPT !.snap = cleanup_executable_snapshot(Head(todo))]
                      /\ UNCHANGED <<g, budget>>
                   \/ /\ budget.faults > 0 /\ budget' = [budget EXCEPT !.faults = @ - 1]
                      /\ g' = [g EXCEPT !.spoiled = TRUE]
                      /\ UNCHANGED w
                /\ UNCHANGED <<cli, d, exit>>

Keeps == UNCHANGED <<cli, g, budget>>

(* A check of the world: the command goes on or is refused.                *)
Check(step, holds) == \/ At(step) /\ holds /\ Proceeds /\ UNCHANGED <<w, d>> /\ Keeps
                      \/ At(step) /\ ~holds /\ Ends("refused") /\ Keeps

(* Something is read into what the command holds.                          *)
Take(step, holds, new) == \/ At(step) /\ holds /\ Proceeds /\ d' = new /\ UNCHANGED w /\ Keeps
                          \/ At(step) /\ ~holds /\ Ends("refused") /\ Keeps

(* A call of the step fails.  Two calls leave a copy's directory behind    *)
(* that nobody holds: opening it after mkdir, and fstat of the finished    *)
(* copy between the guard and the lease.                                   *)
CallFails == /\ exit = None /\ todo # <<>> /\ Head(todo) \notin {"spawn", "finish", "confirm", "preview"}
             /\ budget.faults > 0 /\ budget' = [budget EXCEPT !.faults = @ - 1]
             /\ IF Head(todo) = "snap_hold"
                THEN exit' = "refused" /\ todo' = <<>> /\ UNCHANGED <<w, d>>
                ELSE Ends("refused")
             /\ g' = [g EXCEPT !.spoiled = @ \/ Head(todo) \in {"snap_guard", "snap_hold"}]
             /\ UNCHANGED cli

-----------------------------------------------------------------------------
(* uv/executable.rs and uv/executable/: the selected executable.           *)

Identity(o) == <<o, w.exe[o].ctime>>         \* device, inode, change time, size

exe_canonical == Take("exe_canonical", TRUE, [d EXCEPT !.canon = w.exe_link])

(* Opened without following links; permissions, ACL, attributes and magic  *)
(* are checked on the descriptor.                                          *)
require_executable(o) == w.exe[o].safe

exe_open == LET o == w.exe_at[d.canon]
            IN  Take("exe_open", require_executable(o), [d EXCEPT !.current = Identity(o)])

exe_selected == Check("exe_selected", w.exe_at[w.exe_link] = d.current[1])

(* The first opening is the one that counts.                               *)
exe_pin == /\ At("exe_pin") /\ Proceeds
           /\ d' = [d EXCEPT !.path = d.canon, !.identity = d.current]
           /\ g' = [g EXCEPT !.read = IF Identity(d.current[1]) = d.current
                                      THEN w.exe[d.current[1]].bytes ELSE "changed"]
           /\ UNCHANGED <<cli, w, budget>>

exe_same == Check("exe_same", d.canon = d.path /\ d.current = d.identity)

Unchanged == Identity(d.identity[1]) = d.identity      \* fstat of the descriptor held

(* Mutant: the source is not looked at again after the copy.               *)
mutant_require_source_unchanged == Check("source_unchanged", TRUE)

require_source_unchanged == Check("source_unchanged", Unchanged)

source_pinned == Check("source_pinned", Unchanged)

(* The private copy: a new directory, opened and guarded, ...              *)
Copy(step, snap, guard) == /\ At(step) /\ Proceeds
                           /\ w' = [w EXCEPT !.snap = snap]
                           /\ d' = [d EXCEPT !.guard = guard]
                           /\ Keeps

create_snapshot_directory == Copy("snap_directory", [w.snap EXCEPT !.directory = TRUE], FALSE)

open_snapshot_directory == Copy("snap_guard", w.snap, TRUE)

(* Mutant: the copy goes on past the size found at the opening.            *)
mutant_copy_exact_bytes ==
    \/ Copy("copy_head", [w.snap EXCEPT !.file = <<w.exe[d.identity[1]].bytes>>], TRUE)
    \/ Copy("copy_tail", [w.snap EXCEPT !.file = @ \o @ \o @], TRUE)

(* ... the bytes, read from the held source while others may write it, ... *)
copy_exact_bytes ==
    \/ Copy("copy_head", [w.snap EXCEPT !.file = <<w.exe[d.identity[1]].bytes>>, !.ctime = @ + 1], TRUE)
    \/ Copy("copy_tail", [w.snap EXCEPT !.file = <<Head(w.snap.file), w.exe[d.identity[1]].bytes>>,
                                        !.ctime = @ + 1], TRUE)

(* ... reopened, its mode, kind and size compared, and held under a lease. *)
verify_snapshot == Check("snap_verify", TRUE)

hold_snapshot == Take("snap_hold", TRUE, [d EXCEPT !.held = w.snap.ctime])

held_revalidate(step) == Check(step, w.snap.ctime = d.held)

(* What a build answers to -V; a mixture may answer anything.              *)
Answers(file) == IF file[1] = file[2] THEN {file[1]} ELSE Bytes

probe_held == held_revalidate("probe_held")

execute_version_probe == /\ At("probe_run") /\ Proceeds
                         /\ \E v \in Answers(w.snap.file) : d' = [d EXCEPT !.version = v]
                         /\ UNCHANGED w /\ Keeps

(* Mutant: any version above the minimum may prune.                        *)
mutant_require_version == Check("audited", d.version \in Bytes)

require_version == Check("audited", d.version = "audited")

-----------------------------------------------------------------------------
(* uv/root.rs: the cache root.  r2 leads to HOME, which is object 2.       *)

Safe(n) == w.entry[n] = Missing \/ n \notin w.unsafe        \* owned, private, on the root's mount

require_unique_discovered_root == Check("discovered", TRUE)

reject_selected_root_containing_home == Check("home_selected", w.root_link # "r2")

root_canonical == Take("root_canonical", TRUE, [d EXCEPT !.root_canon = w.root_link])

validate_namespace(o) == w.root_safe[o]

root_open == LET o == w.root_at[d.root_canon]
             IN  Take("root_open", validate_namespace(o), [d EXCEPT !.root_object = o])

root_selected == Check("root_selected", w.root_at[w.root_link] = d.root_object)

seal_root == Take("seal_root", TRUE, [d EXCEPT !.root = d.root_object, !.root_path = d.root_canon])

Seal(names) == [d EXCEPT !.sealed = [n \in Fixed |-> IF n \in names THEN w.entry[n] ELSE @[n]]]

(* Every known bucket is absent or a private directory; sdists-v9 is there.*)
seal_buckets == Take("seal_buckets", Safe("bucket") /\ Safe("other") /\ w.entry["bucket"] # Missing,
                     Seal({"bucket", "other"}))

seal_cache_tag == Take("seal_tag", Safe("tag") /\ w.entry["tag"] # Missing, Seal({"tag"}))

seal_lock == Take("seal_lock", Safe("lock"), Seal({"lock"}))

(* Every directory that prune walks or removes.                            *)
verify_prune_namespace == Check("namespace", Safe("stale") /\ Safe("bucket"))

require_selection_matches_discovery == Check("matches", w.root_link = d.root_path)

(* By path, and by identity for a second attachment of HOME.               *)
reject_root_containing_home == Check("home_sealed", d.root_path # "r2" /\ d.root # 2)

root_same == Check("root_same", d.root_canon = d.root_path /\ d.root_object = d.root /\ validate_namespace(d.root))

(* Mutant: an entry that was missing may have appeared.                    *)
mutant_revalidate_entry(n) == (d.sealed[n] # Missing => w.entry[n] = d.sealed[n]) /\ Safe(n)

revalidate_entry(n) == w.entry[n] = d.sealed[n] /\ Safe(n)

revalidate_buckets == Check("fixed_buckets", revalidate_entry("bucket") /\ revalidate_entry("other"))

revalidate_cache_tag == Check("fixed_tag", revalidate_entry("tag"))

revalidate_lock == Check("fixed_lock", revalidate_entry("lock"))

-----------------------------------------------------------------------------
(* commands/reclaim.rs and uv/plan.rs.                                     *)

stdout_consumer_gone == \/ At("consumer") /\ w.consumer /\ Proceeds /\ UNCHANGED <<w, d>> /\ Keeps
                        \/ At("consumer") /\ ~w.consumer /\ Ends("closed") /\ Keeps

preview == \/ At("preview") /\ cli.dry_run /\ Ends("ok") /\ Keeps
           \/ At("preview") /\ ~cli.dry_run /\ Proceeds /\ UNCHANGED <<w, d>> /\ Keeps

(* Mutant: JSON output stands for a confirmation, and so does a dry run.   *)
mutant_confirm_native_reclaim == At("confirm") /\ Proceeds /\ UNCHANGED <<w, d>> /\ Keeps

confirm_native_reclaim ==
    \/ At("confirm") /\ cli.yes /\ Proceeds /\ UNCHANGED <<w, d>> /\ Keeps
    \/ /\ At("confirm") /\ ~cli.yes
       /\ Proceeds /\ d' = [d EXCEPT !.confirmed = TRUE] /\ UNCHANGED w /\ Keeps
    \/ At("confirm") /\ ~cli.yes /\ Ends("refused") /\ Keeps

declare_native_cleanup == Check("declare", TRUE)      \* the registry's request equals the plan's

quota_before == Check("quota", TRUE)                  \* read-only (QuotaObservation)

held_executable == held_revalidate("held_executable")

(* Only a complete summary for this root counts; another exit, a signal,   *)
(* a timeout or cut output has no summary.                                 *)
parse_uv_prune_output(output) == IF output = "summary" THEN "success" ELSE "output_parse_failure"

execution_outcome(run) == IF run.ended = "exit 0" THEN parse_uv_prune_output(run.output) ELSE run.ended

ToolRuns == [ended : {"exit 0", "exit_failure"}, output : {"summary", "other"}]

(* The tool gets the canonical path of the root.                           *)
spawn == /\ At("spawn") /\ Proceeds
         /\ \E run \in ToolRuns :
               g' = [g EXCEPT !.outcome = execution_outcome(run),
                              !.spawned = {[bytes |-> w.snap.file, root |-> w.root_at[d.root_path],
                                           entry |-> [n \in Fixed |-> w.entry[n]],
                                           safe |-> \A n \in Entries : Safe(n)]}]
         /\ UNCHANGED <<cli, w, d, budget>>

(* Mutant: the closed output decides before the failure.                   *)
mutant_finish_execution_output ==
    /\ At("finish") /\ Keeps
    /\ Ends(IF ~w.consumer THEN "closed" ELSE IF g.outcome = "success" THEN "ok" ELSE "failed")

finish_execution_output ==
    /\ At("finish") /\ Keeps
    /\ Ends(IF g.outcome # "success" THEN "failed" ELSE IF w.consumer THEN "ok" ELSE "closed")

Command == \/ exe_canonical \/ exe_open \/ exe_selected \/ exe_pin \/ exe_same
           \/ require_source_unchanged \/ source_pinned
           \/ create_snapshot_directory \/ open_snapshot_directory \/ copy_exact_bytes
           \/ verify_snapshot \/ hold_snapshot \/ probe_held \/ execute_version_probe \/ require_version
           \/ require_unique_discovered_root \/ reject_selected_root_containing_home
           \/ root_canonical \/ root_open \/ root_selected \/ seal_root \/ seal_buckets \/ seal_cache_tag
           \/ seal_lock \/ verify_prune_namespace \/ require_selection_matches_discovery
           \/ reject_root_containing_home \/ root_same \/ revalidate_buckets \/ revalidate_cache_tag
           \/ revalidate_lock \/ stdout_consumer_gone \/ preview \/ confirm_native_reclaim
           \/ declare_native_cleanup \/ quota_before \/ held_executable \/ spawn \/ finish_execution_output
           \/ CallFails \/ raw_unlinkat

-----------------------------------------------------------------------------
(* Other programs of the user (external).                                  *)

(* A change after the last look at what it touches cannot be seen.  Once   *)
(* the command has ended only the copy matters.                            *)
Other(new, last, touches) ==
    /\ exit = None /\ budget.changes > 0
    /\ budget' = [budget EXCEPT !.changes = @ - 1]
    /\ w' = new
    /\ g' = [g EXCEPT !.late = @ \/ last \notin {todo[i] : i \in DOMAIN todo},
                      !.touched = @ \/ touches]
    /\ UNCHANGED <<todo, cli, d, exit>>

ChangeExecutable ==
    \/ \E p \in ExePaths : Other([w EXCEPT !.exe_link = p], "finish", FALSE)
    \/ \E p \in ExePaths, o \in Objects : Other([w EXCEPT !.exe_at[p] = o], "finish", FALSE)
    \/ \E o \in Objects, b \in Bytes, s \in BOOLEAN :
          Other([w EXCEPT !.exe[o] = [bytes |-> b, ctime |-> @.ctime + 1, safe |-> s]], "finish", FALSE)

ChangeSnapshot ==
    \/ /\ Len(w.snap.file) = 2
       /\ \E b \in Bytes : Other([w EXCEPT !.snap.file = <<b, b>>, !.snap.ctime = @ + 1], "held_executable", TRUE)
    \/ /\ w.snap.directory /\ ~w.snap.guest
       /\ Other([w EXCEPT !.snap.guest = TRUE], "finish", FALSE)

(* The step that looks last at an entry of the root.                       *)
LastLook(n) == CASE n \in {"bucket", "other"} -> "fixed_buckets"
                 [] n = "tag" -> "fixed_tag"
                 [] n = "lock" -> "fixed_lock"
                 [] OTHER -> "namespace"

ChangeRoot ==
    \/ \E p \in Roots : Other([w EXCEPT !.root_link = p], "finish", FALSE)
    \/ \E p \in Roots, o \in Objects : Other([w EXCEPT !.root_at[p] = o], "root_open", FALSE)
    \/ \E o \in Objects : Other([w EXCEPT !.root_safe[o] = ~@], "root_same", FALSE)
    \/ \E n \in Entries, o \in Missing .. 2 : Other([w EXCEPT !.entry[n] = o], LastLook(n), FALSE)
    \/ \E n \in Entries : Other([w EXCEPT !.unsafe = @ \cup {n}], LastLook(n), FALSE)

ConsumerLeaves == w.consumer /\ Other([w EXCEPT !.consumer = FALSE], "finish", FALSE)

(* The process is killed; nothing more is dropped.                         *)
Killed == /\ todo # <<>> /\ exit' = "killed" /\ todo' = <<>>
          /\ UNCHANGED <<cli, w, d, g, budget>>

Next == Command \/ ChangeExecutable \/ ChangeSnapshot \/ ChangeRoot \/ ConsumerLeaves \/ Killed

Spec == Init /\ [][Next]_vars

-----------------------------------------------------------------------------
(* Properties.                                                             *)

(* Every variable stays in its set.                                        *)
TypeOK == /\ exit \in {None, "ok", "refused", "closed", "failed", "killed"}
          /\ d.version \in {None} \cup Bytes
          /\ d.sealed \in [Fixed -> Missing .. 2]
          /\ Len(w.snap.file) \in 0 .. 2
          /\ exit # None => Len(todo) <= 2

(* A copy that was asked for its version is one build, the one found when  *)
(* the selected executable was opened, even when that file was rewritten   *)
(* while it was copied (copy_exact_bytes, require_source_unchanged).       *)
CopyIsOneBuild ==
    d.version # None /\ ~g.touched => w.snap.file \in {<<>>, <<g.read, g.read>>}

(* What prunes is a copy that answered with the audited version, whatever  *)
(* happened to the selected path, to the copy or during the confirmation   *)
(* (the held snapshot, require_version).                                   *)
PrunesWithWhatWasProbed ==
    \A s \in g.spawned : ~g.late =>
        /\ d.version = "audited" /\ d.version \in Answers(s.bytes)
        /\ ~g.touched => s.bytes = <<"audited", "audited">>

(* What is pruned is the root that was sealed and shown: the same          *)
(* directory at the path given to the tool, not HOME, with every bucket,   *)
(* the tag and the lock as sealed and every walked directory private,      *)
(* whatever changed before the last check (the mutation binding).          *)
PrunesWhatWasSealed ==
    \A s \in g.spawned : ~g.late =>
        /\ s.root = d.root /\ d.root # 2
        /\ s.entry = d.sealed
        /\ s.safe

(* Nothing is pruned unasked: not in a dry run, and only with --yes or     *)
(* after the prompt (run_uv).                                              *)
PrunesOnlyWhenAsked == g.spawned # {} => ~cli.dry_run /\ (cli.yes \/ d.confirmed)

(* A prune that failed makes the command fail, also when the reader of its *)
(* output is gone by then; leaving early for that reader is a success only *)
(* while nothing was pruned, or after a prune that succeeded.              *)
FailureIsNotHidden == exit \in {"ok", "closed"} /\ g.spawned # {} => g.outcome = "success"

(* The copy is removed however the command ends, also by a refusal right   *)
(* after it was made.  It stays if the process is killed, or if one of     *)
(* four calls fails: the opening of its directory, the fstat between guard *)
(* and lease, the two that remove.  A file that another program put into   *)
(* the directory keeps the directory, never the copy.                      *)
CopyIsRemoved ==
    exit \notin {None, "killed"} /\ todo = <<>> /\ ~g.spoiled =>
        w.snap.file = <<>> /\ (w.snap.directory => w.snap.guest)
=============================================================================
