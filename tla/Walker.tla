------------------------------- MODULE Walker -------------------------------
(***************************************************************************)
(* degu-walk's measure: a pool of workers shares a stack of directories to *)
(* read, guarded by one mutex and one condition variable, and adds up what *)
(* it finds.  A deadline may pass at any moment, and the tree may change   *)
(* while it is walked: an entry may disappear, and a directory may be      *)
(* replaced by another one or by a link.                                   *)
(*                                                                         *)
(* An entry is named by its path.  What sits at the path is an object:     *)
(* "gone", a "file" (a link counts as one) or a "dir" of some generation.  *)
(* Generation 0 is the directory that was there first, generation 1 one    *)
(* that another user owns and that was moved into its place.  Its change   *)
(* time moves with every change of a name in it.  A pending directory      *)
(* carries the identity its inspection saw, generation and change time;    *)
(* the descriptor a worker holds keeps reading the object it opened,       *)
(* whatever happens to the name.                                           *)
(***************************************************************************)
EXTENDS Integers, Sequences, SequencesExt, FiniteSets

CONSTANTS
    Workers,    \* the threads of the pool
    Root,       \* the directory measured
    Dirs,       \* the directories of the tree, Root among them
    Files,      \* its other entries
    Parent,     \* the directory of every entry but Root
    Kind,       \* what is special about an entry: see Plain below
    Deadline,   \* whether the walk has a deadline
    MaxChanges, \* bound: changes made to the tree during the walk
    MaxErrors   \* bound: reads of a directory that fail

VARIABLES
    fs,         \* the object at every path
    late,       \* the deadline has passed
    main,       \* where measure is
    queue,      \* the shared stack of pending directories
    active,     \* directories being read
    stats,      \* the shared totals
    worker,     \* the state of every thread
    seen,       \* ghost: what became of every entry
    g           \* bounds

vars == <<fs, late, main, queue, active, stats, worker, seen, g>>

Entries == Dirs \cup Files

(***************************************************************************)
(* An entry is "plain", belongs to a "foreign" user, lies on an "other"    *)
(* file system, has an "excluded" name, or is a directory that cannot be   *)
(* opened, "unreadable".                                                   *)
(***************************************************************************)
Kinds == {"plain", "foreign", "other", "excluded", "unreadable"}

ConstantsAssumption ==
    /\ Root \in Dirs
    /\ Dirs \cap Files = {}
    /\ Parent \in [Entries \ {Root} -> Dirs]
    /\ Kind \in [Entries -> Kinds]
    /\ Deadline \in BOOLEAN
    /\ MaxChanges \in Nat /\ MaxErrors \in Nat

Children(d) == {e \in Entries \ {Root} : Parent[e] = d}

Gone == [kind |-> "gone", gen |-> 0, ctime |-> 0]

NoStats ==
    [inodes |-> 0, skipped |-> 0, truncated |-> FALSE, unvisited |-> 0, excluded |-> 0]

NoResult == [stats |-> NoStats, dirs |-> <<>>]

EntryIdentity(e) == [gen |-> fs[e].gen, ctime |-> fs[e].ctime]

Pending(e, identity) == [dir |-> e, identity |-> identity]

Idle(pc) == [pc |-> pc, job |-> Pending(Root, [gen |-> 0, ctime |-> 0]), todo |-> {}, result |-> NoResult]

(***************************************************************************)
(* WalkStats::merge.                                                       *)
(***************************************************************************)
merge(s, partial) ==
    [inodes |-> s.inodes + partial.inodes,
     skipped |-> s.skipped + partial.skipped,
     truncated |-> s.truncated \/ partial.truncated,
     unvisited |-> s.unvisited + partial.unvisited,
     excluded |-> s.excluded + partial.excluded]

record_skip(s) == [s EXCEPT !.skipped = @ + 1]

record_entry(s) == [s EXCEPT !.inodes = @ + 1]

mark_scan_truncated(s) == [s EXCEPT !.truncated = TRUE, !.unvisited = @ + 1]

(***************************************************************************)
(* The no-follow open of a directory and the comparison of its identity    *)
(* with the one inspected: "ok", "vanished", or "refused".                 *)
(***************************************************************************)
mutant_open_verified_directory(job) ==
    IF fs[job.dir].kind = "gone" THEN "vanished"
    ELSE IF fs[job.dir].kind # "dir" \/ Kind[job.dir] = "unreadable" THEN "refused"
    ELSE "ok"

open_verified_directory(job) ==
    IF fs[job.dir].kind = "gone" THEN "vanished"
    ELSE IF fs[job.dir].kind # "dir" \/ Kind[job.dir] = "unreadable" THEN "refused"
    ELSE IF EntryIdentity(job.dir) # job.identity THEN "refused"
    ELSE "ok"

ownership_mismatch(e) == Kind[e] = "foreign" \/ fs[e].gen = 1

-----------------------------------------------------------------------------
(***************************************************************************)
(* measure, before the pool starts: the root is inspected and counted, and *)
(* then opened.  It waits in the queue already while it is opened.         *)
(***************************************************************************)
inspect_root ==
    /\ main = "start"
    /\ IF fs[Root].kind = "gone"
       THEN main' = "not_found" /\ UNCHANGED <<stats, seen>>
       ELSE IF ownership_mismatch(Root)
       THEN /\ main' = "returned"
            /\ stats' = record_skip(stats)
            /\ seen' = [seen EXCEPT !.skipped = @ \cup {Root}]
       ELSE IF fs[Root].kind = "file"
       THEN /\ main' = "returned"
            /\ stats' = record_entry(stats)
            /\ seen' = [seen EXCEPT !.counted = @ \cup {Root}]
       ELSE /\ main' = IF late THEN "returned" ELSE "opening"
            /\ stats' = IF late THEN mark_scan_truncated(record_entry(stats))
                                ELSE record_entry(stats)
            /\ seen' = [seen EXCEPT !.counted = @ \cup {Root}, !.found = @ \cup {Root}]
    /\ queue' = IF main' = "opening" THEN <<Pending(Root, EntryIdentity(Root))>> ELSE <<>>
    /\ UNCHANGED <<fs, late, active, worker, g>>

open_root ==
    /\ main = "opening"
    /\ LET answer == open_verified_directory(Head(queue)) IN
       \/ /\ answer = "vanished"
          /\ main' = "not_found"
          /\ queue' = <<>>
          /\ UNCHANGED <<stats, worker, seen>>
       \/ /\ answer = "refused"
          /\ main' = "returned"
          /\ queue' = <<>>
          /\ stats' = record_skip(stats)
          /\ seen' = [seen EXCEPT !.skipped = @ \cup {Root}]
          /\ UNCHANGED worker
       \/ /\ answer = "ok"
          /\ main' = "walking"
          /\ worker' = [i \in Workers |-> Idle("next")]
          /\ UNCHANGED <<queue, stats, seen>>
    /\ UNCHANGED <<fs, late, active, g>>

(***************************************************************************)
(* Every waiting thread is woken.                                          *)
(***************************************************************************)
Notified(threads) ==
    [i \in Workers |-> IF threads[i].pc = "waiting" THEN Idle("next") ELSE threads[i]]

mutant_pop_back(q) == [job |-> Head(q), rest |-> Tail(q)]

pop_back(q) == [job |-> Last(q), rest |-> Front(q)]

truncate_pending ==
    /\ stats' = [stats EXCEPT !.truncated = TRUE, !.unvisited = @ + Len(queue)]
    /\ queue' = <<>>

(***************************************************************************)
(* next_dir, under the mutex: leave when nothing is pending or being read, *)
(* give up what is pending once the walk is truncated or late, take the    *)
(* last pending directory, or wait.                                        *)
(***************************************************************************)
next_dir(i) ==
    /\ worker[i].pc = "next"
    /\ \/ /\ queue = <<>> /\ active = 0
          /\ worker' = [Notified(worker) EXCEPT ![i] = Idle("exited")]
          /\ UNCHANGED <<queue, active, stats>>
       \/ /\ queue # <<>> \/ active # 0
          /\ stats.truncated \/ late
          /\ truncate_pending
          /\ worker' = [Notified(worker) EXCEPT ![i] = Idle("exited")]
          /\ UNCHANGED active
       \/ /\ ~stats.truncated /\ ~late
          /\ queue # <<>>
          /\ queue' = pop_back(queue).rest
          /\ active' = active + 1
          /\ worker' = [worker EXCEPT ![i] =
                          [Idle(IF pop_back(queue).job.dir = Root THEN "scan" ELSE "open")
                             EXCEPT !.job = pop_back(queue).job]]
          /\ UNCHANGED stats
       \/ /\ ~stats.truncated /\ ~late
          /\ queue = <<>> /\ active # 0
          /\ worker' = [worker EXCEPT ![i].pc = "waiting"]
          /\ UNCHANGED <<queue, active, stats>>
    /\ UNCHANGED <<fs, late, main, seen, g>>

(***************************************************************************)
(* consume_dir for a child: a directory is counted once it is open.        *)
(***************************************************************************)
consume_dir(i) ==
    /\ worker[i].pc = "open"
    /\ LET job == worker[i].job
           answer == open_verified_directory(job)
       IN \/ /\ answer = "vanished"
             /\ worker' = [worker EXCEPT ![i].pc = "complete"]
             /\ seen' = [seen EXCEPT !.vanished = @ \cup {job.dir}]
          \/ /\ answer = "refused"
             /\ worker' = [worker EXCEPT ![i].pc = "complete",
                                         ![i].result.stats = record_skip(@)]
             /\ seen' = [seen EXCEPT !.skipped = @ \cup {job.dir}]
          \/ /\ answer = "ok"
             /\ worker' = [worker EXCEPT ![i].pc = "scan",
                                         ![i].job.identity = EntryIdentity(job.dir),
                                         ![i].result.stats = record_entry(@)]
             /\ seen' = [seen EXCEPT !.counted = @ \cup {job.dir},
                                     !.strayed = @ \/ fs[job.dir].gen # 0]
    /\ UNCHANGED <<fs, late, main, queue, active, stats, g>>

(***************************************************************************)
(* scan_dir: the deadline, then the listing, then entry by entry, with the *)
(* deadline again before each.                                             *)
(***************************************************************************)
mutant_scan_dir(i) ==
    /\ worker[i].pc = "scan"
    /\ LET d == worker[i].job.dir IN
       \/ /\ late
          /\ worker' = [worker EXCEPT ![i].pc = "complete",
                                      ![i].result.stats = mark_scan_truncated(@)]
          /\ UNCHANGED <<seen, g>>
       \/ /\ ~late
          /\ g.errors < MaxErrors
          /\ worker' = [worker EXCEPT ![i].pc = "complete"]
          /\ seen' = [seen EXCEPT !.skipped = @ \cup {d}]
          /\ g' = [g EXCEPT !.errors = @ + 1]
       \/ /\ ~late
          /\ worker' = [worker EXCEPT ![i].pc = "entries",
                                      ![i].todo = {e \in Children(d) : fs[e].kind # "gone"}]
          /\ UNCHANGED <<seen, g>>
    /\ UNCHANGED <<fs, late, main, queue, active, stats>>

scan_dir(i) ==
    /\ worker[i].pc = "scan"
    /\ LET d == worker[i].job.dir IN
       \/ /\ late
          /\ worker' = [worker EXCEPT ![i].pc = "complete",
                                      ![i].result.stats = mark_scan_truncated(@)]
          /\ UNCHANGED <<seen, g>>
       \/ /\ ~late
          /\ g.errors < MaxErrors
          /\ worker' = [worker EXCEPT ![i].pc = "complete",
                                      ![i].result.stats = record_skip(@)]
          /\ seen' = [seen EXCEPT !.skipped = @ \cup {d}]
          /\ g' = [g EXCEPT !.errors = @ + 1]
       \/ /\ ~late
          /\ worker' = [worker EXCEPT ![i].pc = "entries",
                                      ![i].todo = {e \in Children(d) : fs[e].kind # "gone"}]
          /\ UNCHANGED <<seen, g>>
    /\ UNCHANGED <<fs, late, main, queue, active, stats>>

(***************************************************************************)
(* EntryScanner::scan and record on one entry.                             *)
(***************************************************************************)
mutant_Scanned(r, e) ==
    IF Kind[e] = "excluded" THEN [r EXCEPT !.stats.excluded = @ + 1]
    ELSE IF fs[e].kind = "gone" THEN r
    ELSE IF ownership_mismatch(e) \/ Kind[e] = "other" THEN [r EXCEPT !.stats = record_skip(@)]
    ELSE [r EXCEPT !.dirs = Append(@, Pending(e, EntryIdentity(e)))]

Scanned(r, e) ==
    IF Kind[e] = "excluded" THEN [r EXCEPT !.stats.excluded = @ + 1]
    ELSE IF fs[e].kind = "gone" THEN r
    ELSE IF ownership_mismatch(e) THEN [r EXCEPT !.stats = record_skip(@)]
    ELSE IF fs[e].kind = "file" THEN [r EXCEPT !.stats = record_entry(@)]
    ELSE IF Kind[e] = "other" THEN [r EXCEPT !.stats = record_skip(@)]
    ELSE [r EXCEPT !.dirs = Append(@, Pending(e, EntryIdentity(e)))]

Noted(e) ==
    IF Kind[e] = "excluded" THEN seen
    ELSE IF fs[e].kind = "gone" THEN [seen EXCEPT !.vanished = @ \cup {e}]
    ELSE IF ownership_mismatch(e) \/ (fs[e].kind = "dir" /\ Kind[e] = "other")
         THEN [seen EXCEPT !.skipped = @ \cup {e}]
    ELSE IF fs[e].kind = "file" THEN [seen EXCEPT !.counted = @ \cup {e}]
    ELSE [seen EXCEPT !.found = @ \cup {e}]

(***************************************************************************)
(* One turn of scan_dir's loop.  A failing read of the listing, which may  *)
(* come after its last entry, ends it: the directory counts as skipped.    *)
(***************************************************************************)
scan_entry(i) ==
    /\ worker[i].pc = "entries"
    /\ \/ /\ worker[i].todo = {}
          /\ worker' = [worker EXCEPT ![i].pc = "complete"]
          /\ seen' = [seen EXCEPT !.read = @ \cup {worker[i].job.dir}]
          /\ UNCHANGED g
       \/ /\ worker[i].todo # {} /\ late
          /\ worker' = [worker EXCEPT ![i].pc = "complete",
                                      ![i].result.stats = mark_scan_truncated(@)]
          /\ UNCHANGED seen
          /\ UNCHANGED g
       \/ /\ ~late
          /\ \E e \in worker[i].todo :
                /\ worker' = [worker EXCEPT ![i].todo = @ \ {e},
                                            ![i].result = Scanned(@, e)]
                /\ seen' = Noted(e)
          /\ UNCHANGED g
       \/ /\ ~late
          /\ g.errors < MaxErrors
          /\ worker' = [worker EXCEPT ![i].todo = {},
                                      ![i].result.stats = record_skip(@)]
          /\ seen' = [seen EXCEPT !.skipped = @ \cup {worker[i].job.dir}]
          /\ g' = [g EXCEPT !.errors = @ + 1]
    /\ UNCHANGED <<fs, late, main, queue, active, stats>>

(***************************************************************************)
(* complete_dir, under the mutex.                                          *)
(***************************************************************************)
mutant_complete_dir(i) ==
    /\ worker[i].pc = "complete"
    /\ LET result == worker[i].result
           total == merge(stats, result.stats)
       IN /\ stats' = total
          /\ queue' = IF total.truncated THEN queue ELSE queue \o result.dirs
    /\ active' = active - 1
    /\ worker' = Notified([worker EXCEPT ![i] = Idle("next")])
    /\ UNCHANGED <<fs, late, main, seen, g>>

mutant_complete_dir_uncounted(i) ==
    /\ worker[i].pc = "complete"
    /\ LET result == worker[i].result
           total == merge(stats, result.stats)
       IN IF total.truncated
          THEN /\ stats' = [total EXCEPT !.unvisited = @ + Len(result.dirs)]
               /\ UNCHANGED queue
          ELSE /\ stats' = total
               /\ queue' = queue \o result.dirs
    /\ active' = IF worker[i].result = NoResult THEN active ELSE active - 1
    /\ worker' = Notified([worker EXCEPT ![i] = Idle("next")])
    /\ UNCHANGED <<fs, late, main, seen, g>>

complete_dir(i) ==
    /\ worker[i].pc = "complete"
    /\ LET result == worker[i].result
           total == merge(stats, result.stats)
       IN IF total.truncated
          THEN /\ stats' = [total EXCEPT !.unvisited = @ + Len(result.dirs)]
               /\ UNCHANGED queue
          ELSE /\ stats' = total
               /\ queue' = queue \o result.dirs
    /\ active' = active - 1
    /\ worker' = Notified([worker EXCEPT ![i] = Idle("next")])
    /\ UNCHANGED <<fs, late, main, seen, g>>

run_workers ==
    /\ main = "walking"
    /\ \A i \in Workers : worker[i].pc = "exited"
    /\ main' = "returned"
    /\ UNCHANGED <<fs, late, queue, active, stats, worker, seen, g>>

-----------------------------------------------------------------------------
(***************************************************************************)
(* The environment.                                                        *)
(***************************************************************************)
Ended == main \in {"returned", "not_found"}

DeadlinePasses ==
    /\ Deadline /\ ~late /\ ~Ended
    /\ late' = TRUE
    /\ UNCHANGED <<fs, main, queue, active, stats, worker, seen, g>>

\* another object at a path: its directory, if it is still there, changes too
Placed(e, object) ==
    fs' = [x \in Entries |->
             IF x = e THEN object
             ELSE IF e # Root /\ x = Parent[e] /\ fs[x].kind = "dir" THEN [fs[x] EXCEPT !.ctime = @ + 1]
             ELSE fs[x]]

TreeChanges ==
    /\ g.changes < MaxChanges /\ ~Ended
    /\ \E e \in Entries :
          /\ fs[e].kind # "gone"
          /\ \/ Placed(e, Gone)
             \/ fs[e].kind = "dir" /\ Placed(e, [fs[e] EXCEPT !.kind = "file"])
             \/ fs[e].kind = "dir" /\ fs[e].gen = 0 /\ Placed(e, [fs[e] EXCEPT !.gen = 1])
          /\ seen' = [seen EXCEPT !.changed = @ \cup {e}]
    /\ g' = [g EXCEPT !.changes = @ + 1]
    /\ UNCHANGED <<late, main, queue, active, stats, worker>>

(***************************************************************************)
(* A condition variable may wake a thread that nobody notified; nothing    *)
(* makes it do so.                                                         *)
(***************************************************************************)
SpuriousWake ==
    /\ \E i \in Workers :
          /\ worker[i].pc = "waiting"
          /\ worker' = [worker EXCEPT ![i].pc = "next"]
    /\ UNCHANGED <<fs, late, main, queue, active, stats, seen, g>>

Init ==
    /\ fs = [e \in Entries |-> [kind |-> IF e \in Dirs THEN "dir" ELSE "file", gen |-> 0, ctime |-> 0]]
    /\ late = FALSE
    /\ main = "start"
    /\ queue = <<>>
    /\ active = 0
    /\ stats = NoStats
    /\ worker = [i \in Workers |-> Idle("unborn")]
    /\ seen = [counted |-> {}, found |-> {}, read |-> {}, skipped |-> {}, vanished |-> {},
               changed |-> {}, strayed |-> FALSE]
    /\ g = [changes |-> 0, errors |-> 0]

Work(i) == next_dir(i) \/ consume_dir(i) \/ scan_dir(i) \/ scan_entry(i) \/ complete_dir(i)

Measure == inspect_root \/ open_root \/ run_workers

Finished == Ended /\ UNCHANGED vars

Next ==
    \/ Measure
    \/ \E i \in Workers : Work(i)
    \/ DeadlinePasses
    \/ TreeChanges
    \/ SpuriousWake
    \/ Finished

Spec == Init /\ [][Next]_vars

-----------------------------------------------------------------------------
Totals == [inodes : Nat, skipped : Nat, truncated : BOOLEAN, unvisited : Nat, excluded : Nat]

Jobs == [dir : Dirs, identity : [gen : {0, 1}, ctime : 0 .. MaxChanges]]

(***************************************************************************)
(* Types, and the count of active directories: it is the number of threads *)
(* between next_dir and complete_dir.                                      *)
(***************************************************************************)
TypeOK ==
    /\ late \in BOOLEAN
    /\ main \in {"start", "opening", "walking", "returned", "not_found"}
    /\ \A k \in 1 .. Len(queue) : queue[k] \in Jobs
    /\ stats \in Totals
    /\ \A i \in Workers :
          /\ worker[i].pc \in {"unborn", "next", "waiting", "open", "scan", "entries",
                               "complete", "exited"}
          /\ worker[i].job \in Jobs
          /\ worker[i].todo \subseteq Entries
    /\ active = Cardinality({i \in Workers : worker[i].pc \in
                               {"open", "scan", "entries", "complete"}})

Unfinished == seen.found \ (seen.read \cup seen.skipped \cup seen.vanished)

(***************************************************************************)
(* What measure returns adds up: every entry is counted once, and the      *)
(* directories it found and neither read to the end, nor skipped, nor saw  *)
(* vanish are exactly the unvisited ones it reports, whichever threads     *)
(* were reading, pushing or leaving when the walk was cut short            *)
(* (truncate_pending, complete_dir, mark_scan_truncated).                  *)
(***************************************************************************)
TotalsAddUp ==
    main = "returned" =>
        /\ stats.inodes = Cardinality(seen.counted)
        /\ stats.unvisited = Cardinality(Unfinished)
        /\ stats.unvisited > 0 => stats.truncated

Path[e \in Entries] == IF e = Root THEN {Root} ELSE {e} \cup Path[Parent[e]]

(***************************************************************************)
(* A walk that reports nothing skipped, excluded or cut short has counted  *)
(* every entry that was left alone together with the directories above it: *)
(* no pending directory is lost between two threads, and no thread leaves  *)
(* while another may still push one (next_dir).                            *)
(***************************************************************************)
CompleteMeansAll ==
    /\ main = "returned"
    /\ ~stats.truncated /\ stats.skipped = 0 /\ stats.excluded = 0
    => \A e \in Entries : Path[e] \cap seen.changed = {} => e \in seen.counted

(***************************************************************************)
(* No directory is read that another user moved into the place of the one  *)
(* inspected, however long it was pending (open_verified_directory).       *)
(***************************************************************************)
NeverStrays == ~seen.strayed

(***************************************************************************)
(* The descriptors a walk holds: those of the directories being read, and  *)
(* those of the parents of pending ones.  The second one that a thread has *)
(* of the directory it lists (Dir::read_from), one per thread, is left out.*)
(***************************************************************************)
Held ==
    {worker[i].job.dir : i \in {j \in Workers : worker[j].pc \in {"scan", "entries", "complete"}}}
      \cup {Parent[queue[k].dir] : k \in {n \in 1 .. Len(queue) : queue[n].dir # Root}}
      \cup {Parent[worker[i].job.dir] : i \in {j \in Workers : worker[j].pc = "open"}}

Depth(d) == Cardinality(Path[d])

(***************************************************************************)
(* With one thread, the directories held open never exceed the depth of    *)
(* the tree, however wide it is ("Deferred child opens + LIFO consumption      *)
(* bound live fds by depth, not width", walker.rs).                        *)
(***************************************************************************)
HeldByDepth ==
    Cardinality(Workers) = 1 => \E d \in Dirs : Cardinality(Held) <= Depth(d)
=============================================================================
