---------------------------- MODULE TrashRegistry ----------------------------
(***************************************************************************)
(* lifecycle/storage.rs and storage/validation.rs: the trash roots of the  *)
(* other file systems, and the registry in the state directory that is the *)
(* only way back to what they hold.  clean makes and registers a root      *)
(* before it moves a tree into it; forget rewrites the registry; list      *)
(* reads it without the lock.  File systems come and go, writes fail in    *)
(* the middle, the power is cut.                                           *)
(***************************************************************************)
EXTENDS Naturals, Sequences, FiniteSets

CONSTANTS Mounts,           \* file systems besides the state directory's
          Processes, MaxOps, MaxFaults, MaxMounts

VARIABLES reg,      \* the registry file
          after,    \* what a power cut may leave of it
          roots,    \* the trash root of every file system, and the tree moved there
          ns,       \* the published state namespace and the files in it
          lock, proc, g, budget

vars == <<reg, after, roots, ns, lock, proc, g, budget>>

(* The state directory's own file system: its root needs no registry.      *)
Home == "home"
Systems == Mounts \cup {Home}

(* A root has two spellings; both lead to one directory.                   *)
Spellings == Mounts \X {"plain", "alias"}
Canonical(root) == root[1]

(* Lines, whole or cut short; the last may lack its line end.              *)
Line(root) == [root |-> root, whole |-> TRUE]
Torn(root) == [root |-> root, whole |-> FALSE]
File(lines, open) == [lines |-> lines, open |-> open]
Registered(file) == {file.lines[i].root : i \in {j \in DOMAIN file.lines : file.lines[j].whole}}

(* read_registered_trash_roots: a line that is no absolute path of the     *)
(* right name makes the whole registry unreadable.                         *)
parse_registered_trash_root(line) == line.whole
read_registered_trash_roots(file) == \A i \in DOMAIN file.lines : parse_registered_trash_root(file.lines[i])

Files == {"lock", "ops.jsonl", "trashroots"}
Idle == [pc |-> "idle", op |-> "none", root |-> <<>>, known |-> FALSE, gone |-> FALSE, keep |-> <<>>, listed |-> {}, owed |-> {}]

(* An account of an earlier version has a private namespace around files   *)
(* that are not; a fresh one has neither.                                  *)
Init == /\ reg = File(<<>>, FALSE) /\ after = {reg}
        /\ roots = [m \in Systems |-> [mounted |-> TRUE, dir |-> FALSE, bound |-> FALSE, tree |-> "source", settled |-> TRUE]]
        /\ ns \in [published : {FALSE}, exposed : {{}, Files}]
        /\ lock = "free"
        /\ proc = [p \in Processes |-> Idle]
        /\ g = [forgotten |-> {}, refused |-> FALSE]
        /\ budget = [ops |-> MaxOps, faults |-> MaxFaults, mounts |-> MaxMounts]

At(p, pc) == proc[p].pc = pc
Go(p, pc) == proc' = [proc EXCEPT ![p].pc = pc]
End(p) == /\ proc' = [proc EXCEPT ![p] = Idle]
          /\ lock' = IF lock = p THEN "free" ELSE lock
Holds(p) == UNCHANGED lock
Mount(p) == Canonical(proc[p].root)

(* A command: clean of the tree of a file system, or forget of a root.     *)
Begins(p) ==
    /\ At(p, "idle") /\ budget.ops > 0
    /\ budget' = [budget EXCEPT !.ops = @ - 1]
    /\ \E op \in {"clean", "forget"}, root \in Spellings \cup {<<Home, "plain">>} :
          proc' = [proc EXCEPT ![p] = [Idle EXCEPT !.op = op, !.root = root, !.pc = "narrow"]]
    /\ UNCHANGED <<reg, after, roots, ns, lock, g>>

(* ensure_state_parent, before the lock can be opened: the files are made  *)
(* private one by one ...  The calls made later, for the root's parent and *)
(* for the registry's, find nothing left to do.                            *)
narrow_private_entries(p) ==
    /\ At(p, "narrow")
    /\ IF ns.exposed = {} THEN Go(p, "widen") /\ UNCHANGED ns
       ELSE /\ \E f \in ns.exposed : ns' = [ns EXCEPT !.exposed = @ \ {f}]
            /\ UNCHANGED proc
    /\ UNCHANGED <<reg, after, roots, lock, g, budget>>

(* Mutant: the namespace is published first.                               *)
mutant_ensure_state_parent(p) ==
    /\ \/ At(p, "narrow") /\ ~ns.published /\ UNCHANGED proc
       \/ At(p, "widen") /\ Go(p, "lock")
    /\ ns' = [ns EXCEPT !.published = TRUE]
    /\ UNCHANGED <<reg, after, roots, lock, g, budget>>

(* ... before the namespace around them is opened to reading.              *)
ensure_state_parent(p) ==
    /\ At(p, "widen")
    /\ ns' = [ns EXCEPT !.published = TRUE] /\ Go(p, "lock")
    /\ UNCHANGED <<reg, after, roots, lock, g, budget>>

Started(p) == Go(p, IF proc[p].op = "clean" THEN "resolve" ELSE "read")

(* Mutant: a lock that is held is taken all the same.                      *)
mutant_acquire_mutation_lock(p) ==
    /\ At(p, "lock")
    /\ lock' = p /\ Started(p)
    /\ UNCHANGED <<reg, after, roots, ns, g, budget>>

(* acquire_mutation_lock: try, never wait.                                 *)
acquire_mutation_lock(p) ==
    /\ At(p, "lock")
    /\ IF lock = "free" THEN lock' = p /\ Started(p) ELSE End(p)
    /\ UNCHANGED <<reg, after, roots, ns, g, budget>>

-----------------------------------------------------------------------------
(* prepare_trash_root of a tree on another file system.                    *)

resolve_trash_dir(p) ==
    /\ At(p, "resolve")
    /\ IF roots[Mount(p)].mounted /\ roots[Mount(p)].tree = "source"
       THEN Go(p, "make") /\ Holds(p) ELSE End(p)
    /\ UNCHANGED <<reg, after, roots, ns, g, budget>>

Vanished(p) == ~roots[Mount(p)].mounted

(* ensure_managed_trash_root: made, or there already and valid.            *)
ensure_managed_trash_root(p) ==
    /\ At(p, "make")
    /\ IF Vanished(p) THEN End(p) /\ UNCHANGED roots
       ELSE /\ roots' = [roots EXCEPT ![Mount(p)].dir = TRUE] /\ Go(p, "bind") /\ Holds(p)
    /\ UNCHANGED <<reg, after, ns, g, budget>>

(* Mutant: the name of the root is left to the disk's leisure.             *)
mutant_sync_root(p) ==
    /\ At(p, "bind")
    /\ Go(p, IF Mount(p) = Home THEN "move" ELSE "read") /\ Holds(p) /\ UNCHANGED roots
    /\ UNCHANGED <<reg, after, ns, g, budget>>

(* ... and bound to its name on the disk before anything moves there.      *)
sync_root(p) ==
    /\ At(p, "bind")
    /\ IF Vanished(p) THEN End(p) /\ UNCHANGED roots
       ELSE /\ roots' = [roots EXCEPT ![Mount(p)].bound = TRUE] /\ Holds(p)
            /\ Go(p, IF Mount(p) = Home THEN "move" ELSE "read")
    /\ UNCHANGED <<reg, after, ns, g, budget>>

(* register_trash_root and forget_trash_root read the registry first.      *)
read_registry(p) ==
    /\ At(p, "read")
    /\ IF ~read_registered_trash_roots(reg)
       THEN End(p) /\ g' = [g EXCEPT !.refused = TRUE]
       ELSE /\ UNCHANGED g
            /\ CASE proc[p].op = "clean" ->
                      /\ proc' = [proc EXCEPT ![p].known = proc[p].root \in Registered(reg), ![p].pc = "tail"]
                      /\ Holds(p)
                 [] proc[p].op = "forget" /\ proc[p].root \notin Registered(reg) -> End(p)
                 [] OTHER -> Go(p, "validate") /\ Holds(p)
    /\ UNCHANGED <<reg, after, roots, ns, budget>>

Written(file) == reg' = file /\ after' = after \cup {file}

(* isolate_partial_tail: a line without its end is given one.              *)
isolate_partial_tail(p) ==
    /\ At(p, "tail")
    /\ IF reg.open THEN Written(File(reg.lines, FALSE)) ELSE UNCHANGED <<reg, after>>
    /\ Go(p, IF proc[p].known THEN "sync" ELSE "append")
    /\ Holds(p) /\ UNCHANGED <<roots, ns, g, budget>>

(* Until the sync, the disk may keep a part of the appended line.          *)
Appended(line, open) == /\ reg' = File(Append(reg.lines, line), open)
                        /\ after' = after \cup {reg', File(Append(reg.lines, Torn(line.root)), TRUE)}

(* A write that fails in the middle leaves what it wrote.                  *)
AppendFails(p, line) ==
    /\ budget.faults > 0 /\ budget' = [budget EXCEPT !.faults = @ - 1]
    /\ Appended(line, TRUE) /\ End(p)

append_line(p) ==
    /\ At(p, "append")
    /\ \/ Appended(Line(proc[p].root), FALSE) /\ Go(p, "sync") /\ Holds(p) /\ UNCHANGED budget
       \/ AppendFails(p, Torn(proc[p].root))
       \/ AppendFails(p, Line(proc[p].root))
    /\ UNCHANGED <<roots, ns, g>>

(* Mutant: a root that was registered already is not synced again.         *)
mutant_sync_registry(p) ==
    /\ At(p, "sync")
    /\ after' = IF proc[p].known THEN after ELSE {reg}
    /\ Go(p, "move") /\ Holds(p) /\ UNCHANGED <<reg, roots, ns, g, budget>>

(* The registry and its directory are synced also when the line was there: *)
(* the run that wrote it may have died before its sync.                    *)
sync_registry(p) ==
    /\ At(p, "sync")
    /\ \/ after' = {reg} /\ Go(p, "move") /\ Holds(p) /\ UNCHANGED budget
       \/ /\ budget.faults > 0 /\ budget' = [budget EXCEPT !.faults = @ - 1]
          /\ End(p) /\ UNCHANGED after
    /\ UNCHANGED <<reg, roots, ns, g>>

(* The tree is renamed into the root; the move settles later.              *)
stage(p) ==
    /\ At(p, "move")
    /\ IF Vanished(p) THEN UNCHANGED roots
       ELSE roots' = [roots EXCEPT ![Mount(p)].tree = "trash", ![Mount(p)].settled = FALSE]
    /\ End(p) /\ UNCHANGED <<reg, after, ns, g, budget>>

Settles == \E m \in Systems : /\ ~roots[m].settled /\ roots' = [roots EXCEPT ![m].settled = TRUE]
                             /\ UNCHANGED <<reg, after, ns, lock, proc, g, budget>>

-----------------------------------------------------------------------------
(* forget_trash_root.                                                      *)

(* validate_existing_trash_root: a root that is not there, and no other    *)
(* error, is absent.                                                       *)
Absent(m) == ~(roots[m].mounted /\ roots[m].dir)

validate_existing_trash_root(p) ==
    /\ At(p, "validate")
    /\ IF Absent(Mount(p))
       THEN /\ proc' = [proc EXCEPT ![p].pc = "rewrite", ![p].gone = Absent(Mount(p)),
                                    ![p].keep = SelectSeq(reg.lines, LAMBDA line : line.root # proc[p].root)]
            /\ Holds(p)
       ELSE End(p)
    /\ UNCHANGED <<reg, after, roots, ns, g, budget>>

(* rewrite_trash_registry: written beside, synced, renamed over: after a   *)
(* power cut it is the old file or the new one.                            *)
rewrite_trash_registry(p) ==
    /\ At(p, "rewrite")
    /\ \/ /\ reg' = File(proc[p].keep, FALSE)
          /\ after' = after \cup {reg'}
          /\ g' = [g EXCEPT !.forgotten = IF proc[p].gone THEN @ \cup {proc[p].root} ELSE @]
          /\ Go(p, "sync_forget") /\ Holds(p) /\ UNCHANGED budget
       \/ /\ budget.faults > 0 /\ budget' = [budget EXCEPT !.faults = @ - 1]
          /\ End(p) /\ UNCHANGED <<reg, after, g>>
    /\ UNCHANGED <<roots, ns>>

sync_forget(p) == /\ At(p, "sync_forget")
                  /\ after' = {reg} /\ End(p)
                  /\ UNCHANGED <<reg, roots, ns, g, budget>>

(* trash_roots, by a listing that takes no lock: the registry is read ...  *)
read_for_listing(p) ==
    /\ At(p, "idle") /\ budget.ops > 0 /\ budget' = [budget EXCEPT !.ops = @ - 1]
    /\ read_registered_trash_roots(reg)
    /\ proc' = [proc EXCEPT ![p] = [Idle EXCEPT !.keep = reg.lines, !.pc = "list",
                                               !.owed = {m \in Systems : roots[m].mounted /\ roots[m].tree = "trash"}]]
    /\ UNCHANGED <<reg, after, roots, ns, lock, g>>

Spelled(lines) == {lines[i].root : i \in DOMAIN lines} \cup {<<Home, "plain">>}

(* Mutant: every spelling is a root of its own.                            *)
mutant_trash_roots(p) ==
    /\ At(p, "list")
    /\ proc' = [proc EXCEPT ![p].pc = "listed", ![p].listed = {r \in Spelled(proc[p].keep) : ~Absent(Canonical(r))}]
    /\ UNCHANGED <<reg, after, roots, ns, lock, g, budget>>

(* ... and every root that is there listed, under its first spelling.      *)
trash_roots(p) ==
    /\ At(p, "list")
    /\ LET lines == <<Line(<<Home, "plain">>)>> \o proc[p].keep
           there == {i \in DOMAIN lines : ~Absent(Canonical(lines[i].root))}
           first == {i \in there : ~\E j \in there : j < i /\ Canonical(lines[j].root) = Canonical(lines[i].root)}
       IN  proc' = [proc EXCEPT ![p].pc = "listed", ![p].listed = {lines[i].root : i \in first}]
    /\ UNCHANGED <<reg, after, roots, ns, lock, g, budget>>

listed(p) == At(p, "listed") /\ End(p) /\ UNCHANGED <<reg, after, roots, ns, g, budget>>

-----------------------------------------------------------------------------
(* A file system is unmounted or mounted again; a process dies; the power  *)
(* is cut.                                                                 *)
Remount == \E m \in Mounts :
              /\ budget.mounts > 0 /\ budget' = [budget EXCEPT !.mounts = @ - 1]
              /\ roots' = [roots EXCEPT ![m].mounted = ~@]
              /\ proc' = [p \in Processes |-> [proc[p] EXCEPT !.owed = @ \ {m}]]
              /\ UNCHANGED <<reg, after, ns, lock, g>>

Killed(p) == /\ ~At(p, "idle") /\ budget.faults > 0 /\ budget' = [budget EXCEPT !.faults = @ - 1]
             /\ End(p) /\ UNCHANGED <<reg, after, roots, ns, g>>

(* A tree whose move or whose root's name was not on the disk yet is at    *)
(* home, in the trash, or, with the name gone and the move done, nowhere.  *)
LeftOf(r) == {[r EXCEPT !.dir = b, !.bound = b, !.settled = TRUE, !.tree = t] :
                 b \in IF r.bound THEN {r.dir} ELSE {FALSE, r.dir},
                 t \in IF r.settled THEN {r.tree} ELSE {"source", r.tree}}
Lost(r) == IF r.tree = "trash" /\ ~r.dir THEN [r EXCEPT !.tree = "lost"] ELSE r

PowerCut ==
    /\ budget.faults > 0 /\ budget' = [budget EXCEPT !.faults = @ - 1]
    /\ reg' \in after
    /\ after' = {reg'}
    /\ \E left \in [Systems -> UNION {LeftOf(roots[m]) : m \in Systems}] :
          /\ \A m \in Systems : left[m] \in LeftOf(roots[m])
          /\ roots' = [m \in Systems |-> Lost(left[m])]
    /\ proc' = [p \in Processes |-> Idle] /\ lock' = "free"
    /\ g' = [g EXCEPT !.forgotten = {r \in @ : r \notin Registered(reg')}]
    /\ UNCHANGED ns

Run(p) == \/ Begins(p) \/ narrow_private_entries(p) \/ ensure_state_parent(p) \/ acquire_mutation_lock(p)
          \/ resolve_trash_dir(p) \/ ensure_managed_trash_root(p) \/ sync_root(p) \/ read_registry(p)
          \/ isolate_partial_tail(p) \/ append_line(p)
          \/ sync_registry(p) \/ stage(p) \/ validate_existing_trash_root(p) \/ rewrite_trash_registry(p)
          \/ sync_forget(p) \/ read_for_listing(p) \/ trash_roots(p) \/ listed(p) \/ Killed(p)

Next == (\E p \in Processes : Run(p)) \/ Settles \/ Remount \/ PowerCut

Spec == Init /\ [][Next]_vars

-----------------------------------------------------------------------------
(* Properties.                                                             *)

(* Every variable stays in its set.                                        *)
TypeOK == /\ reg \in after \/ Cardinality(after) > 1
          /\ lock \in Processes \cup {"free"}
          /\ ns.exposed \subseteq Files
          /\ \A p \in Processes : proc[p].pc \notin {"idle", "narrow", "widen", "lock", "list", "listed"} <=> lock = p

(* A tree in a trash root is findable whatever happens: the root is in the *)
(* registry, on the disk too, unless the user had it forgotten while it    *)
(* was absent.                                                             *)
NothingOrphaned ==
    \A m \in Mounts : roots[m].tree = "trash" =>
        \A file \in after \cup {reg} :
            \E r \in Spellings : Canonical(r) = m /\ (r \in Registered(file) \/ r \in g.forgotten)

(* No tree vanishes with the root it was moved to.                         *)
NothingLost == \A m \in Systems : roots[m].tree # "lost"

(* A listing names every root that was there and held a tree when it       *)
(* began, under one spelling, unless it was unmounted or forgotten.        *)
ListingIsComplete ==
    \A p \in Processes : At(p, "listed") =>
        /\ \A r, s \in proc[p].listed : Canonical(r) = Canonical(s) => r = s
        /\ \A m \in proc[p].owed :
              \E r \in proc[p].listed \cup g.forgotten : Canonical(r) = m

(* The namespace is readable by others only once every file in it is       *)
(* private.                                                                *)
NothingExposed == ns.published => ns.exposed = {}

(* "a torn append is handled by sealing the partial tail on the next       *)
(* write" (rewrite_trash_registry): what an interrupted registration left  *)
(* never makes a later one refuse.                                         *)
TornAppendIsHandled == ~g.refused
=============================================================================
