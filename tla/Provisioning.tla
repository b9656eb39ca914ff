---------------------------- MODULE Provisioning ----------------------------
(***************************************************************************)
(* degu-core/src/provision/: how the self-managed activation anchor comes  *)
(* into being below the account's home: .local/state, degu, its private    *)
(* lock, store-activation and the leaf of the uid.  Every directory is     *)
(* made under a private name, completed, synced and renamed into place     *)
(* without replacing anything; the last two are made under the lock and    *)
(* taken back when the call fails.  Several calls run at once, calls fail, *)
(* processes die, the power goes, and other programs move directories.     *)
(***************************************************************************)
EXTENDS Naturals, Sequences, FiniteSets

CONSTANTS Processes,
          Existing,       \* how many of the directories may be there at first
          Accounts,       \* how the account may be found: in this libc, by the resolvers
          MaxCalls,       \* calls started
          MaxFaults,      \* failing system calls
          MaxCuts,        \* processes killed, power cuts
          MaxMeddling,    \* steps of other programs
          MaxObjects      \* directories ever made

VARIABLES ent, dent,      \* directory entries: as seen, as on the disk
          mode, dmode,    \* permissions: as seen, as on the disk
          owner,          \* ghost: the process whose running call made the directory
          lock,           \* who holds the flock on each directory
          acct,           \* the account database as this process can ask it
          proc, g, budget

vars == <<ent, dent, mode, dmode, owner, lock, acct, proc, g, budget>>
files == <<ent, dent, mode, dmode>>

Objects == 0 .. MaxObjects               \* 0 is the account's home
Order == <<"state", "degu", "lock", "store", "leaf">>
Names == {Order[i] : i \in DOMAIN Order}
Chain == <<"state", "degu", "store", "leaf">>
ParentOf == [state |-> "home", degu |-> "state", lock |-> "degu", store |-> "degu", leaf |-> "store"]
Scaffold == {"state", "degu", "lock"}    \* never rolled back once published
NoOne == "no one"

Entry(dir, name, o) == [dir |-> dir, name |-> name, obj |-> o]
At(dir, name) == {e.obj : e \in {x \in ent : x.dir = dir /\ x.name = name}}
Linked(o) == o = 0 \/ \E e \in ent : e.obj = o
Empty(o) == ~\E e \in ent : e.dir = o
Fresh == Cardinality({o \in Objects : mode[o] # "none"})

Idle == [st |-> "idle", i |-> 1, temp |-> 0, held |-> [n \in Names \cup {"home"} |-> 0], new |-> {},
         target |-> "", k |-> 1, residue |-> {}, result |-> "none", quiet |-> FALSE,
         checked |-> FALSE,     \* the directory to remove was found under its name
         swapped |-> FALSE]     \* ghost: and another program moved something since

Init == /\ \E k \in Existing :
              /\ ent = {Entry(j - 1, Order[j], j) : j \in 1 .. k}
              /\ mode = [o \in Objects |-> IF o = 2 /\ k = 2 THEN "public" ELSE IF o <= k THEN "private" ELSE "none"]
        /\ dent = ent /\ dmode = mode
        /\ owner = [o \in Objects |-> NoOne]
        /\ lock = [o \in Objects |-> NoOne]
        /\ \E a \in Accounts : acct = [libc |-> a.libc, tools |-> a.tools, moved |-> FALSE]
        /\ proc = [p \in Processes |-> Idle]
        /\ g = [meddled |-> FALSE, foreign |-> FALSE, leaves |-> {}, created |-> 0]
        /\ budget = [calls |-> MaxCalls, faults |-> MaxFaults, cuts |-> MaxCuts, meddling |-> MaxMeddling]

-----------------------------------------------------------------------------
(* account.rs: the home of the uid.  A build that cannot load the host's   *)
(* name services asks the host's own resolver, at the first path that has  *)
(* one; an outage is not an answer.                                        *)

(* Mutant: a resolver that cannot answer is passed over.                   *)
mutant_delegated_home_dir(tools) ==
    IF \E i \in DOMAIN tools : tools[i] = "home" THEN "home" ELSE "missing"

delegated_home_dir(tools) ==
    LET installed == {i \in DOMAIN tools : tools[i] # "absent"}
    IN  IF installed = {} THEN "missing"
        ELSE LET first == CHOOSE i \in installed : \A j \in installed : i <= j
             IN  IF tools[first] = "home" THEN "home" ELSE "unavailable"

passwd_home_dir == IF acct.libc = "home" THEN "home" ELSE delegated_home_dir(acct.tools)

(* The home path, or why there is none; a moved account is another path.   *)
self_anchor_base == IF passwd_home_dir = "home" /\ acct.moved THEN "elsewhere" ELSE passwd_home_dir

-----------------------------------------------------------------------------
(* Steps of a call.                                                        *)

Set(p, rec) == proc' = [proc EXCEPT ![p] = rec]
Name(p) == Order[proc[p].i]
Dir(p) == proc[p].held[ParentOf[Name(p)]]
Is(p, step) == proc[p].st = step

Sync(dir, entries, modes) ==
    /\ dent' = {e \in dent : e.dir # dir} \cup {e \in entries : e.dir = dir}
    /\ dmode' = [dmode EXCEPT ![dir] = modes[dir]]

(* validate_directory: what each kind asks of an existing directory.       *)
validate_directory(n, o) == CASE n \in {"degu", "store"} -> mode[o] = "public"
                              [] n \in {"lock", "leaf"} -> mode[o] = "private"
                              [] OTHER -> TRUE

validate_binding(p, n) == At(proc[p].held[ParentOf[n]], n) = {proc[p].held[n]}

ModeOf(n) == IF n \in {"degu", "store"} THEN "public" ELSE "private"

(* Mutant: the leaf is one more component to go below.                     *)
mutant_Advance(p, o, made) == Set(p, [proc[p] EXCEPT !.held[Name(p)] = o, !.temp = 0, !.st = "lookup", !.i = @ + 1])

(* The step after the directory Name(p) is there: made here or found.      *)
Advance(p, o, made) ==
    LET n == Name(p)
        now == [proc[p] EXCEPT !.held[n] = o, !.temp = 0,
                               !.new = IF made THEN @ \cup {n} ELSE @]
    IN  CASE n = "lock" -> Set(p, [now EXCEPT !.st = "acquire"])
          [] n = "store" -> Set(p, [now EXCEPT !.st = "gate", !.i = 5])
          [] n = "leaf" -> Set(p, [now EXCEPT !.st = "after_leaf"])
          [] OTHER -> Set(p, [now EXCEPT !.st = "lookup", !.i = @ + 1])

(* A failure outside publication: roll back what may be, then report.      *)
Unwinding(rec, found) == [rec EXCEPT !.st = "rollback", !.residue = @ \cup found]
Fails(p) == Set(p, Unwinding(proc[p], {}))

(* A failure with an initializer: remove it, or name it.                   *)
Cleans(p, name) == Set(p, [proc[p] EXCEPT !.st = "cleanup", !.target = name])

Faulty == budget.faults > 0 /\ budget' = [budget EXCEPT !.faults = @ - 1]

Disowned(ps) == [o \in Objects |-> IF owner[o] \in ps THEN NoOne ELSE owner[o]]

NoisyOthers(p) == [q \in Processes |-> IF q = p THEN proc[q] ELSE [proc[q] EXCEPT !.quiet = FALSE]]

(* The home is looked up and authenticated before anything is made.        *)
provision_current_euid_self(p) ==
    /\ proc[p].st \in {"idle", "done"} /\ budget.calls > 0
    /\ budget' = [budget EXCEPT !.calls = @ - 1]
    /\ LET alone == \A q \in Processes \ {p} : proc[q].st \in {"idle", "done"}
           base == self_anchor_base
       IN  proc' = [NoisyOthers(p) EXCEPT ![p] =
                      [Idle EXCEPT !.quiet = alone /\ ~g.meddled,
                                   !.st = IF base = "home" THEN "lookup" ELSE "done",
                                   !.result = IF base = "home" THEN "none"
                                              ELSE IF base = "missing" THEN "missing" ELSE "failed",
                                   !.quiet = @ /\ base = "home"]]
    /\ owner' = Disowned({p})
    /\ UNCHANGED <<files, lock, acct, g>>

(* Mutant: a directory that was there is taken for one made here.          *)
mutant_lookup(p) ==
    /\ Is(p, "lookup")
    /\ \/ At(Dir(p), Name(p)) = {} /\ Set(p, [proc[p] EXCEPT !.st = "mkdir"])
       \/ \E o \in At(Dir(p), Name(p)) : Advance(p, o, TRUE)
    /\ UNCHANGED <<files, owner, lock, acct, g, budget>>

(* open_or_publish_directory: an existing directory is used as it is.      *)
lookup(p) ==
    /\ Is(p, "lookup")
    /\ \/ At(Dir(p), Name(p)) = {} /\ Set(p, [proc[p] EXCEPT !.st = "mkdir"])
       \/ \E o \in At(Dir(p), Name(p)) :
             IF validate_directory(Name(p), o) THEN Advance(p, o, FALSE) ELSE Fails(p)
    /\ UNCHANGED <<files, owner, lock, acct, g, budget>>

mkdir_temp(p) ==
    /\ Is(p, "mkdir") /\ Fresh <= MaxObjects
    /\ IF Linked(Dir(p))
       THEN /\ ent' = ent \cup {Entry(Dir(p), "temp", Fresh)}
            /\ mode' = [mode EXCEPT ![Fresh] = "private"]
            /\ dmode' = [dmode EXCEPT ![Fresh] = "private"]
            /\ owner' = [owner EXCEPT ![Fresh] = p]
            /\ Set(p, [proc[p] EXCEPT !.st = "initialize", !.temp = Fresh])
       ELSE Fails(p) /\ UNCHANGED <<ent, mode, dmode, owner>>
    /\ UNCHANGED <<dent, lock, acct, g, budget>>

(* fchmod, then the checks on the completed directory.                     *)
initialize(p) ==
    /\ Is(p, "initialize")
    /\ mode' = [mode EXCEPT ![proc[p].temp] = ModeOf(Name(p))]
    /\ Set(p, [proc[p] EXCEPT !.st = "sync_temp"])
    /\ UNCHANGED <<ent, dent, dmode, owner, lock, acct, g, budget>>

(* Mutant: the directory is renamed without having been synced.            *)
mutant_sync_temp(p) == /\ Is(p, "sync_temp") /\ Set(p, [proc[p] EXCEPT !.st = "sync_parent"])
                       /\ UNCHANGED <<files, owner, lock, acct, g, budget>>

sync_temp(p) == /\ Is(p, "sync_temp") /\ Sync(proc[p].temp, ent, mode)
                /\ Set(p, [proc[p] EXCEPT !.st = "sync_parent"])
                /\ UNCHANGED <<ent, mode, owner, lock, acct, g, budget>>

sync_parent(p) == /\ Is(p, "sync_parent") /\ Sync(Dir(p), ent, mode)
                  /\ Set(p, [proc[p] EXCEPT !.st = "rename"])
                  /\ UNCHANGED <<ent, mode, owner, lock, acct, g, budget>>

Renamed(p) == (ent \ {Entry(Dir(p), "temp", proc[p].temp)}) \cup {Entry(Dir(p), Name(p), proc[p].temp)}

rename(p) ==
    /\ Is(p, "rename")
    /\ \/ /\ Entry(Dir(p), "temp", proc[p].temp) \in ent /\ At(Dir(p), Name(p)) = {}
          /\ ent' = Renamed(p)
          /\ Set(p, [proc[p] EXCEPT !.st = "sync_final"])
       \/ /\ At(Dir(p), Name(p)) # {}                        \* RenameFlags::NOREPLACE: EEXIST
          /\ Set(p, [proc[p] EXCEPT !.st = "lost_race"]) /\ UNCHANGED ent
       \/ /\ Entry(Dir(p), "temp", proc[p].temp) \notin ent /\ At(Dir(p), Name(p)) = {}
          /\ Cleans(p, "temp") /\ UNCHANGED ent
    /\ UNCHANGED <<dent, mode, dmode, owner, lock, acct, g, budget>>

sync_final(p) == /\ Is(p, "sync_final") /\ Sync(Dir(p), ent, mode)
                 /\ Set(p, [proc[p] EXCEPT !.st = "check_final"])
                 /\ UNCHANGED <<ent, mode, owner, lock, acct, g, budget>>

check_final(p) ==
    /\ Is(p, "check_final")
    /\ IF At(Dir(p), Name(p)) = {proc[p].temp} /\ validate_directory(Name(p), proc[p].temp)
       THEN Advance(p, proc[p].temp, TRUE)
       ELSE Cleans(p, Name(p))
    /\ UNCHANGED <<files, owner, lock, acct, g, budget>>

-----------------------------------------------------------------------------
(* Removal: the directory this call made, and only an empty one.           *)

(* Mutant: whatever has the name is removed.                               *)
mutant_binding_matches(dir, name, o) == At(dir, name) # {}

binding_matches(dir, name, o) == Entry(dir, name, o) \in ent

(* What the name leads to; an initializer's name is random and its own.    *)
Named(dir, name, o) == IF name = "temp" THEN {Entry(dir, name, o)} \cap ent
                       ELSE {e \in ent : e.dir = dir /\ e.name = name}

(* remove_identity_matched_empty, with the records for its two outcomes:   *)
(* the directory under the name is compared with the one this call made,   *)
(* then the name is given to unlinkat, which takes whatever empty          *)
(* directory is there by then; when the sync that follows fails the entry  *)
(* is gone all the same.                                                   *)
remove_identity_matched_empty(p, dir, name, o, removed, left) ==
    LET gone == Named(dir, name, o)
        over(rec) == [rec EXCEPT !.checked = FALSE, !.swapped = FALSE]
    IN  IF ~proc[p].checked
        THEN /\ Set(p, IF binding_matches(dir, name, o) THEN [proc[p] EXCEPT !.checked = TRUE] ELSE left)
             /\ UNCHANGED <<files, g, budget>>
        ELSE IF gone # {} /\ \A e \in gone : Empty(e.obj)
        THEN /\ ent' = ent \ gone
             /\ g' = [g EXCEPT !.foreign = @ \/ (~proc[p].swapped /\ \E e \in gone : owner[e.obj] # p)]
             /\ UNCHANGED mode
             /\ \/ Sync(dir, ent', mode) /\ Set(p, over(removed)) /\ UNCHANGED budget
                \/ Faulty /\ Set(p, [over(left) EXCEPT !.quiet = FALSE]) /\ UNCHANGED <<dent, dmode>>
        ELSE Set(p, over(left)) /\ UNCHANGED <<files, g, budget>>

cleanup_temp_after_failure(p) ==
    /\ Is(p, "cleanup")
    /\ remove_identity_matched_empty(p, Dir(p), proc[p].target, proc[p].temp,
          Unwinding(proc[p], {}), Unwinding(proc[p], {proc[p].target}))
    /\ UNCHANGED <<owner, lock, acct>>

(* Another call was first: this initializer goes, the other's is used.     *)
lost_race(p) ==
    /\ Is(p, "lost_race")
    /\ remove_identity_matched_empty(p, Dir(p), "temp", proc[p].temp,
          [proc[p] EXCEPT !.st = "adopt"], Unwinding(proc[p], {"temp"}))
    /\ UNCHANGED <<owner, lock, acct>>

adopt(p) ==
    /\ Is(p, "adopt")
    /\ LET found == {o \in At(Dir(p), Name(p)) : validate_directory(Name(p), o)}
       IN  \/ \E o \in found : Advance(p, o, FALSE)
           \/ found = {} /\ Fails(p)
    /\ UNCHANGED <<files, owner, lock, acct, g, budget>>

(* rollback_created pops the leaf, then store-activation.                  *)
rollback_created(p) ==
    /\ Is(p, "rollback")
    /\ LET mine == {n \in {"leaf", "store"} : n \in proc[p].new}
           n == IF "leaf" \in mine THEN "leaf" ELSE "store"
           popped == [proc[p] EXCEPT !.new = @ \ {n}]
       IN  /\ mine # {}
           /\ remove_identity_matched_empty(p, proc[p].held[ParentOf[n]], n, proc[p].held[n],
                 popped, [popped EXCEPT !.residue = @ \cup {n}])
    /\ UNCHANGED <<owner, lock, acct>>

Release(p) == lock' = [o \in Objects |-> IF lock[o] = p THEN NoOne ELSE lock[o]]

(* Mutant: the report leaves out the scaffold this call made.              *)
mutant_merge_rollback_residue(rec) == rec.residue

merge_rollback_residue(rec) == rec.residue \cup (rec.new \cap Scaffold)

report_failure(p) ==
    /\ Is(p, "rollback") /\ proc[p].new \cap {"leaf", "store"} = {}
    /\ Set(p, [proc[p] EXCEPT !.st = "done", !.result = IF @ = "missing" THEN @ ELSE "failed",
                              !.residue = merge_rollback_residue(proc[p])])
    /\ Release(p)
    /\ UNCHANGED <<files, owner, acct, g, budget>>

-----------------------------------------------------------------------------
(* The lock, and the gates around the leaf.                                *)

try_acquire(p) ==
    /\ Is(p, "acquire")
    /\ LET o == proc[p].held["lock"]
       IN  IF lock[o] = NoOne
           THEN lock' = [lock EXCEPT ![o] = p] /\ Set(p, [proc[p] EXCEPT !.st = "lock_check"])
           ELSE Fails(p) /\ UNCHANGED lock                                  \* Busy
    /\ UNCHANGED <<files, owner, acct, g, budget>>

lock_check(p) ==
    /\ Is(p, "lock_check")
    /\ IF validate_binding(p, "lock") /\ validate_directory("lock", proc[p].held["lock"])
       THEN Set(p, [proc[p] EXCEPT !.st = "lookup", !.i = 4])
       ELSE Fails(p)
    /\ UNCHANGED <<files, owner, lock, acct, g, budget>>

(* The held parents are the ones the path leads to.                        *)
preflight_runtime_parent(p) == \A n \in {"state", "degu", "store"} : validate_binding(p, n)

Gate(p, here, next) ==
    /\ Is(p, here)
    /\ CASE self_anchor_base = "home" /\ preflight_runtime_parent(p) -> Set(p, next)
         [] self_anchor_base = "missing" -> Set(p, Unwinding([proc[p] EXCEPT !.result = "missing"], {}))
         [] OTHER -> Fails(p)
    /\ UNCHANGED <<files, owner, lock, acct, g, budget>>

revalidate_before_leaf(p) == Gate(p, "gate", [proc[p] EXCEPT !.st = "lookup"])
revalidate_after_leaf(p) == Gate(p, "after_leaf", [proc[p] EXCEPT !.st = "chain", !.k = 1])

validate_chain(p) ==
    /\ Is(p, "chain")
    /\ LET n == Chain[proc[p].k]
       IN  IF validate_binding(p, n) /\ validate_directory(n, proc[p].held[n])
           THEN IF proc[p].k < 4 THEN Set(p, [proc[p] EXCEPT !.k = @ + 1])
                ELSE Set(p, [proc[p] EXCEPT !.st = "sync_chain", !.k = 5])
           ELSE Fails(p)
    /\ UNCHANGED <<files, owner, lock, acct, g, budget>>

(* The leaf, then every parent from the leaf up.                           *)
(* Mutant: only the leaf, as if every parent had been synced when made.    *)
mutant_sync_chain(p) ==
    /\ Is(p, "sync_chain")
    /\ Sync(proc[p].held["leaf"], ent, mode)
    /\ Set(p, [proc[p] EXCEPT !.st = "commit"])
    /\ UNCHANGED <<ent, mode, owner, lock, acct, g, budget>>

sync_chain(p) ==
    /\ Is(p, "sync_chain")
    /\ LET k == proc[p].k
           d == IF k = 5 THEN proc[p].held["leaf"] ELSE proc[p].held[ParentOf[Chain[k]]]
       IN  /\ Sync(d, ent, mode)
           /\ Set(p, IF k > 1 THEN [proc[p] EXCEPT !.k = k - 1] ELSE [proc[p] EXCEPT !.st = "commit"])
    /\ UNCHANGED <<ent, mode, owner, lock, acct, g, budget>>

(* The commit gate; then rollback authority is given up.                   *)
commit_gate(p) == Gate(p, "commit", [proc[p] EXCEPT !.st = "return"])

provisioned(p) ==
    /\ Is(p, "return")
    /\ Set(p, [proc[p] EXCEPT !.st = "done",
                              !.result = IF "leaf" \in proc[p].new THEN "created" ELSE "already"])
    /\ g' = [g EXCEPT !.leaves = @ \cup {proc[p].held["leaf"]},
                      !.created = @ + (IF "leaf" \in proc[p].new THEN 1 ELSE 0)]
    /\ Release(p)
    /\ UNCHANGED <<files, owner, acct, budget>>

Call(p) == \/ provision_current_euid_self(p) \/ lookup(p) \/ mkdir_temp(p) \/ initialize(p) \/ sync_temp(p)
           \/ sync_parent(p) \/ rename(p) \/ sync_final(p) \/ check_final(p)
           \/ cleanup_temp_after_failure(p) \/ lost_race(p) \/ adopt(p) \/ rollback_created(p) \/ report_failure(p)
           \/ try_acquire(p) \/ lock_check(p) \/ revalidate_before_leaf(p) \/ revalidate_after_leaf(p)
           \/ validate_chain(p) \/ sync_chain(p) \/ commit_gate(p) \/ provisioned(p)

-----------------------------------------------------------------------------
(* A system call of the step fails.                                        *)
CallFails(p) ==
    /\ proc[p].st \in {"lookup", "mkdir", "initialize", "sync_temp", "sync_parent", "rename", "sync_final",
                       "check_final", "adopt", "acquire", "lock_check", "gate", "after_leaf", "chain",
                       "sync_chain", "commit"}
    /\ Faulty
    /\ LET noisy == [proc[p] EXCEPT !.quiet = FALSE]
       IN  CASE proc[p].st = "initialize" ->
                  \/ Set(p, Unwinding(noisy, {"temp"}))               \* opening it, its birth identity
                  \/ Set(p, [noisy EXCEPT !.st = "cleanup", !.target = "temp"])
             [] proc[p].st \in {"sync_temp", "sync_parent", "rename"} ->
                  Set(p, [noisy EXCEPT !.st = "cleanup", !.target = "temp"])
             [] proc[p].st \in {"sync_final", "check_final"} ->
                  Set(p, [noisy EXCEPT !.st = "cleanup", !.target = Name(p)])
             [] OTHER -> Set(p, Unwinding(noisy, {}))
    /\ UNCHANGED <<files, owner, lock, acct, g>>

(* A process is killed.                                                    *)
Killed(p) == /\ proc[p].st \notin {"idle", "done"}
             /\ budget.cuts > 0 /\ budget' = [budget EXCEPT !.cuts = @ - 1]
             /\ Set(p, Idle) /\ Release(p) /\ owner' = Disowned({p})
             /\ UNCHANGED <<files, acct, g>>

(* The power goes.  Of the changes not synced any part is on the disk; a   *)
(* rename is there or not, and a name leads to one directory.              *)
PowerCut ==
    /\ budget.cuts > 0 /\ budget' = [budget EXCEPT !.cuts = @ - 1]
    /\ \E kept \in SUBSET ((ent \ dent) \cup (dent \ ent)) :
          LET now == (ent \cap dent) \cup kept
          IN  /\ \A e, f \in now : e.dir = f.dir /\ e.name = f.name /\ e.name \in Names => e = f
              /\ \A e \in ent \ dent, f \in dent \ ent : e.obj = f.obj => (e \in kept <=> f \notin kept)
              /\ ent' = now /\ dent' = now
    /\ \E lost \in SUBSET {o \in Objects : mode[o] # dmode[o]} :
          /\ mode' = [o \in Objects |-> IF o \in lost THEN dmode[o] ELSE mode[o]]
          /\ dmode' = mode'
    /\ proc' = [p \in Processes |-> IF proc[p].st = "done" THEN proc[p] ELSE Idle]
    /\ lock' = [o \in Objects |-> NoOne] /\ owner' = [o \in Objects |-> NoOne]
    /\ UNCHANGED <<acct, g>>

(* Other programs: a directory is moved aside and perhaps another put in   *)
(* its place, permissions change, the account moves or its service fails.  *)
Meddles == /\ budget.meddling > 0 /\ budget' = [budget EXCEPT !.meddling = @ - 1]
           /\ g' = [g EXCEPT !.meddled = TRUE]
           /\ proc' = [p \in Processes |-> [proc[p] EXCEPT !.quiet = FALSE, !.swapped = proc[p].checked]]
           /\ UNCHANGED lock

Moved == \E e \in ent, replaced \in BOOLEAN :
            /\ Meddles /\ e.name \in Names /\ (replaced => Fresh <= MaxObjects)
            /\ LET aside == (ent \ {e}) \cup {Entry(0, "aside", e.obj)}
               IN  ent' = IF replaced THEN aside \cup {Entry(e.dir, e.name, Fresh)} ELSE aside
            /\ mode' = IF replaced THEN [mode EXCEPT ![Fresh] = ModeOf(e.name)] ELSE mode
            /\ dmode' = IF replaced THEN [dmode EXCEPT ![Fresh] = ModeOf(e.name)] ELSE dmode
            /\ UNCHANGED <<dent, owner, acct>>

Chmod == \E e \in ent : /\ Meddles /\ e.name \in Names
                        /\ mode' = [mode EXCEPT ![e.obj] = IF @ = "public" THEN "private" ELSE "public"]
                        /\ UNCHANGED <<ent, dent, dmode, owner, acct>>

AccountChanges == /\ Meddles
                  /\ \/ acct' = [acct EXCEPT !.moved = TRUE]
                     \/ \E i \in {1, 2} : acct.tools[i] = "home" /\ acct' = [acct EXCEPT !.tools[i] = "outage"]
                  /\ UNCHANGED <<files, owner>>

(* The running program claims the anchor as soon as it finds it.           *)
Claimed == /\ budget.meddling > 0 /\ budget' = [budget EXCEPT !.meddling = @ - 1]
           /\ \E e \in ent : e.name = "leaf" /\ ent' = ent \cup {Entry(e.obj, "claim", 0)}
           /\ UNCHANGED <<dent, mode, dmode, owner, lock, acct, proc, g>>

Next == \/ \E p \in Processes : Call(p) \/ CallFails(p) \/ Killed(p)
        \/ PowerCut \/ Moved \/ Chmod \/ AccountChanges \/ Claimed

Spec == Init /\ [][Next]_vars

-----------------------------------------------------------------------------
(* Properties.                                                             *)

(* Every variable stays in its set, and nothing has two entries.           *)
TypeOK == /\ mode \in [Objects -> {"none", "private", "public"}]
          /\ \A o \in Objects : lock[o] \in Processes \cup {NoOne} /\ owner[o] \in Processes \cup {NoOne}
          /\ \A e, f \in ent : e.dir = f.dir /\ e.name = f.name /\ e.name \in Names => e = f
          /\ \A p \in Processes : proc[p].i \in DOMAIN Order /\ proc[p].result \in {"none", "created", "already", "failed", "missing"}

OnDisk(n, o, parent) == Entry(parent, n, o) \in dent /\ (n \in {"degu", "store"} => dmode[o] = "public")

(* A call that reported the anchor as there has the whole path on the      *)
(* disk, with its permissions, also when another call made part of it and  *)
(* had not synced it yet (sync_directory over the chain).                  *)
SuccessIsDurable ==
    ~g.meddled => \A leaf \in g.leaves : \E s, d, a \in Objects :
        OnDisk("state", s, 0) /\ OnDisk("degu", d, s) /\ OnDisk("store", a, d) /\ OnDisk("leaf", leaf, a)

(* However many calls run at once or again, after failures and crashes,    *)
(* they report one leaf, and one of them at most says that it made it      *)
(* (NOREPLACE, the provisioning lock).                                     *)
OneAnchor == ~g.meddled => Cardinality(g.leaves) <= 1 /\ g.created <= 1

(* No earlier crash, failure or lost race leaves something behind that a   *)
(* later undisturbed call refuses (the scaffold is accepted idempotently). *)
RetrySucceeds == \A p \in Processes : proc[p].st = "done" /\ proc[p].quiet => proc[p].result \in {"created", "already"}

(* Taking back removes only directories this very call made, whatever was  *)
(* moved under their names up to the comparison that precedes unlinkat     *)
(* (remove_identity_matched_empty); unlinkat itself takes a name.          *)
RemovesOnlyItsOwn == ~g.foreign

(* A call that fails names every directory it made and left                *)
(* (RollbackResidue).                                                      *)
FailureNamesWhatIsLeft ==
    \A p \in Processes : proc[p].st = "done" /\ proc[p].result \in {"failed", "missing"} =>
        \A e \in ent : owner[e.obj] = p /\ e.name \in Names \cup {"temp"} => e.name \in proc[p].residue

(* An account served by the host's resolver is never reported as missing   *)
(* because the resolver could not answer (ResolverUnavailable).            *)
OutageIsNotAbsence == \A p \in Processes : proc[p].result # "missing"
=============================================================================
