---------------------------- MODULE RelocateInit ----------------------------
(***************************************************************************)
(* commands/relocate/init.rs: degu relocate --init makes the target        *)
(* directory and the cache roots below it, writes a CACHEDIR.TAG into each *)
(* root it made, and takes everything back, newest first, when a later     *)
(* step fails.  Two runs work on one target while another program of the   *)
(* user moves, replaces and fills directories.                             *)
(***************************************************************************)
EXTENDS Naturals, Sequences, FiniteSets

CONSTANTS Processes, MaxFaults, MaxMeddling, MaxObjects

VARIABLES ent,        \* directory entries
          kind,       \* of every object: "dir", a file's content, or not yet made
          owner,      \* ghost: the run that made the object
          proc, g, budget

vars == <<ent, kind, owner, proc, g, budget>>

Objects == 0 .. MaxObjects                          \* 0 is the trusted parent of the target
NoOne == "no one"
Entry(dir, name, o) == [dir |-> dir, name |-> name, obj |-> o]
At(dir, name) == {e.obj : e \in {x \in ent : x.dir = dir /\ x.name = name}}
Linked(o) == o = 0 \/ \E e \in ent : e.obj = o
Empty(o) == ~\E e \in ent : e.dir = o
Fresh == Cardinality({o \in Objects : kind[o] # "none"})

(* The plan: components of each root below the target, after               *)
(* validate_subdirs; two roots share their first component.                *)
relocation_plan == <<<<"d", "r1">>, <<"d", "r2">>>>
Names == {"base", "d", "r1", "r2", "tag"}

Made(tree, o) == IF \E e \in tree : e.obj = o
                 THEN IF \E e \in tree : e.obj = o /\ e.name = "tag" THEN "tag" ELSE "dir"
                 ELSE IF o = 0 THEN "dir" ELSE "none"

(* Nothing, an empty target, a root of an earlier run, an untagged one.    *)
Trees == {{}, {Entry(0, "base", 1)},
          {Entry(0, "base", 1), Entry(1, "d", 2), Entry(2, "r1", 3), Entry(3, "tag", 4)},
          {Entry(0, "base", 1), Entry(1, "d", 2), Entry(2, "r1", 3)}}

Idle == [st |-> "start", r |-> 1, c |-> 1, cur |-> 0, base |-> 0, created |-> <<>>, exact |-> FALSE,
         report |-> {}, residue |-> {}, result |-> "none"]

Init == /\ ent \in Trees
        /\ kind = [o \in Objects |-> Made(ent, o)]
        /\ owner = [o \in Objects |-> NoOne]
        /\ proc = [p \in Processes |-> Idle]
        /\ g = [meddled |-> FALSE, late |-> {}, window |-> FALSE, foreign |-> FALSE]
        /\ budget = [faults |-> MaxFaults, meddling |-> MaxMeddling]

-----------------------------------------------------------------------------
Is(p, step) == proc[p].st = step
Set(p, rec) == proc' = [proc EXCEPT ![p] = rec]
Fails(p) == Set(p, [proc[p] EXCEPT !.st = "rollback"])
Keeps == UNCHANGED <<ent, kind, owner, g, budget>>

IsDirectory(o) == kind[o] = "dir"       \* real, owned by the user, not shared-writable

Path(p) == relocation_plan[proc[p].r]
Name(p) == IF Is(p, "base") \/ proc[p].base = 0 THEN "base" ELSE Path(p)[proc[p].c]

(* The walk has reached directory o.                                       *)
Descend(p, o, made) ==
    IF proc[p].base = 0
    THEN Set(p, [proc[p] EXCEPT !.base = o, !.cur = o, !.st = IF made THEN "walk" ELSE "preflight"])
    ELSE IF proc[p].c < Len(Path(p))
    THEN Set(p, [proc[p] EXCEPT !.cur = o, !.c = @ + 1, !.st = "walk"])
    ELSE Set(p, [proc[p] EXCEPT !.cur = o, !.exact = made, !.st = "tag"])

(* open_trusted_parent: the parent is held; then the target is looked up.  *)
obtain_base(p) ==
    /\ Is(p, "start")
    /\ IF At(0, "base") = {} THEN Set(p, [proc[p] EXCEPT !.st = "mkdir"])
       ELSE \E o \in At(0, "base") : IF IsDirectory(o) THEN Descend(p, o, FALSE) ELSE Fails(p)
    /\ Keeps

HasTag(o) == \E t \in At(o, "tag") : kind[t] = "tag"

(* Where a relative path leads below the target; {} when something is      *)
(* missing.                                                                *)
Reached(base, path) == UNION {At(o, path[2]) : o \in At(base, path[1])}

(* Every root that is there has to carry its tag before anything is made.  *)
preflight_roots(p) ==
    /\ Is(p, "preflight")
    /\ IF \A i \in DOMAIN relocation_plan : \A o \in Reached(proc[p].base, relocation_plan[i]) : HasTag(o)
       THEN Set(p, [proc[p] EXCEPT !.st = "walk"])
       ELSE Fails(p)
    /\ Keeps

open_existing_directory(p) ==
    /\ Is(p, "walk")
    /\ IF At(proc[p].cur, Name(p)) = {} THEN Set(p, [proc[p] EXCEPT !.st = "mkdir"])
       ELSE \E o \in At(proc[p].cur, Name(p)) : IF IsDirectory(o) THEN Descend(p, o, FALSE) ELSE Fails(p)
    /\ Keeps

Record(p, o) == Append(proc[p].created, [dir |-> proc[p].cur, name |-> Name(p), obj |-> o])

(* create_directory: mkdirat under a private umask, noted before anything  *)
(* is known of it ...                                                      *)
mkdir_private_at(p) ==
    /\ Is(p, "mkdir") /\ Fresh <= MaxObjects
    /\ \/ /\ ~Linked(proc[p].cur) /\ Fails(p) /\ UNCHANGED <<ent, kind, owner>>
       \/ /\ Linked(proc[p].cur) /\ At(proc[p].cur, Name(p)) # {}                        \* EEXIST
          /\ Set(p, [proc[p] EXCEPT !.st = "adopt"]) /\ UNCHANGED <<ent, kind, owner>>
       \/ /\ Linked(proc[p].cur) /\ At(proc[p].cur, Name(p)) = {}
          /\ ent' = ent \cup {Entry(proc[p].cur, Name(p), Fresh)}
          /\ kind' = [kind EXCEPT ![Fresh] = "dir"]
          /\ owner' = [owner EXCEPT ![Fresh] = p]
          /\ Set(p, [proc[p] EXCEPT !.st = "identify", !.created = Record(p, 0)])       \* record_unknown
    /\ UNCHANGED <<g, budget>>

(* ... or, when another program was faster, taken as it is.                *)
adopt_directory(p) ==
    /\ Is(p, "adopt")
    /\ LET found == {o \in At(proc[p].cur, Name(p)) : IsDirectory(o)}
       IN  \/ \E o \in found : Descend(p, o, FALSE)
           \/ found = {} /\ Fails(p)
    /\ Keeps

(* ... then identified through its name, ...                               *)
set_identity(p) ==
    /\ Is(p, "identify")
    /\ LET found == {o \in At(proc[p].cur, Name(p)) : kind[o] = "dir"}
       IN  \/ \E o \in found : Set(p, [proc[p] EXCEPT !.st = "open",
                                          !.created[Len(proc[p].created)].obj = o])
           \/ found = {} /\ Fails(p)
    /\ Keeps

(* ... opened, given its mode, and compared.                               *)
open_created_directory(p) ==
    /\ Is(p, "open")
    /\ LET o == proc[p].created[Len(proc[p].created)].obj
       IN  IF At(proc[p].cur, Name(p)) = {o} THEN Descend(p, o, TRUE) ELSE Fails(p)
    /\ Keeps

(* Mutant: a root without a tag is tagged whoever made it.                 *)
mutant_initialize_root(p) == proc[p].exact \/ ~HasTag(proc[p].cur)

(* Whether the root gets a tag or has to have one.                         *)
initialize_root(p) == proc[p].exact

(* create_tag: O_EXCL, identified through the descriptor; written later.   *)
create_tag(p) ==
    /\ Is(p, "tag") /\ initialize_root(p) /\ Fresh <= MaxObjects
    /\ IF Linked(proc[p].cur) /\ At(proc[p].cur, "tag") = {}
       THEN /\ ent' = ent \cup {Entry(proc[p].cur, "tag", Fresh)}
            /\ kind' = [kind EXCEPT ![Fresh] = "blank"]
            /\ owner' = [owner EXCEPT ![Fresh] = p]
            /\ Set(p, [proc[p] EXCEPT !.st = "write",
                          !.created = Append(@, [dir |-> proc[p].cur, name |-> "tag", obj |-> Fresh])])
       ELSE Fails(p) /\ UNCHANGED <<ent, kind, owner>>
    /\ UNCHANGED <<g, budget>>

(* Mutant: the last root is not recognised.                                *)
mutant_Reported(p, how) ==
    [proc[p] EXCEPT !.report = @ \cup {<<proc[p].r, how>>}, !.cur = proc[p].base, !.c = 1, !.r = @ + 1, !.st = "walk"]

Reported(p, how) ==
    LET next == [proc[p] EXCEPT !.report = @ \cup {<<proc[p].r, how>>}, !.cur = proc[p].base, !.c = 1, !.r = @ + 1]
    IN  IF proc[p].r = Len(relocation_plan)
        THEN [next EXCEPT !.st = "revalidate", !.r = proc[p].r]
        ELSE [next EXCEPT !.st = "walk"]

write_all(p) == /\ Is(p, "write")
                /\ kind' = [kind EXCEPT ![proc[p].created[Len(proc[p].created)].obj] = "tag"]
                /\ Set(p, Reported(p, "initialized"))
                /\ UNCHANGED <<ent, owner, g, budget>>

validate_existing_tag(p) ==
    /\ Is(p, "tag") /\ ~initialize_root(p)
    /\ IF HasTag(proc[p].cur) THEN Set(p, Reported(p, "already")) ELSE Fails(p)
    /\ Keeps

(* Mutant: the report is printed for whatever the path leads to.           *)
mutant_revalidate_target_binding(p) ==
    /\ Is(p, "revalidate")
    /\ Set(p, [proc[p] EXCEPT !.st = "print", !.result = "committed"])
    /\ Keeps

(* The target still names the directory that was initialized; from here on *)
(* nothing is taken back.                                                  *)
revalidate_target_binding(p) ==
    /\ Is(p, "revalidate")
    /\ IF At(0, "base") = {proc[p].base} /\ kind[proc[p].base] = "dir"
       THEN Set(p, [proc[p] EXCEPT !.st = "print", !.result = "committed"])
       ELSE Fails(p)
    /\ Keeps

print_report(p) == /\ Is(p, "print") /\ Set(p, [proc[p] EXCEPT !.st = "done"])
                   /\ Keeps

(* Mutant: a report that cannot be written takes the roots back.           *)
mutant_ReportFails(p) == Fails(p)

(* A report that cannot be written leaves the roots.                       *)
ReportFails(p) == Set(p, [proc[p] EXCEPT !.st = "done"])

-----------------------------------------------------------------------------
(* Transaction::rollback.                                                  *)

Popped(p) == SubSeq(proc[p].created, 1, Len(proc[p].created) - 1)
Left(p, name) == [proc[p] EXCEPT !.created = Popped(p), !.residue = @ \cup {name}]

(* Mutant: whatever has the name is removed.                               *)
mutant_RollbackMatches(last) == At(last.dir, last.name) # {}

RollbackMatches(last) == At(last.dir, last.name) = {last.obj}

(* What cannot be identified, was exchanged or is not empty stays and is   *)
(* named; what is gone is gone.                                            *)
rollback(p) ==
    /\ Is(p, "rollback") /\ proc[p].created # <<>>
    /\ LET last == proc[p].created[Len(proc[p].created)]
           there == At(last.dir, last.name)
           gone == {e \in ent : e.dir = last.dir /\ e.name = last.name}
       IN  CASE last.obj = 0 -> Set(p, Left(p, last.name)) /\ UNCHANGED <<ent, g>>
             [] last.obj # 0 /\ there = {} -> Set(p, [proc[p] EXCEPT !.created = Popped(p)]) /\ UNCHANGED <<ent, g>>
             [] last.obj # 0 /\ there # {} /\ ~(RollbackMatches(last) /\ \A o \in there : Empty(o)) ->
                  Set(p, Left(p, last.name)) /\ UNCHANGED <<ent, g>>
             [] OTHER -> /\ ent' = ent \ gone
                         /\ Set(p, [proc[p] EXCEPT !.created = Popped(p)])
                         /\ g' = [g EXCEPT !.foreign = @ \/ \E o \in there : owner[o] # p]
    /\ UNCHANGED <<kind, owner, budget>>

(* Mutant: the names are dropped once everything was tried.                *)
mutant_rolled_back(p) ==
    /\ Is(p, "rollback") /\ proc[p].created = <<>>
    /\ Set(p, [proc[p] EXCEPT !.st = "done", !.result = "failed", !.residue = {}])
    /\ Keeps

rolled_back(p) ==
    /\ Is(p, "rollback") /\ proc[p].created = <<>>
    /\ Set(p, [proc[p] EXCEPT !.st = "done", !.result = "failed"])
    /\ Keeps

Run(p) == \/ obtain_base(p) \/ preflight_roots(p) \/ open_existing_directory(p) \/ mkdir_private_at(p)
          \/ adopt_directory(p) \/ set_identity(p) \/ open_created_directory(p) \/ create_tag(p)
          \/ write_all(p) \/ validate_existing_tag(p) \/ revalidate_target_binding(p) \/ print_report(p) \/ rollback(p) \/ rolled_back(p)

(* A system call fails.  A failing unlink leaves its object.               *)
CallFails(p) ==
    /\ proc[p].st \notin {"done", "start"} /\ budget.faults > 0
    /\ budget' = [budget EXCEPT !.faults = @ - 1]
    /\ CASE Is(p, "rollback") -> /\ proc[p].created # <<>>
                                 /\ Set(p, Left(p, proc[p].created[Len(proc[p].created)].name))
         [] Is(p, "print") -> ReportFails(p)
         [] OTHER -> Fails(p)
    /\ UNCHANGED <<ent, kind, owner, g>>

(* Another program of the user moves a directory aside, or puts another in *)
(* its place, or puts a directory where none is.                           *)
Meddles(changed) ==
    /\ budget.meddling > 0 /\ budget' = [budget EXCEPT !.meddling = @ - 1]
    /\ g' = [g EXCEPT !.meddled = TRUE,
                      !.late = {p \in Processes : proc[p].result = "committed"} \cup @,
                      !.window = @ \/ \E p \in Processes :
                                        Is(p, "identify") /\ changed.dir = proc[p].cur /\ changed.name = Name(p)]
    /\ UNCHANGED <<owner, proc>>

Moved == \E e \in ent, replaced \in BOOLEAN :
            /\ Meddles(e) /\ e.name \in Names \ {"tag"} /\ (replaced => Fresh <= MaxObjects)
            /\ LET aside == (ent \ {e}) \cup {Entry(0, "aside", e.obj)}
               IN  ent' = IF replaced THEN aside \cup {Entry(e.dir, e.name, Fresh)} ELSE aside
            /\ kind' = IF replaced THEN [kind EXCEPT ![Fresh] = "dir"] ELSE kind

Put == \E dir \in Objects, n \in {"base", "d", "r1"} :
          /\ kind[dir] = "dir" /\ Linked(dir) /\ At(dir, n) = {} /\ Fresh <= MaxObjects
          /\ (dir = 0 <=> n = "base") /\ (n = "d" => dir \in At(0, "base")) /\ (n = "r1" => \E e \in ent : e.obj = dir /\ e.name = "d")
          /\ Meddles(Entry(dir, n, Fresh))
          /\ ent' = ent \cup {Entry(dir, n, Fresh)} /\ kind' = [kind EXCEPT ![Fresh] = "dir"]

Next == (\E p \in Processes : Run(p) \/ CallFails(p)) \/ Moved \/ Put

Spec == Init /\ [][Next]_vars

-----------------------------------------------------------------------------
(* Properties.                                                             *)

(* Every variable stays in its set.                                        *)
TypeOK == /\ kind \in [Objects -> {"none", "dir", "blank", "tag"}]
          /\ \A p \in Processes : /\ proc[p].r \in DOMAIN relocation_plan
                                  /\ proc[p].result \in {"none", "committed", "failed"}
          /\ \A e, f \in ent : e.dir = f.dir /\ e.name = f.name /\ e.name \in Names => e = f

(* Rollback removes only what this run made, whatever was moved under the  *)
(* names meanwhile; outside the moment between mkdirat and the look at the *)
(* new name.                                                               *)
RollbackRemovesOnlyItsOwn == ~g.window => ~g.foreign

(* A run that fails names everything it made and left.                     *)
FailureNamesWhatIsLeft ==
    \A p \in Processes : proc[p].result = "failed" =>
        \A e \in ent : owner[e.obj] = p /\ e.name \in Names => e.name \in proc[p].residue

(* What is printed never leads to another directory than the one that was  *)
(* initialized, also when the target was moved while the roots were made.  *)
ExportsNameTheInitialized ==
    \A p \in Processes : proc[p].result = "committed" /\ p \notin g.late => At(0, "base") \subseteq {proc[p].base}

(* A root that a committed run made stays, whole, whatever other runs on   *)
(* the same target do: no rollback of theirs reaches it.                   *)
CommittedRootsStay ==
    ~g.meddled => \A p \in Processes : proc[p].result = "committed" =>
        \A i \in DOMAIN relocation_plan : <<i, "initialized">> \in proc[p].report =>
            \E o \in Reached(proc[p].base, relocation_plan[i]) : HasTag(o)

(* A tag goes only into a directory the same run made: a directory that    *)
(* was there, or that appeared after the preflight, is never declared a    *)
(* cache.                                                                  *)
TagsOnlyWhatItMade ==
    ~g.window => \A e \in ent : e.name = "tag" /\ owner[e.obj] # NoOne => owner[e.dir] = owner[e.obj]
=============================================================================
