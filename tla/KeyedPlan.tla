----------------------------- MODULE KeyedPlan -----------------------------
(***************************************************************************)
(* The two one-shot plans of seal/sidecar/scratch.rs and what is done with *)
(* them.                                                                   *)
(*                                                                         *)
(* A plan is a private file whose name is unlinked before any record is    *)
(* written.  Every record is framed with a tag keyed by a secret of this   *)
(* process over the record and its ordinal.  The directory plan            *)
(* (TreeDirectoryPlan) lists the directories of a tree depth first; it is  *)
(* authenticated, validated in one pass, and in a second pass drives the   *)
(* sealing of the directories, deepest first, with the root-to-current     *)
(* chain on a stack (staging/rename.rs).  The purge plan (TreePurgePlan)   *)
(* lists every entry in postorder; it is authenticated, rewound, and each  *)
(* record it yields is deleted (staging/recovery.rs).                      *)
(*                                                                         *)
(* Another program of the same account that opened the file while it had a *)
(* name may go on writing to it: it can damage, move, repeat, drop or add  *)
(* frames, but not make a tag.                                             *)
(***************************************************************************)
EXTENDS Integers, Sequences, FiniteSets, TLC

CONSTANTS
    Kinds,      \* the plans to build: "directory", "purge"
    Trees,      \* sets of paths, closed under parents; a path is a sequence
                \* of components, a component a sequence of bytes
    Slash,      \* the byte of the separator
    MaxAlters,  \* bound on the writes of another program
    MaxKills    \* bound on kills

VARIABLES
    kind,
    tree,      \* the paths the plan is made of
    named,     \* is the file's name in the store directory?
    frames,    \* the frames of the file
    plan,      \* the process: where it is, and the fields of the open plan
    out,       \* records given to the pass that seals or deletes
    chain,     \* the chain of the sealing pass
    sealed,    \* directories in the order they were sealed
    budget

vars == <<kind, tree, named, frames, plan, out, chain, sealed, budget>>

(***************************************************************************)
(* Orders                                                                  *)
(***************************************************************************)
Lexical(s, t) ==
    \/ Len(s) < Len(t) /\ SubSeq(t, 1, Len(s)) = s
    \/ \E i \in 1..Len(s) :
          i <= Len(t) /\ s[i] < t[i] /\ SubSeq(s, 1, i - 1) = SubSeq(t, 1, i - 1)

\* component by component, each compared as bytes
compare_paths(p, q) ==
    \/ Len(p) < Len(q) /\ SubSeq(q, 1, Len(p)) = p
    \/ \E i \in 1..Len(p) :
          i <= Len(q) /\ Lexical(p[i], q[i]) /\ SubSeq(p, 1, i - 1) = SubSeq(q, 1, i - 1)

Bytes(p) ==
    LET joined[i \in 0..Len(p)] ==
          IF i = 0 THEN <<>>
          ELSE joined[i - 1] \o (IF i > 1 THEN <<Slash>> ELSE <<>>) \o p[i]
    IN  joined[Len(p)]

InDepthFirstOrderMutant(p, q) == Lexical(Bytes(p), Bytes(q))

\* the walk sorts its directories before it emits them
InDepthFirstOrder(p, q) == compare_paths(p, q)

compare_purge(p, q) ==
    \/ Len(p) > Len(q)
    \/ Len(p) = Len(q) /\ compare_paths(q, p)

Enumeration == CHOOSE s \in [1..Cardinality(tree) -> tree] :
                  \A i, j \in DOMAIN s : i # j => s[i] # s[j]

\* the records presented to the writer
Planned ==
    IF kind = "directory" THEN SortSeq(Enumeration, InDepthFirstOrder)
    ELSE SortSeq(Enumeration, compare_purge)

Parent(path) == SubSeq(path, 1, Len(path) - 1)

(***************************************************************************)
(* The file                                                                *)
(***************************************************************************)
\* a frame as written: the ordinal its tag was computed over, and its record
Frame(i) == [ord |-> i, rec |-> Planned[i], sound |-> TRUE]
Damaged == [ord |-> 0, rec |-> <<>>, sound |-> FALSE]

FrameVerifiesMutant(i) == i <= Len(frames) /\ frames[i].sound

\* the tag recomputed over the ordinal at which the frame is read
FrameVerifies(i) == i <= Len(frames) /\ frames[i].sound /\ frames[i].ord = i

\* `linked': another name leads to the file
Opened == [pc |-> "create", count |-> 0, pos |-> 1, prev |-> <<>>, linked |-> FALSE]

At(pc, pos) == plan' = [plan EXCEPT !.pc = pc, !.pos = pos, !.prev = <<>>]
Refuse == plan' = [plan EXCEPT !.pc = "refused"]

Init ==
    /\ kind \in Kinds
    /\ tree \in Trees
    /\ named = FALSE
    /\ frames = <<>>
    /\ plan = Opened
    /\ out = <<>> /\ chain = <<>> /\ sealed = <<>>
    /\ budget = [alters |-> MaxAlters, kills |-> MaxKills]

Rest == UNCHANGED <<kind, tree, out, chain, sealed, budget>>

\* the scratch name is taken and a blank header written
Create(k) ==
    /\ kind = k
    /\ plan.pc = "create"
    /\ named' = TRUE
    /\ At("named", 1)
    /\ UNCHANGED frames /\ Rest

create_directory_plan == Create("directory")
create_purge_plan == Create("purge")

unlinkMutant ==
    /\ plan.pc = "named"
    /\ At("write", 1)
    /\ UNCHANGED <<named, frames>> /\ Rest

require_anonymous_plan_fd == ~plan.linked

\* the name goes before the first record comes, and there must be no other
unlink ==
    /\ plan.pc = "named"
    /\ named' = FALSE
    /\ IF require_anonymous_plan_fd THEN At("write", 1) ELSE Refuse
    /\ UNCHANGED frames /\ Rest

\* the writer appends at its own offset, whatever became of the file below it
Push(k) ==
    /\ kind = k
    /\ plan.pc = "write"
    /\ plan.pos <= Len(Planned)
    /\ frames' = [i \in 1..(IF Len(frames) > plan.pos THEN Len(frames) ELSE plan.pos) |->
                    IF i = plan.pos THEN Frame(i)
                    ELSE IF i <= Len(frames) THEN frames[i] ELSE Damaged]
    /\ plan' = [plan EXCEPT !.pos = @ + 1, !.count = @ + 1]
    /\ UNCHANGED named /\ Rest

push_directory_record == Push("directory")
push_purge_record == Push("purge")

FinishWriter(k) ==
    /\ kind = k
    /\ plan.pc = "write"
    /\ plan.pos > Len(Planned)
    /\ UNCHANGED <<named, frames>> /\ Rest

\* the directory plan compares the file's length with what was written
finish_directory_plan ==
    /\ FinishWriter("directory")
    /\ IF plan.count = 0 \/ Len(frames) # plan.count THEN Refuse ELSE At("auth", 1)

\* the purge plan reads its header back
finish_purge_plan ==
    /\ FinishWriter("purge")
    /\ IF plan.count = 0 THEN Refuse ELSE At("auth", 1)

(***************************************************************************)
(* Reading                                                                 *)
(***************************************************************************)
\* purge records are also read in strict postorder
InOrder(i) ==
    kind = "purge" /\ plan.prev # <<>> => compare_purge(plan.prev[1], frames[i].rec)

Reads(i) == FrameVerifies(i) /\ InOrder(i)

\* one frame of the pass that authenticates the whole plan
authenticate_step ==
    /\ plan.pc = "auth"
    /\ plan.pos <= plan.count
    /\ IF Reads(plan.pos)
       THEN plan' = [plan EXCEPT !.pos = @ + 1, !.prev = <<frames[plan.pos].rec>>]
       ELSE Refuse
    /\ UNCHANGED <<named, frames>> /\ Rest

rewindMutant == plan' = [plan EXCEPT !.pc = "consume", !.pos = 1]

\* back to the first frame, with nothing remembered of the pass
rewind == At("consume", 1)

\* the end of that pass; only the purge plan looks for bytes after the last frame
authenticate_end ==
    /\ plan.pc = "auth"
    /\ plan.pos = plan.count + 1
    /\ CASE kind = "directory" -> At("preflight", 1)
         [] Len(frames) > plan.count -> Refuse
         [] OTHER -> rewind
    /\ UNCHANGED <<named, frames>> /\ Rest

\* validate_directory_plan_record over the whole plan, before any seal
preflight ==
    /\ plan.pc = "preflight"
    /\ IF plan.pos > plan.count THEN At("consume", 1)
       ELSE IF /\ FrameVerifies(plan.pos)
               /\ (plan.pos = 1) = (frames[plan.pos].rec = <<>>)
            THEN plan' = [plan EXCEPT !.pos = @ + 1]
            ELSE Refuse
    /\ UNCHANGED <<named, frames>> /\ Rest

(***************************************************************************)
(* The purge plan consumed                                                 *)
(***************************************************************************)
\* plan.next() and the deletion of the record it returned
purge_plan_record ==
    /\ kind = "purge"
    /\ plan.pc = "consume"
    /\ plan.pos <= plan.count
    /\ IF Reads(plan.pos)
       THEN /\ out' = Append(out, frames[plan.pos].rec)
            /\ plan' = [plan EXCEPT !.pos = @ + 1, !.prev = <<frames[plan.pos].rec>>]
       ELSE Refuse /\ UNCHANGED out
    /\ UNCHANGED <<kind, tree, named, frames, chain, sealed, budget>>

purge_end ==
    /\ kind = "purge"
    /\ plan.pc = "consume"
    /\ plan.pos > plan.count
    /\ IF Len(frames) > plan.count THEN Refuse ELSE At("done", 1)
    /\ UNCHANGED <<named, frames>> /\ Rest

(***************************************************************************)
(* The directory plan consumed: the sealing pass                           *)
(***************************************************************************)
directory_plan_chain_holds_parent(record) ==
    chain # <<>> /\ record # <<>> /\ chain[Len(chain)] = Parent(record)

\* the top of the chain is sealed through the chain and popped
seal_chain_top ==
    /\ sealed' = Append(sealed, [path |-> chain[Len(chain)], chain |-> chain])
    /\ chain' = SubSeq(chain, 1, Len(chain) - 1)

\* a finished subtree is sealed before the next record is taken
MustSeal == chain # <<>> /\ ~directory_plan_chain_holds_parent(frames[plan.pos].rec)

seal_pass ==
    /\ kind = "directory"
    /\ plan.pc = "consume"
    /\ plan.pos <= plan.count
    /\ IF ~FrameVerifies(plan.pos)
       THEN Refuse /\ UNCHANGED <<out, chain, sealed>>
       ELSE IF MustSeal
       THEN seal_chain_top /\ UNCHANGED <<out, plan>>
       ELSE LET record == frames[plan.pos].rec IN
            /\ out' = Append(out, record)
            /\ UNCHANGED sealed
            /\ IF /\ Len(record) = Len(chain)
                  /\ record # <<>> => directory_plan_chain_holds_parent(record)
               THEN /\ chain' = Append(chain, record)
                    /\ plan' = [plan EXCEPT !.pos = @ + 1]
               ELSE Refuse /\ UNCHANGED chain
    /\ UNCHANGED <<kind, tree, named, frames, budget>>

seal_restMutant ==
    /\ kind = "directory"
    /\ plan.pc = "consume"
    /\ plan.pos > plan.count
    /\ At("reverse", plan.count)
    /\ UNCHANGED <<kind, tree, named, frames, out, chain, sealed, budget>>

\* what is left on the chain at the end of the plan
seal_rest ==
    /\ kind = "directory"
    /\ plan.pc = "consume"
    /\ plan.pos > plan.count
    /\ IF chain = <<>>
       THEN At("reverse", plan.count) /\ UNCHANGED <<chain, sealed>>
       ELSE seal_chain_top /\ UNCHANGED plan
    /\ UNCHANGED <<kind, tree, named, frames, out, budget>>

next_reverseMutant ==
    /\ plan.pc = "reverse"
    /\ IF plan.pos = 0 THEN At("done", 1)
       ELSE IF FrameVerifies(plan.pos) THEN UNCHANGED plan
       ELSE Refuse
    /\ UNCHANGED <<named, frames>> /\ Rest

\* finish reads the plan backwards to the header
next_reverse ==
    /\ plan.pc = "reverse"
    /\ IF plan.pos = 0 THEN At("done", 1)
       ELSE IF FrameVerifies(plan.pos) THEN plan' = [plan EXCEPT !.pos = @ - 1]
       ELSE Refuse
    /\ UNCHANGED <<named, frames>> /\ Rest

(***************************************************************************)
(* Other programs, kills                                                   *)
(***************************************************************************)
Altered ==
    {SubSeq(frames, 1, n) : n \in 0..(Len(frames) - 1)}
    \cup {[frames EXCEPT ![i] = Damaged] : i \in DOMAIN frames}
    \cup {[frames EXCEPT ![i] = frames[j]] : i, j \in DOMAIN frames}
    \cup {[frames EXCEPT ![i] = frames[j], ![j] = frames[i]] : i, j \in DOMAIN frames}
    \cup {Append(frames, frames[i]) : i \in DOMAIN frames}

Alter ==
    /\ budget.alters > 0
    /\ plan.pc \notin {"create", "done", "refused", "dead"}
    /\ \E f \in Altered \ {frames} : frames' = f
    /\ budget' = [budget EXCEPT !.alters = @ - 1]
    /\ UNCHANGED <<kind, tree, named, plan, out, chain, sealed>>

\* a second name for the file, while it has a first
Link ==
    /\ budget.alters > 0
    /\ plan.pc = "named" /\ ~plan.linked
    /\ plan' = [plan EXCEPT !.linked = TRUE]
    /\ budget' = [budget EXCEPT !.alters = @ - 1]
    /\ UNCHANGED <<kind, tree, named, frames, out, chain, sealed>>

Kill ==
    /\ budget.kills > 0
    /\ plan.pc \notin {"done", "refused", "dead"}
    /\ budget' = [budget EXCEPT !.kills = @ - 1]
    /\ plan' = [plan EXCEPT !.pc = "dead"]
    /\ frames' = IF named THEN frames ELSE <<>>
    /\ UNCHANGED <<kind, tree, named, out, chain, sealed>>

\* the next process removes every scratch name before it does anything else
Reopen ==
    /\ plan.pc = "dead"
    /\ named' = FALSE
    /\ frames' = <<>>
    /\ plan' = [Opened EXCEPT !.pc = "refused"]
    /\ Rest

Process ==
    \/ create_directory_plan \/ create_purge_plan \/ unlink
    \/ push_directory_record \/ push_purge_record
    \/ finish_directory_plan \/ finish_purge_plan
    \/ authenticate_step \/ authenticate_end \/ preflight
    \/ purge_plan_record \/ purge_end
    \/ seal_pass \/ seal_rest \/ next_reverse \/ Reopen

Ended == plan.pc \in {"done", "refused"} /\ UNCHANGED vars

Next == Process \/ Alter \/ Link \/ Kill \/ Ended

Spec == Init /\ [][Next]_vars

(***************************************************************************)
(* Properties                                                              *)
(***************************************************************************)
IsPrefix(s, t) == Len(s) <= Len(t) /\ s = SubSeq(t, 1, Len(s))

\* What the sealing and the deleting pass are given is a prefix of what was
\* planned, record for record and in the planned order, however the file was
\* damaged, reordered, repeated, cut or extended and at whatever moment, also
\* between the authentication and the use of a record (purge_plan_frame_tag,
\* directory_plan_frame_tag).
HandedIsThePlan == IsPrefix(out, Planned)

\* A pass that ends well was given the whole plan, and a sealing pass has
\* sealed every directory exactly once.
CompleteWhenDone ==
    plan.pc = "done" =>
        /\ out = Planned
        /\ kind = "directory" =>
              /\ Len(sealed) = Cardinality(tree)
              /\ {sealed[i].path : i \in DOMAIN sealed} = tree

\* A directory is sealed after every directory below it, and through the exact
\* chain of its ancestors: once it is sealed nothing under it can be reopened
\* by name, so any other order would lock the pass out of a subtree
\* (seal_chain_top with extend_directory_plan_chain).
SealedDeepestFirst ==
    \A i \in DOMAIN sealed :
        /\ sealed[i].chain = [n \in 1..(Len(sealed[i].path) + 1) |-> SubSeq(sealed[i].path, 1, n - 1)]
        /\ \A p \in tree :
              IsPrefix(sealed[i].path, p) /\ p # sealed[i].path =>
                  \E j \in 1..(i - 1) : sealed[j].path = p

\* A kill leaves at most an empty file under a scratch name: no record is
\* ever reachable through a name, the scratch name or one that another
\* program gave the file (require_anonymous_plan_fd).
NoRecordUnderAName == named \/ plan.linked => frames = <<>>

\* A plan nobody else wrote to is never refused, in either reading direction
\* and on the second pass as on the first.
RefusalHasACause ==
    plan.pc = "refused" => budget.alters < MaxAlters \/ budget.kills < MaxKills

=============================================================================
