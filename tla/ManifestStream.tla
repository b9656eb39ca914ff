---------------------------- MODULE ManifestStream ----------------------------
(***************************************************************************)
(* The algorithms of backend/held.rs and staging/recovery/stream_v3.rs     *)
(* that work on a manifest one record at a time, so that a tree of any     *)
(* size is checked in bounded memory: the packing into segments, the       *)
(* decoder that admits only the listing of a tree, the builder of the      *)
(* purge plan, the stack of open directories, the expectation of the       *)
(* sealed tree and the comparison with the tree found on the disk.  Each   *)
(* keeps a stack or a cursor where its specification speaks of the tree.   *)
(***************************************************************************)
EXTENDS Naturals, Sequences, FiniteSets

CONSTANTS Paths,                    \* sequences of names; a name is a sequence of bytes
          Slash,                    \* the byte between two names
          MaxDepth, MaxEntries, MaxPathBytes, MaxPayload

VARIABLES phase,     \* reading, rejected, accepted, folding, folded
          expected,  \* the number of entries announced
          stream,    \* the records read
          dec,       \* the decoder
          pack,      \* the segments written
          plan,      \* the purge plan and its builder
          task, actual, plans, \* what the manifest is compared with
          fold

vars == <<phase, expected, stream, dec, pack, plan, task, actual, plans, fold>>

-----------------------------------------------------------------------------
(* Paths.                                                                  *)

Lex(s, t, less(_, _)) ==
    \/ Len(s) < Len(t) /\ s = SubSeq(t, 1, Len(s))
    \/ \E i \in DOMAIN s \cap DOMAIN t : less(s[i], t[i]) /\ \A j \in 1..i - 1 : s[j] = t[j]
Smaller(m, n) == m < n
NameLess(s, t) == Lex(s, t, Smaller)

Bytes(path) == LET upTo[n \in 0..Len(path)] == CASE n = 0 -> <<>> [] n = 1 -> path[1]
                                                 [] OTHER -> upTo[n - 1] \o <<Slash>> \o path[n]
               IN  upTo[Len(path)]

(* Mutant: the encoded paths are compared, byte by byte.                   *)
mutant_compare_manifest_paths(p, q) == NameLess(Bytes(p), Bytes(q))

(* compare_manifest_paths: name by name.                                   *)
compare_manifest_paths(p, q) == Lex(p, q, NameLess)

manifest_path_depth(path) == Len(path)
path_parent_bytes(path) == SubSeq(path, 1, Len(path) - 1)
path_is_beneath(directory, path) == Len(directory) < Len(path) /\ SubSeq(path, 1, Len(directory)) = directory

(* compare_v3_purge_paths: the deepest first, then in reverse.             *)
compare_v3_purge_paths(p, q) ==
    \/ manifest_path_depth(p) > manifest_path_depth(q)
    \/ manifest_path_depth(p) = manifest_path_depth(q) /\ compare_manifest_paths(q, p)

(* A record: where, what, its mode, and the identity and content of the    *)
(* object.                                                                 *)
Sealed == 5
Before == 7
Record(path, kind, mode, id) == [path |-> path, kind |-> kind, mode |-> mode, id |-> id]
record_len(r) == 1 + Len(Bytes(r.path))
Listing(T) == [i \in 1..Cardinality(T) |->
                  CHOOSE r \in T : Cardinality({q \in T : compare_manifest_paths(q.path, r.path)}) = i - 1]
Entries(s) == {s[i] : i \in DOMAIN s}

-----------------------------------------------------------------------------
(* The decoder.                                                            *)

(* retain_directory_parent: of the ends kept on the stack, those of        *)
(* finished subtrees are dropped until the parent is on top.               *)
Retained(ends, prev, parent) ==
    LET hit == {i \in DOMAIN ends : SubSeq(prev, 1, ends[i]) = parent /\ ends[i] <= Len(prev)}
    IN  IF hit = {} THEN <<>> ELSE SubSeq(ends, 1, CHOOSE i \in hit : \A j \in hit : j <= i)

(* Mutant: a parent that was listed as a file will do.                     *)
mutant_retain_directory_parent(d, path) == TRUE

retain_directory_parent(d, path) == Retained(d.ends, d.prev, Bytes(path_parent_bytes(path))) # <<>>

validate_manifest_path(path) == manifest_path_depth(path) <= MaxDepth

(* decode_record, in the order of its checks.                              *)
Rejected(d, r) ==
    \/ d.count >= expected
    \/ ~validate_manifest_path(r.path)
    \/ (d.count = 0) # (r.path = <<>>)
    \/ d.count > 0 /\ ~compare_manifest_paths(d.last, r.path)
    \/ d.count > 0 /\ ~retain_directory_parent(d, r.path)
    \/ d.pathBytes + Len(Bytes(r.path)) > MaxPathBytes
    \/ d.count = 0 /\ r.kind # "dir"

decode_record(d, r) ==
    [count |-> d.count + 1, pathBytes |-> d.pathBytes + Len(Bytes(r.path)),
     prev |-> Bytes(r.path), last |-> r.path,
     ends |-> LET kept == IF d.count = 0 THEN <<>> ELSE Retained(d.ends, d.prev, Bytes(path_parent_bytes(r.path)))
              IN  IF r.kind = "dir" THEN Append(kept, Len(Bytes(r.path))) ELSE kept]

(* stream_manifest_v3_segments: a record never straddles two segments.     *)
Size(payload) == LET upTo[n \in 0..Len(payload)] == IF n = 0 THEN 0 ELSE upTo[n - 1] + record_len(payload[n])
                 IN  upTo[Len(payload)]
Flushed == [done |-> Append(pack.done, pack.payload), payload |-> <<>>]

(* Mutant: the payload is flushed after the record that crosses the bound. *)
mutant_stream_manifest_v3_segments(r) ==
    LET full == Size(pack.payload) > MaxPayload
        base == IF pack.payload # <<>> /\ full THEN Flushed ELSE pack
    IN  [base EXCEPT !.payload = Append(@, r)]

stream_manifest_v3_segments(r) ==
    LET full == Size(pack.payload) + record_len(r) > MaxPayload
        base == IF pack.payload # <<>> /\ full THEN Flushed ELSE pack
    IN  [base EXCEPT !.payload = Append(@, r)]

(* V3PurgePlanBuilder::observe: the stack holds the directories below the  *)
(* root on the way to the record.                                          *)
Required(r) == IF r.path = <<>> THEN 0 ELSE manifest_path_depth(r.path) - 1
PlanFails(r) == Len(plan.directories) < Required(r)

(* A record of the plan carries the manifest record; read alone, without   *)
(* the stream around it, it must say as many ancestors as its path has.    *)
encode_v3_purge_plan_record(r, ancestors) == [path |-> r.path, ancestors |-> ancestors, record |-> r]
decode_unordered_v3_record(r) == validate_manifest_path(r.path) /\ (r.path = <<>> => r.kind = "dir")
decode_v3_purge_plan_record(x) ==
    /\ validate_manifest_path(x.path) /\ Len(x.ancestors) = Required(x)
    /\ decode_unordered_v3_record(x.record) /\ x.record.path = x.path

(* Mutant: the stack is not cut back when a subtree ends.                  *)
mutant_observe_plan(r) ==
    [directories |-> IF r.kind = "dir" /\ r.path # <<>> THEN Append(plan.directories, r.path) ELSE plan.directories,
     records |-> plan.records \cup {encode_v3_purge_plan_record(r, plan.directories)}]

observe_plan(r) ==
    LET kept == IF r.path = <<>> THEN plan.directories ELSE SubSeq(plan.directories, 1, Required(r))
    IN  [directories |-> IF r.kind = "dir" /\ r.path # <<>> THEN Append(kept, r.path) ELSE kept,
         records |-> plan.records \cup {encode_v3_purge_plan_record(r, kept)}]

Nothing == [path |-> <<>>, kind |-> "none", mode |-> 0, id |-> 0]
NoFold == [pos |-> 0, left |-> <<>>, held |-> Nothing, error |-> "none", at |-> <<>>,
           active |-> <<>>, expectation |-> <<>>]

Init == /\ phase = "reading"
        /\ expected \in 1..MaxEntries
        /\ stream = <<>>
        /\ dec = [count |-> 0, pathBytes |-> 0, prev |-> <<>>, last |-> <<>>, ends |-> <<>>]
        /\ pack = [done |-> <<>>, payload |-> <<>>]
        /\ plan = [directories |-> <<>>, records |-> {}]
        /\ task = "none" /\ actual = {} /\ plans = {} /\ fold = NoFold

(* The next record of whatever stream is offered.                          *)
push_segment(r) ==
    /\ phase = "reading" /\ record_len(r) <= MaxPayload
    /\ stream' = Append(stream, r)
    /\ IF Rejected(dec, r) THEN phase' = "rejected" /\ UNCHANGED <<dec, pack, plan>>
       ELSE /\ phase' = IF PlanFails(r) THEN "unplanned" ELSE "reading"
            /\ dec' = decode_record(dec, r)
            /\ pack' = stream_manifest_v3_segments(r)
            /\ IF PlanFails(r) THEN UNCHANGED plan ELSE plan' = observe_plan(r)
    /\ UNCHANGED <<expected, task, actual, plans, fold>>

(* finish: the last segment is written, and the count must be the one      *)
(* announced.                                                              *)
finish == /\ phase = "reading"
          /\ IF dec.count = expected
             THEN phase' = "accepted" /\ pack' = Flushed
             ELSE phase' = "short" /\ UNCHANGED pack
          /\ UNCHANGED <<expected, stream, dec, plan, task, actual, plans, fold>>

-----------------------------------------------------------------------------
(* The manifest compared with a tree.                                      *)

Dirs(T) == {r \in T : r.kind = "dir"}

(* A tree like the listed one, its directories in one mode; and trees one  *)
(* change away from it.                                                    *)
InMode(T, mode) == {IF r.kind = "dir" THEN [r EXCEPT !.mode = mode] ELSE r : r \in T}
Leaves(T) == {r \in T : r.path # <<>> /\ ~\E q \in T : path_is_beneath(r.path, q.path)}
Fresh(T) == {Record(p, k, Sealed, 2) : p \in {q \in Paths : q # <<>> /\ Len(q) <= MaxDepth
                                                 /\ (\A r \in T : r.path # q)
                                                 /\ (\E r \in Dirs(T) : r.path = path_parent_bytes(q))},
                                       k \in {"dir", "file"}}
Changed(T) == {(T \ {r}) \cup {[r EXCEPT !.id = 2]} : r \in T}
              \cup {(T \ {r}) \cup {[r EXCEPT !.mode = 1]} : r \in T}
              \cup {(T \ {r}) \cup {[r EXCEPT !.kind = IF @ = "dir" THEN "file" ELSE "dir"]} : r \in Leaves(T)}
Edits(T) == {T} \cup {T \ {r} : r \in Leaves(T)} \cup {T \cup {r} : r \in Fresh(T)} \cup Changed(T)

(* DirectoryModes: the mode a directory must have now and the one the      *)
(* manifest gives it; a path that two plans name, or none, has no answer.  *)
Plan(path, current) == [path |-> path, current |-> current]

(* Mutant: of two plans for one path either will do.                       *)
mutant_directory_modes(path, mode) == \E q \in plans : q.path = path /\ q.current = mode

directory_modes(path, mode) ==
    \E q \in plans : q.path = path /\ q.current = mode /\ \A o \in plans : o.path = path => o = q

Now == IF task = "undo" THEN Before ELSE Sealed

Begin(t) ==
    LET T == Entries(stream)
        now == IF t = "undo" THEN Before ELSE Sealed
        exact == {Plan(r.path, now) : r \in Dirs(T)}
    IN  /\ phase = "accepted"
        /\ phase' = "folding" /\ task' = t
        /\ actual' \in UNION {Edits(U) : U \in Edits(InMode(T, now))}
        /\ plans' \in {exact} \cup {exact \ {q} : q \in exact} \cup {exact \cup {Plan(q.path, 1)} : q \in exact}
                     \cup {exact \cup {Plan(p, now)} : p \in {q \in Paths : \A r \in T : r.path # q}}
        /\ fold' = [NoFold EXCEPT !.left = Listing(actual')]
        /\ UNCHANGED <<expected, stream, dec, pack, plan>>

(* cursor.next: the record of the tree that is waited for.                 *)
Held(f) == IF f.held # Nothing THEN f
           ELSE IF f.left = <<>> THEN f ELSE [f EXCEPT !.held = Head(f.left), !.left = Tail(f.left)]
Noted(f, error, path) == IF f.error = "none" THEN [f EXCEPT !.error = error, !.at = path] ELSE f

(* After the move nothing may differ.  In recovery, where modes may have   *)
(* been restored, both sides must be directories for them to be made equal. *)
Normalized(r) == [r EXCEPT !.mode = Sealed]
ChangedByTheMove(e, a) == e # a
Differs(e, a) ==
    IF task = "move" THEN ChangedByTheMove(e, a)
    ELSE IF e.kind = "dir" /\ a.kind = "dir"
    THEN ~directory_modes(e.path, a.mode) \/ Normalized(e) # Normalized(a)
    ELSE e # a

Added(f) == Noted([f EXCEPT !.held = Nothing], "added", f.held.path)

(* StructureComparison::observe: a merge of the two listings.              *)
Compared(f0, e) ==
    LET skip[n \in 0..Len(f0.left) + 1] ==
            IF n = 0 THEN Held(f0)
            ELSE LET f == skip[n - 1]
                 IN  IF f.held # Nothing /\ compare_manifest_paths(f.held.path, e.path) THEN Held(Added(f)) ELSE f
        f1 == skip[Len(f0.left) + 1]
    IN  CASE f1.held = Nothing -> Noted(f1, "removed", e.path)
          [] compare_manifest_paths(e.path, f1.held.path) -> Noted(f1, "removed", e.path)
          [] OTHER -> LET f2 == [f1 EXCEPT !.held = Nothing]
                      IN  IF Differs(e, f1.held) THEN Noted(f2, "changed", e.path) ELSE f2

(* Mutant: the directory left last is taken for the parent.                *)
mutant_Active(active, r) == IF r.kind = "dir" THEN Append(active, r.path) ELSE active

(* PendingV3Finalizer::observe: the open directories on the way down.      *)
Active(active, r) ==
    LET on == {i \in DOMAIN active : path_is_beneath(active[i], r.path)}
        kept == SubSeq(active, 1, Cardinality(on))
    IN  IF r.kind = "dir" THEN Append(kept, r.path) ELSE kept

(* Mutant: the mode of the record is kept.                                 *)
mutant_Expected(r) == r

(* PostSealExpectationBuilder::observe: a directory's mode is the one its  *)
(* seal applied; without one there is no expectation.                      *)
Refused == 0
Expected(r) ==
    IF r.kind # "dir" THEN r
    ELSE [r EXCEPT !.mode = IF \E q \in plans : directory_modes(r.path, q.current)
                            THEN CHOOSE m \in {q.current : q \in plans} : directory_modes(r.path, m) ELSE Refused]

observe ==
    /\ phase = "folding" /\ fold.pos < Len(stream)
    /\ LET e == stream[fold.pos + 1]
           f == Compared(fold, e)
       IN  fold' = [f EXCEPT !.pos = fold.pos + 1, !.active = Active(fold.active, e),
                             !.expectation = Append(@, Expected(e))]
    /\ UNCHANGED <<phase, expected, stream, dec, pack, plan, task, actual, plans>>

(* What the tree has left over was added.                                  *)
complete ==
    /\ phase = "folding" /\ fold.pos = Len(stream)
    /\ phase' = "folded"
    /\ fold' = LET f == Held(fold) IN IF f.held # Nothing THEN Added(f) ELSE f
    /\ UNCHANGED <<expected, stream, dec, pack, plan, task, actual, plans>>

(* rewalk_structure of the resident inventory: entry by entry.             *)
ResidentError(T) ==
    LET found == Listing(T)
        bad == {i \in DOMAIN stream : i > Len(found) \/ (i <= Len(found) /\ (stream[i].path # found[i].path \/ Differs(stream[i], found[i])))}
        i == CHOOSE j \in bad : \A k \in bad : j <= k
    IN  CASE bad = {} /\ Len(found) > Len(stream) -> <<"added", found[Len(stream) + 1].path>>
          [] bad = {} -> <<"none", <<>>>>
          [] i > Len(found) \/ compare_manifest_paths(stream[i].path, found[IF i > Len(found) THEN 1 ELSE i].path) -> <<"removed", stream[i].path>>
          [] compare_manifest_paths(found[i].path, stream[i].path) -> <<"added", found[i].path>>
          [] OTHER -> <<"changed", stream[i].path>>

(* verify_rebound_v3: the tree's listing, its directory modes checked and  *)
(* rewritten, is hashed like the manifest; there is a plan per directory.  *)
normalize_collected_record(r) ==
    CASE r.kind # "dir" -> r
      [] directory_modes(r.path, r.mode) -> Normalized(r)
      [] OTHER -> [r EXCEPT !.mode = Refused]

(* Mutant: a plan that no directory answers to goes unnoticed.             *)
mutant_streamed_fingerprint_matches(T) == {normalize_collected_record(r) : r \in T} = Entries(stream)

streamed_fingerprint_matches(T) ==
    /\ {normalize_collected_record(r) : r \in T} = Entries(stream)
    /\ Cardinality(Dirs(T)) = Cardinality(plans)

(* The resident checks: the directories are exactly the planned ones ...   *)
Evidence(T) == {<<r.path, r.id, r.mode>> : r \in Dirs(T)}
Durable == {<<q.path, 1, q.current>> : q \in plans}
require_exact_tree_seal_coverage(T) == /\ \A q, o \in plans : q.path = o.path => q = o
                                       /\ Evidence(T) = Durable

(* ... where undo takes the last plan of a path ...                        *)
Last(path) == IF Plan(path, 1) \in plans THEN 1 ELSE Now
collect_exact_tree(T) == Evidence(T) = {<<q.path, 1, Last(q.path)>> : q \in plans}

(* ... and the tree, its directories in their sealed modes, is the         *)
(* manifest.                                                               *)
fingerprint_with_directory_modes(T) == InMode(T, Sealed) = Entries(stream)

Next == \/ \E p \in Paths, k \in {"dir", "file"} : push_segment(Record(p, k, Sealed, 1))
        \/ finish \/ (\E t \in {"move", "seal", "undo"} : Begin(t)) \/ observe \/ complete

Spec == Init /\ [][Next]_vars

-----------------------------------------------------------------------------
(* Properties.                                                             *)

(* Every variable stays in its set; no record is admitted that the plan    *)
(* builder refuses.                                                        *)
TypeOK == /\ phase \in {"reading", "rejected", "short", "accepted", "folding", "folded"}
          /\ Len(stream) <= MaxEntries + 1
          /\ fold.error \in {"none", "added", "removed", "changed"}

(* The listing of a tree within the limits, said of the whole: the root    *)
(* first, every entry once and in order, every parent a directory.         *)
IsListing(s) ==
    /\ s # <<>> => s[1].path = <<>> /\ s[1].kind = "dir"
    /\ \A i, j \in DOMAIN s : i < j => Lex(s[i].path, s[j].path, NameLess)
    /\ \A i \in DOMAIN s : i > 1 => \E j \in 1..i - 1 : s[j].kind = "dir" /\ s[j].path = path_parent_bytes(s[i].path)
    /\ \A i \in DOMAIN s : Len(s[i].path) <= MaxDepth
    /\ Len(s) <= expected
    /\ Size(s) - Len(s) <= MaxPathBytes

(* The decoder, which keeps one path and a stack of offsets, admits        *)
(* exactly the listings of trees.                                          *)
DecoderIsExact == IF phase = "rejected" THEN ~IsListing(stream) ELSE IsListing(stream)

(* Every record of the purge plan is readable alone and carries the        *)
(* directories above its entry; the order of the plan removes what is in a *)
(* directory before it.                                                    *)
PlanKnowsTheWay ==
    phase \notin {"rejected", "unplanned"} =>
        /\ \A r \in plan.records :
              decode_v3_purge_plan_record(r) /\ r.ancestors = [i \in 1..Required(r) |-> SubSeq(r.path, 1, i)]
        /\ \A r, s \in plan.records : path_is_beneath(r.path, s.path) => compare_v3_purge_paths(s.path, r.path)

(* The segments hold the stream, whole records in order, none empty, none  *)
(* above the bound.                                                        *)
SegmentsCarryTheStream ==
    LET all == IF pack.payload = <<>> THEN pack.done ELSE Append(pack.done, pack.payload)
        flat[n \in 0..Len(all)] == IF n = 0 THEN <<>> ELSE flat[n - 1] \o all[n]
    IN  phase \notin {"rejected", "unplanned"} =>
        /\ flat[Len(all)] = stream
        /\ \A i \in DOMAIN all : all[i] # <<>> /\ Size(all[i]) <= MaxPayload

(* While the manifest is read again the open directories are those above   *)
(* the last entry, and the entry itself if it is one.                      *)
ActiveIsTheWayDown ==
    phase = "folding" /\ fold.pos > 0 =>
        LET e == stream[fold.pos]
            n == IF e.kind = "dir" THEN Len(e.path) + 1 ELSE Len(e.path)
        IN  fold.active = [i \in 1..n |-> SubSeq(e.path, 1, i - 1)]

(* Where tree and manifest first differ, said of the whole.                *)
OnePlan(p) == Cardinality({q \in plans : q.path = p}) = 1
Same(p) == \E e \in Entries(stream), a \in actual :
              /\ e.path = p /\ a.path = p /\ e.kind = a.kind /\ e.id = a.id
              /\ IF e.kind = "dir" /\ task # "move" THEN a.mode = Now /\ OnePlan(p) ELSE a.mode = e.mode
Unlike == {p \in {r.path : r \in Entries(stream) \cup actual} : ~Same(p)}
FirstUnlike == CHOOSE p \in Unlike : \A q \in Unlike : q = p \/ compare_manifest_paths(p, q)

(* The merge finds a difference exactly if there is one, and names the     *)
(* first; the comparison of the resident inventory says the same.          *)
ComparisonIsExact ==
    phase = "folded" =>
        /\ (fold.error = "none") <=> (Unlike = {})
        /\ fold.error # "none" => fold.at = FirstUnlike
        /\ ResidentError(actual) = <<fold.error, fold.at>>

(* The two ways to verify a tree in recovery, streamed for the present     *)
(* schema and resident for the earlier ones, accept the same trees unless  *)
(* a path is planned twice: then the streamed one refuses.                 *)
VerifiersAgree ==
    phase = "folded" /\ task # "move" =>
        LET twice == \E q, o \in plans : q.path = o.path /\ q # o
            streamed == streamed_fingerprint_matches(actual) /\ fold.error = "none"
            resident == IF task = "undo" THEN collect_exact_tree(actual) /\ fingerprint_with_directory_modes(actual)
                        ELSE require_exact_tree_seal_coverage(actual) /\ actual = Entries(stream)
        IN  IF twice THEN ~streamed ELSE streamed <=> resident

(* The expectation is the hash of the tree exactly if only the modes of    *)
(* its directories have changed, each to what its seal applied.            *)
ExpectationIsExact ==
    phase = "folded" =>
        (fold.expectation = Listing(actual) <=>
            actual = InMode(Entries(stream), Now) /\ \A r \in Dirs(actual) : OnePlan(r.path))
=============================================================================
