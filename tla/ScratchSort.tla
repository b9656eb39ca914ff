---------------------------- MODULE ScratchSort ----------------------------
(***************************************************************************)
(* The external sort behind the v3 tree manifest (seal/sidecar/scratch.rs).*)
(*                                                                         *)
(* A producer presents records in any order.  They are collected in a      *)
(* bounded arena, sorted, and written as runs into the private sidecar     *)
(* directory; runs of one level are merged FanIn at a time.  A consumer    *)
(* then collapses the runs to at most FanIn, opens a reader on each, and   *)
(* merges them into a sink: a fingerprint, a fold, a published sidecar, a  *)
(* structure comparison, a hardlink fold or a purge plan.                  *)
(*                                                                         *)
(* Runs are held open from creation.  Between any two steps another        *)
(* program of the same account may change a run's bytes, give its name to  *)
(* another file, or remove the name; the process may be killed, and the    *)
(* next one cleans up what it left.                                        *)
(*                                                                         *)
(* A digest is the sequence of records it was computed over.  A record is  *)
(* its sort key (an inode identity, zero unless the scratch groups hard    *)
(* links, and a path as a sequence of components) and whether its body     *)
(* still decodes.                                                          *)
(***************************************************************************)
EXTENDS Integers, Sequences, FiniteSets, TLC

CONSTANTS
    Orders,      \* the scratch kinds to build: "manifest", "structure", "hardlink", "purge"
    Inputs,      \* what the producer presents: a set of sequences of keys
    FanIn,       \* MERGE_FAN_IN
    Buffer,      \* records the sort memory holds
    MaxRecords,  \* MAX_RECORDS
    MaxNames,    \* bound on scratch names a process may use
    MaxFaults,   \* bound on changes by another program
    MaxKills     \* bound on kills of the process

SortBounds == FanIn \in Nat \ {0, 1} /\ Buffer \in Nat \ {0}

VARIABLES
    order,     \* which kind of scratch this is
    input,     \* the records the producer has still to present
    pushed,    \* ghost: the records presented so far
    disk,      \* what each scratch name denotes in the store directory
    file,      \* the contents of the file created under each name
    seq,       \* NEXT_SCRATCH_NAME
    mem,       \* the memory of the process
    expected,  \* the fingerprint of the first authenticated pass
    result,    \* what the last call returned
    budget

vars == <<order, input, pushed, disk, file, seq, mem, expected, result, budget>>

Names == 1..MaxNames
None == "none"

\* the one record of a hardlink scratch that stands for no file
Sentinel == [id |-> 0, path |-> <<>>, body |-> "good"]

Good(key) == [id |-> key.id, path |-> key.path, body |-> "good"]

Keys == UNION {{in[i] : i \in DOMAIN in} : in \in Inputs}

Records == [id : {k.id : k \in Keys} \cup {0}, path : {k.path : k \in Keys} \cup {<<>>},
            body : {"good", "bad"}]

(***************************************************************************)
(* The three orders                                                        *)
(***************************************************************************)
compare_manifest_paths(p, q) ==
    \/ Len(p) < Len(q) /\ SubSeq(q, 1, Len(p)) = p
    \/ \E i \in 1..Len(p) :
          i <= Len(q) /\ p[i] < q[i] /\ SubSeq(p, 1, i - 1) = SubSeq(q, 1, i - 1)

compare_purge(p, q) ==
    \/ Len(p) > Len(q)
    \/ Len(p) = Len(q) /\ compare_manifest_paths(q, p)

compare_hardlinks(r, s) ==
    \/ r.id < s.id
    \/ r.id = s.id /\ r.id # 0 /\ compare_manifest_paths(r.path, s.path)

compare_scratch_keys(kind, r, s) ==
    CASE kind = "purge"    -> compare_purge(r.path, s.path)
      [] kind = "hardlink" -> compare_hardlinks(r, s)
      [] OTHER             -> compare_manifest_paths(r.path, s.path)

Sorted(recs) == SortSeq(recs, LAMBDA r, s : compare_scratch_keys(order, r, s))

(***************************************************************************)
(* Files of the store directory                                            *)
(***************************************************************************)
Blank == [recs |-> <<>>, head |-> <<>>]

\* the descriptor taken at creation is still what the name denotes
validate_file(name) == disk[name] = "own"

\* a run in memory: its name, level and the digest computed while writing
Run(name, level, recs) == [name |-> name, level |-> level, digest |-> recs]

NoJob == [dest |-> None, group |-> <<>>, rest |-> <<>>, readers |-> <<>>,
          prev |-> <<>>, out |-> <<>>, name |-> 0, bad |-> FALSE]

Fresh == [pc |-> "build", buffer |-> <<>>, runs |-> <<>>, old |-> <<>>,
          purpose |-> None, job |-> NoJob]

NoResult == [what |-> None, ok |-> FALSE, out |-> <<>>]

Fail(what) ==
    /\ mem' = [mem EXCEPT !.pc = "failed", !.job = NoJob]
    /\ result' = [what |-> what, ok |-> FALSE, out |-> <<>>]

(***************************************************************************)
(* RunBuilder                                                              *)
(***************************************************************************)
Init ==
    /\ order \in Orders
    /\ \E in \in Inputs :
          input = (IF order = "hardlink" THEN <<Sentinel>> ELSE <<>>)
                    \o [i \in DOMAIN in |-> Good(in[i])]
    /\ pushed = <<>>
    /\ disk = [n \in Names |-> None]
    /\ file = [n \in Names |-> Blank]
    /\ seq = 1
    /\ mem = Fresh
    /\ expected = <<>>
    /\ result = NoResult
    /\ budget = [faults |-> MaxFaults, kills |-> MaxKills]

FitsMutant == Len(mem.buffer) <= Buffer

\* the next record still fits the sort memory
Fits == Len(mem.buffer) < Buffer

\* one record taken into the arena, when it fits
push ==
    /\ mem.pc = "build"
    /\ input # <<>>
    /\ IF Len(pushed) >= MaxRecords
       THEN /\ Fail("build")
            /\ UNCHANGED <<input, pushed>>
       ELSE /\ Fits
            /\ mem' = [mem EXCEPT !.buffer = Append(@, Head(input))]
            /\ input' = Tail(input)
            /\ pushed' = Append(pushed, Head(input))
            /\ UNCHANGED result
    /\ UNCHANGED <<order, disk, file, seq, expected, budget>>

\* ScratchRunWriter::create needs a name nobody has
CanCreate == disk[seq] = None

\* the arena sorted and written as a run of level 0
flush ==
    /\ mem.pc = "build"
    /\ mem.buffer # <<>>
    /\ \/ input = <<>>
       \/ ~Fits /\ Len(pushed) < MaxRecords
    /\ IF CanCreate
       THEN LET recs == Sorted(mem.buffer) IN
            /\ disk' = [disk EXCEPT ![seq] = "own"]
            /\ file' = [file EXCEPT ![seq] = [recs |-> recs, head |-> recs]]
            /\ seq' = seq + 1
            /\ mem' = [mem EXCEPT !.pc = "insert", !.buffer = <<>>,
                                  !.runs = Append(@, Run(seq, 0, recs))]
            /\ UNCHANGED result
       ELSE Fail("build") /\ UNCHANGED <<disk, file, seq>>
    /\ UNCHANGED <<order, input, pushed, expected, budget>>

AtLevel(runs, level) == SelectSeq(runs, LAMBDA r : r.level = level)

\* levels holding a full group of runs
FullLevelsMutant(runs) ==
    {r.level : r \in {x \in {runs[i] : i \in DOMAIN runs} :
                         Len(AtLevel(runs, x.level)) > FanIn}}

FullLevels(runs) ==
    {r.level : r \in {x \in {runs[i] : i \in DOMAIN runs} :
                         Len(AtLevel(runs, x.level)) >= FanIn}}

\* ScratchRunReader::open, and the first read_next
Opens(run) ==
    /\ validate_file(run.name)
    /\ file[run.name].head = run.digest
    /\ Len(file[run.name].recs) = Len(run.digest)

Reader(run) == [run |-> run, seen |-> <<file[run.name].recs[1]>>, live |-> TRUE]

\* a merge of the group into a fresh run, or into the sink
StartMerge(dest, group, rest, runs, old) ==
    LET writes == dest # "sink" IN
    IF /\ Len(group) \in 1..FanIn
       /\ writes => CanCreate
       /\ \A i \in DOMAIN group : Opens(group[i])
    THEN /\ mem' = [mem EXCEPT
              !.pc = "merge", !.runs = runs, !.old = old,
              !.job = [dest |-> dest, group |-> group, rest |-> rest,
                       readers |-> [i \in DOMAIN group |-> Reader(group[i])],
                       prev |-> <<>>, out |-> <<>>,
                       name |-> IF writes THEN seq ELSE 0, bad |-> FALSE]]
         /\ disk' = IF writes THEN [disk EXCEPT ![seq] = "own"] ELSE disk
         /\ file' = IF writes THEN [file EXCEPT ![seq] = Blank] ELSE file
         /\ seq' = IF writes THEN seq + 1 ELSE seq
         /\ UNCHANGED result
    ELSE /\ Fail(IF dest = "insert" THEN "build" ELSE mem.purpose)
         /\ disk' = IF writes /\ CanCreate THEN [disk EXCEPT ![seq] = "own"] ELSE disk
         /\ seq' = IF writes /\ CanCreate THEN seq + 1 ELSE seq
         /\ UNCHANGED file

\* the first FanIn runs of the first full level leave the list together
insert_run ==
    /\ mem.pc = "insert"
    /\ IF FullLevels(mem.runs) = {}
       THEN /\ mem' = [mem EXCEPT !.pc = "build"]
            /\ UNCHANGED <<disk, file, seq, result>>
       ELSE LET first == CHOOSE i \in DOMAIN mem.runs :
                            /\ mem.runs[i].level \in FullLevels(mem.runs)
                            /\ \A j \in 1..(i - 1) :
                                  mem.runs[j].level \notin FullLevels(mem.runs)
                level == mem.runs[first].level
                group == SubSeq(AtLevel(mem.runs, level), 1, FanIn)
                names == {group[i].name : i \in DOMAIN group}
                rest  == SelectSeq(mem.runs, LAMBDA r : r.name \notin names)
            IN  StartMerge("insert", group, rest, <<>>, <<>>)
    /\ UNCHANGED <<order, input, pushed, expected, budget>>

\* the producer gives up; what was spooled stays in the directory
ProducerFails ==
    /\ mem.pc = "build"
    /\ input # <<>>
    /\ budget.faults > 0
    /\ budget' = [budget EXCEPT !.faults = @ - 1]
    /\ Fail("build")
    /\ UNCHANGED <<order, input, pushed, disk, file, seq, expected>>

finish_builder ==
    /\ mem.pc = "build"
    /\ input = <<>>
    /\ mem.buffer = <<>>
    /\ IF mem.runs = <<>>
       THEN Fail("build")
       ELSE mem' = [mem EXCEPT !.pc = "scratch"] /\ UNCHANGED result
    /\ UNCHANGED <<order, input, pushed, disk, file, seq, expected, budget>>

(***************************************************************************)
(* Consumers                                                               *)
(***************************************************************************)
\* what a scratch of this kind may be asked for; a manifest is first
\* fingerprinted, and every later pass has to reproduce that fingerprint; the
\* callers fold it a fixed number of times, here at most once
Purposes ==
    CASE order = "structure" -> {"structure"}
      [] order = "hardlink"  -> {"hardlink", "hardlink_preserving"}
      [] order = "purge"     -> {"purge"}
      [] OTHER -> IF expected = <<>> THEN {"fingerprint"}
                  ELSE {"publish", "discard"}
                         \cup (IF result.what = "read" THEN {} ELSE {"read"})

Consume(purpose) ==
    /\ mem.pc = "scratch"
    /\ purpose \in Purposes
    /\ mem' = [mem EXCEPT !.pc = "collapse", !.purpose = purpose]
    /\ UNCHANGED <<order, input, pushed, disk, file, seq, expected, result, budget>>

TooManyMutant(runs) == Len(runs) > FanIn + 1

TooMany(runs) == Len(runs) > FanIn

GroupSizeMutant(old) == 1

GroupSize(old) == IF Len(old) < FanIn THEN Len(old) ELSE FanIn

\* one group of one pass: `old` is what the pass has still to take, `runs` is
\* what it has put back
collapse_runs ==
    /\ mem.pc = "collapse"
    /\ IF mem.old = <<>>
       THEN IF TooMany(mem.runs)
            THEN /\ mem' = [mem EXCEPT !.old = mem.runs, !.runs = <<>>]
                 /\ UNCHANGED <<disk, file, seq, result>>
            ELSE StartMerge("sink", mem.runs, <<>>, mem.runs, <<>>)
       ELSE LET group == SubSeq(mem.old, 1, GroupSize(mem.old))
                left  == SubSeq(mem.old, GroupSize(mem.old) + 1, Len(mem.old))
            IN  IF Len(group) = 1
                THEN /\ mem' = [mem EXCEPT !.old = left, !.runs = @ \o group]
                     /\ UNCHANGED <<disk, file, seq, result>>
                ELSE StartMerge("collapse", group, <<>>, mem.runs, left)
    /\ UNCHANGED <<order, input, pushed, expected, budget>>

(***************************************************************************)
(* The merge                                                               *)
(***************************************************************************)
Current(reader) == reader.seen[Len(reader.seen)]

Live == {i \in DOMAIN mem.job.readers : mem.job.readers[i].live}

SelectedMutant ==
    CHOOSE i \in Live : \A j \in Live :
        ~compare_scratch_keys(order, Current(mem.job.readers[i]), Current(mem.job.readers[j]))

\* the first reader whose record is not above any other
Selected ==
    CHOOSE i \in Live : \A j \in Live :
        LET a == Current(mem.job.readers[i])
            b == Current(mem.job.readers[j])
        IN  /\ ~compare_scratch_keys(order, b, a)
            /\ j < i => compare_scratch_keys(order, a, b)

StrictlyAfterMutant(record) ==
    mem.job.prev = <<>> \/ ~compare_scratch_keys(order, record, mem.job.prev[1])

StrictlyAfter(record) ==
    mem.job.prev = <<>> \/ compare_scratch_keys(order, mem.job.prev[1], record)

\* read_next: the record after those seen, unless the run's count is reached
\* or the file is shorter than it was
Advance(reader) ==
    IF Len(reader.seen) = Len(reader.run.digest)
    THEN [reader EXCEPT !.live = FALSE]
    ELSE [reader EXCEPT !.seen = Append(@, file[reader.run.name].recs[Len(@) + 1])]

CanAdvance(reader) ==
    \/ Len(reader.seen) = Len(reader.run.digest)
    \/ Len(file[reader.run.name].recs) > Len(reader.seen)

\* the structure cursor drains to the end with its first error kept; every
\* other consumer stops at the first bad record
Drains == mem.job.dest = "sink" /\ mem.purpose = "structure"

\* records the sink itself refuses: the v3 decoder, or a second sentinel
SinkRefuses(record) ==
    /\ mem.job.dest = "sink"
    /\ mem.purpose \in {"fingerprint", "read", "publish", "discard", "structure"}
    /\ record.body = "bad"

StepFails(record) ==
    \/ ~StrictlyAfter(record) /\ ~Drains
    \/ SinkRefuses(record) /\ ~Drains

merge_step ==
    /\ mem.pc = "merge"
    /\ Live # {}
    /\ LET i == Selected
           record == Current(mem.job.readers[i])
       IN  IF StepFails(record) \/ ~CanAdvance(mem.job.readers[i])
           THEN Fail(IF mem.job.dest = "insert" THEN "build" ELSE mem.purpose)
           ELSE /\ mem' = [mem EXCEPT
                     !.job.readers[i] = Advance(@),
                     !.job.prev = <<record>>,
                     !.job.out = Append(@, record),
                     !.job.bad = @ \/ ~StrictlyAfter(record) \/ SinkRefuses(record)]
                /\ UNCHANGED result
    /\ UNCHANGED <<order, input, pushed, disk, file, seq, expected, budget>>

\* ScratchRunReader::finish: nothing after the last record, and what was read
\* is what was written
FinishesMutant(reader) == Len(file[reader.run.name].recs) = Len(reader.run.digest)

Finishes(reader) ==
    /\ Len(file[reader.run.name].recs) = Len(reader.run.digest)
    /\ reader.seen = reader.run.digest

AllFinish == \A i \in DOMAIN mem.job.readers : Finishes(mem.job.readers[i])

\* the caller's fold refused a record; it is reported after authentication
FoldFails == mem.purpose \in {"read", "hardlink", "hardlink_preserving", "structure"}

OutputRun ==
    LET level == 1 + (CHOOSE l \in {r.level : r \in {mem.job.group[i] : i \in DOMAIN mem.job.group}} :
                         \A i \in DOMAIN mem.job.group : mem.job.group[i].level <= l)
    IN  Run(mem.job.name, level, mem.job.out)

InsertedMutant == mem.job.rest

\* the merged run goes behind the runs that were kept
Inserted == Append(mem.job.rest, OutputRun)

\* an intermediate merge ends: the output is finished under its own name
create_merged_run ==
    /\ mem.pc = "merge"
    /\ mem.job.dest # "sink"
    /\ Live = {}
    /\ IF AllFinish /\ validate_file(mem.job.name)
       THEN /\ file' = [file EXCEPT ![mem.job.name] =
                            [recs |-> mem.job.out, head |-> mem.job.out]]
            /\ mem' = [mem EXCEPT !.pc = "remove"]
            /\ UNCHANGED result
       ELSE /\ Fail(IF mem.job.dest = "insert" THEN "build" ELSE mem.purpose)
            /\ UNCHANGED file
    /\ UNCHANGED <<order, input, pushed, disk, seq, expected, budget>>

\* an order or codec error kept while the structure cursor drained
StructureAccepts == ~mem.job.bad

\* the sentinel of a hardlink scratch is there, once
HardlinkAccepts ==
    Cardinality({i \in DOMAIN mem.job.out : mem.job.out[i].id = 0}) = 1

\* the purge plan takes every record it was promised
PurgeAccepts == Len(mem.job.out) = Len(pushed)

\* a later pass reproduces the fingerprint of the first
ManifestAccepts == expected # <<>> => mem.job.out = expected

SinkAccepts ==
    /\ AllFinish
    /\ Len(mem.job.out) = Len(pushed)
    /\ CASE order = "structure" -> StructureAccepts
         [] order = "hardlink"  -> HardlinkAccepts
         [] order = "purge"     -> PurgeAccepts
         [] OTHER               -> ManifestAccepts

Consuming == mem.purpose \notin {"fingerprint", "read"}

\* the last record has been given to the sink
sink_ends ==
    /\ mem.pc = "merge"
    /\ mem.job.dest = "sink"
    /\ Live = {}
    /\ IF ~SinkAccepts
       THEN Fail(mem.purpose) /\ UNCHANGED expected
       ELSE /\ mem' = IF Consuming THEN [mem EXCEPT !.pc = "remove"]
                      ELSE [mem EXCEPT !.pc = "scratch", !.job = NoJob]
            /\ result' = IF Consuming THEN result
                         ELSE [what |-> mem.purpose, ok |-> TRUE, out |-> mem.job.out]
            /\ expected' = IF order = "manifest" THEN mem.job.out ELSE expected
    /\ UNCHANGED <<order, input, pushed, disk, file, seq, budget>>

\* remove_runs: each pin is checked against its name before the unlink
RemovableMutant == {}

Removable == {r.name : r \in {mem.job.group[i] : i \in DOMAIN mem.job.group}}

remove_runs ==
    /\ mem.pc = "remove"
    /\ IF \E n \in Removable : ~validate_file(n)
       THEN /\ \E S \in SUBSET {n \in Removable : validate_file(n)} :
                  disk' = [n \in Names |-> IF n \in S THEN None ELSE disk[n]]
            /\ Fail(IF mem.job.dest = "insert" THEN "build" ELSE mem.purpose)
       ELSE /\ disk' = [n \in Names |-> IF n \in Removable THEN None ELSE disk[n]]
            /\ CASE mem.job.dest = "insert" ->
                      /\ mem' = [mem EXCEPT !.pc = "insert", !.job = NoJob,
                                    !.runs = Inserted]
                      /\ UNCHANGED result
                 [] mem.job.dest = "collapse" ->
                      /\ mem' = [mem EXCEPT !.pc = "collapse", !.job = NoJob,
                                    !.runs = Append(@, OutputRun)]
                      /\ UNCHANGED result
                 [] OTHER ->
                      /\ mem' = [mem EXCEPT !.pc = "returned", !.job = NoJob, !.runs = <<>>]
                      /\ \/ result' = [what |-> mem.purpose, ok |-> TRUE, out |-> mem.job.out]
                         \/ FoldFails /\ result' = [what |-> "fold", ok |-> FALSE, out |-> <<>>]
    /\ UNCHANGED <<order, input, pushed, file, seq, expected, budget>>

\* a fold that refuses a record of a manifest ends that pass at once
read_fold_fails ==
    /\ mem.pc = "merge"
    /\ mem.job.dest = "sink"
    /\ mem.purpose = "read"
    /\ Live # {}
    /\ Fail("fold")
    /\ UNCHANGED <<order, input, pushed, disk, file, seq, expected, budget>>

(***************************************************************************)
(* Cleaning up, and the outside world                                      *)
(***************************************************************************)
\* every scratch name in the directory is opened, checked to be a private
\* file and unlinked; one that is not ends the scan
Cleaned(next) ==
    /\ IF \A n \in Names : disk[n] # "unsafe"
       THEN disk' = [n \in Names |-> None]
       ELSE \E S \in SUBSET {n \in Names : disk[n] # "unsafe"} :
               disk' = [n \in Names |-> IF n \in S THEN None ELSE disk[n]]
    /\ mem' = next

\* callers clean the store after any refusal; three consumers do it themselves
\* after success too
cleanup_unpublished ==
    /\ mem.pc = "failed" \/ (mem.pc = "returned" /\ order # "manifest")
    /\ Cleaned([Fresh EXCEPT !.pc = "done"])
    /\ UNCHANGED <<order, input, pushed, file, seq, expected, result, budget>>

\* a published or discarded manifest needs no scan
published ==
    /\ mem.pc = "returned"
    /\ order = "manifest"
    /\ mem' = [Fresh EXCEPT !.pc = "done"]
    /\ UNCHANGED <<order, input, pushed, disk, file, seq, expected, result, budget>>

Kill ==
    /\ mem.pc \notin {"done", "dead"}
    /\ budget.kills > 0
    /\ budget' = [budget EXCEPT !.kills = @ - 1]
    /\ mem' = [Fresh EXCEPT !.pc = "dead"]
    /\ UNCHANGED <<order, input, pushed, disk, file, seq, expected, result>>

\* the next process starts its own count of names and cleans the store before
\* it spools anything; the same tree is presented again
Reopen ==
    /\ mem.pc = "dead"
    /\ Cleaned(IF \A n \in Names : disk[n] # "unsafe" THEN Fresh
               ELSE [Fresh EXCEPT !.pc = "done"])
    /\ seq' = 1
    /\ input' = pushed \o input
    /\ pushed' = <<>>
    /\ expected' = <<>>
    /\ result' = NoResult
    /\ UNCHANGED <<order, file, budget>>

Spend ==
    /\ budget.faults > 0
    /\ mem.pc \notin {"done", "dead"}
    /\ budget' = [budget EXCEPT !.faults = @ - 1]
    /\ UNCHANGED <<order, input, pushed, seq, mem, expected, result>>

\* another program writes to a run through its name
Rewritten(recs) ==
    {SubSeq(recs, 1, Len(recs) - 1)}
    \cup {Append(recs, r) : r \in {recs[i] : i \in DOMAIN recs}}
    \cup {[recs EXCEPT ![i].body = "bad"] : i \in DOMAIN recs}
    \cup {[recs EXCEPT ![i] = recs[j]] : i, j \in DOMAIN recs}
    \cup {[recs EXCEPT ![i] = recs[i + 1], ![i + 1] = recs[i]] : i \in 1..(Len(recs) - 1)}

Alter ==
    /\ Spend
    /\ \E n \in Names :
          /\ disk[n] = "own" /\ file[n].recs # <<>>
          /\ \E recs \in Rewritten(file[n].recs) \ {file[n].recs}, whole \in BOOLEAN :
                file' = [file EXCEPT ![n] = [recs |-> recs,
                                             head |-> IF whole THEN recs ELSE @.head]]
    /\ UNCHANGED disk

\* another program takes a name away, or gives it to a file of its own
Rename ==
    /\ Spend
    /\ \E n \in Names, what \in {None, "other", "unsafe"} :
          disk[n] = "own" /\ disk' = [disk EXCEPT ![n] = what]
    /\ UNCHANGED file

Process ==
    \/ push \/ flush \/ insert_run \/ finish_builder
    \/ \E p \in Purposes : Consume(p)
    \/ collapse_runs \/ merge_step \/ create_merged_run \/ sink_ends
    \/ remove_runs \/ read_fold_fails \/ cleanup_unpublished \/ published
    \/ Reopen

Ended == mem.pc = "done" /\ UNCHANGED vars

Next == Process \/ ProducerFails \/ Kill \/ Alter \/ Rename \/ Ended

Spec == Init /\ [][Next]_vars

(***************************************************************************)
(* Properties                                                              *)
(***************************************************************************)
TypeOK ==
    /\ order \in Orders
    /\ \A n \in Names : disk[n] \in {None, "own", "other", "unsafe"}
    /\ seq \in 1..(MaxNames + 1)
    /\ Len(mem.buffer) \in 0..Buffer
    /\ \A i \in DOMAIN mem.runs : mem.runs[i].name \in 1..seq /\ mem.runs[i].digest # <<>>
    /\ mem.pc \in {"build", "insert", "scratch", "collapse", "merge", "remove",
                   "returned", "failed", "done", "dead"}
    /\ result.ok \in BOOLEAN

\* What a consumer is given and told to be complete is what the producer
\* presented, each record once, in strictly increasing key order: through any
\* number of runs and merges, and whatever another program did to the run
\* files in between (the digests of ScratchRunReader::finish, the strict
\* order of merge_runs).
OnlyTheInput ==
    result.ok =>
        /\ result.out = Sorted(pushed)
        /\ \A i \in 1..(Len(result.out) - 1) :
              compare_scratch_keys(order, result.out[i], result.out[i + 1])

\* Until a consumer takes them, the arena and the runs held open carry the
\* presented records, each once: a merge that lost a name or read changed bytes
\* stops before its inputs are unlinked, and none of its output is adopted
\* (remove_runs after create_merged_run in insert_run).
NoRecordDropped ==
    mem.pc \in {"build", "insert", "scratch"} =>
        Sorted(pushed) =
            Sorted(mem.buffer \o
                   (LET digests[i \in 0..Len(mem.runs)] ==
                            IF i = 0 THEN <<>> ELSE digests[i - 1] \o mem.runs[i].digest
                    IN  digests[Len(mem.runs)]))

\* A tree with one record per path, left alone by other programs, always
\* sorts: no fan-in, name, count or order check of this code refuses its own
\* work, at any number of runs and after any kill.
RefusalHasACause ==
    mem.pc = "failed" /\ result.what # "fold" =>
        \/ budget.faults < MaxFaults
        \/ \E i, j \in DOMAIN pushed : i # j /\ pushed[i] = pushed[j]
        \/ Len(pushed) >= MaxRecords
        \/ pushed = <<>>

\* Once the call is over no scratch name is left in the store, whether it
\* succeeded, was refused or followed a kill, unless a name was given to a
\* file the cleanup may not remove.
NothingLeft ==
    mem.pc = "done" =>
        \/ \A n \in Names : disk[n] = None
        \/ \E n \in Names : disk[n] = "unsafe"

\* Between two records there are fewer than FanIn runs of any level, so the
\* open descriptors grow with the logarithm of the input; no merge opens more
\* than FanIn of them.
RunsBounded ==
    /\ mem.pc \in {"build", "scratch"} =>
          \A i \in DOMAIN mem.runs : Len(AtLevel(mem.runs, mem.runs[i].level)) < FanIn
    /\ Len(mem.job.readers) <= FanIn

=============================================================================
