----------------------------- MODULE Lifecycle -----------------------------
(***************************************************************************)
(* The legacy arm of degu's lifecycle (crates/degu/src/lifecycle): staging *)
(* a finding into the trash, `degu undo`, `degu trash purge` and the seven *)
(* day expiry, all of them under the mutation lock and recorded in the     *)
(* operation log, a JSONL file that is appended to and never synced.       *)
(*                                                                         *)
(* The state is the file system (which object is at which name), the       *)
(* reservation markers in `.claims`, the operation log and the command     *)
(* that runs.  Other programs share the file system: they recreate, touch  *)
(* and replace caches at their source paths, and the account may touch or  *)
(* empty its trash.  A command may fail at any call, be killed between any *)
(* two, or lose the unsynced tail of the log to a power cut.               *)
(***************************************************************************)
EXTENDS Integers, Sequences, FiniteSets, FiniteSetsExt, SequencesExt

CONSTANTS
    Items,          \* the paths that findings name
    MaxSeq,         \* bound: trash sequence numbers
    MaxClaims,      \* bound: purge claim names in use at once
    MaxIno,         \* bound: objects that ever exist
    MaxLog,         \* bound: records the operation log holds
    MaxCommands,    \* bound: commands the account runs
    MaxFaults,      \* bound: calls that fail
    MaxCrashes,     \* bound: process deaths and power cuts
    MaxExternal,    \* bound: steps of other programs
    MaxDay,         \* bound: the clock, in units of the time to live
    CrashKinds,     \* of "killed" and "power"
    Foreign,        \* the names other programs write at
    CleanPurges,    \* whether a clean is run with --purge, a set of Booleans
    Commands        \* the commands the account may run

VARIABLES
    fs,             \* the object at each name
    markers,        \* reservation markers: the sequence and the day of each
    log,            \* the readable records of the operation log
    op,             \* the command that holds the mutation lock
    report,         \* what the last clean of each path told the account
    budget          \* what is left of the bounds, and the clock

vars == <<fs, markers, log, op, report, budget>>

Src(p) == <<"source", p>>
Ent(n) == <<"trash", n>>
Clm(k) == <<"claim", k>>
Sources == {Src(p) : p \in Items}
Entries == {Ent(n) : n \in 1 .. MaxSeq}
Claims == {Clm(k) : k \in 1 .. MaxClaims}
Locs == Sources \cup Entries \cup Claims

NoObj == [ino |-> 0, ctime |-> 0, day |-> 0, whole |-> TRUE, home |-> <<"none", 0>>, staged |-> 0,
          group |-> 0]

Exists(l) == fs[l] # NoObj

\* ObjectIdentity: kind, device and inode are `ino`.
Ident(o) == [ino |-> o.ino, ctime |-> o.ctime]
NoIdent == Ident(NoObj)
SameObject(a, b) == a.ino = b.ino

\* PlannedTrashEntry: a name and the object that was there when it was planned.
Planned(l) == [loc |-> l, ident |-> Ident(fs[l])]
NoWork == [loc |-> <<"none", 0>>, ident |-> NoIdent]

\* A rename gives the object a new change time (the file system's doing).
Renamed(o) == [o EXCEPT !.ctime = @ + 1, !.day = budget.day]
Moves(from, to, o) == fs' = [fs EXCEPT ![from] = NoObj, ![to] = o]

Idle == [kind |-> "idle", pc |-> "idle", todo |-> <<>>, at |-> 0, claim |-> 0,
         ident |-> NoIdent, work |-> NoWork, out |-> "none", group |-> 0,
         purge |-> FALSE, expiry |-> <<>>, failed |-> FALSE,
         since |-> 0]    \* ghost: the outside steps left at the last identity check

---------------------------------------------------------------------------
(* The operation log.                                                      *)

Record(action, outcome, path, entry, ident, group) ==
    [action |-> action, outcome |-> outcome, path |-> path, entry |-> entry,
     ident |-> ident, group |-> group, day |-> budget.day]

\* Append succeeds.
Logged(r) == log' = Append(log, r)

\* Mutant: the reader accepts a torn line.
UnloggedTorn(r) == log' \in {log, Append(log, [r EXCEPT !.outcome = "torn"])}

\* Append fails: the line is absent, or complete up to its newline, which the
\* next append supplies and the reader does not need.
Unlogged(r) == log' \in {log, Append(log, r)}

---------------------------------------------------------------------------
(* Reconciling the log with the file system (reconcile.rs, oplog.rs).      *)

\* reconcile_pending_move: where a move that was announced stands.
PendingMove(from, to, expected) ==
    LET source == Exists(from)
        target == Exists(to)
    IN  IF source /\ target THEN "BothExist"
        ELSE IF ~source /\ ~target THEN "BothMissing"
        ELSE IF expected = NoIdent THEN "Identity"
        ELSE IF target
             THEN IF SameObject(Ident(fs[to]), expected) THEN "Moved" ELSE "Identity"
             ELSE IF Ident(fs[from]) = expected THEN "NotMoved" ELSE "Identity"

\* Mutant: an interrupted stage must find the change time of before the rename.
PendingStageExact(r) ==
    IF PendingMove(r.path, Ent(r.entry), r.ident) = "Moved" /\ Ident(fs[Ent(r.entry)]) # r.ident
    THEN "Identity" ELSE PendingMove(r.path, Ent(r.entry), r.ident)

PendingStage(r) == PendingMove(r.path, Ent(r.entry), r.ident)

PendingRestore(r) == PendingMove(Ent(r.entry), r.path, r.ident)

\* recorded_entry_state: an Ok record speaks only for the exact object.
RecordedEntry(r) ==
    IF ~Exists(Ent(r.entry)) THEN "Missing"
    ELSE IF Ident(fs[Ent(r.entry)]) = r.ident THEN "Match" ELSE "Ambiguous"

Names(i, action, n) == log[i].action = action /\ log[i].entry = n

NamedLater(i) ==
    \E j \in DOMAIN log : j > i /\ Names(j, "Trash", log[i].entry)

\* Mutant: a restore still counts after its entry name was staged to again.
DecidingRestoreForever(n) ==
    {j \in DOMAIN log : /\ Names(j, "Restore", n)
                        /\ \A k \in DOMAIN log : k > j => ~Names(k, "Restore", n)}

\* The restore of entry n that the scan from the end of the log settles on.
DecidingRestore(n) ==
    {j \in DOMAIN log :
        /\ Names(j, "Restore", n)
        /\ \A k \in DOMAIN log : k > j => ~Names(k, "Restore", n) /\ ~Names(k, "Trash", n)}

Restored(n) ==
    \E j \in DecidingRestore(n) :
        \/ log[j].outcome = "Ok"
        \/ log[j].outcome = "Pending" /\ PendingRestore(log[j]) = "Moved"

AmbiguousRestore(n) ==
    \E j \in DecidingRestore(n) :
        /\ log[j].outcome = "Pending"
        /\ PendingRestore(log[j]) \in {"BothExist", "BothMissing", "Identity"}

PurgedAfter(i) ==
    \E j \in DOMAIN log : /\ j > i
                          /\ log[j].action = "Purge"
                          /\ log[j].outcome = "Ok"
                          /\ log[j].path = Ent(log[i].entry)

\* active_trash_state: the staging records that still speak for their entry.
ActiveTrash ==
    {i \in DOMAIN log :
        /\ log[i].action = "Trash"
        /\ log[i].entry # 0
        /\ log[i].outcome = "Failed" => Exists(Ent(log[i].entry))
        /\ ~NamedLater(i)
        /\ ~Restored(log[i].entry)
        /\ ~PurgedAfter(i)}

\* reconciled_record_info: "none", or whether what is at the entry is in doubt.
RecordInfo(r) ==
    CASE r.outcome = "Ok" ->
            (CASE RecordedEntry(r) = "Match" -> "sure"
               [] RecordedEntry(r) = "Missing" -> "none"
               [] OTHER -> "ambiguous")
      [] r.outcome = "Pending" ->
            (CASE PendingStage(r) = "Moved" -> "sure"
               [] PendingStage(r) \in {"BothExist", "Identity"} -> "ambiguous"
               [] OTHER -> "none")
      [] OTHER -> IF Exists(Ent(r.entry)) THEN "ambiguous" ELSE "none"

\* reconciled_trash_info, for entry n: the record, if any, that describes it.
TrashInfo(n) ==
    {i \in ActiveTrash : log[i].entry = n /\ RecordInfo(log[i]) # "none"}

\* Mutant: expiry trusts a record whose object is not the one it recorded.
InfoAmbiguousByRestore(i) == AmbiguousRestore(log[i].entry)

InfoAmbiguous(i) ==
    RecordInfo(log[i]) = "ambiguous" \/ AmbiguousRestore(log[i].entry)

---------------------------------------------------------------------------
(* What undo and expiry select.                                            *)

\* classify_undo_record.
UndoClass(i) ==
    LET r == log[i] IN
    CASE AmbiguousRestore(r.entry) -> "Ambiguous"
      [] r.outcome = "Failed" -> "Ambiguous"
      [] r.outcome = "Ok" ->
            (CASE RecordedEntry(r) = "Match" -> "Restorable"
               [] RecordedEntry(r) = "Missing" -> "Gone"
               [] OTHER -> "Ambiguous")
      [] OTHER ->
            (CASE PendingStage(r) = "Moved" -> "Restorable"
               [] PendingStage(r) = "NotMoved" -> "Ignore"
               [] OTHER -> "Ambiguous")

Actionable(grp) == \E i \in grp : UndoClass(i) \in {"Restorable", "Ambiguous"}

\* select_actionable_undo_group: the newest group with something to do.
UndoGroupUpTo[e \in 0 .. MaxLog] ==
    LET cand == {i \in ActiveTrash : i <= e} IN
    IF cand = {} THEN {}
    ELSE LET grp == {i \in cand : log[i].group = log[Max(cand)].group} IN
         IF Actionable(grp) THEN grp ELSE UndoGroupUpTo[Min(grp) - 1]

UndoGroupNamed(g) == {i \in ActiveTrash : log[i].group = g}

\* The records an undo attempts, newest first; ambiguous ones it only lists.
UndoTargets(grp) ==
    LET chosen == {i \in grp : UndoClass(i) \in {"Restorable", "Gone"}}
        newest == Reverse(SetToSortSeq(chosen, <))
    IN  [k \in DOMAIN newest |-> log[newest[k]]]

\* Mutant: whatever is at the entry now is what undo restores.
RecordAuthorizesAnything(r, current) == r.outcome # "Failed" /\ current # NoIdent

\* recorded_authorizes: authority flows from the staging record.
RecordAuthorizes(r, current) ==
    /\ r.ident # NoIdent
    /\ \/ r.outcome = "Ok" /\ current = r.ident
       \/ r.outcome = "Pending" /\ SameObject(current, r.ident)

\* trash_entry_expiry and should_purge_expired_entry; the time to live is one
\* unit of the clock.  An entry no record describes falls back on its own times.
Expiring(n) ==
    /\ Exists(Ent(n))
    /\ IF TrashInfo(n) = {}
       THEN budget.day - fs[Ent(n)].day >= 1
       ELSE \A i \in TrashInfo(n) : /\ ~InfoAmbiguous(i)
                                    /\ budget.day - log[i].day >= 1

---------------------------------------------------------------------------
(* Steps every command shares.                                             *)

Spend(what) == budget' = [budget EXCEPT ![what] = @ - 1]
Spared == UNCHANGED budget
Fault == budget.faults > 0 /\ Spend("faults")

\* A record whose loss the command reports and survives.
Settled(r) ==
    \/ Logged(r) /\ Spared
    \/ Fault /\ Unlogged(r)

\* A command takes the mutation lock; no two hold it at once.
Starts == op = Idle /\ budget.commands > 0 /\ Spend("commands")

Goto(pc) == op' = [op EXCEPT !.pc = pc]
Next1 == op' = [op EXCEPT !.pc = "next", !.todo = Tail(@), !.work = NoWork]
Head1 == Head(op.todo)
LogRoom(n) == Len(log) + n <= MaxLog

---------------------------------------------------------------------------
(* clean: stage_finding_with_log for each item of a captured plan.         *)

\* CleanExecution::failed: every state but a plain staging or purge.
Failure(state) == state \notin {"staged", "purged"}

\* One item is over: what the account is told of it, and on to the next.
ItemDone(state, ino) ==
    /\ report' = [report EXCEPT ![Head1.p] = [state |-> state, ino |-> ino]]
    /\ op' = [op EXCEPT !.pc = "next", !.todo = Tail(@), !.failed = @ \/ Failure(state)]

\* The expiry plan is drawn up before anything is staged (plan_expired_trash).
ExpiryPlan ==
    LET due == SetToSortSeq({n \in 1 .. MaxSeq : Expiring(n)}, <)
    IN  [k \in DOMAIN due |-> Planned(Ent(due[k]))]

\* CapturedCleanPlan::capture, the lock and the expiry plan.
CleanStart(items, purge) ==
    /\ Starts /\ "clean" \in Commands
    /\ \A p \in items : Exists(Src(p))
    /\ items # {} \/ ExpiryPlan # <<>>
    /\ op' = [Idle EXCEPT !.kind = "clean", !.pc = "next", !.purge = purge,
                          !.group = budget.commands, !.expiry = ExpiryPlan,
                          !.todo = LET s == SetToSeq(items) IN
                                   [k \in DOMAIN s |-> [p |-> s[k], ident |-> Ident(fs[Src(s[k])])]]]
    /\ report' = [p \in Items |-> IF p \in items THEN [state |-> "none", ino |-> 0] ELSE report[p]]
    /\ UNCHANGED <<fs, markers, log>>

Marked == {m.seq : m \in markers}
Unmark(n) == markers' = {m \in markers : m.seq # n}

\* Trash::next_seq looks at the entries alone; a marker is passed over.
NextSeq ==
    LET past == {n \in 1 .. MaxSeq : Exists(Ent(n))}
        first == IF past = {} THEN 1 ELSE Max(past) + 1
        free == {n \in first .. MaxSeq : n \notin Marked}
    IN  IF free = {} THEN 0 ELSE Min(free)

\* prepare_trash_root and Trash::reserve.
CleanReserve ==
    /\ op.kind = "clean" /\ op.pc = "next" /\ op.todo # <<>>
    /\ NextSeq # 0
    /\ LogRoom(2)
    /\ markers' = markers \cup {[seq |-> NextSeq, day |-> budget.day]}
    /\ op' = [op EXCEPT !.pc = "validate", !.at = NextSeq, !.out = "none", !.ident = NoIdent]
    /\ UNCHANGED <<fs, log, report, budget>>

\* The root or the reservation is refused: record_clean_failure.  MaxSeq and
\* MaxLog stand for any reason a reservation is refused.
CleanReserveFails ==
    /\ op.kind = "clean" /\ op.pc = "next" /\ op.todo # <<>>
    /\ IF NextSeq = 0 \/ ~LogRoom(2) THEN Spared ELSE Fault
    /\ IF LogRoom(1)
       THEN Unlogged(Record("Trash", "Failed", Src(Head1.p), 0, NoIdent, op.group))
       ELSE UNCHANGED log
    /\ ItemDone("stage_failed", 0)
    /\ UNCHANGED <<fs, markers>>

\* release_failed_reservation; a marker that will not go stays behind.
StageFails ==
    /\ Unmark(op.at) \/ UNCHANGED markers
    /\ ItemDone("stage_failed", 0)
    /\ UNCHANGED fs

\* validate_source_tree and the destination parent, before anything is written.
CleanValidate ==
    /\ op.pc = "validate"
    /\ \/ /\ Ident(fs[Src(Head1.p)]) = Head1.ident
          /\ Goto("announce")
          /\ UNCHANGED <<fs, markers, report, budget>>
       \/ Ident(fs[Src(Head1.p)]) # Head1.ident /\ StageFails /\ Spared
       \/ Fault /\ StageFails
    /\ UNCHANGED log

\* The Pending record, which undo trusts after an interruption.
CleanAnnounce ==
    /\ op.pc = "announce"
    /\ LET r == Record("Trash", "Pending", Src(Head1.p), op.at, Head1.ident, op.group)
       IN  \/ /\ Logged(r)
              /\ Goto("recheck")
              /\ UNCHANGED <<fs, markers, report, budget>>
           \/ Fault /\ Unlogged(r) /\ StageFails

\* move_verified: the protection recheck, the second traversal and the identity.
CleanRecheck ==
    /\ op.pc = "recheck"
    /\ \/ /\ Ident(fs[Src(Head1.p)]) = Head1.ident
          /\ Goto("rename") /\ Spared
       \/ /\ Ident(fs[Src(Head1.p)]) # Head1.ident
          /\ op' = [op EXCEPT !.pc = "release", !.out = "failed"] /\ Spared
       \/ /\ Fault
          /\ op' = [op EXCEPT !.pc = "release", !.out = "failed"]
    /\ UNCHANGED <<fs, markers, log, report>>

\* rename_from_verified_parent: no-replace, then the moved object is compared,
\* which it can not be when the look at it fails.
CleanRename ==
    /\ op.pc = "rename"
    /\ LET from == Src(Head1.p)
           o == [Renamed(fs[from]) EXCEPT !.staged = budget.day, !.group = op.group]
           arrives(out) == /\ Moves(from, Ent(op.at), o)
                           /\ op' = [op EXCEPT !.pc = "release", !.ident = Ident(o), !.out = out]
       IN  IF ~Exists(from) \/ Exists(Ent(op.at))
           THEN /\ op' = [op EXCEPT !.pc = "release", !.out = "failed"]
                /\ UNCHANGED fs /\ Spared
           ELSE \/ arrives(IF SameObject(Ident(o), Head1.ident) THEN "staged" ELSE "unverified") /\ Spared
                \/ Fault /\ arrives("unverified")
    /\ UNCHANGED <<markers, log, report>>

\* Trash::release_reservation, whatever the move did; a marker that stays turns
\* a staging into one with a failure (with_cleanup_failure).
CleanRelease ==
    /\ op.pc = "release"
    /\ \/ Unmark(op.at) /\ Spared /\ Goto("settle")
       \/ /\ Fault
          /\ UNCHANGED markers
          /\ op' = [op EXCEPT !.pc = "settle",
                              !.out = IF @ = "staged" THEN "staged_with_failure" ELSE @]
    /\ UNCHANGED <<fs, log, report>>

\* The final record; only an unblemished staging goes on to --purge.
CleanSettle ==
    /\ op.pc = "settle"
    /\ LET moved == op.out \in {"staged", "staged_with_failure"}
           r == Record("Trash", IF moved THEN "Ok" ELSE "Failed", Src(Head1.p), op.at,
                       IF moved THEN op.ident ELSE NoIdent, op.group)
           told == IF op.out = "failed" THEN "stage_failed" ELSE op.out
       IN  \/ /\ Logged(r) /\ Spared
              /\ IF op.out = "staged" /\ op.purge
                 THEN /\ op' = [op EXCEPT !.pc = "claim",
                                          !.work = [loc |-> Ent(op.at), ident |-> op.ident]]
                      /\ UNCHANGED report
                 ELSE ItemDone(told, op.ident.ino)
           \/ /\ Fault /\ Unlogged(r)
              /\ ItemDone(IF moved THEN "staged_with_failure" ELSE told, op.ident.ino)
    /\ UNCHANGED <<fs, markers>>

\* execute_expiry: the plan of the start runs once every item has succeeded.
CleanEnds ==
    /\ op.kind = "clean" /\ op.pc = "next" /\ op.todo = <<>>
    /\ op' = IF op.failed \/ op.expiry = <<>> THEN Idle
             ELSE [Idle EXCEPT !.kind = "expiry", !.pc = "next", !.todo = op.expiry]
    /\ UNCHANGED <<fs, markers, log, report, budget>>

Clean ==
    \/ \E items \in SUBSET Items, purge \in CleanPurges : CleanStart(items, purge)
    \/ CleanReserve \/ CleanReserveFails \/ CleanValidate \/ CleanAnnounce
    \/ CleanRecheck \/ CleanRename \/ CleanRelease \/ CleanSettle \/ CleanEnds

---------------------------------------------------------------------------
(* Permanent deletion: claim, announce, delete, put back what would not go, *)
(* settle (purge/claim.rs, purge/transaction.rs).                           *)

Purging == op.kind \in {"purge", "expiry"}

\* plan_all_trash takes interrupted claims too.
AllTrash == {l \in Entries \cup Claims : Exists(l)}

\* plan_selected_trash and plan_named_trash take entries only.
Selectable(locs) == locs \subseteq {l \in Entries : Exists(l)}

\* plan_all_trash, or a plan by name or by original path.
PurgeStart(locs) ==
    /\ Starts /\ "purge" \in Commands
    /\ locs # {}
    /\ locs = AllTrash \/ Selectable(locs)
    /\ op' = [Idle EXCEPT !.kind = "purge", !.pc = "next",
                          !.todo = LET s == SetToSeq(locs) IN [k \in DOMAIN s |-> Planned(s[k])]]
    /\ UNCHANGED <<fs, markers, log, report>>

PurgeTakes ==
    /\ Purging /\ op.pc = "next" /\ op.todo # <<>>
    /\ op' = [op EXCEPT !.pc = "claim", !.work = Head1]
    /\ UNCHANGED <<fs, markers, log, report, budget>>

\* Mutant: an attempt is taken for a deletion.
PurgeOverTrusting(out) ==
    IF op.kind = "clean"
    THEN ItemDone("purged", op.ident.ino)
    ELSE Next1 /\ UNCHANGED report /\ out = out

\* What the attempt on one entry comes to, for the command that made it.
PurgeOver(out) ==
    IF op.kind = "clean"
    THEN ItemDone(IF out = "purged" THEN "purged" ELSE "purge_failed", op.ident.ino)
    ELSE Next1 /\ UNCHANGED report

FreeClaims == {k \in 1 .. MaxClaims : ~Exists(Clm(k))}

\* validate_before_claim: the name still holds the object that was planned.
StillPlanned == Ident(fs[op.work.loc]) = op.work.ident

\* ClaimedTrashEntry::acquire: the name must hold the planned object.
PurgeClaim ==
    /\ op.pc = "claim"
    /\ \/ /\ StillPlanned /\ LogRoom(2) /\ FreeClaims # {}
          /\ Goto("move")
          /\ UNCHANGED <<report, budget>>
       \/ /\ \/ ~StillPlanned /\ Spared
             \/ (FreeClaims = {} \/ ~LogRoom(2)) /\ Spared
             \/ Fault
          /\ PurgeOver("failed")
    /\ UNCHANGED <<fs, markers, log>>

\* rename_verified_located: what is at the name by now goes into .claims, and is
\* deleted only if it is the planned object; another stays there as a claim.
PurgeMove ==
    /\ op.pc = "move"
    /\ LET k == Min(FreeClaims)
           o == Renamed(fs[op.work.loc])
       IN  \/ /\ Exists(op.work.loc)
              /\ Moves(op.work.loc, Clm(k), o)
              /\ \/ /\ SameObject(Ident(o), op.work.ident) /\ Spared
                    /\ op' = [op EXCEPT !.pc = "pannounce", !.claim = k, !.work.ident = Ident(o)]
                    /\ UNCHANGED report
                 \/ /\ IF SameObject(Ident(o), op.work.ident) THEN Fault ELSE Spared
                    /\ PurgeOver("failed")
           \/ ~Exists(op.work.loc) /\ PurgeOver("failed") /\ Spared /\ UNCHANGED fs
    /\ UNCHANGED <<markers, log>>

PurgeRecord(outcome, l) == Record("Purge", outcome, l, 0, NoIdent, op.group)

PurgeAnnounce ==
    /\ op.pc = "pannounce"
    /\ \/ Logged(PurgeRecord("Pending", op.work.loc)) /\ Goto("delete") /\ Spared
       \/ /\ Fault /\ Unlogged(PurgeRecord("Pending", op.work.loc))
          /\ op' = [op EXCEPT !.pc = "putback", !.out = "unlogged"]
    /\ UNCHANGED <<fs, markers, report>>

\* removal::remove works from the leaves up: a call that fails may leave a tree
\* that lost some of them, and whose root changed if one was its own child.
PurgeDelete ==
    /\ op.pc = "delete"
    /\ \/ /\ fs' = [fs EXCEPT ![Clm(op.claim)] = NoObj]
          /\ op' = [op EXCEPT !.pc = "psettle", !.out = "purged"]
          /\ Spared
       \/ /\ Fault
          /\ \E whole, root \in BOOLEAN :
                /\ whole => ~root
                /\ fs' = [fs EXCEPT ![Clm(op.claim)].whole = @ /\ whole,
                                    ![Clm(op.claim)].ctime = @ + (IF root THEN 1 ELSE 0)]
          /\ op' = [op EXCEPT !.pc = "putback", !.out = "failed"]
    /\ UNCHANGED <<markers, log, report>>

\* restore and restore_with_error: only the exact claimed object goes back, and
\* only to a free name.
PurgePutBack ==
    /\ op.pc = "putback"
    /\ LET o == fs[Clm(op.claim)]
           back == Ident(o) = op.work.ident /\ ~Exists(op.work.loc)
       IN  \/ back /\ Moves(Clm(op.claim), op.work.loc, Renamed(o)) /\ Spared
           \/ ~back /\ UNCHANGED fs /\ Spared
           \/ Fault /\ UNCHANGED fs
    /\ IF op.out = "unlogged"
       THEN PurgeOver("failed")
       ELSE Goto("psettle") /\ UNCHANGED report
    /\ UNCHANGED <<markers, log>>

\* The record names where the object is now.
PurgeSettle ==
    /\ op.pc = "psettle"
    /\ LET actual == IF op.out = "purged" \/ ~Exists(Clm(op.claim))
                     THEN op.work.loc ELSE Clm(op.claim)
           r == PurgeRecord(IF op.out = "purged" THEN "Ok" ELSE "Failed", actual)
       IN  Settled(r)
    /\ PurgeOver(op.out)
    /\ UNCHANGED <<fs, markers>>

\* purge_expired_claims follows every batch: old markers go, objects stay.
PurgeEnds ==
    /\ Purging /\ op.pc = "next" /\ op.todo = <<>>
    /\ \/ markers' = {m \in markers : budget.day - m.day < 1} /\ Spared
       \/ Fault /\ UNCHANGED markers
    /\ op' = Idle
    /\ UNCHANGED <<fs, log, report>>

Purge ==
    \/ \E locs \in SUBSET (Entries \cup Claims) : PurgeStart(locs)
    \/ PurgeTakes \/ PurgeClaim \/ PurgeMove \/ PurgeAnnounce \/ PurgeDelete \/ PurgePutBack
    \/ PurgeSettle \/ PurgeEnds

---------------------------------------------------------------------------
(* undo: the newest actionable group, or a named one.                      *)

UndoStart(grp) ==
    /\ Starts /\ "undo" \in Commands
    /\ grp # {}
    /\ UndoTargets(grp) # <<>>
    /\ op' = [Idle EXCEPT !.kind = "undo", !.pc = "next",
                          !.todo = UndoTargets(grp)]
    /\ UNCHANGED <<fs, markers, log, report>>

RestoreRecord(outcome, ident) ==
    Record("Restore", outcome, Head1.path, Head1.entry, ident, Head1.group)

\* capture_identity, then the Pending record that names the object found.
UndoAnnounce ==
    /\ op.kind = "undo" /\ op.pc = "next" /\ op.todo # <<>>
    /\ LET found == Ident(fs[Ent(Head1.entry)])
           r == RestoreRecord("Pending", found)
       IN  IF Exists(Ent(Head1.entry)) /\ RecordAuthorizes(Head1, found) /\ LogRoom(2)
           THEN \/ /\ Logged(r) /\ Spared
                   /\ op' = [op EXCEPT !.pc = "restore", !.ident = found]
                \/ /\ Fault /\ Unlogged(r)
                   /\ Next1
           ELSE Next1 /\ UNCHANGED <<log, budget>>
    /\ UNCHANGED <<fs, markers, report>>

\* rename_verified_into_parent: the recorded parent, then the exact object.
UndoCheck ==
    /\ op.pc = "restore"
    /\ \/ /\ Ident(fs[Ent(Head1.entry)]) = op.ident /\ Spared
          /\ op' = [op EXCEPT !.pc = "return", !.since = budget.external]
       \/ /\ IF Ident(fs[Ent(Head1.entry)]) = op.ident THEN Fault ELSE Spared
          /\ op' = [op EXCEPT !.pc = "usettle", !.out = "Failed"]
    /\ UNCHANGED <<fs, markers, log, report>>

\* The no-replace rename takes what is at the entry by then; a different object,
\* or one that cannot be looked at, is an unverified destination.
UndoRestore ==
    /\ op.pc = "return"
    /\ LET from == Ent(Head1.entry)
           over(out) == op' = [op EXCEPT !.pc = "usettle", !.out = out, !.since = 0]
       IN  IF ~Exists(from) \/ Exists(Head1.path)
           THEN over("Failed") /\ Spared /\ UNCHANGED fs
           ELSE /\ Moves(from, Head1.path, Renamed(fs[from]))
                /\ \/ over(IF SameObject(Ident(fs[from]), op.ident) THEN "Ok" ELSE "Failed") /\ Spared
                   \/ Fault /\ over("Failed")
    /\ UNCHANGED <<markers, log, report>>

UndoSettle ==
    /\ op.pc = "usettle"
    /\ Settled(RestoreRecord(op.out, NoIdent))
    /\ Next1
    /\ UNCHANGED <<fs, markers, report>>

UndoEnds ==
    /\ op.kind = "undo" /\ op.pc = "next" /\ op.todo = <<>>
    /\ op' = Idle
    /\ UNCHANGED <<fs, markers, log, report, budget>>

Undo ==
    \/ UndoStart(UndoGroupUpTo[Len(log)])
    \/ \E g \in {log[i].group : i \in DOMAIN log} : UndoStart(UndoGroupNamed(g))
    \/ UndoAnnounce \/ UndoCheck \/ UndoRestore \/ UndoSettle \/ UndoEnds

---------------------------------------------------------------------------
(* Everything else on the machine.                                         *)

External(change) ==
    /\ budget.external > 0
    /\ change
    /\ UNCHANGED <<markers, log, op, report>>

\* A tool recreates or replaces its cache; the account puts something else in
\* its trash.
Create(l) ==
    /\ budget.ino <= MaxIno
    /\ fs' = [fs EXCEPT ![l] = [NoObj EXCEPT !.ino = budget.ino, !.day = budget.day,
                                             !.home = l, !.staged = budget.day]]
    /\ budget' = [budget EXCEPT !.external = @ - 1, !.ino = @ + 1]

Touch(l) ==
    /\ Exists(l)
    /\ fs' = [fs EXCEPT ![l].ctime = @ + 1, ![l].day = budget.day]
    /\ Spend("external")

Discard(l) ==
    /\ Exists(l)
    /\ fs' = [fs EXCEPT ![l] = NoObj]
    /\ Spend("external")

Others == \E l \in Foreign : External(Create(l)) \/ External(Touch(l)) \/ External(Discard(l))

\* The clock, which no command outlasts; a process dies; the machine loses power,
\* and with it records that no sync ever made durable.
Tick ==
    /\ op = Idle /\ budget.day < MaxDay
    /\ budget' = [budget EXCEPT !.day = @ + 1]
    /\ UNCHANGED <<fs, markers, log, op, report>>

Killed ==
    /\ op # Idle /\ budget.crashes > 0 /\ "killed" \in CrashKinds
    /\ op' = Idle
    /\ report' = [p \in Items |-> [state |-> "none", ino |-> 0]]
    /\ Spend("crashes")
    /\ UNCHANGED <<fs, markers, log>>

PowerLoss ==
    /\ budget.crashes > 0 /\ "power" \in CrashKinds
    /\ op' = Idle
    /\ \E n \in 0 .. Len(log) : log' = SubSeq(log, 1, n)
    /\ report' = [p \in Items |-> [state |-> "none", ino |-> 0]]
    /\ Spend("crashes")
    /\ UNCHANGED <<fs, markers>>

Init ==
    /\ LET order == SetToSeq(Items) IN
       fs = [l \in Locs |->
                IF l \in Sources
                THEN [NoObj EXCEPT !.ino = CHOOSE k \in DOMAIN order : l = Src(order[k]),
                                   !.home = l]
                ELSE NoObj]
    /\ markers = {}
    /\ log = <<>>
    /\ op = Idle
    /\ report = [p \in Items |-> [state |-> "none", ino |-> 0]]
    /\ budget = [faults |-> MaxFaults, crashes |-> MaxCrashes, external |-> MaxExternal,
                 day |-> 0, ino |-> Cardinality(Items) + 1, commands |-> MaxCommands]

Next == Clean \/ Purge \/ Undo \/ Others \/ Tick \/ Killed \/ PowerLoss

Spec == Init /\ [][Next]_vars
---------------------------------------------------------------------------
(* Properties.                                                             *)

Idents == [ino : 0 .. MaxIno, ctime : Nat]
States == {"none", "stage_failed", "staged", "staged_with_failure", "unverified",
           "purged", "purge_failed"}

\* Type correctness of the file system, the log and the reports.
TypeOK ==
    /\ DOMAIN fs = Locs
    /\ \A l \in Locs : Ident(fs[l]) \in Idents
    /\ \A m \in markers : m.seq \in 1 .. MaxSeq /\ m.day \in 0 .. MaxDay
    /\ Len(log) <= MaxLog
    /\ \A i \in DOMAIN log : /\ log[i].action \in {"Trash", "Purge", "Restore"}
                             /\ log[i].outcome \in {"Pending", "Ok", "Failed"}
                             /\ log[i].entry \in 0 .. MaxSeq
    /\ \A p \in Items : report[p].state \in States

\* The record was written for the staging that put object o where it is: Pending
\* names the object as it was before the rename, Ok as it is after it.
Speaks(r, n, o) ==
    /\ r.action = "Trash" /\ r.entry = n /\ r.group = o.group
    /\ \/ r.outcome = "Ok" /\ r.ident = Ident(o)
       \/ r.outcome = "Pending" /\ r.ident = [ino |-> o.ino, ctime |-> o.ctime - 1]

\* Whatever crashes, failed appends, reused entry names and earlier undos did,
\* an object in the trash that nobody touched since it was staged, and whose
\* staging left any record, is restorable while its original path is free, unless
\* it was recorded as a destination that could not be verified
\* (active_trash_state and classify_undo_record together).
StagedIsUndoable ==
    op = Idle =>
        \A n \in 1 .. MaxSeq :
            LET o == fs[Ent(n)] IN
            (/\ Exists(Ent(n))
             /\ o.home \in Sources /\ ~Exists(o.home)
             /\ \E i \in DOMAIN log : Speaks(log[i], n, o)
             /\ ~\E i \in DOMAIN log : Names(i, "Trash", n) /\ log[i].outcome = "Failed" /\ log[i].group = o.group)
            => \E i \in ActiveTrash : log[i].entry = n /\ UndoClass(i) = "Restorable"

\* What a failed clean --purge reports as restorable from the operation log,
\* and nobody touched since, is restorable while its original path is free.
PurgeFailedIsUndoable ==
    op = Idle =>
        \A p \in Items, n \in 1 .. MaxSeq :
            (/\ report[p].state = "purge_failed"
             /\ fs[Ent(n)].ino = report[p].ino
             /\ Exists(Ent(n)) /\ ~Exists(Src(p)))
            => \E i \in ActiveTrash : log[i].entry = n /\ UndoClass(i) = "Restorable"

Inos(f) == {f[l].ino : l \in Locs} \ {0}

\* No step of a command makes an object disappear, except the deletion of the
\* very object its plan named when the account confirmed it.
DeletesOnlyPlanned ==
    op' # op =>
        \A i \in Inos(fs) \ Inos(fs') : op.pc = "delete" /\ i = Head1.ident.ino

\* undo brings an object back to the path it was staged from and never to
\* another, whatever sits at the recorded trash entry up to the identity check, and
\* it brings back a tree that a failed purge had begun to delete only where the
\* staging left no final record.  What is swapped in between the check and the
\* rename does arrive at the path, and is then reported and recorded as a failure.
UndoBringsHome ==
    \A l \in Sources :
        (op.kind = "undo" /\ fs'[l] # fs[l] /\ op' # op)
        => \/ fs'[l].home = l /\ (fs'[l].whole \/ Head1.outcome = "Pending")
           \/ budget.external # op.since /\ op'.out = "Failed"

\* Expiry deletes nothing that has been in the trash for less than the time to
\* live, even when the record that speaks for its name is an older one.
ExpirySparesFresh ==
    op.kind = "expiry" /\ op.pc = "delete" =>
        budget.day - fs[Clm(op.claim)].staged >= 1

\* What an item is reported as is where its object is: staged in its entry,
\* purged nowhere, and after a failed purge still in the trash or its claim.
ReportsMatchTheTrash ==
    \A p \in Items :
        LET now == report'[p]
            places == {l \in Locs : fs'[l].ino = now.ino}
        IN  (report'[p] # report[p] /\ now.ino # 0)
            => CASE now.state = "purged" -> places = {}
                 [] now.state = "purge_failed" -> places # {} /\ places \subseteq Entries \cup Claims
                 [] OTHER -> places = {Ent(op.at)}
=============================================================================
