-------------------------- MODULE LifecycleSession --------------------------
(***************************************************************************)
(* One mutation session of degu over a recovery store that is in use: the  *)
(* seal log decides, the operation log only reports, and entries staged    *)
(* before the store was activated are still served by the legacy arm.      *)
(* lifecycle/mod.rs routes each trash entry to one of the two arms;        *)
(* stage/production.rs stages with the engine and writes the projections;  *)
(* undo/mod.rs prefers the engine and falls back on the operation log.     *)
(*                                                                         *)
(* The engine is taken at the level of StagedTree: a call of it reaches    *)
(* one of its verdicts, or is cut short by a fault or a kill and leaves    *)
(* the transaction open for the next startup.                              *)
(***************************************************************************)
EXTENDS Integers, Sequences, FiniteSets, SequencesExt

CONSTANTS
  Items,      \* directories a clean may select
  Old,        \* objects that the legacy arm staged before activation
  MaxFaults,  \* calls that fail, over the whole behaviour
  MaxCrashes, \* kills of the process, and losses of power
  MaxTouches, \* steps of the account's other programs inside the trash
  MaxCommands

Objects == Items \cup Old
MaxEntry == Cardinality(Objects) + MaxCommands + MaxTouches + MaxFaults
Entries == 1 .. MaxEntry
None == "none"

VARIABLES
  place,    \* of each object: at "home", in the "trash" or "gone"
  entry,    \* the trash entry it is under, 0 outside the trash
  xattr,    \* objects whose directory carries attributes a purge refuses
  claims,   \* reservation markers in .claims
  wal,      \* the transactions of the seal log, oldest first
  log,      \* the operation log
  op,       \* the command under way
  budget    \* what may still happen

vars == <<place, entry, xattr, claims, wal, log, op, budget>>

Report == [staged |-> {}, kept |-> {}, purged |-> {}, retained |-> {}, failed |-> {},
           skipped |-> {}, stuck |-> {}, restored |-> {}]
Idle == [kind |-> "idle", at |-> "idle", todo |-> <<>>, cur |-> 0, tx |-> 0, group |-> 0,
         purge |-> FALSE, blocked |-> FALSE, planned |-> {}, report |-> Report]

Spend(what) == budget[what] > 0 /\ budget' = [budget EXCEPT ![what] = @ - 1]
Fault == Spend("faults")
Spared == UNCHANGED budget
Log(record) == log' = Append(log, record)

\* A projection is appended or, at the price of a fault, only its failure reported.
Project(record) == (Log(record) /\ Spared) \/ (Fault /\ UNCHANGED log)

Holder(e) == {o \in Objects : place[o] = "trash" /\ entry[o] = e}
Present == {entry[o] : o \in {x \in Objects : place[x] = "trash"}}

---------------------------------------------------------------------------
(* What the engine's transactions stand for.                               *)

\* sealed_mutation_authority_active.
authority_active(state) == state \notin {"restored", "purged"}

\* The states recover_startup may leave a transaction in for a session to open.
settled(state) ==
  state \in {"committed", "purgeable", "purged", "restored", "conflict", "quarantined"}

can_begin == \A i \in DOMAIN wal : settled(wal[i].state)

sealed_undo_active(state) == state \in {"committed", "conflict"}

ActiveTx == {i \in DOMAIN wal : authority_active(wal[i].state)}

\* The transaction whose recorded destination is entry e; the oldest one wins.
Matched(e) ==
  {i \in ActiveTx : wal[i].entry = e /\ \A j \in ActiveTx : wal[j].entry = e => i <= j}

\* Mutant: the recorded destination is compared, the object itself is not.
sealed_entry_block_by_path(e) == \E i \in ActiveTx : wal[i].entry = e

\* sealed_entry_block and sealed_legacy_undo_block: by destination and by object.
sealed_entry_block(e) ==
  \E i \in ActiveTx : wal[i].entry = e \/ wal[i].obj \in Holder(e)

Arrive(o, e) == place' = [place EXCEPT ![o] = "trash"] /\ entry' = [entry EXCEPT ![o] = e]
Return(o) == place' = [place EXCEPT ![o] = "home"] /\ entry' = [entry EXCEPT ![o] = 0]
Vanish(o) == place' = [place EXCEPT ![o] = "gone"] /\ entry' = [entry EXCEPT ![o] = 0]
Put == UNCHANGED <<place, entry>>

\* The object that the engine would find at the transaction's destination.
Verifies(i) == wal[i].obj \in Holder(wal[i].entry)

SetState(i, s) == wal' = [wal EXCEPT ![i].state = s]

---------------------------------------------------------------------------
(* Opening a session: lock, open the store, recover, and only then work.   *)

Command(c) ==
  /\ op = Idle /\ Spend("commands")
  /\ op' = [c EXCEPT !.at = "recover"]
  /\ UNCHANGED <<place, entry, xattr, claims, wal, log>>

\* A group names one invocation.
FreshGroup == MaxCommands - budget.commands + 1

Startup == op.at = "recover"

\* The object is at one of the two places the transaction names; recovery never
\* moves it forward, only back.
Located(i) == place[wal[i].obj] = "home" \/ Verifies(i)

recover_open(i) ==
  /\ wal[i].state = "open" /\ Located(i)
  /\ \/ /\ SetState(i, "restored") /\ Return(wal[i].obj)
     \/ /\ Verifies(i) /\ Put
        /\ \E s \in {"committed", "quarantined"} :
             wal' = [wal EXCEPT ![i].state = s, ![i].committed = s = "committed"]

recover_undo(i) ==
  /\ wal[i].state = "undoing" /\ Located(i)
  /\ \/ SetState(i, "restored") /\ Return(wal[i].obj)
     \/ Verifies(i) /\ SetState(i, "conflict") /\ Put

recover_purge(i) ==
  /\ wal[i].state = "purging"
  /\ Verifies(i) \/ place[wal[i].obj] = "gone"
  /\ SetState(i, "purged")
  /\ place' = [place EXCEPT ![wal[i].obj] = "gone"]
  /\ entry' = [entry EXCEPT ![wal[i].obj] = 0]

\* recover_startup settles every transaction, or the session never opens.
recover_startup ==
  /\ Startup
  /\ \E i \in DOMAIN wal :
       /\ ~settled(wal[i].state)
       /\ \/ /\ recover_open(i) \/ recover_undo(i) \/ recover_purge(i)
             /\ UNCHANGED op /\ Spared
          \/ /\ wal[i].state # "stuck"
             /\ IF Located(i) \/ place[wal[i].obj] = "gone" THEN Fault ELSE Spared
             /\ SetState(i, "stuck") /\ op' = Idle
             /\ UNCHANGED <<place, entry>>
          \/ /\ wal[i].state = "stuck"
             /\ op' = Idle /\ Spared
             /\ UNCHANGED <<wal, place, entry>>
  /\ UNCHANGED <<xattr, claims, log>>

session_open ==
  /\ Startup /\ can_begin
  /\ op' = [op EXCEPT !.at = "start"]
  /\ UNCHANGED <<place, entry, xattr, claims, wal, log, budget>>

\* The report is shown and the session dropped.
session_close ==
  /\ op.at = "done" /\ op' = Idle
  /\ UNCHANGED <<place, entry, xattr, claims, wal, log, budget>>

Session == recover_startup \/ session_open \/ session_close

---------------------------------------------------------------------------
(* clean: stage/mod.rs walks the items, production.rs stages one.          *)

Doing(kind, at) == op.kind = kind /\ op.at = at
Item == Head(op.todo)

\* The item is over with a line in the report.
ItemOver(column, block) ==
  op' = [op EXCEPT !.todo = Tail(@), !.at = "start", !.cur = 0, !.tx = 0,
                   !.blocked = @ \/ block, !.report[column] = @ \cup {Item}]

clean_begin(S, purge) ==
  /\ S # {}
  /\ Command([Idle EXCEPT !.kind = "clean", !.todo = SetToSeq(S), !.purge = purge,
                          !.group = FreshGroup])

CleanAt(at) == Doing("clean", at) /\ op.todo # <<>>

\* Mutant: an item is attempted although an earlier one blocked recovery.
may_attempt_always == TRUE

may_attempt == ~op.blocked

clean_skips ==
  /\ CleanAt("start") /\ ~may_attempt
  /\ ItemOver("skipped", FALSE)
  /\ UNCHANGED <<place, entry, xattr, claims, wal, log, budget>>

\* Policy, tree preflight, trash root or reservation refuse before anything exists.
clean_refused ==
  /\ CleanAt("start") /\ may_attempt
  /\ IF place[Item] = "home" THEN Fault ELSE Spared
  /\ ItemOver("failed", FALSE)
  /\ UNCHANGED <<place, entry, xattr, claims, wal, log>>

\* batch_preflight: of an atomic selection the first item that fails is reported,
\* the others were not attempted, and nothing was made.
batch_preflight_fails ==
  /\ CleanAt("start") /\ op.report = Report /\ Fault
  /\ \E k \in DOMAIN op.todo :
       op' = [op EXCEPT !.at = "done", !.todo = <<>>,
                        !.report.failed = {op.todo[k]},
                        !.report.skipped = ToSet(op.todo) \ {op.todo[k]}]
  /\ UNCHANGED <<place, entry, xattr, claims, wal, log>>

\* next_sequence looks at the entries, the loop of reserve steps over the markers.
next_sequence == IF Present = {} THEN 1 ELSE 1 + CHOOSE m \in Present : \A n \in Present : n <= m

reserved_entry ==
  CHOOSE e \in Entries \ claims :
    e >= next_sequence /\ \A f \in Entries \ claims : f >= next_sequence => e <= f

reserve ==
  /\ CleanAt("start") /\ may_attempt
  /\ place[Item] = "home"
  /\ \E e \in Entries \ claims : e >= next_sequence
  /\ claims' = claims \cup {reserved_entry}
  /\ op' = [op EXCEPT !.at = "reserved", !.cur = reserved_entry]
  /\ UNCHANGED <<place, entry, xattr, wal, log, budget>>

Transaction(state) ==
  [obj |-> Item, entry |-> op.cur, group |-> op.group, state |-> state,
   committed |-> state = "committed"]

\* Identity, anchors, request inputs or the last recheck refuse: NotStarted.
stage_not_started ==
  /\ CleanAt("reserved")
  /\ Fault
  /\ op' = [op EXCEPT !.at = "error"]
  /\ UNCHANGED <<place, entry, xattr, claims, wal, log>>

\* stage_to_verified_commit, and an error that recovery certified as committed.
stage_commits ==
  /\ CleanAt("reserved") /\ Holder(op.cur) = {}
  /\ wal' = Append(wal, Transaction("committed"))
  /\ Arrive(Item, op.cur)
  /\ op' = [op EXCEPT !.at = "committed", !.tx = Len(wal) + 1]
  /\ UNCHANGED <<xattr, claims, log, budget>>

stage_fails(state) ==
  /\ CleanAt("reserved") /\ Holder(op.cur) = {}
  /\ Fault
  /\ wal' = Append(wal, Transaction(state))
  /\ \/ state # "restored" /\ Arrive(Item, op.cur)
     \/ state # "quarantined" /\ Put
  /\ op' = [op EXCEPT !.at = "error", !.tx = Len(wal) + 1]
  /\ UNCHANGED <<xattr, claims, log>>

StageState == IF op.tx = 0 THEN None ELSE wal[op.tx].state
recovery_blocked == StageState \in {"open", "stuck"}

\* Mutant: the marker goes whatever became of the transaction.
retains_claim_never == FALSE

retains_claim == recovery_blocked \/ StageState = "quarantined"

\* The error arm of execute: look at the destination, release, classify.
stage_error ==
  /\ CleanAt("error")
  /\ \/ /\ Fault                          \* the destination cannot be inspected
        /\ ItemOver("stuck", TRUE) /\ UNCHANGED claims
     \/ /\ ~retains_claim
        /\ \/ claims' = claims \ {op.cur} /\ Spared
           \/ Fault /\ UNCHANGED claims
        /\ ItemOver("failed", FALSE)
     \/ /\ retains_claim
        /\ ItemOver("stuck", TRUE) /\ Spared /\ UNCHANGED claims
  /\ UNCHANGED <<place, entry, xattr, wal, log>>

\* The identity of the committed destination could not be read.
project_identity_fails ==
  /\ CleanAt("committed") /\ Fault
  /\ ItemOver("stuck", TRUE)
  /\ UNCHANGED <<place, entry, xattr, claims, wal, log>>

release_reservation ==
  /\ CleanAt("committed")
  /\ \/ claims' = claims \ {op.cur} /\ Spared
     \/ Fault /\ UNCHANGED claims
  /\ op' = [op EXCEPT !.at = "project"]
  /\ UNCHANGED <<place, entry, xattr, wal, log>>

Record(kind, o, e, g, tx) == [kind |-> kind, path |-> o, entry |-> e, group |-> g, tx |-> tx]
TxRecord(kind, i) == Record(kind, wal[i].obj, wal[i].entry, wal[i].group, i)

project_trash ==
  /\ CleanAt("project")
  /\ Project(TxRecord("Trash", op.tx))
  /\ IF op.purge THEN op' = [op EXCEPT !.at = "request"] ELSE ItemOver("staged", FALSE)
  /\ UNCHANGED <<place, entry, xattr, claims, wal>>

---------------------------------------------------------------------------
(* One verified purge: request, then execute with nothing in between.      *)

\* request_verified_purge: what the tree cannot support, or a call that fails,
\* leaves the transaction as it was; a tree that is not the committed one does not.
request_refused(i) ==
  /\ Verifies(i)
  /\ IF wal[i].obj \in xattr THEN Spared ELSE Fault
  /\ UNCHANGED wal

request_poisons(i) ==
  /\ IF Verifies(i) THEN Fault ELSE Spared
  /\ SetState(i, "stuck")

request_admits(i) ==
  Verifies(i) /\ wal[i].obj \notin xattr /\ SetState(i, "purgeable")

\* Mutant: the tree is deleted and its name in the trash is not.
execute_purges_contents(i) ==
  SetState(i, "purged") /\ place' = [place EXCEPT ![wal[i].obj] = "gone"] /\ UNCHANGED entry

execute_purges(i) == SetState(i, "purged") /\ Vanish(wal[i].obj)

\* An execution that fails has not started, is half way, or cannot be placed.
execute_fails(i) ==
  /\ Fault
  /\ \E s \in {"purgeable", "purging", "stuck"} : SetState(i, s)
  /\ Put \/ (wal'[i].state # "purgeable" /\ Vanish(wal[i].obj))

clean_purge_request ==
  /\ CleanAt("request")
  /\ \/ request_refused(op.tx) /\ ItemOver("kept", FALSE)
     \/ request_poisons(op.tx) /\ ItemOver("stuck", TRUE)
     \/ request_admits(op.tx) /\ Spared /\ op' = [op EXCEPT !.at = "execute"]
  /\ UNCHANGED <<place, entry, xattr, claims, log>>

\* Mutant: the purge is reported to the log before it is carried out.
clean_purge_execute_early ==
  /\ CleanAt("execute")
  /\ Log(TxRecord("Purge", op.tx))
  /\ \/ execute_purges(op.tx) /\ Spared /\ op' = [op EXCEPT !.at = "project_purge"]
     \/ execute_fails(op.tx) /\ ItemOver("stuck", TRUE)
  /\ UNCHANGED <<xattr, claims>>

clean_purge_execute ==
  /\ CleanAt("execute")
  /\ \/ execute_purges(op.tx) /\ Spared /\ op' = [op EXCEPT !.at = "project_purge"]
     \/ execute_fails(op.tx) /\ ItemOver("stuck", TRUE)
  /\ UNCHANGED <<xattr, claims, log>>

project_purge ==
  /\ CleanAt("project_purge")
  /\ Project(TxRecord("Purge", op.tx))
  /\ ItemOver("purged", FALSE)
  /\ UNCHANGED <<place, entry, xattr, claims, wal>>

clean_ends ==
  /\ Doing("clean", "start") /\ op.todo = <<>>
  /\ op' = [op EXCEPT !.at = "done"]
  /\ UNCHANGED <<place, entry, xattr, claims, wal, log, budget>>

Clean ==
  \/ \E S \in SUBSET Items, purge \in BOOLEAN : clean_begin(S, purge)
  \/ clean_skips \/ clean_refused \/ batch_preflight_fails \/ reserve \/ stage_not_started \/ stage_commits
  \/ \E s \in {"restored", "quarantined", "open", "stuck"} : stage_fails(s)
  \/ stage_error \/ project_identity_fails \/ release_reservation \/ project_trash
  \/ clean_purge_request \/ clean_purge_execute \/ project_purge \/ clean_ends

---------------------------------------------------------------------------
(* trash purge and expiry: the sealed batch first, then the legacy plan.   *)

\* A plan without entries still has the trash root to keep house in.
purge_begin(S) == Command([Idle EXCEPT !.kind = "purge", !.planned = S])

PurgeAt(at) == Doing("purge", at)
Target == Head(op.todo)
NextTarget == op' = [op EXCEPT !.todo = Tail(@), !.at = "sealed", !.tx = 0]

sealed_batch_begin ==
  /\ PurgeAt("start")
  /\ op' = [op EXCEPT !.at = "sealed", !.todo = SetToSortSeq(op.planned, <)]
  /\ UNCHANGED <<place, entry, xattr, claims, wal, log, budget>>

SealedAt == PurgeAt("sealed") /\ op.todo # <<>>

\* The batch stops: what was not purged is reported failed, nothing legacy runs.
BatchBlocked ==
  op' = [op EXCEPT !.at = "done", !.blocked = TRUE, !.todo = <<>>,
                   !.report.failed = op.planned \ (op.report.purged \cup op.report.retained)]

\* No active transaction maps the entry: legacy work, unless the object is sealed.
sealed_entry_legacy ==
  /\ SealedAt /\ Matched(Target) = {}
  /\ IF sealed_entry_block(Target) THEN BatchBlocked ELSE NextTarget
  /\ UNCHANGED <<place, entry, xattr, claims, wal, log, budget>>

\* A parent or an anchor cannot be authenticated, or the state admits no purge.
sealed_entry_blocked ==
  /\ SealedAt
  /\ \/ wal # <<>> /\ Fault
     \/ /\ \E i \in Matched(Target) : wal[i].state \notin {"committed", "purgeable"}
        /\ Spared
  /\ BatchBlocked
  /\ UNCHANGED <<place, entry, xattr, claims, wal, log>>

\* request_verified_purge for the matched transaction.
sealed_entry_request ==
  /\ SealedAt
  /\ \E i \in Matched(Target) :
       /\ wal[i].state \in {"committed", "purgeable"}
       /\ \/ /\ request_refused(i)
             /\ IF wal[i].obj \in xattr
                THEN op' = [op EXCEPT !.todo = Tail(@), !.report.retained = @ \cup {Target}]
                ELSE BatchBlocked
          \/ request_poisons(i) /\ BatchBlocked
          \/ request_admits(i) /\ Spared /\ op' = [op EXCEPT !.at = "execute", !.tx = i]
  /\ UNCHANGED <<place, entry, xattr, claims, log>>

sealed_entry_execute ==
  /\ PurgeAt("execute")
  /\ \/ execute_purges(op.tx) /\ Spared /\ op' = [op EXCEPT !.at = "project_purge"]
     \/ execute_fails(op.tx) /\ BatchBlocked
  /\ UNCHANGED <<xattr, claims, log>>

\* The record follows the deletion; if it cannot be written the report says so.
sealed_entry_project ==
  /\ PurgeAt("project_purge")
  /\ Project(TxRecord("Purge", op.tx))
  /\ op' = [op EXCEPT !.todo = Tail(@), !.at = "sealed", !.tx = 0,
                      !.report.purged = @ \cup {Target}]
  /\ UNCHANGED <<place, entry, xattr, claims, wal>>

\* Mutant: the legacy plan still holds what the engine has just purged or kept.
legacy_remaining_all == op.planned

\* take_already_purged, and the retained entries of the blocker.
legacy_remaining == op.planned \ op.report.purged

legacy_begin ==
  /\ PurgeAt("sealed") /\ op.todo = <<>>
  /\ op' = [op EXCEPT !.at = "legacy", !.todo = SetToSortSeq(legacy_remaining, <)]
  /\ UNCHANGED <<place, entry, xattr, claims, wal, log, budget>>

LegacyBlocked(e) == e \in op.report.retained \/ sealed_entry_block(e)

legacy_purge ==
  /\ PurgeAt("legacy") /\ op.todo # <<>>
  /\ \/ /\ LegacyBlocked(Target)
        /\ op' = [op EXCEPT !.todo = Tail(@),
                            !.report.failed = @ \cup ({Target} \ op.report.retained)]
        /\ Spared /\ Put /\ UNCHANGED log
     \/ /\ ~LegacyBlocked(Target)
        /\ IF Holder(Target) = {} THEN Spared ELSE Fault
        /\ op' = [op EXCEPT !.todo = Tail(@), !.report.failed = @ \cup {Target}]
        /\ Put /\ UNCHANGED log
     \/ /\ ~LegacyBlocked(Target)
        /\ \E o \in Holder(Target) : Vanish(o) /\ Project(Record("Purge", o, Target, 0, 0))
        /\ op' = [op EXCEPT !.todo = Tail(@), !.report.purged = @ \cup {Target}]
  /\ UNCHANGED <<xattr, claims, wal>>

\* After the batch the markers past the time to live go, and the seal log is not
\* asked.  Any marker may be that old, and a failing call leaves the rest.
purge_expired_claims ==
  /\ PurgeAt("legacy") /\ op.todo = <<>>
  /\ \E expired \in SUBSET claims : claims' = claims \ expired
  /\ op' = [op EXCEPT !.at = "done"]
  /\ UNCHANGED <<place, entry, xattr, wal, log, budget>>

Purge ==
  \/ \E S \in SUBSET Present : purge_begin(S)
  \/ sealed_batch_begin \/ sealed_entry_legacy \/ sealed_entry_blocked
  \/ sealed_entry_request \/ sealed_entry_execute \/ sealed_entry_project
  \/ legacy_begin \/ legacy_purge \/ purge_expired_claims

---------------------------------------------------------------------------
(* undo: the sealed arm of the group if it has one, else the log's.        *)

\* active_trash_state: staging records that no later record of the entry resolves.
ActiveTrash ==
  {i \in DOMAIN log :
     /\ log[i].kind = "Trash"
     /\ \A j \in DOMAIN log : j > i => log[j].entry # log[i].entry}

LegacyTargets(g) == {i \in ActiveTrash : log[i].group = g}
NewestLegacy == {i \in ActiveTrash : Holder(log[i].entry) = {log[i].path}}
LegacyGroup == IF NewestLegacy = {} THEN 0
               ELSE log[CHOOSE i \in NewestLegacy : \A j \in NewestLegacy : j <= i].group

SealedUndo(g) == {i \in DOMAIN wal : wal[i].group = g /\ sealed_undo_active(wal[i].state)}
SealedUndoAny == {i \in DOMAIN wal : sealed_undo_active(wal[i].state)}
SealedGroup == IF SealedUndoAny = {} THEN 0
               ELSE wal[CHOOSE i \in SealedUndoAny : \A j \in SealedUndoAny : j <= i].group

\* Mutant: only what can still be undone counts as mapped by the seal log.
sealed_paths_active(g) == {<<wal[i].obj, wal[i].entry>> : i \in SealedUndo(g)}

sealed_paths(g) ==
  {<<wal[i].obj, wal[i].entry>> : i \in {j \in DOMAIN wal : wal[j].group = g}}

\* block_mixed_group: a record of the group that the seal log does not map.
block_mixed_group(g) ==
  \E i \in LegacyTargets(g) : <<log[i].path, log[i].entry>> \notin sealed_paths(g)

\* The newest undoable group, or the one that was asked for.
undo_begin(wanted) == Command([Idle EXCEPT !.kind = "undo", !.group = wanted])

UndoAt(at) == Doing("undo", at)
ChosenSealed == IF op.group = 0 THEN SealedGroup ELSE op.group

undo_group_verified ==
  /\ UndoAt("start") /\ SealedUndo(ChosenSealed) # {}
  /\ op' = IF block_mixed_group(ChosenSealed) THEN [op EXCEPT !.at = "done"]
           ELSE [op EXCEPT !.at = "verified", !.group = ChosenSealed,
                           !.todo = SetToSortSeq(SealedUndo(ChosenSealed), <)]
  /\ UNCHANGED <<place, entry, xattr, claims, wal, log, budget>>

Undone(column, block) ==
  op' = [op EXCEPT !.todo = Tail(@), !.blocked = @ \/ block,
                   !.report[column] = @ \cup {wal[Target].obj}]

VerifiedAt == UndoAt("verified") /\ op.todo # <<>>

\* A conflict is listed again, what follows a block is not attempted.
undo_passes_over ==
  /\ VerifiedAt
  /\ wal[Target].state = "conflict" \/ ~may_attempt
  /\ Undone("skipped", FALSE)
  /\ UNCHANGED <<place, entry, xattr, claims, wal, log, budget>>

undo_verified ==
  /\ VerifiedAt /\ may_attempt /\ wal[Target].state = "committed"
  /\ Verifies(Target)
  /\ SetState(Target, "restored") /\ Return(wal[Target].obj)
  /\ op' = [op EXCEPT !.at = "project_restore"]
  /\ UNCHANGED <<xattr, claims, log, budget>>

\* Refused before it began, in conflict with what is at home, or cut short.
undo_verified_fails ==
  /\ VerifiedAt /\ may_attempt /\ wal[Target].state = "committed"
  /\ IF Verifies(Target) THEN Fault ELSE Spared
  /\ \/ Put /\ UNCHANGED wal /\ Undone("failed", FALSE)
     \/ Put /\ SetState(Target, "conflict") /\ Undone("skipped", FALSE)
     \/ /\ Put \/ Return(wal[Target].obj)
        /\ \E s \in {"undoing", "stuck"} : SetState(Target, s)
        /\ Undone("failed", TRUE)
  /\ UNCHANGED <<xattr, claims, log>>

project_restore ==
  /\ UndoAt("project_restore")
  /\ Project(TxRecord("Restore", Target))
  /\ op' = [op EXCEPT !.at = "verified", !.todo = Tail(@),
                      !.report.restored = @ \cup {wal[Target].obj}]
  /\ UNCHANGED <<place, entry, xattr, claims, wal>>

\* Only a group without a sealed entry to undo goes to the legacy arm.
undo_legacy_begin ==
  /\ UndoAt("start") /\ SealedUndo(ChosenSealed) = {}
  /\ LET g == IF op.group = 0 THEN LegacyGroup ELSE op.group IN
       op' = [op EXCEPT !.at = "legacy", !.group = g,
                        !.todo = Reverse(SetToSortSeq(LegacyTargets(g), <))]
  /\ UNCHANGED <<place, entry, xattr, claims, wal, log, budget>>

Legacy == UndoAt("legacy") /\ op.todo # <<>>

undo_legacy ==
  /\ Legacy
  /\ LET r == log[Target] IN
       \/ /\ sealed_entry_block(r.entry) \/ Holder(r.entry) # {r.path}
          /\ op' = [op EXCEPT !.todo = Tail(@), !.report.failed = @ \cup {r.path}]
          /\ Put /\ Spared /\ UNCHANGED log
       \/ /\ ~sealed_entry_block(r.entry) /\ Holder(r.entry) = {r.path}
          /\ Return(r.path)
          /\ op' = [op EXCEPT !.todo = Tail(@), !.report.restored = @ \cup {r.path}]
          /\ Project(Record("Restore", r.path, r.entry, r.group, 0))
  /\ UNCHANGED <<xattr, claims, wal>>

undo_ends ==
  /\ \/ UndoAt("verified") \/ UndoAt("legacy")
  /\ op.todo = <<>>
  /\ op' = [op EXCEPT !.at = "done"]
  /\ UNCHANGED <<place, entry, xattr, claims, wal, log, budget>>

Undo ==
  \/ \E wanted \in {0} \cup {log[i].group : i \in DOMAIN log}
                       \cup {wal[i].group : i \in DOMAIN wal} : undo_begin(wanted)
  \/ undo_group_verified \/ undo_passes_over \/ undo_verified \/ undo_verified_fails
  \/ project_restore \/ undo_legacy_begin \/ undo_legacy \/ undo_ends

---------------------------------------------------------------------------
(* What happens to a session from outside.                                 *)

\* A kill inside a call of the engine leaves its transaction open.
Killed ==
  /\ op # Idle /\ Spend("crashes")
  /\ op' = Idle
  /\ \/ Put /\ UNCHANGED wal
     \/ /\ CleanAt("reserved") /\ Holder(op.cur) = {}
        /\ wal' = Append(wal, Transaction("open"))
        /\ Put \/ Arrive(Item, op.cur)
     \/ /\ op.at = "execute" /\ SetState(op.tx, "purging")
        /\ Put \/ Vanish(wal[op.tx].obj)
     \/ /\ VerifiedAt /\ may_attempt /\ wal[Target].state = "committed"
        /\ Verifies(Target) /\ SetState(Target, "undoing")
        /\ Put \/ Return(wal[Target].obj)
  /\ UNCHANGED <<xattr, claims, log>>

\* The operation log is not synced: a loss of power takes its tail with it.
PowerLoss ==
  /\ Spend("crashes")
  /\ \E n \in 0 .. Len(log) :
       /\ \A i \in DOMAIN log : log[i].group = -1 => i <= n
       /\ log' = SubSeq(log, 1, n)
  /\ op' = Idle
  /\ UNCHANGED <<place, entry, xattr, claims, wal>>

\* The account renames an entry inside the trash, or sets an attribute on it.
Touch ==
  /\ op = Idle /\ Spend("touches")
  /\ \E o \in Objects :
       /\ place[o] = "trash"
       /\ \/ entry' = [entry EXCEPT ![o] = next_sequence] /\ UNCHANGED xattr
          \/ o \notin xattr /\ xattr' = xattr \cup {o} /\ UNCHANGED entry
  /\ UNCHANGED <<place, claims, wal, log, op>>

\* The store has just been activated: the legacy entries are in the trash and the
\* log, in a group of their own.
Init ==
  LET old == SetToSeq(Old) IN
  /\ place = [o \in Objects |-> IF o \in Old THEN "trash" ELSE "home"]
  /\ entry = [o \in Objects |-> IF o \in Old THEN CHOOSE k \in DOMAIN old : old[k] = o ELSE 0]
  /\ xattr = {} /\ claims = {} /\ wal = <<>>
  /\ log = [k \in DOMAIN old |-> Record("Trash", old[k], k, -1, 0)]
  /\ op = Idle
  /\ budget = [faults |-> MaxFaults, crashes |-> MaxCrashes,
               touches |-> MaxTouches, commands |-> MaxCommands]

Next == Session \/ Clean \/ Purge \/ Undo \/ Killed \/ PowerLoss \/ Touch

Spec == Init /\ [][Next]_vars

---------------------------------------------------------------------------
(* Properties.                                                             *)

Transactions ==
  [obj : Items, entry : Entries, group : 1 .. MaxCommands, committed : BOOLEAN,
   state : {"open", "committed", "purgeable", "purging", "undoing", "conflict",
            "quarantined", "stuck", "restored", "purged"}]
Records ==
  [kind : {"Trash", "Purge", "Restore"}, path : Objects, entry : Entries,
   group : {-1} \cup (0 .. MaxCommands), tx : Nat]

\* Every variable stays in its type; in particular no reservation runs out of names.
TypeOK ==
  /\ place \in [Objects -> {"home", "trash", "gone"}]
  /\ entry \in [Objects -> {0} \cup Entries]
  /\ \A o \in Objects : (place[o] = "trash") <=> (entry[o] # 0)
  /\ xattr \subseteq Objects /\ claims \subseteq Entries
  /\ \A i \in DOMAIN wal : wal[i] \in Transactions
  /\ \A i \in DOMAIN log : log[i] \in Records

\* The legacy arm, which knows only paths and the operation log, never moves or
\* deletes an object that the seal log still has authority over, whatever name the
\* object has by now and whatever the operation log has lost.
LegacySparesSealed ==
  op.at = "legacy" =>
    \A i \in ActiveTx : place'[wal[i].obj] = place[wal[i].obj]

\* Once an item of a command leaves recovery blocked, nothing that the same command
\* does afterwards touches an object or the seal log.
NothingAfterABlock ==
  op.blocked => UNCHANGED <<place, entry, wal, claims>>

\* The operation log is a projection: a record of a sealed transaction is written
\* only after the seal log decided what the record says, so no failure or kill
\* leaves a log that claims a deletion or a return that did not happen.
LogFollowsTheSealLog ==
  \A i \in DOMAIN log :
    log[i].tx # 0 =>
      LET t == wal[log[i].tx] IN
      CASE log[i].kind = "Trash" -> t.committed
        [] log[i].kind = "Purge" -> t.state = "purged"
        [] OTHER -> t.state = "restored"

\* The entry name of a staging that never became certain is not handed out again.
\* While its transaction is open or given up, the marker is there as evidence: no
\* session gets as far as the purge that would take it.  The marker of a quarantined
\* one goes with the first purge that finds it expired (purge_expired_claims); from
\* then on only the tree in the trash keeps later names above it.
ClaimOutlivesUncertainty ==
  \A i \in DOMAIN wal : ~wal[i].committed =>
    /\ wal[i].state \in {"open", "stuck"} => wal[i].entry \in claims
    /\ wal[i].state = "quarantined" => wal[i].entry \in claims \/ next_sequence > wal[i].entry

\* Whatever records were never written, were lost or speak of objects that have
\* moved on, a group with a committed transaction is never refused as a mixed one.
SealedGroupsUndoable ==
  op = Idle => \A i \in SealedUndoAny : ~block_mixed_group(wal[i].group)

OfGroup(o) == {i \in DOMAIN wal : wal[i].obj = o /\ wal[i].group = op.group}

\* What a finished command reports is so: staged and kept items are committed and in
\* the trash, failed ones have no transaction left over, skipped ones were never
\* begun, purged entries are gone, restored objects are home, and a purge accounts
\* for every entry it planned exactly once.
ReportsAreTrue ==
  op.at = "done" =>
    LET r == op.report IN
    CASE op.kind = "clean" ->
           /\ \A o \in r.staged \cup r.kept :
                place[o] = "trash" /\ \E i \in OfGroup(o) : wal[i].state = "committed"
           /\ \A o \in r.purged : place[o] = "gone"
           /\ \A o \in r.failed : OfGroup(o) \cap ActiveTx = {}
           /\ \A o \in r.skipped : OfGroup(o) = {}
      [] op.kind = "purge" ->
           /\ r.purged \cap Present = {}
           /\ r.purged \cup r.retained \cup r.failed = op.planned
           /\ Cardinality(r.purged) + Cardinality(r.retained) + Cardinality(r.failed)
                = Cardinality(op.planned)
      [] OTHER -> \A o \in r.restored : place[o] = "home"

\* An entry that a purge retains because deleting it is unsupported can still be
\* undone, as the report says.
RetainedIsUndoable ==
  op.at = "done" /\ op.kind = "purge" =>
    \A e \in op.report.retained : \A i \in Matched(e) : sealed_undo_active(wal[i].state)
=============================================================================
