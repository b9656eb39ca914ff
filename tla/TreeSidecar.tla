---------------------------- MODULE TreeSidecar ----------------------------
(***************************************************************************)
(* The published manifests of staged trees, degu-core/src/seal/sidecar.rs. *)
(* A manifest is written to a temporary file of the WAL store, made        *)
(* durable, moved to its final name, made durable again, and only then     *)
(* bound in the WAL.  Every open of the store re-authenticates the bound   *)
(* manifests, gives up the transactions whose manifest is lost, and        *)
(* removes the files no transaction needs.                                 *)
(*                                                                         *)
(* A file is its header and its sequence of segments.  "m" is what the     *)
(* engine published for the transaction and "x" is anything else a         *)
(* same-user program wrote with consistent digests; a "torn" segment fails *)
(* its own digest.  Digests are perfect.  The WAL is the durable map that  *)
(* SealWalLog and SealWalStore model in detail: one append is one step.    *)
(***************************************************************************)
EXTENDS Naturals, Sequences, FiniteSets

CONSTANTS Txn,         \* transactions
          MaxCrashes,  \* kills and power cuts together
          MaxFaults,   \* failing system calls
          MaxAlters    \* changes made by another program of the same user

VARIABLES wal,      \* [Txn -> [state, commit]], durable
          dir,      \* [Txn -> [temp, final]]: the two names, as the kernel sees them
          maybe,    \* [Txn -> earlier directory states a power cut may bring back]
          op,       \* the one process that holds the WAL lease
          altered,  \* transactions whose files another program has changed
          budget

vars == <<wal, dir, maybe, op, altered, budget>>

None == [head |-> "none", segs |-> <<>>, safe |-> TRUE, synced |-> TRUE]
Whole == <<"m", "m">>
NoNames == [temp |-> None, final |-> None]
Closed == [pc |-> "closed", t |-> CHOOSE t \in Txn : TRUE, invalid |-> {},
           removed |-> FALSE, held |-> None, seen |-> <<>>, fold |-> FALSE, codec |-> FALSE,
           outcome |-> "none", fresh |-> FALSE,
           quiet |-> TRUE]  \* ghost: no alteration since this open began

(* A transaction still needs its manifest in every state but the five that *)
(* end it.                                                                 *)
tree_sidecar_required_for_state(state) == state # "terminal"

(* What an independent commitment accepts: the very bytes published. *)
Matches(f) == f.safe /\ f.head = "m" /\ f.segs = Whole

(* validate_file and inspect_unbound: a private regular file whose header  *)
(* commits to exactly its segments.                                        *)
validate_file(f) == f.safe

verify_file(f) == f.segs # <<>> /\ "torn" \notin {f.segs[i] : i \in DOMAIN f.segs}
                  /\ f.head = (IF f.segs = Whole THEN "m" ELSE "x")

inspect_unbound(f) == validate_file(f) /\ verify_file(f)

Active(t) == wal[t].commit # "none" /\ tree_sidecar_required_for_state(wal[t].state)

(* read_fold of the opener: the whole container and the manifest in it. *)
referenced_sidecar_is_valid(t) == wal[t].commit = "none" \/ Matches(dir[t].final)

SetName(t, field, f) == dir' = [dir EXCEPT ![t][field] = f]
Remember(t) == maybe' = [maybe EXCEPT ![t] = @ \union {dir[t]}]
(* fsync of the store directory fixes every name in it. *)
SyncDirectory == maybe' = [t \in Txn |-> {}]
Go(pc) == op' = [op EXCEPT !.pc = pc]
(* A publication that fails leaves its files where they are. *)
Abandon == op' = [op EXCEPT !.pc = "idle", !.fresh = FALSE]
Fault == /\ budget.faults > 0
         /\ budget' = [budget EXCEPT !.faults = @ - 1]

Init == /\ wal = [t \in Txn |-> [state |-> "none", commit |-> "none"]]
        /\ dir = [t \in Txn |-> NoNames]
        /\ maybe = [t \in Txn |-> {}]
        /\ op = Closed
        /\ altered = {}
        /\ budget = [crashes |-> MaxCrashes, faults |-> MaxFaults, alters |-> MaxAlters]

-----------------------------------------------------------------------------
(* Publication, publish_stream_with_sync. *)

(* The engine opens a transaction and starts to publish its manifest. *)
Begin(t) == /\ op.pc = "idle" /\ wal[t].state = "none"
            /\ wal' = [wal EXCEPT ![t].state = "open"]
            /\ op' = [op EXCEPT !.pc = "create", !.t = t, !.fresh = FALSE, !.outcome = "none"]
            /\ UNCHANGED <<dir, maybe, altered, budget>>

publish_create == /\ op.pc = "create" /\ dir[op.t].temp = None
                  /\ SetName(op.t, "temp", [head |-> "zero", segs |-> <<>>,
                                            safe |-> TRUE, synced |-> FALSE])
                  /\ Remember(op.t)
                  /\ Go("write")
                  /\ UNCHANGED <<wal, altered, budget>>

(* One segment with its own digest. *)
publish_emit == /\ op.pc = "write" /\ Len(dir[op.t].temp.segs) < Len(Whole)
                /\ dir' = [dir EXCEPT ![op.t].temp.segs = Append(@, "m")]
                /\ UNCHANGED <<wal, maybe, op, altered, budget>>

(* The header is written over its zeroes once all counts are known. *)
publish_header == /\ op.pc = "write" /\ Len(dir[op.t].temp.segs) = Len(Whole)
                  /\ dir' = [dir EXCEPT ![op.t].temp.head = "m"]
                  /\ Go("sync")
                  /\ UNCHANGED <<wal, maybe, altered, budget>>

publish_sync == /\ op.pc = "sync"
                /\ dir' = [dir EXCEPT ![op.t].temp.synced = TRUE]
                /\ Go("verify_temp")
                /\ UNCHANGED <<wal, maybe, altered, budget>>

publish_verify_temp == /\ op.pc = "verify_temp"
                       /\ IF Matches(dir[op.t].temp) THEN Go("rename") ELSE Abandon
                       /\ UNCHANGED <<wal, dir, maybe, altered, budget>>

(* renameat2 with NOREPLACE: an existing final name ends the publication. *)
publish_rename == /\ op.pc = "rename" /\ dir[op.t].temp # None
                  /\ IF dir[op.t].final = None
                     THEN /\ dir' = [dir EXCEPT ![op.t] = [temp |-> None, final |-> @.temp]]
                          /\ Remember(op.t)
                          /\ Go("sync_dir")
                     ELSE Abandon /\ UNCHANGED <<dir, maybe>>
                  /\ UNCHANGED <<wal, altered, budget>>

mutant_publish_sync_directory == /\ op.pc = "sync_dir"
                                 /\ Go("verify_final")
                                 /\ UNCHANGED <<wal, dir, maybe, altered, budget>>

publish_sync_directory == /\ op.pc = "sync_dir"
                          /\ SyncDirectory
                          /\ Go("verify_final")
                          /\ UNCHANGED <<wal, dir, altered, budget>>

publish_verify_final == /\ op.pc = "verify_final"
                        /\ IF Matches(dir[op.t].final) THEN Go("bind") ELSE Abandon
                        /\ UNCHANGED <<wal, dir, maybe, altered, budget>>

(* A create, write, sync, rename or directory sync that fails; whatever    *)
(* the call had already done stays done.                                   *)
publish_fails == /\ op.pc \in {"create", "write", "sync", "rename", "sync_dir"}
                 /\ Fault
                 /\ Abandon
                 /\ UNCHANGED <<wal, dir, maybe, altered>>

(* The temporary file vanished, or its name was taken, under the writer. *)
publish_disturbed == /\ \/ op.pc = "create" /\ dir[op.t].temp # None
                        \/ op.pc = "rename" /\ dir[op.t].temp = None
                     /\ Abandon
                     /\ UNCHANGED <<wal, dir, maybe, altered, budget>>

(* complete_tree_manifest_with_sidecar: the commitment becomes evidence. *)
bind == /\ op.pc = "bind"
        /\ wal' = [wal EXCEPT ![op.t] = [state |-> "bound", commit |-> "m"]]
        /\ Go("idle")
        /\ UNCHANGED <<dir, maybe, altered, budget>>

(* The transaction ends: rolled back unbound, or restored or purged. *)
Finish(t) == /\ op.pc = "idle" /\ wal[t].state \in {"open", "bound"}
             /\ wal' = [wal EXCEPT ![t].state = "terminal"]
             /\ op' = [op EXCEPT !.fresh = FALSE]
             /\ UNCHANGED <<dir, maybe, altered, budget>>

-----------------------------------------------------------------------------
(* Reading back, read_manifest_v3_fold. *)

(* The complete authentication before any record is handed out. *)
read_preflight(t) == /\ op.pc = "idle" /\ wal[t].state = "bound"
                     /\ op' = IF Matches(dir[t].final)
                              THEN [op EXCEPT !.pc = "read", !.t = t, !.seen = <<>>, !.fresh = FALSE,
                                              !.fold = FALSE, !.codec = FALSE, !.outcome = "none"]
                              ELSE [op EXCEPT !.outcome = "sidecar", !.t = t, !.fresh = FALSE]
                     /\ UNCHANGED <<wal, dir, maybe, altered, budget>>

(* One segment of the second pass.  A segment that fails its own digest    *)
(* ends the read; a codec or callback error is kept while the rest of the  *)
(* container drains.  A foreign segment may or may not decode, and the     *)
(* callback may refuse what it is shown.                                   *)
read_segment == LET f == dir[op.t].final
                    i == Len(op.seen) + 1
                IN /\ op.pc = "read" /\ i <= Len(Whole)
                   /\ \/ /\ ~(f.safe /\ f.head = "m" /\ i <= Len(f.segs) /\ f.segs[i] # "torn")
                         /\ op' = [op EXCEPT !.pc = "idle", !.outcome = "sidecar"]
                      \/ /\ f.safe /\ f.head = "m" /\ i <= Len(f.segs) /\ f.segs[i] # "torn"
                         /\ \E undecodable \in {FALSE} \union {f.segs[i] = "x"}, refused \in BOOLEAN :
                              op' = [op EXCEPT !.seen = Append(@, f.segs[i]),
                                               !.codec = @ \/ undecodable,
                                               !.fold = @ \/ (refused /\ ~op.codec /\ ~undecodable)]
                   /\ UNCHANGED <<wal, dir, maybe, altered, budget>>

mutant_read_outcome == IF op.codec THEN "codec"
                       ELSE IF op.fold THEN "fold"
                       ELSE IF op.seen # Whole THEN "sidecar"
                       ELSE "ok"

(* The root over all segments is only known at the end, and it wins. *)
read_outcome == IF op.seen # Whole THEN "sidecar"
                ELSE IF op.codec THEN "codec"
                ELSE IF op.fold THEN "fold"
                ELSE "ok"

read_finish == /\ op.pc = "read" /\ Len(op.seen) = Len(Whole)
               /\ op' = [op EXCEPT !.pc = "idle", !.outcome = read_outcome]
               /\ UNCHANGED <<wal, dir, maybe, altered, budget>>

-----------------------------------------------------------------------------
(* Opening the store. *)

mutant_open_validate == /\ op.pc = "closed"
                        /\ op' = [Closed EXCEPT !.pc = "unpublished",
                                    !.invalid = {t \in Txn : wal[t].state \in {"open", "bound"}
                                                               /\ ~Matches(dir[t].final)}]
                        /\ UNCHANGED <<wal, dir, maybe, altered, budget>>

(* Every bound manifest is authenticated before anything is removed. *)
open_validate == /\ op.pc = "closed"
                 /\ op' = [Closed EXCEPT !.pc = "unpublished",
                             !.invalid = {t \in Txn : Active(t) /\ ~referenced_sidecar_is_valid(t)}]
                 /\ UNCHANGED <<wal, dir, maybe, altered, budget>>

(* A temporary file that is not the store's own kind ends the open. *)
cleanup_unpublished == /\ op.pc = "unpublished"
                       /\ \E t \in Txn :
                            /\ dir[t].temp # None
                            /\ IF validate_file(dir[t].temp)
                               THEN /\ SetName(t, "temp", None)
                                    /\ Remember(t)
                                    /\ op' = [op EXCEPT !.removed = TRUE]
                               ELSE op' = Closed /\ UNCHANGED <<dir, maybe>>
                       /\ UNCHANGED <<wal, altered, budget>>

cleanup_unpublished_done == /\ op.pc = "unpublished" /\ \A t \in Txn : dir[t].temp = None
                            /\ IF op.removed THEN SyncDirectory ELSE UNCHANGED maybe
                            /\ op' = [op EXCEPT !.pc = "mark", !.removed = FALSE]
                            /\ UNCHANGED <<wal, dir, altered, budget>>

mutant_mark_recovery_required == /\ op.pc = "mark"
                                 /\ Go("unreachable")
                                 /\ UNCHANGED <<wal, dir, maybe, altered, budget>>

(* Transactions whose manifest is unusable are given up, one WAL append each. *)
mark_recovery_required == /\ op.pc = "mark"
                          /\ IF op.invalid = {}
                             THEN Go("unreachable") /\ UNCHANGED wal
                             ELSE \E t \in op.invalid :
                                    /\ wal' = [wal EXCEPT ![t].state = "required"]
                                    /\ op' = [op EXCEPT !.invalid = @ \ {t}]
                          /\ UNCHANGED <<dir, maybe, altered, budget>>

mutant_Removable(t) == /\ dir[t].final # None /\ wal[t].commit # "none" /\ ~Active(t)
                       /\ inspect_unbound(dir[t].final)
                       /\ dir[t].final.head = wal[t].commit

mutant_unguarded_Removable(t) == dir[t].final # None /\ ~Active(t) /\ dir[t].final.safe

(* An exact terminal reference, or a self-authenticating orphan. *)
Removable(t) == /\ dir[t].final # None /\ ~Active(t)
                /\ inspect_unbound(dir[t].final)
                /\ wal[t].commit # "none" => dir[t].final.head = wal[t].commit

(* inspect_unbound and the comparison with the commitment, and once more    *)
(* in remove_verified_final, which opens the file again.                   *)
cleanup_unreachable == /\ op.pc = "unreachable"
                       /\ \E t \in Txn : /\ Removable(t)
                                         /\ op' = [op EXCEPT !.pc = "unlink", !.t = t,
                                                             !.held = dir[t].final]
                       /\ UNCHANGED <<wal, dir, maybe, altered, budget>>

(* remove_validated_private_file ends in an unlinkat of the name: it takes *)
(* what is there by then.  The check of the binding right before it may    *)
(* see another file under the name, never other bytes in the same file.    *)
remove_verified_final == LET now == dir[op.t].final
                         IN /\ op.pc = "unlink"
                            /\ \/ /\ now # None
                                  /\ SetName(op.t, "final", None)
                                  /\ Remember(op.t)
                                  /\ op' = [op EXCEPT !.pc = "unreachable", !.held = None,
                                                      !.removed = TRUE]
                               \/ /\ now # op.held
                                  /\ op' = Closed
                                  /\ UNCHANGED <<dir, maybe>>
                            /\ UNCHANGED <<wal, altered, budget>>

cleanup_unreachable_done == /\ op.pc = "unreachable" /\ \A t \in Txn : ~Removable(t)
                            /\ IF op.removed THEN SyncDirectory ELSE UNCHANGED maybe
                            /\ op' = [op EXCEPT !.pc = "idle", !.fresh = TRUE]
                            /\ UNCHANGED <<wal, dir, altered, budget>>

(* A removal or directory sync that fails ends the open. *)
open_fails == /\ op.pc \in {"unpublished", "mark", "unreachable", "unlink"}
              /\ Fault
              /\ op' = Closed
              /\ UNCHANGED <<wal, dir, maybe, altered>>

-----------------------------------------------------------------------------
(* The world around the process. *)

(* The command ends and gives the WAL lease back. *)
Exit == /\ op.pc = "idle"
        /\ op' = Closed
        /\ UNCHANGED <<wal, dir, maybe, altered, budget>>

Kill == /\ op.pc # "closed" /\ budget.crashes > 0
        /\ budget' = [budget EXCEPT !.crashes = @ - 1]
        /\ op' = Closed
        /\ UNCHANGED <<wal, dir, maybe, altered>>

(* What an unsynced file holds after power is back. *)
AfterCut(f) == IF f.synced THEN {f}
               ELSE {[f EXCEPT !.head = h, !.segs = s, !.synced = TRUE] :
                       h \in {"zero", f.head}, s \in {<<>>, f.segs} \union
                         (IF f.segs = Whole THEN {<<"m", "torn">>} ELSE {})}

(* Each name is as some moment since the last directory sync left it. *)
PowerCut == /\ budget.crashes > 0
            /\ budget' = [budget EXCEPT !.crashes = @ - 1]
            /\ dir' \in {[t \in Txn |-> [temp |-> c[t][1], final |-> c[t][2]]] :
                           c \in {g \in [Txn -> UNION {UNION {AfterCut(d.temp) \X AfterCut(d.final) :
                                                              d \in maybe[t] \union {dir[t]}} : t \in Txn}] :
                                    \A t \in Txn : \E d \in maybe[t] \union {dir[t]} :
                                       g[t] \in AfterCut(d.temp) \X AfterCut(d.final)}}
            /\ maybe' = [t \in Txn |-> {}]
            /\ op' = Closed
            /\ UNCHANGED <<wal, altered>>

Foreign == {[head |-> "x", segs |-> <<"x", "m">>, safe |-> TRUE, synced |-> TRUE],
            [head |-> "m", segs |-> <<"x", "m">>, safe |-> TRUE, synced |-> TRUE],
            [head |-> "m", segs |-> <<"m", "torn">>, safe |-> TRUE, synced |-> TRUE],
            [head |-> "m", segs |-> Whole, safe |-> FALSE, synced |-> TRUE],
            None}

(* Another program rewrites, replaces, plants or removes a file.  What it  *)
(* does to a temporary file under the writer's hand is as if done before   *)
(* the file is verified.                                                   *)
Alter(t, field, f) == /\ budget.alters > 0 /\ dir[t][field] # f
                      /\ wal[t].state # "none"
                      /\ op.pc \in {"write", "sync"} => field = "final"
                      /\ budget' = [budget EXCEPT !.alters = @ - 1]
                      /\ SetName(t, field, f)
                      /\ altered' = altered \union {t}
                      /\ op' = [op EXCEPT !.quiet = FALSE]
                      /\ UNCHANGED <<wal, maybe>>

Publish == \/ publish_create \/ publish_emit \/ publish_header \/ publish_sync
           \/ publish_verify_temp \/ publish_rename \/ publish_sync_directory
           \/ publish_verify_final \/ publish_fails \/ publish_disturbed \/ bind

Open == \/ open_validate \/ cleanup_unpublished \/ cleanup_unpublished_done
        \/ mark_recovery_required \/ cleanup_unreachable \/ remove_verified_final
        \/ cleanup_unreachable_done
        \/ open_fails

Next == \/ Publish
        \/ Open
        \/ \E t \in Txn : Begin(t) \/ Finish(t) \/ read_preflight(t)
        \/ read_segment \/ read_finish
        \/ Exit \/ Kill \/ PowerCut
        \/ \E t \in Txn, field \in {"temp", "final"}, f \in Foreign : Alter(t, field, f)

Spec == Init /\ [][Next]_vars

-----------------------------------------------------------------------------
(* A bound commitment names a manifest that is whole, and that no kill or  *)
(* power cut can take away, for as long as the transaction needs it: the   *)
(* order write, sync, rename, sync, bind of publish_stream_with_sync.      *)
BoundIsDurable == \A t \in Txn \ altered :
                    Active(t) => /\ \A d \in maybe[t] \union {dir[t]} : d.final = dir[t].final
                                 /\ dir[t].final.synced /\ Matches(dir[t].final)

(* No crash makes degu give up a transaction: RecoveryRequired for a lost  *)
(* manifest is reached only after another program changed its files.       *)
OnlyDamageGivesUp == \A t \in Txn : wal[t].state = "required" => t \in altered

(* When an open has finished, every bound manifest of a transaction that   *)
(* may still act is authentic, whatever was done to the files before; the  *)
(* transactions that lost theirs have been given up.                       *)
OpenExposesNoDamage == op.fresh /\ op.quiet =>
                         \A t \in Txn : wal[t].state = "bound" => Matches(dir[t].final)

(* When an open has finished, undisturbed files are exactly the needed     *)
(* ones: no temporary file, no orphan and no manifest of an ended          *)
(* transaction is left by any earlier kill or power cut.                   *)
NothingUnreachableLeft == op.fresh => \A t \in Txn \ altered :
                             dir[t].temp = None /\ (dir[t].final # None <=> Active(t))

(* Evidence of a change that was there to be seen is never destroyed or    *)
(* overwritten by degu: a step of the store takes a file from a final name *)
(* only if the file authenticates itself, agrees with any commitment, and  *)
(* is not needed.  Only what changed under the name after the last check   *)
(* of its contents (remove_verified_final) goes with it.                   *)
OnlyProvenFinalsGo ==
  \A t \in Txn :
    (dir[t].final # None /\ dir'[t].final # dir[t].final
       /\ altered' = altered /\ budget' = budget)
    => /\ ~(wal[t].commit # "none" /\ wal[t].state # "terminal")
       /\ op.pc = "unlink" /\ op.t = t
       /\ \/ dir[t].final # op.held
          \/ inspect_unbound(dir[t].final) /\ (wal[t].commit # "none" => Matches(dir[t].final))

(* What a read reports is about authentic bytes: it succeeds, or blames    *)
(* the manifest codec or the callback, only if every segment handed out is *)
(* the one committed to; a changed container is always reported as such.   *)
ReadIsAuthentic == op.outcome \in {"ok", "codec", "fold"} => op.seen = Whole
=============================================================================
