------------------------------ MODULE HeldMode ------------------------------
(***************************************************************************)
(* backend.rs and seal/executor.rs: the evidence held for one certified    *)
(* directory, the change of its mode between two frames of the log, and    *)
(* its undoing, now or by recovery.  Other programs change the mode, the   *)
(* access list, the mount table and the owner between any two system       *)
(* calls; calls fail; the process dies or the power is cut.                *)
(***************************************************************************)
EXTENDS Naturals, Sequences, FiniteSets

CONSTANTS InitialModes,     \* sets of the bits below
          Changes,          \* what other programs do: subset of {"mode", "acl", "mounts", "owner"}
          SameFilesystem,   \* whether the log's sync makes an earlier change of the mode durable: choices
          MaxChanges, MaxFaults, MaxCrashes

VARIABLES dir,      \* the directory and what is known of its file system
          held,     \* HeldLocalBackendEvidence, or Nothing
          wal, disk,        \* the log as the process knows it and as it is on the disk
          op,       \* the mutation at work
          g,        \* ghosts
          budget

vars == <<dir, held, wal, disk, op, g, budget>>

Bits == {"uw", "gw", "gx", "ow", "ox"}      \* owner's write and search, group's and others' write and search

ASSUME ConstantsAssumption == /\ InitialModes \subseteq SUBSET Bits
                              /\ Changes \subseteq {"mode", "acl", "mounts", "owner"}
                              /\ SameFilesystem \subseteq BOOLEAN
                              /\ MaxChanges \in Nat /\ MaxFaults \in Nat /\ MaxCrashes \in Nat

(* Mutant: only others are shut out.                                       *)
mutant_crate_minimal_sealed_mode(mode) == IF {"ow", "ox"} \subseteq mode THEN mode \ {"ow"} ELSE mode

crate_minimal_sealed_mode(mode) ==
    mode \ ((IF {"gw", "gx"} \subseteq mode THEN {"gw"} ELSE {}) \cup
            (IF {"ow", "ox"} \subseteq mode THEN {"ow"} ELSE {}))

-----------------------------------------------------------------------------
(* Certification.  A line of mountinfo has a mount and a type; the mount   *)
(* of the directory is 1 and its magic says ext4.                          *)

Line(id, type) == [id |-> id, type |-> type]
MountTables == {<<Line(1, "ext4")>>, <<Line(2, "tmpfs"), Line(1, "ext4")>>, <<Line(1, "ext4"), Line(1, "xfs")>>,
                <<Line(2, "ext4")>>, <<Line(1, "overlay")>>, <<Line(1, "ext4"), Line(0, "")>>}
Malformed(line) == line.id = 0

(* Mutant: the first line of the mount decides.                            *)
mutant_parse_linux_mountinfo(table) ==
    LET mine == {i \in DOMAIN table : table[i].id = 1}
    IN  IF mine = {} THEN "" ELSE table[CHOOSE i \in mine : \A j \in mine : i <= j].type

(* The type of the one line of the mount; "" when there is none, several,  *)
(* or a line that cannot be read.                                          *)
parse_linux_mountinfo(table) ==
    LET mine == {i \in DOMAIN table : table[i].id = 1}
    IN  IF Cardinality(mine) = 1 /\ ~\E i \in DOMAIN table : Malformed(table[i])
        THEN table[CHOOSE i \in mine : TRUE].type ELSE ""

certify_linux_mount(table) == parse_linux_mountinfo(table) = "ext4"

(* Access and default list, each absent, granting or unreadable.           *)
AclProbes == {"absent", "granting", "unknown"}

(* Mutant: the access list alone is read.                                  *)
mutant_combine_acl_probes(acl) == acl[1]

combine_acl_probes(acl) == IF \E i \in 1 .. 2 : acl[i] = "granting" THEN "granting"
                           ELSE IF \E i \in 1 .. 2 : acl[i] = "unknown" THEN "unknown" ELSE "absent"

checked_acl == combine_acl_probes(dir.acl) = "absent"

(* inspect_held_fd gets a snapshot at all.                                 *)
inspect_held_fd == certify_linux_mount(dir.mounts) /\ checked_acl

(* Mutant: the owner found is not compared with the process's own user.    *)
mutant_validate_snapshot(mode) == dir.foreign_owner = held.foreign /\ dir.mode = mode

(* The snapshot agrees with the evidence in owner, groups and identity,    *)
(* the owner is the user of the process, and the mode is the one expected. *)
validate_snapshot(mode) == dir.foreign_owner = held.foreign /\ ~dir.foreign_owner /\ dir.mode = mode

Valid(mode) == inspect_held_fd /\ validate_snapshot(mode)
Seen == [g EXCEPT !.since = {}]             \* ghost: everything was just looked at

-----------------------------------------------------------------------------
NoLineage == <<>>
Nothing == [live |-> FALSE, mode |-> {}, foreign |-> FALSE, verified |-> FALSE, lineage |-> NoLineage]
Evidence == [live |-> TRUE, mode |-> dir.mode, foreign |-> dir.foreign_owner, verified |-> TRUE, lineage |-> NoLineage]
NoOp == [pc |-> "idle", kind |-> "none", pre |-> {}, target |-> {}, outcome |-> "none", later |-> FALSE]
Empty == [seal |-> "none", restore |-> "none", pre |-> {}, expected |-> {}, blocked |-> FALSE]

Init == /\ dir \in [mode : InitialModes, durable : {{}}, acl : {<<"absent", "absent">>}, mounts : {<<Line(1, "ext4")>>},
                    foreign_owner : BOOLEAN, same_filesystem : SameFilesystem]
        /\ held = Nothing
        /\ wal = Empty /\ disk = Empty
        /\ op = NoOp
        /\ g = [original |-> dir.mode, since |-> {}, meddled |-> FALSE, window |-> FALSE,
                overwrote |-> FALSE, broken |-> FALSE]
        /\ budget = [changes |-> MaxChanges, faults |-> MaxFaults, crashes |-> MaxCrashes]

At(pc) == op.pc = pc
Go(pc) == op' = [op EXCEPT !.pc = pc]
Unverified == [held EXCEPT !.verified = FALSE]

invalidate_mode(mode) == held' = [held EXCEPT !.mode = mode, !.verified = FALSE, !.lineage = NoLineage]

(* Any owner is written down; only a change asks whose directory it is.    *)
certify_held_fd ==
    /\ At("idle") /\ ~held.live /\ ~wal.blocked /\ ~g.broken
    /\ inspect_held_fd
    /\ held' = Evidence
    /\ g' = Seen
    /\ UNCHANGED <<dir, wal, disk, op, budget>>

(* prepare_exact_mode_change: the evidence is looked at again first.       *)
prepare_exact_mode_change(kind, target, later) ==
    IF Valid(held.mode)
    THEN /\ op' = [NoOp EXCEPT !.pc = "intent", !.kind = kind, !.pre = held.mode, !.target = target, !.later = later]
         /\ g' = Seen /\ UNCHANGED held
    ELSE held' = Unverified /\ UNCHANGED <<op, g>>

prepare_minimal_seal ==
    /\ At("idle") /\ held.live /\ ~g.broken
    /\ held.verified /\ held.lineage = NoLineage /\ wal.seal = "none"
    /\ \E acquire, later \in BOOLEAN :
          prepare_exact_mode_change("seal",
              crate_minimal_sealed_mode(IF acquire THEN held.mode \cup {"uw"} ELSE held.mode), later)
    /\ UNCHANGED <<dir, wal, disk, budget>>

Lineage == <<wal.pre, wal.expected>>
Restorable == wal.seal = "applied" /\ wal.restore \in {"none", "not_applied"}

prepare_wal_bound_restore ==
    /\ At("idle") /\ held.live /\ ~g.broken /\ Restorable
    /\ held.verified /\ held.mode = wal.expected /\ held.lineage = Lineage
    /\ \E later \in BOOLEAN : prepare_exact_mode_change("restore", wal.pre, later)
    /\ UNCHANGED <<dir, wal, disk, budget>>

(* Mutant: the mode found is not compared with the log's.                  *)
mutant_bind_recovered_seal_lineage ==
    /\ At("idle") /\ held.live /\ Restorable
    /\ held.verified /\ held.lineage = NoLineage
    /\ held' = [held EXCEPT !.lineage = Lineage, !.mode = wal.expected]
    /\ UNCHANGED <<dir, wal, disk, op, g, budget>>

(* Recovery holds the directory anew; the log gives it its lineage.        *)
bind_recovered_seal_lineage ==
    /\ At("idle") /\ held.live /\ Restorable
    /\ held.verified /\ held.lineage = NoLineage /\ held.mode = wal.expected
    /\ held' = [held EXCEPT !.lineage = Lineage]
    /\ UNCHANGED <<dir, wal, disk, op, g, budget>>

-----------------------------------------------------------------------------
(* The log.  A failed append leaves the frame on the disk or not and the   *)
(* log unusable.  A sync covers what was written before; a frame of the    *)
(* same file system does not come to the disk before an earlier mode.      *)

Landed(frames) == IF frames # disk /\ dir.same_filesystem THEN [dir EXCEPT !.durable = {}] ELSE dir

Append_(frame, sync, then) ==
    \/ /\ wal' = frame
       /\ disk' = IF sync THEN frame ELSE disk
       /\ dir' = Landed(disk')
       /\ then /\ UNCHANGED <<g, budget>>
    \/ /\ budget.faults > 0 /\ budget' = [budget EXCEPT !.faults = @ - 1]
       /\ disk' \in {disk, wal, frame}
       /\ dir' = Landed(disk')
       /\ g' = [g EXCEPT !.broken = TRUE]
       /\ op' = NoOp
       /\ IF At("record") THEN invalidate_mode(held.mode) ELSE UNCHANGED held
       /\ UNCHANGED wal

(* Mutant: the intent is left to a later sync.                             *)
mutant_write_intent ==
    /\ At("intent")
    /\ Append_(IF op.kind = "seal" THEN [wal EXCEPT !.seal = "intended", !.pre = op.pre, !.expected = op.target]
               ELSE [wal EXCEPT !.restore = "intended"], FALSE, Go("inspect") /\ UNCHANGED held)

write_intent ==
    /\ At("intent")
    /\ Append_(IF op.kind = "seal" THEN [wal EXCEPT !.seal = "intended", !.pre = op.pre, !.expected = op.target]
               ELSE [wal EXCEPT !.restore = "intended"], TRUE, Go("inspect") /\ UNCHANGED held)

Outcome(name, pc) == op' = [op EXCEPT !.pc = pc, !.outcome = name]

(* Mutant: the look before the prepared change is trusted.                 *)
mutant_apply_wal_bound_mode_change ==
    /\ At("inspect")
    /\ Go("chmod") /\ g' = Seen
    /\ held' = IF op.kind = "restore" THEN [held EXCEPT !.lineage = NoLineage] ELSE held
    /\ UNCHANGED <<dir, wal, disk, budget>>

(* apply_wal_bound_mode_change: everything is looked at once more, and a   *)
(* restore uses its lineage up.                                            *)
apply_wal_bound_mode_change ==
    /\ At("inspect")
    /\ IF Valid(op.pre)
       THEN /\ Go("chmod") /\ g' = Seen
            /\ held' = IF op.kind = "restore" THEN [held EXCEPT !.lineage = NoLineage] ELSE held
       ELSE /\ Outcome("refused", "record") /\ held' = Unverified /\ UNCHANGED g
    /\ UNCHANGED <<dir, wal, disk, budget>>

(* A changed mode reaches the disk some time; until then what it was may   *)
(* come back.                                                              *)
Rewritten(mode) == [dir EXCEPT !.mode = mode, !.durable = IF mode = dir.mode THEN @ ELSE @ \cup {dir.mode}]

fchmod == /\ At("chmod")
          /\ \/ /\ dir' = Rewritten(op.target) /\ Go("post")
                /\ g' = [g EXCEPT !.overwrote = @ \/ dir.mode # op.pre]
                /\ UNCHANGED budget
             \/ /\ budget.faults > 0 /\ budget' = [budget EXCEPT !.faults = @ - 1]      \* an error, done or not
                /\ dir' \in {dir, Rewritten(op.target)} /\ Go("post_error") /\ UNCHANGED g
          /\ UNCHANGED <<held, wal, disk>>

finish_successful_chmod ==
    /\ At("post")
    /\ IF Valid(op.target)
       THEN /\ held' = [held EXCEPT !.mode = op.target, !.verified = TRUE]
            /\ Outcome("applied", "record") /\ g' = Seen
       ELSE invalidate_mode(dir.mode) /\ Outcome("unverified", "record") /\ UNCHANGED g
    /\ UNCHANGED <<dir, wal, disk, budget>>

(* Mutant: an error means that nothing was done.                           *)
mutant_failed_chmod ==
    /\ At("post_error")
    /\ held' = IF op.kind = "restore" THEN [held EXCEPT !.lineage = Lineage] ELSE held
    /\ Outcome("not_applied", "record")
    /\ UNCHANGED <<dir, wal, disk, g, budget>>

(* After an error only the mode as it was proves that nothing was done.    *)
failed_chmod ==
    /\ At("post_error")
    /\ IF Valid(op.pre)
       THEN /\ held' = IF op.kind = "restore" THEN [held EXCEPT !.lineage = Lineage] ELSE held
            /\ Outcome("not_applied", "record") /\ g' = Seen
       ELSE invalidate_mode(held.mode) /\ Outcome("unknown", "record") /\ UNCHANGED g
    /\ UNCHANGED <<dir, wal, disk, budget>>

(* Mutant: the outcome is filed under the other mutation.                  *)
mutant_Recorded(status) == [wal EXCEPT !.restore = status]

Recorded(status) == IF op.kind = "seal" THEN [wal EXCEPT !.seal = status] ELSE [wal EXCEPT !.restore = status]

(* Mutant: the lineage outlives the seal's undoing.                        *)
mutant_record_applied == /\ op' = NoOp /\ held' = [held EXCEPT !.lineage = Lineage]

record_applied == /\ op' = NoOp
                  /\ held' = IF op.kind = "seal" THEN [held EXCEPT !.lineage = <<op.pre, op.target>>]
                             ELSE held

(* The frame of the outcome.  A descriptor opened for one change alone     *)
(* leaves the applied frame to the next sync.                              *)
execute_local_mode_mutation_inner ==
    /\ At("record")
    /\ CASE op.outcome = "applied" -> Append_(Recorded("applied"), ~op.later, record_applied)
         [] op.outcome \in {"refused", "not_applied"} ->
                Append_(Recorded("not_applied"), TRUE, op' = NoOp /\ UNCHANGED held)
         [] OTHER -> Append_([wal EXCEPT !.blocked = TRUE], TRUE, op' = NoOp /\ UNCHANGED held)

Undecided == wal.seal = "intended" \/ wal.restore = "intended"
Resolved(applied) == LET status == IF applied THEN "applied" ELSE "not_applied"
                     IN  IF wal.restore = "intended" THEN [wal EXCEPT !.restore = status] ELSE [wal EXCEPT !.seal = status]
Expected == IF wal.restore = "intended" THEN wal.pre ELSE wal.expected
Before == IF wal.restore = "intended" THEN wal.expected ELSE wal.pre

(* Mutant: the intent is taken for the deed.                               *)
mutant_resolve_rebound_permission ==
    /\ At("idle") /\ held.live /\ ~g.broken /\ Undecided
    /\ Append_(Resolved(TRUE), TRUE, UNCHANGED <<op, held>>)

(* Recovery asks the mode what became of an intent; a third mode leaves it *)
(* undecided.                                                              *)
resolve_rebound_permission ==
    /\ At("idle") /\ held.live /\ ~g.broken /\ Undecided
    /\ dir.mode \in {Expected, Before}
    /\ Append_(Resolved(dir.mode = Expected), TRUE, UNCHANGED <<op, held>>)

-----------------------------------------------------------------------------
(* Other programs, and the end of the process.                             *)

Drops == held.live /\ At("idle") /\ held' = Nothing /\ UNCHANGED <<dir, wal, disk, op, g, budget>>

Changed(what, new) ==
    /\ what \in Changes /\ budget.changes > 0 /\ budget' = [budget EXCEPT !.changes = @ - 1]
    /\ dir' = new /\ new # dir
    /\ g' = [g EXCEPT !.since = @ \cup {what}, !.meddled = @ \/ what = "mode",
                      !.window = @ \/ (At("chmod") /\ what = "mode")]
    /\ UNCHANGED <<held, wal, disk, op>>

OtherChmod == \E mode \in InitialModes : Changed("mode", Rewritten(mode))
OtherAcl == \E acl \in AclProbes \X AclProbes : Changed("acl", [dir EXCEPT !.acl = acl])
Remount == \E table \in MountTables : Changed("mounts", [dir EXCEPT !.mounts = table])
OtherOwner == Changed("owner", [dir EXCEPT !.foreign_owner = ~@])

Dies(mode) ==
    /\ budget.crashes > 0 /\ budget' = [budget EXCEPT !.crashes = @ - 1]
    /\ held' = Nothing /\ op' = NoOp
    /\ dir' = [dir EXCEPT !.mode = mode]
    /\ g' = [g EXCEPT !.broken = FALSE]

(* A killed process leaves what it wrote; after a power cut the disk counts. *)
Killed == Dies(dir.mode) /\ wal' = (IF g.broken THEN disk ELSE wal) /\ UNCHANGED disk

PowerCut == \E mode \in dir.durable \cup {dir.mode} : Dies(mode) /\ wal' = disk /\ UNCHANGED disk

Next == \/ certify_held_fd \/ prepare_minimal_seal \/ prepare_wal_bound_restore \/ bind_recovered_seal_lineage
        \/ write_intent \/ apply_wal_bound_mode_change \/ fchmod \/ finish_successful_chmod \/ failed_chmod
        \/ execute_local_mode_mutation_inner \/ resolve_rebound_permission \/ Drops
        \/ OtherChmod \/ OtherAcl \/ Remount \/ OtherOwner \/ Killed \/ PowerCut

Spec == Init /\ [][Next]_vars

-----------------------------------------------------------------------------
(* Properties.                                                             *)

(* Every variable stays in its set.                                        *)
TypeOK == /\ dir.mode \subseteq Bits /\ dir.durable \subseteq SUBSET Bits
          /\ held.live \in BOOLEAN /\ held.mode \subseteq Bits
          /\ wal.restore # "none" => wal.seal = "applied"
          /\ op.outcome \in {"none", "applied", "refused", "not_applied", "unverified", "unknown"}

(* What a log says the mode is: the original before the seal and after its *)
(* undoing, the sealed one between, one of the two under an intent.        *)
Told(log) == CASE log.seal \in {"none", "not_applied"} -> {g.original}
               [] log.seal = "intended" \/ log.restore = "intended" -> {log.pre, log.expected}
               [] log.restore = "applied" -> {g.original}
               [] OTHER -> {log.expected}

(* While no other program chmods, and where log and directory share a file *)
(* system, the log tells the mode at every moment of a change and of its   *)
(* recovery: the one in hand the mode there is, and the one on the disk    *)
(* every mode a loss of power may leave.                                   *)
LogTellsTheMode ==
    dir.same_filesystem /\ ~g.meddled =>
        /\ dir.mode \in Told(wal)
        /\ dir.durable \cup {dir.mode} \subseteq Told(disk)

(* degu never replaces a mode it did not just see, outside the moment      *)
(* between its last look and fchmod.                                       *)
OverwritesOnlyWhatItSaw == g.overwrote => g.window

(* Verified evidence speaks of the directory as it is, up to what changed  *)
(* since it was last looked at: the mode, one unambiguous local mount, no  *)
(* granting access list, the owner.  A change is prepared only where that  *)
(* owner is the process's own user.                                        *)
EvidenceIsCurrent ==
    held.live /\ held.verified /\ op.pc \in {"idle", "intent"} =>
        /\ "mode" \notin g.since => held.mode = dir.mode
        /\ "acl" \notin g.since => \A i \in 1 .. 2 : dir.acl[i] = "absent"
        /\ "mounts" \notin g.since =>
              /\ Cardinality({i \in DOMAIN dir.mounts : dir.mounts[i].id = 1}) = 1
              /\ \A i \in DOMAIN dir.mounts : dir.mounts[i].id # 0 /\ (dir.mounts[i].id = 1 => dir.mounts[i].type = "ext4")
        /\ "owner" \notin g.since => dir.foreign_owner = held.foreign /\ (At("intent") => ~dir.foreign_owner)

(* A lineage in hand is one the log has applied and not undone.            *)
LineageIsLogged ==
    held.live /\ At("idle") => (held.lineage # NoLineage =>
        /\ wal.seal = "applied" /\ wal.restore \in {"none", "not_applied"}
        /\ held.lineage = Lineage)

(* Between the seal and its undoing nobody else can write into the         *)
(* directory, and no bit but the writers' was taken.                       *)
SealKeepsWritersOut ==
    dir.same_filesystem /\ ~g.meddled /\ wal.seal = "applied" /\ wal.restore = "none" =>
        /\ ~({"gw", "gx"} \subseteq dir.mode) /\ ~({"ow", "ox"} \subseteq dir.mode)
        /\ wal.pre \ dir.mode \subseteq {"gw", "ow"}
=============================================================================
