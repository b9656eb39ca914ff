--------------------------- MODULE HeldModeProofs ---------------------------
(***************************************************************************)
(* HeldMode for every set of initial modes, every kind of interference and *)
(* every bound: degu's fchmod replaces only a mode it just saw, the log    *)
(* tells the mode and the lineage, and the evidence in hand is current.    *)
(***************************************************************************)
EXTENDS HeldMode, FiniteSetTheorems, TLAPS

Modes == SUBSET Bits
Statuses == {"none", "intended", "applied", "not_applied"}
Logs == [seal : Statuses, restore : Statuses, pre : Modes, expected : Modes, blocked : BOOLEAN]

Dirs == [mode : Modes, durable : SUBSET Modes, acl : AclProbes \X AclProbes, mounts : MountTables,
         foreign_owner : BOOLEAN, same_filesystem : BOOLEAN]
Hands == [live : BOOLEAN, mode : Modes, foreign : BOOLEAN, verified : BOOLEAN,
          lineage : {NoLineage} \cup (Modes \X Modes)]
Ops == [pc : {"idle", "intent", "inspect", "chmod", "post", "post_error", "record"},
        kind : {"none", "seal", "restore"}, pre : Modes, target : Modes,
        outcome : {"none", "applied", "refused", "not_applied", "unverified", "unknown"}, later : BOOLEAN]
Ghosts == [original : Modes, since : SUBSET {"mode", "acl", "mounts", "owner"}, meddled : BOOLEAN,
           window : BOOLEAN, overwrote : BOOLEAN, broken : BOOLEAN]
Budgets == [changes : Nat, faults : Nat, crashes : Nat]

Types == /\ dir \in Dirs /\ held \in Hands /\ wal \in Logs /\ disk \in Logs
         /\ op \in Ops /\ g \in Ghosts /\ budget \in Budgets

(* A seal that keeps writers out.                                          *)
Sealed(pre, expected) ==
    /\ ~({"gw", "gx"} \subseteq expected) /\ ~({"ow", "ox"} \subseteq expected)
    /\ pre \ expected \subseteq {"gw", "ow"}

(* A log undoes only what it applied, and records only seals.              *)
LogSound(log) == /\ log.restore # "none" => log.seal = "applied"
                 /\ log.seal # "none" => Sealed(log.pre, log.expected)

(* From its intent on, the mutation at work is the one the log intends, on *)
(* the disk too.                                                           *)
Intended ==
    /\ op.pc = "idle" \/ (op.kind \in {"seal", "restore"} /\ ~g.broken /\ held.live)
    /\ op.pc # "idle" /\ op.kind = "seal" => Sealed(op.pre, op.target)
    /\ op.pc = "intent" /\ op.kind = "seal" => wal.seal = "none"
    /\ op.pc \in {"intent", "inspect", "chmod", "post", "post_error", "record"} /\ op.kind = "restore" =>
          wal.seal = "applied" /\ op.pre = wal.expected /\ op.target = wal.pre
    /\ op.pc = "intent" /\ op.kind = "restore" => wal.restore \in {"none", "not_applied"}
    /\ op.pc \in {"inspect", "chmod", "post", "post_error", "record"} =>
          /\ disk = wal
          /\ op.kind = "seal" => wal.seal = "intended" /\ wal.pre = op.pre /\ wal.expected = op.target
          /\ op.kind = "restore" => wal.restore = "intended"
    /\ op.pc = "record" => op.outcome # "none"

(* What the mode is while no other program chmods.                         *)
ModeAtWork ==
    ~g.meddled =>
       /\ op.pc \in {"intent", "inspect", "chmod"} => dir.mode = op.pre
       /\ op.pc = "post" => dir.mode = op.target
       /\ op.pc \in {"post_error", "record"} => dir.mode \in {op.pre, op.target}
       /\ op.pc = "record" /\ op.outcome = "applied" => dir.mode = op.target
       /\ op.pc = "record" /\ op.outcome \in {"refused", "not_applied"} => dir.mode = op.pre

(* What a log says the mode is, one clause per case of Told.               *)
Tells(log, mode) ==
    /\ log.seal \in {"none", "not_applied"} => mode = g.original
    /\ log.seal = "intended" \/ log.restore = "intended" => mode \in {log.pre, log.expected}
    /\ log.restore = "applied" => mode = g.original
    /\ log.seal = "applied" /\ log.restore \in {"none", "not_applied"} => mode = log.expected
    /\ log.seal # "none" => log.pre = g.original

LogMode ==
    dir.same_filesystem /\ ~g.meddled =>
        /\ Tells(wal, dir.mode)
        /\ \A mode \in dir.durable \cup {dir.mode} : Tells(disk, mode)

(* What a look at the directory found and nobody changed since.            *)
Unchanged ==
    /\ "mode" \notin g.since => held.mode = dir.mode
    /\ "acl" \notin g.since => combine_acl_probes(dir.acl) = "absent"
    /\ "mounts" \notin g.since => certify_linux_mount(dir.mounts)
    /\ "owner" \notin g.since => dir.foreign_owner = held.foreign

(* The evidence in hand, also while an outcome waits to be recorded; what  *)
(* is changed belongs to the process's own user.                           *)
Current ==
    /\ op.pc # "idle" => ~held.foreign
    /\ op.pc \in {"intent", "inspect", "chmod", "post", "post_error"} => held.mode = op.pre
    /\ held.live /\ held.verified /\ op.pc \in {"idle", "intent", "record"} => Unchanged

(* A lineage in hand is logged, and used up by the restore at work.        *)
LineageHeld ==
    held.lineage # NoLineage =>
        /\ held.lineage = Lineage /\ wal.seal = "applied"
        /\ op.pc \in {"idle", "intent", "inspect", "record"}
        /\ op.pc # "idle" => op.kind = "restore"
        /\ op.pc \in {"idle", "intent"} => wal.restore \in {"none", "not_applied"}
        /\ op.pc = "record" => op.outcome \in {"refused", "not_applied"}

(* From the last look to fchmod the mode is the one that was seen, unless  *)
(* another program changed it in just that moment.                         *)
SeenUntilChanged ==
    /\ At("chmod") /\ ~g.window => dir.mode = op.pre
    /\ OverwritesOnlyWhatItSaw

IInv == /\ Types /\ LogSound(wal) /\ LogSound(disk) /\ Intended /\ ModeAtWork /\ LogMode /\ Current
        /\ LineageHeld /\ SeenUntilChanged

-----------------------------------------------------------------------------

LEMMA InitInv == Init => IInv
<1> SUFFICES ASSUME Init PROVE IInv
  OBVIOUS
<1>0. <<Line(1, "ext4")>> \in MountTables /\ <<"absent", "absent">> \in AclProbes \X AclProbes
  BY DEF MountTables, AclProbes
<1> USE ConstantsAssumption DEF Init, Nothing, NoLineage, Empty, NoOp
<1>1. Types
  <2>1. dir.mode \in Modes /\ {} \in Modes
    BY DEF Modes
  <2>2. dir \in Dirs
    BY Zenon, <1>0, <2>1 DEF Dirs
  <2> QED
    BY <2>1, <2>2 DEF Types, Dirs, Hands, Logs, Ops, Ghosts, Budgets, Statuses
<1>2. LogSound(wal) /\ LogSound(disk) /\ Intended /\ ModeAtWork
  BY DEF LogSound, Intended, ModeAtWork
<1>3. LogMode /\ Current /\ LineageHeld
  BY DEF LogMode, Tells, Current, LineageHeld
<1>4. SeenUntilChanged
  BY DEF SeenUntilChanged, OverwritesOnlyWhatItSaw, At
<1> QED
  BY <1>1, <1>2, <1>3, <1>4 DEF IInv

(* A look that finds everything as the evidence says.                      *)
LEMMA ValidUnchanged ==
  ASSUME NEW mode, Valid(mode)
  PROVE  /\ dir.mode = mode /\ combine_acl_probes(dir.acl) = "absent"
         /\ certify_linux_mount(dir.mounts) /\ ~dir.foreign_owner /\ ~held.foreign
  BY DEF Valid, inspect_held_fd, checked_acl, validate_snapshot

LEMMA CertifyStep == IInv /\ certify_held_fd => IInv'
<1> SUFFICES ASSUME IInv, certify_held_fd PROVE IInv'
  OBVIOUS
<1> USE DEF certify_held_fd, Evidence, Seen, IInv, At
<1>1. Types'
  BY DEF Types, NoLineage, Dirs, Hands, Logs, Ops, Ghosts, Budgets
<1>2. LogSound(wal)' /\ LogSound(disk)' /\ Intended' /\ ModeAtWork'
  BY DEF LogSound, Intended, ModeAtWork, Types, Dirs, Hands, Logs, Ops, Ghosts, Budgets
<1>3. LogMode'
  BY DEF LogMode, Tells, Types, Dirs, Hands, Logs, Ops, Ghosts, Budgets
<1>4. Current'
  BY DEF Current, Unchanged, inspect_held_fd, checked_acl, Types, Dirs, Hands, Logs, Ops, Ghosts, Budgets
<1>5. LineageHeld'
  BY DEF LineageHeld
<1>6. SeenUntilChanged'
  BY DEF SeenUntilChanged, OverwritesOnlyWhatItSaw, Types, Dirs, Hands, Logs, Ops, Ghosts, Budgets
<1> QED
  BY <1>1, <1>2, <1>3, <1>4, <1>5, <1>6

(* The seal takes the write of those who can search, and no other bit.     *)
LEMMA SealSound ==
  ASSUME NEW mode \in Modes
  PROVE  /\ crate_minimal_sealed_mode(mode) \in Modes
         /\ Sealed(mode, crate_minimal_sealed_mode(mode))
         /\ Sealed(mode, crate_minimal_sealed_mode(mode \cup {"uw"}))
         /\ crate_minimal_sealed_mode(mode \cup {"uw"}) \in Modes
  BY DEF Modes, Bits, Sealed, crate_minimal_sealed_mode

(* A directory whose mode was changed, and what the changes leave of the   *)
(* other fields.                                                           *)
LEMMA RewrittenDir ==
  ASSUME dir \in Dirs, NEW mode \in Modes
  PROVE  /\ Rewritten(mode) \in Dirs
         /\ Rewritten(mode).mode = mode
         /\ \A f \in {"acl", "mounts", "foreign_owner", "same_filesystem"} : Rewritten(mode)[f] = dir[f]
         /\ Rewritten(mode).durable \subseteq dir.durable \cup {dir.mode}
<1>1. CASE mode = dir.mode
  BY Zenon, <1>1 DEF Rewritten, Dirs
<1>2. CASE mode # dir.mode
  BY Zenon, <1>2 DEF Rewritten, Dirs
<1> QED
  BY <1>1, <1>2

LEMMA GhostsChange ==
  ASSUME g \in Ghosts, NEW s \in SUBSET {"mode", "acl", "mounts", "owner"}, NEW m \in BOOLEAN, NEW w \in BOOLEAN
  PROVE  [g EXCEPT !.since = s, !.meddled = m, !.window = w] \in Ghosts
  BY Zenon DEF Ghosts

LEMMA ChangedTypes ==
  ASSUME Types, NEW what, NEW new \in Dirs, Changed(what, new)
  PROVE  Types'
<1>1. what \in {"mode", "acl", "mounts", "owner"}
  BY ConstantsAssumption DEF Changed
<1>2. g' \in Ghosts
  <2> DEFINE s == g.since \cup {what}
             m == g.meddled \/ what = "mode"
             w == g.window \/ (At("chmod") /\ what = "mode")
  <2>1. s \in SUBSET {"mode", "acl", "mounts", "owner"} /\ m \in BOOLEAN /\ w \in BOOLEAN
    BY <1>1 DEF Types, Ghosts
  <2>2. g' = [g EXCEPT !.since = s, !.meddled = m, !.window = w]
    BY DEF Changed
  <2> HIDE DEF s, m, w
  <2> QED
    BY Zenon, <2>1, <2>2, GhostsChange DEF Types
<1>3. budget' \in Budgets
  BY DEF Changed, Types, Budgets
<1> QED
  BY <1>2, <1>3 DEF Changed, Types

LEMMA BindStep == IInv /\ bind_recovered_seal_lineage => IInv'
<1> SUFFICES ASSUME IInv, bind_recovered_seal_lineage PROVE IInv'
  OBVIOUS
<1> USE DEF bind_recovered_seal_lineage, Lineage, Restorable, IInv, At
<1>1. Types'
  BY DEF Types, Hands, Logs, Modes
<1>2. LogSound(wal)' /\ LogSound(disk)' /\ Intended' /\ ModeAtWork'
  BY DEF LogSound, Intended, ModeAtWork, Types, Dirs, Hands, Logs, Ops, Ghosts, Budgets
<1>3. LogMode'
  BY DEF LogMode, Tells, Types, Dirs, Hands, Logs, Ops, Ghosts, Budgets
<1>4. Current'
  BY DEF Current, Unchanged, Types, Dirs, Hands, Logs, Ops, Ghosts, Budgets
<1>5. LineageHeld'
  BY DEF LineageHeld, Lineage, Types, Dirs, Hands, Logs, Ops, Ghosts, Budgets
<1>6. SeenUntilChanged'
  BY DEF SeenUntilChanged, OverwritesOnlyWhatItSaw, Types, Dirs, Hands, Logs, Ops, Ghosts, Budgets
<1> QED
  BY <1>1, <1>2, <1>3, <1>4, <1>5, <1>6

LEMMA DropStep == IInv /\ Drops => IInv'
<1> SUFFICES ASSUME IInv, Drops PROVE IInv'
  OBVIOUS
<1> USE DEF Drops, Nothing, IInv, At
<1>1. Types'
  BY DEF Types, Hands, Logs, Modes
<1>2. LogSound(wal)' /\ LogSound(disk)' /\ Intended' /\ ModeAtWork'
  BY DEF LogSound, Intended, ModeAtWork, Types, Dirs, Hands, Logs, Ops, Ghosts, Budgets
<1>3. LogMode'
  BY DEF LogMode, Tells, Types, Dirs, Hands, Logs, Ops, Ghosts, Budgets
<1>4. Current'
  BY DEF Current, Unchanged, Types, Dirs, Hands, Logs, Ops, Ghosts, Budgets
<1>5. LineageHeld'
  BY DEF LineageHeld, Lineage, Types, Dirs, Hands, Logs, Ops, Ghosts, Budgets
<1>6. SeenUntilChanged'
  BY DEF SeenUntilChanged, OverwritesOnlyWhatItSaw, Types, Dirs, Hands, Logs, Ops, Ghosts, Budgets
<1> QED
  BY <1>1, <1>2, <1>3, <1>4, <1>5, <1>6

LEMMA AclStep == IInv /\ OtherAcl => IInv'
<1> SUFFICES ASSUME IInv, OtherAcl PROVE IInv'
  OBVIOUS
<1> USE DEF OtherAcl, Changed, IInv, At
<1>1. Types'
  <2>1. PICK acl \in AclProbes \X AclProbes : Changed("acl", [dir EXCEPT !.acl = acl])
    BY DEF Changed
  <2>2. [dir EXCEPT !.acl = acl] \in Dirs
    BY DEF Types, Dirs
  <2> QED
    BY Zenon, <2>1, <2>2, ChangedTypes
<1>2. LogSound(wal)' /\ LogSound(disk)' /\ Intended' /\ ModeAtWork'
  BY DEF LogSound, Intended, ModeAtWork, Types, Dirs, Hands, Logs, Ops, Ghosts, Budgets
<1>3. LogMode'
  BY DEF LogMode, Tells, Types, Dirs, Hands, Logs, Ops, Ghosts, Budgets
<1>4. Current'
  BY DEF Current, Unchanged, Types, Dirs, Hands, Logs, Ops, Ghosts, Budgets
<1>5. LineageHeld'
  BY DEF LineageHeld, Lineage, Types, Dirs, Hands, Logs, Ops, Ghosts, Budgets
<1>6. SeenUntilChanged'
  BY DEF SeenUntilChanged, OverwritesOnlyWhatItSaw, Types, Dirs, Hands, Logs, Ops, Ghosts, Budgets
<1> QED
  BY <1>1, <1>2, <1>3, <1>4, <1>5, <1>6

LEMMA RemountStep == IInv /\ Remount => IInv'
<1> SUFFICES ASSUME IInv, Remount PROVE IInv'
  OBVIOUS
<1> USE DEF Remount, Changed, IInv, At
<1>1. Types'
  <2>1. PICK table \in MountTables : Changed("mounts", [dir EXCEPT !.mounts = table])
    BY DEF Changed
  <2>2. [dir EXCEPT !.mounts = table] \in Dirs
    BY DEF Types, Dirs
  <2> QED
    BY Zenon, <2>1, <2>2, ChangedTypes
<1>2. LogSound(wal)' /\ LogSound(disk)' /\ Intended' /\ ModeAtWork'
  BY DEF LogSound, Intended, ModeAtWork, Types, Dirs, Hands, Logs, Ops, Ghosts, Budgets
<1>3. LogMode'
  BY DEF LogMode, Tells, Types, Dirs, Hands, Logs, Ops, Ghosts, Budgets
<1>4. Current'
  BY DEF Current, Unchanged, Types, Dirs, Hands, Logs, Ops, Ghosts, Budgets
<1>5. LineageHeld'
  BY DEF LineageHeld, Lineage, Types, Dirs, Hands, Logs, Ops, Ghosts, Budgets
<1>6. SeenUntilChanged'
  BY DEF SeenUntilChanged, OverwritesOnlyWhatItSaw, Types, Dirs, Hands, Logs, Ops, Ghosts, Budgets
<1> QED
  BY <1>1, <1>2, <1>3, <1>4, <1>5, <1>6

LEMMA OwnerStep == IInv /\ OtherOwner => IInv'
<1> SUFFICES ASSUME IInv, OtherOwner PROVE IInv'
  OBVIOUS
<1> USE DEF OtherOwner, Changed, IInv, At
<1>1. Types'
  <2>1. [dir EXCEPT !.foreign_owner = ~dir.foreign_owner] \in Dirs
    BY Zenon DEF Types, Dirs
  <2> QED
    BY Zenon, <2>1, ChangedTypes
<1>2. LogSound(wal)' /\ LogSound(disk)' /\ Intended' /\ ModeAtWork'
  BY DEF LogSound, Intended, ModeAtWork, Types, Dirs, Hands, Logs, Ops, Ghosts, Budgets
<1>3. LogMode'
  BY DEF LogMode, Tells, Types, Dirs, Hands, Logs, Ops, Ghosts, Budgets
<1>4. Current'
  BY DEF Current, Unchanged, Types, Dirs, Hands, Logs, Ops, Ghosts, Budgets
<1>5. LineageHeld'
  BY DEF LineageHeld, Lineage, Types, Dirs, Hands, Logs, Ops, Ghosts, Budgets
<1>6. SeenUntilChanged'
  BY DEF SeenUntilChanged, OverwritesOnlyWhatItSaw, Types, Dirs, Hands, Logs, Ops, Ghosts, Budgets
<1> QED
  BY <1>1, <1>2, <1>3, <1>4, <1>5, <1>6

LEMMA ChmodStep == IInv /\ OtherChmod => IInv'
<1> SUFFICES ASSUME IInv, OtherChmod PROVE IInv'
  OBVIOUS
<1> USE DEF OtherChmod, Changed, Rewritten, IInv, At
<1>1. Types'
  <2>1. PICK mode \in Modes : Changed("mode", Rewritten(mode))
    BY Zenon, ConstantsAssumption DEF Modes, Changed
  <2> QED
    BY ZenonT(60), <2>1, ChangedTypes, RewrittenDir DEF Types
<1>2. LogSound(wal)' /\ LogSound(disk)' /\ Intended' /\ ModeAtWork'
  BY DEF LogSound, Intended, ModeAtWork, Types, Dirs, Hands, Logs, Ops, Ghosts, Budgets
<1>3. LogMode'
  BY DEF LogMode, Tells, Types, Dirs, Hands, Logs, Ops, Ghosts, Budgets
<1>4. Current'
  BY DEF Current, Unchanged, Types, Dirs, Hands, Logs, Ops, Ghosts, Budgets
<1>5. LineageHeld'
  BY DEF LineageHeld, Lineage, Types, Dirs, Hands, Logs, Ops, Ghosts, Budgets
<1>6. SeenUntilChanged'
  BY Zenon DEF SeenUntilChanged, OverwritesOnlyWhatItSaw, Types, Dirs, Hands, Logs, Ops, Ghosts, Budgets
<1> QED
  BY <1>1, <1>2, <1>3, <1>4, <1>5, <1>6

LEMMA KilledStep == IInv /\ Killed => IInv'
<1> SUFFICES ASSUME IInv, Killed PROVE IInv'
  OBVIOUS
<1> USE DEF Killed, Dies, Nothing, NoOp, IInv, At
<1>1. Types'
  <2>1. dir' \in Dirs
    BY DEF Types, Dirs
  <2>4. g' \in Ghosts
    BY Zenon DEF Types, Ghosts
  <2>5. budget' \in Budgets
    BY DEF Types, Budgets
  <2>2. held' \in Hands /\ op' \in Ops
    BY DEF Hands, Ops, Modes
  <2>3. wal' \in Logs /\ disk' \in Logs
    BY DEF Types
  <2> QED
    BY <2>1, <2>4, <2>5, <2>2, <2>3 DEF Types
<1>2. LogSound(wal)' /\ LogSound(disk)' /\ Intended' /\ ModeAtWork'
  BY DEF LogSound, Intended, ModeAtWork, Types, Dirs, Hands, Logs, Ops, Ghosts, Budgets
<1>3. LogMode'
  BY DEF LogMode, Tells, Types, Dirs, Hands, Logs, Ops, Ghosts, Budgets
<1>4. Current'
  BY DEF Current, Unchanged, Types, Dirs, Hands, Logs, Ops, Ghosts, Budgets
<1>5. LineageHeld'
  BY DEF LineageHeld, Lineage, Types, Dirs, Hands, Logs, Ops, Ghosts, Budgets
<1>6. SeenUntilChanged'
  BY DEF SeenUntilChanged, OverwritesOnlyWhatItSaw, Types, Dirs, Hands, Logs, Ops, Ghosts, Budgets
<1> QED
  BY <1>1, <1>2, <1>3, <1>4, <1>5, <1>6

LEMMA PowerCutStep == IInv /\ PowerCut => IInv'
<1> SUFFICES ASSUME IInv, PowerCut PROVE IInv'
  OBVIOUS
<1> USE DEF PowerCut, Dies, Nothing, NoOp, IInv, At
<1>1. Types'
  <2>1. dir' \in Dirs
    BY DEF Types, Dirs
  <2>4. g' \in Ghosts
    BY Zenon DEF Types, Ghosts
  <2>5. budget' \in Budgets
    BY DEF Types, Budgets
  <2>2. held' \in Hands /\ op' \in Ops
    BY DEF Hands, Ops, Modes
  <2>3. wal' \in Logs /\ disk' \in Logs
    BY DEF Types
  <2> QED
    BY <2>1, <2>4, <2>5, <2>2, <2>3 DEF Types
<1>2. LogSound(wal)' /\ LogSound(disk)' /\ Intended' /\ ModeAtWork'
  BY DEF LogSound, Intended, ModeAtWork, Types, Dirs, Hands, Logs, Ops, Ghosts, Budgets
<1>3. LogMode'
  BY DEF LogMode, Tells, Types, Dirs, Hands, Logs, Ops, Ghosts, Budgets
<1>4. Current'
  BY DEF Current, Unchanged, Types, Dirs, Hands, Logs, Ops, Ghosts, Budgets
<1>5. LineageHeld'
  BY DEF LineageHeld, Lineage, Types, Dirs, Hands, Logs, Ops, Ghosts, Budgets
<1>6. SeenUntilChanged'
  BY DEF SeenUntilChanged, OverwritesOnlyWhatItSaw, Types, Dirs, Hands, Logs, Ops, Ghosts, Budgets
<1> QED
  BY <1>1, <1>2, <1>3, <1>4, <1>5, <1>6

LEMMA PrepareStep ==
  ASSUME IInv, NEW kind \in {"seal", "restore"}, NEW target \in Modes, NEW later \in BOOLEAN,
         At("idle"), held.live, held.verified, ~g.broken, prepare_exact_mode_change(kind, target, later),
         kind = "seal" => wal.seal = "none" /\ held.lineage = NoLineage /\ Sealed(held.mode, target),
         kind = "restore" => Restorable /\ held.mode = wal.expected /\ target = wal.pre,
         UNCHANGED <<dir, wal, disk, budget>>
  PROVE  IInv'
<1> USE DEF IInv, At
<1>1. CASE Valid(held.mode)
  <2>0. /\ op' = [pc |-> "intent", kind |-> kind, pre |-> held.mode, target |-> target, outcome |-> "none",
                 later |-> later]
        /\ g' = [g EXCEPT !.since = {}] /\ held' = held
    BY ZenonT(60), <1>1 DEF prepare_exact_mode_change, NoOp, Seen
  <2>1. Types'
    <3>1. op' \in Ops
      BY <2>0 DEF Types, Ops, Hands
    <3>2. g' \in Ghosts
      BY <2>0 DEF Types, Ghosts
    <3> QED
      BY <2>0, <3>1, <3>2 DEF Types
  <2>2. LogSound(wal)' /\ LogSound(disk)' /\ Intended'
    BY <2>0 DEF LogSound, Intended, Restorable, Types, Dirs, Hands, Logs, Ops, Ghosts, Budgets
  <2>3. ModeAtWork' /\ LogMode'
    BY <1>1, <2>0, ValidUnchanged DEF ModeAtWork, LogMode, Tells, Types, Dirs, Hands, Logs, Ops, Ghosts, Budgets
  <2>4. Current'
    BY <1>1, <2>0, ValidUnchanged DEF Current, Unchanged, Types, Dirs, Hands, Logs, Ops, Ghosts, Budgets
  <2>5. LineageHeld'
    BY <2>0 DEF LineageHeld, Lineage, Restorable, Types, Dirs, Hands, Logs, Ops, Ghosts, Budgets
  <2>6. SeenUntilChanged'
    BY <2>0 DEF SeenUntilChanged, OverwritesOnlyWhatItSaw, Types, Dirs, Hands, Logs, Ops, Ghosts, Budgets
  <2> QED
    BY <2>1, <2>2, <2>3, <2>4, <2>5, <2>6
<1>2. CASE ~Valid(held.mode)
  <2>0. held' = [held EXCEPT !.verified = FALSE] /\ UNCHANGED <<op, g>>
    BY <1>2 DEF prepare_exact_mode_change, Unverified
  <2>1. Types'
    BY Zenon, <2>0 DEF Types, Hands
  <2>2. LogSound(wal)' /\ LogSound(disk)' /\ Intended' /\ ModeAtWork' /\ LogMode'
    BY <2>0 DEF LogSound, Intended, ModeAtWork, LogMode, Tells, Types, Dirs, Hands, Logs, Ops, Ghosts, Budgets
  <2>3. Current' /\ LineageHeld' /\ SeenUntilChanged'
    BY <2>0 DEF Current, LineageHeld, Lineage, SeenUntilChanged, OverwritesOnlyWhatItSaw, Types, Dirs, Hands, Logs, Ops, Ghosts, Budgets
  <2> QED
    BY <2>1, <2>2, <2>3
<1> QED
  BY <1>1, <1>2

LEMMA PrepareSealStep == IInv /\ prepare_minimal_seal => IInv'
<1> SUFFICES ASSUME IInv, prepare_minimal_seal PROVE IInv'
  OBVIOUS
<1>1. PICK acquire \in BOOLEAN, later \in BOOLEAN :
         prepare_exact_mode_change("seal",
             crate_minimal_sealed_mode(IF acquire THEN held.mode \cup {"uw"} ELSE held.mode), later)
  BY DEF prepare_minimal_seal
<1>2. held.mode \in Modes
  BY DEF IInv, Types, Hands
<1> DEFINE target == crate_minimal_sealed_mode(IF acquire THEN held.mode \cup {"uw"} ELSE held.mode)
<1>3. target \in Modes /\ Sealed(held.mode, target)
  BY <1>2, SealSound
<1> HIDE DEF target
<1>4. prepare_exact_mode_change("seal", target, later)
  BY <1>1 DEF target
<1> QED
  BY <1>3, <1>4, PrepareStep DEF prepare_minimal_seal

LEMMA PrepareRestoreStep == IInv /\ prepare_wal_bound_restore => IInv'
<1> SUFFICES ASSUME IInv, prepare_wal_bound_restore PROVE IInv'
  OBVIOUS
<1>1. PICK later \in BOOLEAN : prepare_exact_mode_change("restore", wal.pre, later)
  BY DEF prepare_wal_bound_restore
<1>2. wal.pre \in Modes
  BY DEF IInv, Types, Logs
<1> QED
  BY <1>1, <1>2, PrepareStep DEF prepare_wal_bound_restore

LEMMA ApplyStep == IInv /\ apply_wal_bound_mode_change => IInv'
<1> SUFFICES ASSUME IInv, apply_wal_bound_mode_change PROVE IInv'
  OBVIOUS
<1> USE DEF IInv, At
<1>0. op.pc = "inspect" /\ UNCHANGED <<dir, wal, disk, budget>>
  BY DEF apply_wal_bound_mode_change
<1>1. CASE Valid(op.pre)
  <2>0. /\ op' = [op EXCEPT !.pc = "chmod"] /\ g' = [g EXCEPT !.since = {}]
        /\ held' = IF op.kind = "restore" THEN [held EXCEPT !.lineage = NoLineage] ELSE held
    BY <1>1 DEF apply_wal_bound_mode_change, Go, Seen
  <2>1. Types'
    <3>1. op' \in Ops /\ held' \in Hands
      BY <2>0 DEF Types, Ops, Hands
    <3>2. g' \in Ghosts
      BY <2>0 DEF Types, Ghosts
    <3> QED
      BY <1>0, <3>1, <3>2 DEF Types
  <2>2. LogSound(wal)' /\ LogSound(disk)' /\ Intended'
    BY <1>0, <2>0 DEF LogSound, Intended, Types, Dirs, Hands, Logs, Ops, Ghosts, Budgets
  <2>3. ModeAtWork' /\ LogMode'
    BY <1>0, <2>0 DEF ModeAtWork, LogMode, Tells, Types, Dirs, Hands, Logs, Ops, Ghosts, Budgets
  <2>4. Current' /\ LineageHeld'
    BY <1>0, <2>0 DEF Current, Intended, LineageHeld, Lineage, Types, Dirs, Hands, Logs, Ops, Ghosts, Budgets
  <2>5. SeenUntilChanged'
    BY <1>0, <1>1, <2>0, ValidUnchanged DEF SeenUntilChanged, OverwritesOnlyWhatItSaw, Types, Dirs, Hands, Logs, Ops, Ghosts, Budgets
  <2> QED
    BY <2>1, <2>2, <2>3, <2>4, <2>5
<1>2. CASE ~Valid(op.pre)
  <2>0. /\ op' = [op EXCEPT !.pc = "record", !.outcome = "refused"]
        /\ held' = [held EXCEPT !.verified = FALSE] /\ g' = g
    BY <1>2 DEF apply_wal_bound_mode_change, Outcome, Unverified
  <2>1. Types'
    <3>1. op' \in Ops
      BY Zenon, <2>0 DEF Types, Ops
    <3>2. held' \in Hands
      BY Zenon, <2>0 DEF Types, Hands
    <3> QED
      BY <1>0, <2>0, <3>1, <3>2 DEF Types
  <2>2. LogSound(wal)' /\ LogSound(disk)' /\ Intended'
    BY <1>0, <2>0 DEF LogSound, Intended, Types, Dirs, Hands, Logs, Ops, Ghosts, Budgets
  <2>3. ModeAtWork' /\ LogMode'
    BY <1>0, <2>0 DEF ModeAtWork, LogMode, Tells, Types, Dirs, Hands, Logs, Ops, Ghosts, Budgets
  <2>4. Current' /\ LineageHeld'
    BY <1>0, <2>0 DEF Current, LineageHeld, Lineage, Types, Dirs, Hands, Logs, Ops, Ghosts, Budgets
  <2>5. SeenUntilChanged'
    BY <1>0, <2>0 DEF SeenUntilChanged, OverwritesOnlyWhatItSaw, Types, Dirs, Hands, Logs, Ops, Ghosts, Budgets
  <2> QED
    BY <2>1, <2>2, <2>3, <2>4, <2>5
<1> QED
  BY <1>1, <1>2

(* The intent on the disk tells both modes, so neither the change nor its  *)
(* loss with the power surprises the log.                                  *)
LEMMA FchmodStep == IInv /\ fchmod => IInv'
<1> SUFFICES ASSUME IInv, fchmod PROVE IInv'
  OBVIOUS
<1> USE DEF IInv, At
<1>0. op.pc = "chmod" /\ UNCHANGED <<held, wal, disk>> /\ op.target \in Modes
  BY DEF fchmod, Types, Ops
<1>1. /\ dir' = dir \/ dir' = Rewritten(op.target)
      /\ \/ op' = [op EXCEPT !.pc = "post"] /\ dir' = Rewritten(op.target)
         \/ op' = [op EXCEPT !.pc = "post_error"]
      /\ g' = g \/ (g' = [g EXCEPT !.overwrote = g.overwrote \/ dir.mode # op.pre])
      /\ budget' = budget \/ (budget.faults > 0 /\ budget' = [budget EXCEPT !.faults = budget.faults - 1])
  BY DEF fchmod, Go
<1>2. /\ dir' \in Dirs /\ dir'.same_filesystem = dir.same_filesystem
      /\ dir'.mode \in {dir.mode, op.target} /\ dir'.durable \subseteq dir.durable \cup {dir.mode}
      /\ op'.pc = "post" => dir'.mode = op.target
  <2>1. CASE dir' = dir
    <3>1. op'.pc = "post" => dir' = Rewritten(op.target)
      BY <1>1 DEF Types, Ops
    <3>2. op'.pc = "post" => dir'.mode = op.target
      BY <1>0, <3>1, RewrittenDir DEF Types
    <3> QED
      BY <2>1, <3>2 DEF Types
  <2>2. CASE dir' = Rewritten(op.target)
    BY <1>0, <2>2, RewrittenDir DEF Types
  <2> QED
    BY <1>1, <2>1, <2>2
<1>3. op' \in Ops /\ op'.pc \in {"post", "post_error"} /\ \A f \in {"kind", "pre", "target", "outcome"} : op'[f] = op[f]
  BY <1>1 DEF Types, Ops
<1>4. /\ g' \in Ghosts /\ \A f \in {"original", "since", "meddled", "window", "broken"} : g'[f] = g[f]
      /\ g'.overwrote => g.overwrote \/ dir.mode # op.pre
  BY Zenon, <1>1 DEF Types, Ghosts
<1>5. budget' \in Budgets
  BY <1>1 DEF Types, Budgets
<1>6. Types'
  BY <1>0, <1>2, <1>3, <1>4, <1>5 DEF Types
<1>7. LogSound(wal)' /\ LogSound(disk)' /\ Intended'
  BY <1>0, <1>3, <1>4 DEF LogSound, Intended
<1>8. ModeAtWork'
  BY <1>0, <1>2, <1>3, <1>4 DEF ModeAtWork
<1>9. LogMode'
  <2> SUFFICES ASSUME dir.same_filesystem, ~g.meddled PROVE Tells(wal, dir.mode)' /\
                 \A mode \in (dir.durable \cup {dir.mode})' : Tells(disk, mode)'
    BY <1>2, <1>4 DEF LogMode
  <2>1. disk = wal /\ Tells(wal, dir.mode) /\ dir.mode = op.pre
    BY <1>0 DEF Intended, LogMode, ModeAtWork
  <2>2. Tells(wal, op.target)
    BY <1>0, <2>1 DEF Intended, Tells, LogSound, Types, Logs, Statuses
  <2>3. \A mode \in dir.durable \cup {dir.mode, op.target} : Tells(wal, mode)
    BY <2>1, <2>2 DEF LogMode
  <2>4. \A mode : Tells(wal, mode) => Tells(wal, mode)' /\ Tells(disk, mode)'
    BY <1>0, <1>4, <2>1 DEF Tells
  <2> QED
    BY <1>2, <2>3, <2>4
<1>10. Current' /\ LineageHeld'
  BY <1>0, <1>3, <1>4 DEF Current, LineageHeld, Lineage
<1>11. SeenUntilChanged'
  BY <1>0, <1>3, <1>4 DEF SeenUntilChanged, OverwritesOnlyWhatItSaw
<1> QED
  BY <1>6, <1>7, <1>8, <1>9, <1>10, <1>11

LEMMA FinishStep == IInv /\ finish_successful_chmod => IInv'
<1> SUFFICES ASSUME IInv, finish_successful_chmod PROVE IInv'
  OBVIOUS
<1> USE DEF IInv, At
<1>0. op.pc = "post" /\ UNCHANGED <<dir, wal, disk, budget>>
  BY DEF finish_successful_chmod
<1>1. CASE Valid(op.target)
  <2>0. /\ op' = [op EXCEPT !.pc = "record", !.outcome = "applied"] /\ g' = [g EXCEPT !.since = {}]
        /\ held' = [held EXCEPT !.mode = op.target, !.verified = TRUE]
    BY <1>1 DEF finish_successful_chmod, Outcome, Seen
  <2>1. Types'
    <3>1. op' \in Ops
      BY Zenon, <2>0 DEF Types, Ops
    <3>2. held' \in Hands
      BY Zenon, <2>0 DEF Types, Hands, Ops, Logs, Lineage
    <3>3. g' \in Ghosts
      BY <2>0 DEF Types, Ghosts
    <3> QED
      BY <1>0, <3>1, <3>2, <3>3 DEF Types
  <2>2. LogSound(wal)' /\ LogSound(disk)' /\ Intended'
    BY <1>0, <2>0 DEF LogSound, Intended, Types, Dirs, Hands, Logs, Ops, Ghosts, Budgets
  <2>3. ModeAtWork' /\ LogMode'
    BY <1>0, <1>1, <2>0, ValidUnchanged DEF ModeAtWork, LogMode, Tells, Types, Dirs, Hands, Logs, Ops, Ghosts, Budgets
  <2>4. Current'
    BY <1>0, <1>1, <2>0, ValidUnchanged DEF Current, Unchanged, Types, Dirs, Hands, Logs, Ops, Ghosts, Budgets
  <2>5. LineageHeld'
    BY <1>0, <2>0 DEF LineageHeld, Lineage, Intended, Types, Dirs, Hands, Logs, Ops, Ghosts, Budgets
  <2>6. SeenUntilChanged'
    BY <1>0, <2>0 DEF SeenUntilChanged, OverwritesOnlyWhatItSaw, Types, Dirs, Hands, Logs, Ops, Ghosts, Budgets
  <2> QED
    BY <2>1, <2>2, <2>3, <2>4, <2>5, <2>6
<1>2. CASE ~Valid(op.target)
  <2>0. /\ op' = [op EXCEPT !.pc = "record", !.outcome = "unverified"] /\ g' = g
        /\ held' = [held EXCEPT !.mode = dir.mode, !.verified = FALSE, !.lineage = NoLineage]
    BY Zenon, <1>2 DEF finish_successful_chmod, Outcome, invalidate_mode
  <2>1. Types'
    <3>1. op' \in Ops
      BY Zenon, <2>0 DEF Types, Ops
    <3>2. held' \in Hands
      BY <2>0 DEF Types, Hands, Dirs
    <3> QED
      BY <1>0, <2>0, <3>1, <3>2 DEF Types
  <2>2. LogSound(wal)' /\ LogSound(disk)' /\ Intended'
    BY <1>0, <2>0 DEF LogSound, Intended, Types, Dirs, Hands, Logs, Ops, Ghosts, Budgets
  <2>3. ModeAtWork' /\ LogMode'
    BY <1>0, <2>0 DEF ModeAtWork, LogMode, Tells, Types, Dirs, Hands, Logs, Ops, Ghosts, Budgets
  <2>4. Current' /\ LineageHeld'
    BY <1>0, <2>0 DEF Current, LineageHeld, Lineage, Types, Dirs, Hands, Logs, Ops, Ghosts, Budgets
  <2>5. SeenUntilChanged'
    BY <1>0, <2>0 DEF SeenUntilChanged, OverwritesOnlyWhatItSaw, Types, Dirs, Hands, Logs, Ops, Ghosts, Budgets
  <2> QED
    BY <2>1, <2>2, <2>3, <2>4, <2>5
<1> QED
  BY <1>1, <1>2

LEMMA FailedStep == IInv /\ failed_chmod => IInv'
<1> SUFFICES ASSUME IInv, failed_chmod PROVE IInv'
  OBVIOUS
<1> USE DEF IInv, At
<1>0. op.pc = "post_error" /\ UNCHANGED <<dir, wal, disk, budget>>
  BY DEF failed_chmod
<1>1. CASE Valid(op.pre)
  <2>0. /\ op' = [op EXCEPT !.pc = "record", !.outcome = "not_applied"] /\ g' = [g EXCEPT !.since = {}]
        /\ held' = IF op.kind = "restore" THEN [held EXCEPT !.lineage = Lineage] ELSE held
    BY <1>1 DEF failed_chmod, Outcome, Seen
  <2>1. Types'
    <3>1. op' \in Ops
      BY Zenon, <2>0 DEF Types, Ops
    <3>2. held' \in Hands
      BY <2>0 DEF Types, Hands, Ops, Logs, Lineage
    <3>3. g' \in Ghosts
      BY <2>0 DEF Types, Ghosts
    <3> QED
      BY <1>0, <3>1, <3>2, <3>3 DEF Types
  <2>2. LogSound(wal)' /\ LogSound(disk)' /\ Intended'
    BY <1>0, <2>0 DEF LogSound, Intended, Types, Dirs, Hands, Logs, Ops, Ghosts, Budgets
  <2>3. ModeAtWork' /\ LogMode'
    BY <1>0, <1>1, <2>0, ValidUnchanged DEF ModeAtWork, LogMode, Tells, Types, Dirs, Hands, Logs, Ops, Ghosts, Budgets
  <2>4. Current'
    BY <1>0, <1>1, <2>0, ValidUnchanged DEF Current, Unchanged, Types, Dirs, Hands, Logs, Ops, Ghosts, Budgets
  <2>5. LineageHeld'
    BY <1>0, <2>0 DEF LineageHeld, Lineage, Intended, Types, Dirs, Hands, Logs, Ops, Ghosts, Budgets
  <2>6. SeenUntilChanged'
    BY <1>0, <2>0 DEF SeenUntilChanged, OverwritesOnlyWhatItSaw, Types, Dirs, Hands, Logs, Ops, Ghosts, Budgets
  <2> QED
    BY <2>1, <2>2, <2>3, <2>4, <2>5, <2>6
<1>2. CASE ~Valid(op.pre)
  <2>0. /\ op' = [op EXCEPT !.pc = "record", !.outcome = "unknown"] /\ g' = g
        /\ held' = [held EXCEPT !.mode = held.mode, !.verified = FALSE, !.lineage = NoLineage]
    BY Zenon, <1>2 DEF failed_chmod, Outcome, invalidate_mode
  <2>1. Types'
    <3>1. op' \in Ops
      BY Zenon, <2>0 DEF Types, Ops
    <3>2. held' \in Hands
      BY <2>0 DEF Types, Hands, Dirs
    <3> QED
      BY <1>0, <2>0, <3>1, <3>2 DEF Types
  <2>2. LogSound(wal)' /\ LogSound(disk)' /\ Intended'
    BY <1>0, <2>0 DEF LogSound, Intended, Types, Dirs, Hands, Logs, Ops, Ghosts, Budgets
  <2>3. ModeAtWork' /\ LogMode'
    BY <1>0, <2>0 DEF ModeAtWork, LogMode, Tells, Types, Dirs, Hands, Logs, Ops, Ghosts, Budgets
  <2>4. Current' /\ LineageHeld'
    BY <1>0, <2>0 DEF Current, LineageHeld, Lineage, Types, Dirs, Hands, Logs, Ops, Ghosts, Budgets
  <2>5. SeenUntilChanged'
    BY <1>0, <2>0 DEF SeenUntilChanged, OverwritesOnlyWhatItSaw, Types, Dirs, Hands, Logs, Ops, Ghosts, Budgets
  <2> QED
    BY <2>1, <2>2, <2>3, <2>4, <2>5
<1> QED
  BY <1>1, <1>2

(* What comes to the disk with a frame of the same file system.            *)
LEMMA LandedDir ==
  ASSUME dir \in Dirs, NEW log
  PROVE  /\ Landed(log) \in Dirs
         /\ \A f \in {"mode", "acl", "mounts", "foreign_owner", "same_filesystem"} : Landed(log)[f] = dir[f]
         /\ Landed(log).durable \subseteq dir.durable
         /\ log # disk /\ dir.same_filesystem => Landed(log).durable = {}
<1>1. CASE log # disk /\ dir.same_filesystem
  BY <1>1 DEF Landed, Dirs
<1>2. CASE ~(log # disk /\ dir.same_filesystem)
  BY <1>2 DEF Landed, Dirs
<1> QED
  BY <1>1, <1>2

(* A frame that is sound and tells the mode may be in hand and come to the *)
(* disk, the one in hand too.                                              *)
LEMMA FrameWritten ==
  ASSUME IInv, NEW frame \in Logs, LogSound(frame),
         dir.same_filesystem /\ ~g.meddled => Tells(frame, dir.mode),
         wal' \in {wal, frame}, disk' \in {disk, wal, frame}, dir' = Landed(disk'),
         \A f \in {"original", "since", "meddled", "window", "overwrote"} : g'[f] = g[f]
  PROVE  /\ dir' \in Dirs /\ wal' \in Logs /\ disk' \in Logs
         /\ \A f \in {"mode", "acl", "mounts", "foreign_owner", "same_filesystem"} : dir'[f] = dir[f]
         /\ LogSound(wal)' /\ LogSound(disk)' /\ LogMode'
<1> USE DEF IInv
<1>1. /\ dir' \in Dirs
      /\ \A f \in {"mode", "acl", "mounts", "foreign_owner", "same_filesystem"} : dir'[f] = dir[f]
      /\ dir'.durable \subseteq dir.durable
      /\ disk' # disk /\ dir.same_filesystem => dir'.durable = {}
  BY LandedDir DEF Types
<1>2. wal' \in Logs /\ disk' \in Logs /\ LogSound(wal)' /\ LogSound(disk)'
  BY DEF Types, LogSound
<1>3. LogMode'
  <2> SUFFICES ASSUME dir.same_filesystem, ~g.meddled
               PROVE  Tells(wal, dir.mode)' /\ \A mode \in (dir.durable \cup {dir.mode})' : Tells(disk, mode)'
    BY <1>1 DEF LogMode
  <2>1. Tells(wal, dir.mode) /\ Tells(disk, dir.mode) /\ Tells(frame, dir.mode)
    BY DEF LogMode
  <2>3. Tells(wal, dir.mode)'
    BY <1>1, <2>1 DEF Tells
  <2>4. Tells(disk, dir.mode)'
    BY <1>1, <2>1 DEF Tells
  <2>5. ASSUME NEW mode \in dir'.durable PROVE Tells(disk, mode)'
    <3>1. disk' = disk /\ mode \in dir.durable
      BY <1>1, <2>5
    <3>2. Tells(disk, mode)
      BY <3>1 DEF LogMode
    <3> QED
      BY <3>1, <3>2 DEF Tells
  <2> QED
    BY <2>3, <2>4, <2>5
<1> QED
  BY <1>1, <1>2, <1>3

(* A failed append ends the mutation and leaves any of the three logs.     *)
LEMMA FailedAppend ==
  ASSUME IInv, NEW frame \in Logs, LogSound(frame),
         dir.same_filesystem /\ ~g.meddled => Tells(frame, dir.mode),
         op.pc \in {"idle", "intent", "record"},
         budget.faults > 0, budget' = [budget EXCEPT !.faults = budget.faults - 1],
         wal' = wal, disk' \in {disk, wal, frame}, dir' = Landed(disk'),
         g' = [g EXCEPT !.broken = TRUE], op' = NoOp,
         IF At("record") THEN invalidate_mode(held.mode) ELSE UNCHANGED held
  PROVE  IInv'
<1> USE DEF IInv, At
<1>1. g' \in Ghosts /\ \A f \in {"original", "since", "meddled", "window", "overwrote"} : g'[f] = g[f]
  BY Zenon DEF Types, Ghosts
<1>2. /\ dir' \in Dirs /\ wal' \in Logs /\ disk' \in Logs
      /\ \A f \in {"mode", "acl", "mounts", "foreign_owner", "same_filesystem"} : dir'[f] = dir[f]
      /\ LogSound(wal)' /\ LogSound(disk)' /\ LogMode'
  BY <1>1, FrameWritten
<1>3. op' \in Ops /\ op'.pc = "idle"
  BY DEF NoOp, Ops, Modes
<1>4. budget' \in Budgets
  BY DEF Types, Budgets
<1>5. /\ held' \in Hands
      /\ op.pc = "record" => ~held'.verified /\ held'.lineage = NoLineage
      /\ op.pc # "record" => held' = held
  BY ZenonT(60) DEF invalidate_mode, Nothing, Types, Hands
<1>6. Types' /\ Intended' /\ ModeAtWork'
  BY <1>1, <1>2, <1>3, <1>4, <1>5 DEF Types, Intended, ModeAtWork
<1>7. Current'
  BY <1>1, <1>2, <1>3, <1>5 DEF Current, Unchanged
<1>8. LineageHeld'
  BY <1>3, <1>5 DEF LineageHeld, Lineage
<1>9. SeenUntilChanged'
  BY <1>1, <1>3 DEF SeenUntilChanged, OverwritesOnlyWhatItSaw
<1> QED
  BY <1>2, <1>6, <1>7, <1>8, <1>9

(* An append that succeeds, and what is left to show of it.                *)
LEMMA Appended ==
  ASSUME IInv, NEW frame \in Logs, LogSound(frame),
         dir.same_filesystem /\ ~g.meddled => Tells(frame, dir.mode),
         wal' = frame, disk' \in {disk, frame}, dir' = Landed(disk'), UNCHANGED <<g, budget>>,
         op' \in Ops, held' \in Hands, op'.pc # "chmod", Intended', ModeAtWork', LineageHeld',
         op'.pc \in {"intent", "inspect", "post", "post_error"} => held'.mode = op'.pre,
         held'.foreign = held.foreign, op'.pc # "idle" => op.pc # "idle",
         op'.pc \in {"idle", "intent", "record"} =>
             /\ op.pc \in {"idle", "intent", "record"}
             /\ held'.live = held.live /\ held'.verified = held.verified /\ held'.mode = held.mode
  PROVE  IInv'
<1> USE DEF IInv, At
<1>1. /\ dir' \in Dirs /\ wal' \in Logs /\ disk' \in Logs
      /\ \A f \in {"mode", "acl", "mounts", "foreign_owner", "same_filesystem"} : dir'[f] = dir[f]
      /\ LogSound(wal)' /\ LogSound(disk)' /\ LogMode'
  BY FrameWritten
<1>2. Types'
  BY <1>1 DEF Types
<1>3. Current'
  BY <1>1 DEF Current, Unchanged
<1>4. SeenUntilChanged'
  BY DEF SeenUntilChanged, OverwritesOnlyWhatItSaw
<1> QED
  BY <1>1, <1>2, <1>3, <1>4

LEMMA IntentStep == IInv /\ write_intent => IInv'
<1> SUFFICES ASSUME IInv, write_intent PROVE IInv'
  OBVIOUS
<1> DEFINE frame == IF op.kind = "seal" THEN [wal EXCEPT !.seal = "intended", !.pre = op.pre, !.expected = op.target]
                    ELSE [wal EXCEPT !.restore = "intended"]
<1>0. op.pc = "intent" /\ op.kind \in {"seal", "restore"}
  BY DEF write_intent, At, IInv, Intended
<1>1. /\ frame \in Logs
      /\ op.kind = "seal" => /\ frame.seal = "intended" /\ frame.restore = wal.restore
                             /\ frame.pre = op.pre /\ frame.expected = op.target
      /\ op.kind = "restore" => /\ frame.restore = "intended" /\ frame.seal = wal.seal
                                /\ frame.pre = wal.pre /\ frame.expected = wal.expected
  BY Zenon, <1>0 DEF IInv, Types, Logs, Ops, Statuses
<1>2. LogSound(frame)
  BY <1>0, <1>1 DEF IInv, Intended, LogSound
<1>3. dir.same_filesystem /\ ~g.meddled => Tells(frame, dir.mode)
  <2> SUFFICES ASSUME dir.same_filesystem, ~g.meddled PROVE Tells(frame, dir.mode)
    OBVIOUS
  <2>1. Tells(wal, dir.mode) /\ dir.mode = op.pre
    BY <1>0 DEF IInv, LogMode, ModeAtWork
  <2> HIDE DEF frame
  <2> QED
    BY <1>0, <1>1, <2>1 DEF IInv, Intended, LogSound, Tells
<1> HIDE DEF frame
<1>4. Append_(frame, TRUE, Go("inspect") /\ UNCHANGED held)
  BY Zenon DEF write_intent, frame
<1>5. CASE /\ wal' = frame /\ disk' = frame /\ dir' = Landed(disk')
           /\ op' = [op EXCEPT !.pc = "inspect"] /\ UNCHANGED <<held, g, budget>>
  <2>1. op' \in Ops /\ op'.pc = "inspect" /\ \A f \in {"kind", "pre", "target", "outcome"} : op'[f] = op[f]
    BY <1>5 DEF IInv, Types, Ops
  <2>2. dir'.mode = dir.mode
    BY <1>5, LandedDir DEF IInv, Types
  <2>3. Intended'
    BY <1>0, <1>1, <1>5, <2>1 DEF IInv, Intended
  <2>4. ModeAtWork'
    BY <1>0, <1>5, <2>1, <2>2 DEF IInv, ModeAtWork
  <2>5. LineageHeld'
    BY <1>0, <1>1, <1>5, <2>1 DEF IInv, LineageHeld, Lineage
  <2>6. held'.mode = op'.pre /\ held' \in Hands
    BY <1>0, <1>5, <2>1 DEF IInv, Current, Types
  <2> QED
    BY <1>0, <1>1, <1>2, <1>3, <1>5, <2>1, <2>3, <2>4, <2>5, <2>6, Appended
<1>6. CASE /\ budget.faults > 0 /\ budget' = [budget EXCEPT !.faults = budget.faults - 1]
           /\ disk' \in {disk, wal, frame} /\ dir' = Landed(disk') /\ g' = [g EXCEPT !.broken = TRUE]
           /\ op' = NoOp /\ (IF At("record") THEN invalidate_mode(held.mode) ELSE UNCHANGED held) /\ wal' = wal
  BY <1>0, <1>1, <1>2, <1>3, <1>6, FailedAppend
<1> QED
  BY <1>4, <1>5, <1>6 DEF Append_, Go

LEMMA RecordStep == IInv /\ execute_local_mode_mutation_inner => IInv'
<1> SUFFICES ASSUME IInv, execute_local_mode_mutation_inner PROVE IInv'
  OBVIOUS
<1>0. /\ op.pc = "record" /\ op.kind \in {"seal", "restore"}
      /\ op.outcome \in {"applied", "refused", "not_applied", "unverified", "unknown"}
  BY DEF execute_local_mode_mutation_inner, At, IInv, Intended, Types, Ops
<1>1. CASE op.outcome = "applied"
  <2> DEFINE frame == Recorded("applied")
  <2>1. /\ frame \in Logs /\ frame.pre = wal.pre /\ frame.expected = wal.expected
        /\ op.kind = "seal" => frame.seal = "applied" /\ frame.restore = wal.restore
        /\ op.kind = "restore" => frame.restore = "applied" /\ frame.seal = wal.seal
    BY <1>0 DEF Recorded, IInv, Types, Logs, Statuses
  <2>2. LogSound(frame)
    BY <1>0, <2>1 DEF IInv, Intended, LogSound
  <2>3. dir.same_filesystem /\ ~g.meddled => Tells(frame, dir.mode)
    <3> SUFFICES ASSUME dir.same_filesystem, ~g.meddled PROVE Tells(frame, dir.mode)
      OBVIOUS
    <3>1. Tells(wal, dir.mode)
      BY DEF IInv, LogMode
    <3> HIDE DEF frame
    <3> QED
      BY <1>0, <1>1, <2>1, <3>1 DEF IInv, Intended, ModeAtWork, LogSound, Tells
  <2> HIDE DEF frame
  <2>4. Append_(frame, ~op.later, record_applied)
    BY <1>0, <1>1 DEF execute_local_mode_mutation_inner, frame
  <2>5. CASE /\ wal' = frame /\ disk' \in {disk, frame} /\ dir' = Landed(disk') /\ op' = NoOp
             /\ held' = IF op.kind = "seal" THEN [held EXCEPT !.lineage = <<op.pre, op.target>>] ELSE held
             /\ UNCHANGED <<g, budget>>
    <3>1. op' \in Ops /\ op'.pc = "idle"
      BY <2>5 DEF NoOp, Ops, Modes
    <3>2. /\ held' \in Hands /\ held'.live = held.live /\ held'.verified = held.verified /\ held'.mode = held.mode
          /\ held'.foreign = held.foreign /\ held'.lineage = IF op.kind = "seal" THEN <<op.pre, op.target>> ELSE held.lineage
      BY <2>5 DEF IInv, Types, Hands, Ops
    <3>3. Intended' /\ ModeAtWork'
      BY <3>1 DEF Intended, ModeAtWork
    <3>4. LineageHeld'
      BY <1>0, <1>1, <2>1, <2>5, <3>1, <3>2 DEF IInv, Intended, LogSound, LineageHeld, Lineage
    <3> QED
      BY <1>0, <2>1, <2>2, <2>3, <2>5, <3>1, <3>2, <3>3, <3>4, Appended
  <2>6. CASE /\ budget.faults > 0 /\ budget' = [budget EXCEPT !.faults = budget.faults - 1]
             /\ disk' \in {disk, wal, frame} /\ dir' = Landed(disk') /\ g' = [g EXCEPT !.broken = TRUE]
             /\ op' = NoOp /\ (IF At("record") THEN invalidate_mode(held.mode) ELSE UNCHANGED held) /\ wal' = wal
    BY <1>0, <2>1, <2>2, <2>3, <2>6, FailedAppend
  <2> QED
    BY <2>4, <2>5, <2>6 DEF Append_, record_applied
<1>2. CASE op.outcome \in {"refused", "not_applied"}
  <2> DEFINE frame == Recorded("not_applied")
  <2>1. /\ frame \in Logs /\ frame.pre = wal.pre /\ frame.expected = wal.expected
        /\ op.kind = "seal" => frame.seal = "not_applied" /\ frame.restore = wal.restore
        /\ op.kind = "restore" => frame.restore = "not_applied" /\ frame.seal = wal.seal
    BY <1>0 DEF Recorded, IInv, Types, Logs, Statuses
  <2>2. LogSound(frame)
    BY <1>0, <2>1 DEF IInv, Intended, LogSound
  <2>3. dir.same_filesystem /\ ~g.meddled => Tells(frame, dir.mode)
    <3> SUFFICES ASSUME dir.same_filesystem, ~g.meddled PROVE Tells(frame, dir.mode)
      OBVIOUS
    <3>1. Tells(wal, dir.mode)
      BY DEF IInv, LogMode
    <3> HIDE DEF frame
    <3> QED
      BY <1>0, <1>2, <2>1, <3>1 DEF IInv, Intended, ModeAtWork, LogSound, Tells
  <2> HIDE DEF frame
  <2>4. Append_(frame, TRUE, op' = NoOp /\ UNCHANGED held)
    BY Zenon, <1>0, <1>2 DEF execute_local_mode_mutation_inner, frame
  <2>5. CASE /\ wal' = frame /\ disk' \in {disk, frame} /\ dir' = Landed(disk') /\ op' = NoOp
             /\ held' = held
             /\ UNCHANGED <<g, budget>>
    <3>1. op' \in Ops /\ op'.pc = "idle"
      BY <2>5 DEF NoOp, Ops, Modes
    <3>2. /\ held' \in Hands /\ held'.live = held.live /\ held'.verified = held.verified /\ held'.mode = held.mode
          /\ held'.foreign = held.foreign /\ held'.lineage = held.lineage
      BY <2>5 DEF IInv, Types, Hands, Ops
    <3>3. Intended' /\ ModeAtWork'
      BY <3>1 DEF Intended, ModeAtWork
    <3>4. LineageHeld'
      BY <1>0, <1>2, <2>1, <2>5, <3>1, <3>2 DEF IInv, Intended, LineageHeld, Lineage
    <3> QED
      BY <1>0, <2>1, <2>2, <2>3, <2>5, <3>1, <3>2, <3>3, <3>4, Appended
  <2>6. CASE /\ budget.faults > 0 /\ budget' = [budget EXCEPT !.faults = budget.faults - 1]
             /\ disk' \in {disk, wal, frame} /\ dir' = Landed(disk') /\ g' = [g EXCEPT !.broken = TRUE]
             /\ op' = NoOp /\ (IF At("record") THEN invalidate_mode(held.mode) ELSE UNCHANGED held) /\ wal' = wal
    BY <1>0, <2>1, <2>2, <2>3, <2>6, FailedAppend
  <2> QED
    BY <2>4, <2>5, <2>6 DEF Append_
<1>3. CASE op.outcome \in {"unverified", "unknown"}
  <2> DEFINE frame == [wal EXCEPT !.blocked = TRUE]
  <2>1. frame \in Logs /\ (\A f \in {"seal", "restore", "pre", "expected"} : frame[f] = wal[f])
    BY Zenon, <1>0 DEF Recorded, IInv, Types, Logs, Statuses
  <2>2. LogSound(frame)
    BY <1>0, <2>1 DEF IInv, Intended, LogSound
  <2>3. dir.same_filesystem /\ ~g.meddled => Tells(frame, dir.mode)
    <3> SUFFICES ASSUME dir.same_filesystem, ~g.meddled PROVE Tells(frame, dir.mode)
      OBVIOUS
    <3>1. Tells(wal, dir.mode)
      BY DEF IInv, LogMode
    <3> HIDE DEF frame
    <3> QED
      BY <1>0, <1>3, <2>1, <3>1 DEF IInv, Intended, ModeAtWork, LogSound, Tells
  <2> HIDE DEF frame
  <2>4. Append_(frame, TRUE, op' = NoOp /\ UNCHANGED held)
    BY ZenonT(60), <1>0, <1>3 DEF execute_local_mode_mutation_inner, frame
  <2>5. CASE /\ wal' = frame /\ disk' \in {disk, frame} /\ dir' = Landed(disk') /\ op' = NoOp
             /\ held' = held
             /\ UNCHANGED <<g, budget>>
    <3>1. op' \in Ops /\ op'.pc = "idle"
      BY <2>5 DEF NoOp, Ops, Modes
    <3>2. /\ held' \in Hands /\ held'.live = held.live /\ held'.verified = held.verified /\ held'.mode = held.mode
          /\ held'.foreign = held.foreign /\ held'.lineage = held.lineage
      BY <2>5 DEF IInv, Types, Hands, Ops
    <3>3. Intended' /\ ModeAtWork'
      BY <3>1 DEF Intended, ModeAtWork
    <3>4. LineageHeld'
      BY <1>0, <1>3, <2>1, <2>5, <3>1, <3>2 DEF IInv, Intended, LineageHeld, Lineage
    <3> QED
      BY <1>0, <2>1, <2>2, <2>3, <2>5, <3>1, <3>2, <3>3, <3>4, Appended
  <2>6. CASE /\ budget.faults > 0 /\ budget' = [budget EXCEPT !.faults = budget.faults - 1]
             /\ disk' \in {disk, wal, frame} /\ dir' = Landed(disk') /\ g' = [g EXCEPT !.broken = TRUE]
             /\ op' = NoOp /\ (IF At("record") THEN invalidate_mode(held.mode) ELSE UNCHANGED held) /\ wal' = wal
    BY <1>0, <2>1, <2>2, <2>3, <2>6, FailedAppend
  <2> QED
    BY <2>4, <2>5, <2>6 DEF Append_
<1> QED
  BY <1>0, <1>1, <1>2, <1>3

(* Recovery records what the mode shows.                                   *)
LEMMA ResolveStep == IInv /\ resolve_rebound_permission => IInv'
<1> SUFFICES ASSUME IInv, resolve_rebound_permission PROVE IInv'
  OBVIOUS
<1>0. op.pc = "idle" /\ Undecided /\ dir.mode \in {Expected, Before}
  BY DEF resolve_rebound_permission, At
<1> DEFINE status == IF dir.mode = Expected THEN "applied" ELSE "not_applied"
           frame == Resolved(dir.mode = Expected)
<1>1. /\ frame \in Logs /\ frame.pre = wal.pre /\ frame.expected = wal.expected
      /\ wal.restore = "intended" => frame.restore = status /\ frame.seal = wal.seal
      /\ wal.restore # "intended" => frame.seal = status /\ frame.restore = wal.restore
  BY DEF Resolved, IInv, Types, Logs, Statuses
<1>2. LogSound(frame)
  BY <1>0, <1>1 DEF IInv, LogSound, Undecided
<1>3. dir.same_filesystem /\ ~g.meddled => Tells(frame, dir.mode)
  <2> SUFFICES ASSUME dir.same_filesystem, ~g.meddled PROVE Tells(frame, dir.mode)
    OBVIOUS
  <2>1. Tells(wal, dir.mode)
    BY DEF IInv, LogMode
  <2> HIDE DEF frame
  <2> QED
    BY <1>0, <1>1, <2>1 DEF IInv, LogSound, Tells, Undecided, Expected, Before
<1>4. held.lineage = NoLineage
  BY <1>0 DEF IInv, LineageHeld, Undecided
<1> HIDE DEF frame
<1>5. Append_(frame, TRUE, UNCHANGED <<op, held>>)
  BY Zenon DEF resolve_rebound_permission, frame
<1>6. CASE wal' = frame /\ disk' = frame /\ dir' = Landed(disk') /\ UNCHANGED <<op, held, g, budget>>
  <2>1. op' \in Ops /\ held' \in Hands /\ op'.pc = "idle" /\ Intended' /\ ModeAtWork' /\ LineageHeld'
    BY Zenon, <1>0, <1>4, <1>6 DEF IInv, Types, Intended, ModeAtWork, LineageHeld
  <2> QED
    BY <1>0, <1>1, <1>2, <1>3, <1>6, <2>1, Appended
<1>7. CASE /\ budget.faults > 0 /\ budget' = [budget EXCEPT !.faults = budget.faults - 1]
             /\ disk' \in {disk, wal, frame} /\ dir' = Landed(disk') /\ g' = [g EXCEPT !.broken = TRUE]
             /\ op' = NoOp /\ (IF At("record") THEN invalidate_mode(held.mode) ELSE UNCHANGED held) /\ wal' = wal
  BY <1>0, <1>1, <1>2, <1>3, <1>7, FailedAppend
<1> QED
  BY <1>5, <1>6, <1>7 DEF Append_

LEMMA NextInv == IInv /\ [Next]_vars => IInv'
<1> SUFFICES ASSUME IInv, [Next]_vars PROVE IInv'
  OBVIOUS
<1>1. CASE UNCHANGED vars
  <2>0. UNCHANGED vars
    BY <1>1
  <2>1. Types' /\ LogSound(wal)' /\ LogSound(disk)'
    BY <2>0 DEF vars, IInv, Types, LogSound
  <2>2. Intended' /\ ModeAtWork'
    BY <2>0 DEF vars, IInv, Intended, ModeAtWork, At
  <2>3. LogMode' /\ Current'
    BY <2>0 DEF vars, IInv, LogMode, Tells, Current, Unchanged, At
  <2>4. LineageHeld' /\ SeenUntilChanged'
    BY <2>0 DEF vars, IInv, LineageHeld, Lineage, SeenUntilChanged, OverwritesOnlyWhatItSaw, At
  <2> QED
    BY <2>1, <2>2, <2>3, <2>4 DEF IInv
<1>2. CASE Next
  BY <1>2, CertifyStep, PrepareSealStep, PrepareRestoreStep, BindStep, IntentStep, ApplyStep, FchmodStep, FinishStep,
     FailedStep, RecordStep, ResolveStep, DropStep, ChmodStep, AclStep, RemountStep, OwnerStep, KilledStep,
     PowerCutStep DEF Next
<1> QED
  BY <1>1, <1>2

THEOREM Invariance == Spec => []IInv
  BY InitInv, NextInv, PTL DEF Spec

-----------------------------------------------------------------------------

(* Every variable stays in its set, and the log undoes only what it        *)
(* applied.                                                                *)
THEOREM TypeCorrect == Spec => []TypeOK
<1>1. IInv => TypeOK
  BY DEF IInv, Types, LogSound, TypeOK, Dirs, Hands, Ops, Modes
<1> QED
  BY Invariance, <1>1, PTL

(* degu never replaces a mode it did not just see, outside the moment      *)
(* between apply_wal_bound_mode_change's last look and its fchmod.         *)
THEOREM OverwritesOnlySeen == Spec => []OverwritesOnlyWhatItSaw
<1>1. IInv => OverwritesOnlyWhatItSaw
  BY DEF IInv, SeenUntilChanged
<1> QED
  BY Invariance, <1>1, PTL

(* While no other program chmods and log and directory share a file        *)
(* system, the log in hand tells the mode there is and the log on the disk *)
(* every mode a loss of power may leave, at each step of                   *)
(* execute_local_mode_mutation_inner and of its recovery.                  *)
THEOREM LogTells == Spec => []LogTellsTheMode
<1>1. ASSUME NEW log \in Logs, LogSound(log), NEW mode, Tells(log, mode)
      PROVE  mode \in Told(log)
  <2>1. CASE log.seal \in {"none", "not_applied"}
    BY <1>1, <2>1 DEF Told, Tells, LogSound
  <2>2. CASE log.seal = "intended"
    BY <1>1, <2>2 DEF Told, Tells, LogSound
  <2>3. CASE log.seal = "applied"
    BY <1>1, <2>3 DEF Told, Tells, Logs, Statuses
  <2> QED
    BY <2>1, <2>2, <2>3 DEF Logs, Statuses
<1>2. IInv => LogTellsTheMode
  BY <1>1 DEF IInv, Types, LogMode, LogTellsTheMode
<1> QED
  BY Invariance, <1>2, PTL

(* Between the seal and its undoing no one but the owner can write into    *)
(* the directory, whatever call fails and wherever the process dies        *)
(* (crate_minimal_sealed_mode).                                            *)
THEOREM WritersKeptOut == Spec => []SealKeepsWritersOut
<1>1. IInv => SealKeepsWritersOut
  BY DEF IInv, LogMode, Tells, LogSound, Sealed, SealKeepsWritersOut
<1> QED
  BY Invariance, <1>1, PTL

(* A lineage in hand, which alone allows a restore, is one the log has     *)
(* applied and not undone.                                                 *)
THEOREM LineageLogged == Spec => []LineageIsLogged
<1>1. IInv => LineageIsLogged
  BY DEF IInv, LineageHeld, LineageIsLogged, At
<1> QED
  BY Invariance, <1>1, PTL

(* Of the lines of a table exactly one is the directory's mount, and it    *)
(* says ext4.                                                              *)
LEMMA OneMount ==
  ASSUME NEW table \in MountTables, certify_linux_mount(table)
  PROVE  /\ Cardinality({i \in DOMAIN table : table[i].id = 1}) = 1
         /\ \A i \in DOMAIN table : table[i].id # 0 /\ (table[i].id = 1 => table[i].type = "ext4")
<1> DEFINE mine == {i \in DOMAIN table : table[i].id = 1}
<1>1. Cardinality(mine) = 1 /\ \A i \in DOMAIN table : ~Malformed(table[i])
  BY DEF certify_linux_mount, parse_linux_mountinfo
<1>2. table[CHOOSE i \in mine : TRUE].type = "ext4"
  BY <1>1 DEF certify_linux_mount, parse_linux_mountinfo
<1>3. IsFiniteSet(mine)
  <2>1. PICK n \in Nat : DOMAIN table = 1 .. n
    <3>1. (\E a : table = <<a>>) \/ (\E a, b : table = <<a, b>>)
      BY Zenon DEF MountTables
    <3>2. \A a, b : DOMAIN <<a>> = 1 .. 1 /\ DOMAIN <<a, b>> = 1 .. 2
      OBVIOUS
    <3>3. 1 \in Nat /\ 2 \in Nat
      OBVIOUS
    <3> QED
      BY Zenon, <3>1, <3>2, <3>3
  <2> QED
    BY <2>1, FS_Interval, FS_Subset
<1>4. PICK only : mine = {only}
  BY Zenon, <1>1, <1>3, FS_Singleton
<1>5. (CHOOSE i \in mine : TRUE) = only
  BY <1>4
<1> QED
  BY <1>1, <1>2, <1>4, <1>5 DEF Malformed

(* Verified evidence speaks of the directory as it is, up to what another  *)
(* program changed since the last look: mode, mount, access list, owner.   *)
THEOREM EvidenceCurrent == Spec => []EvidenceIsCurrent
<1>1. ASSUME NEW acl, combine_acl_probes(acl) = "absent", acl \in AclProbes \X AclProbes
      PROVE  \A i \in 1 .. 2 : acl[i] = "absent"
  BY <1>1 DEF combine_acl_probes, AclProbes
<1>2. IInv => EvidenceIsCurrent
  BY <1>1, OneMount DEF IInv, Types, Dirs, Current, Unchanged, EvidenceIsCurrent, At
<1> QED
  BY Invariance, <1>2, PTL
=============================================================================
