---------------------------- MODULE SealWalStore ----------------------------
(***************************************************************************)
(* The directory that holds the WAL (seal/store.rs): how it is published,  *)
(* how a process leases the WAL in it, and how a lease rewrites the WAL    *)
(* without the transactions nobody needs any more.  Several processes run  *)
(* at once and any of them, or the power, may stop between two steps.      *)
(*                                                                         *)
(* A frame is the transaction it belongs to and whether that transaction   *)
(* is done with (compaction_drops_state); every frame is one unit long.    *)
(* Every lock is flock without waiting: Busy is an error to the caller.    *)
(***************************************************************************)
EXTENDS Naturals, Sequences, FiniteSets, FiniteSetsExt, Functions

CONSTANTS
  Processes,
  Tx,                               \* transaction ids, each used once
  Group,                            \* reclamation group of a transaction, or None
  None,
  MAX_WAL_LEN,
  COMPACTION_PRESSURE_LEN,
  COMPACTION_MIN_RECLAIMED_BYTES,
  COMPACTION_MIN_RECLAIMED_SHARE,
  MaxFaults                         \* bound: short writes, failed steps, losses of power

StoreAssumption ==
  /\ None \notin Processes /\ None # "live"
  /\ DOMAIN Group = Tx
  /\ COMPACTION_PRESSURE_LEN \in 1..MAX_WAL_LEN

VARIABLES
  inodes,      \* the files: frames, how many of them are synced, the flock on it
  dir,         \* the store directory: inodes of the WAL and of the compaction entry
  synced_dir,  \* what a loss of power leaves of it
  published,   \* "no", "yes" (renamed into place) or "synced"
  parent_lock, \* flock on the directory's parent
  dir_lock,    \* flock on the directory
  procs,       \* where each process is, the WAL it holds, the group it stages
  acked,       \* Tx -> the state an append or a replay last said is durable
  faults       \* how many faults there were

store == <<inodes, dir, synced_dir, published>>
locks == <<parent_lock, dir_lock>>
vars == <<store, locks, procs, acked, faults>>

Live == "live"
Done == "done"
Torn == [tx |-> None, state |-> None]     \* a frame cut off by a short write
Frames == [tx : Tx, state : {Live, Done}]
Inodes == 1..Len(inodes)
NoLease == [pc |-> "closed", fd |-> None, group |-> None]

\* Replay::transactions: the state of every transaction that has a frame.
Transactions(frames) == {f.tx : f \in Range(frames)}
StateOf(frames, t) == frames[Max({i \in DOMAIN frames : frames[i].tx = t})].state
replay_records(frames) == [t \in Transactions(frames) |-> StateOf(frames, t)]

\* Mutant: the rest of the group is not asked.
mutant_compaction_dropped_transactions(replay) ==
  {t \in DOMAIN replay : replay[t] = Done}

\* Terminal transactions of which no member of the same group is unfinished.
compaction_dropped_transactions(replay) ==
  LET unfinished == {Group[t] : t \in {u \in DOMAIN replay : replay[u] # Done}} \ {None}
  IN  {t \in DOMAIN replay : replay[t] = Done /\ Group[t] \notin unfinished}

ShareRule(reclaimed, committed) ==
  /\ reclaimed >= COMPACTION_MIN_RECLAIMED_BYTES
  /\ reclaimed * COMPACTION_MIN_RECLAIMED_SHARE >= committed

compaction_is_worthwhile(reclaimed, committed) ==
  IF committed >= COMPACTION_PRESSURE_LEN
  THEN reclaimed > 0
  ELSE ShareRule(reclaimed, committed)

compaction_surviving_bytes(frames, dropped) ==
  SelectSeq(frames, LAMBDA f : f.tx \notin dropped)

compaction_reclaim(frames, dropped) ==
  Len(frames) - Len(compaction_surviving_bytes(frames, dropped))

Dropped(frames) == compaction_dropped_transactions(replay_records(frames))

\* plan_compaction returns a plan.
WorthCompacting(frames) ==
  LET reclaimed == compaction_reclaim(frames, Dropped(frames))
  IN  reclaimed > 0 /\ compaction_is_worthwhile(reclaimed, Len(frames))
-----------------------------------------------------------------------------
Init ==
  /\ inodes = <<>>
  /\ dir = [wal |-> None, temp |-> None]
  /\ synced_dir = dir
  /\ published = "no"
  /\ parent_lock = None
  /\ dir_lock = None
  /\ procs = [p \in Processes |-> NoLease]
  /\ acked = [t \in Tx |-> None]
  /\ faults = 0

Fault == faults < MaxFaults /\ faults' = faults + 1

At(p, pc) == procs[p].pc = pc
Goto(p, pc) == procs' = [procs EXCEPT ![p].pc = pc]
File(p) == inodes[procs[p].fd]

NewInode(frames, owner) ==
  [frames |-> frames, synced |-> Len(frames), lock |-> owner]

SyncedFile(i) == [inodes EXCEPT ![i].synced = Len(inodes[i].frames)]

\* The process returns an error or dies: every descriptor it has is closed.
Unlocked(p, files) ==
  [i \in DOMAIN files |-> IF files[i].lock = p THEN [files[i] EXCEPT !.lock = None]
                                             ELSE files[i]]

Leave(p) ==
  /\ inodes' = Unlocked(p, inodes)
  /\ parent_lock' = IF parent_lock = p THEN None ELSE parent_lock
  /\ dir_lock' = IF dir_lock = p THEN None ELSE dir_lock
  /\ procs' = [procs EXCEPT ![p] = NoLease]

\* Mutant: the directory is not synced before the rename.
mutant_initialize_unpublished_store ==
  /\ inodes' = Append(inodes, NewInode(<<>>, None))
  /\ dir' = [wal |-> Len(inodes'), temp |-> None]
  /\ published' = "yes"
  /\ UNCHANGED synced_dir

\* initialize_unpublished_store: the WAL and its directory are synced under a
\* name of their own before the rename makes them the store.
initialize_unpublished_store ==
  /\ inodes' = Append(inodes, NewInode(<<>>, None))
  /\ dir' = [wal |-> Len(inodes'), temp |-> None]
  /\ synced_dir' = dir'
  /\ published' = "yes"

open_or_create(p) ==
  /\ At(p, "closed")
  /\ parent_lock = None
  /\ parent_lock' = p
  /\ IF published = "no" THEN initialize_unpublished_store ELSE UNCHANGED store
  /\ Goto(p, "opening")
  /\ UNCHANGED <<dir_lock, acked, faults>>

\* The rest of open_with_sync: every open repeats the whole chain of syncs.
open_with_sync(p) ==
  /\ At(p, "opening")
  /\ inodes' = SyncedFile(dir.wal)
  /\ synced_dir' = dir
  /\ published' = "synced"
  /\ parent_lock' = None
  /\ Goto(p, "open")
  /\ UNCHANGED <<dir, dir_lock, acked, faults>>
-----------------------------------------------------------------------------
\* try_lease, first half: the directory is locked and the WAL opened by name.
lock_directory(p) ==
  /\ At(p, "open")
  /\ dir_lock = None
  /\ dir_lock' = p
  /\ procs' = [procs EXCEPT ![p].pc = "leasing", ![p].fd = dir.wal]
  /\ UNCHANGED <<store, parent_lock, acked, faults>>

\* try_acquire on the open descriptor, or Busy.
acquire(p) ==
  /\ At(p, "leasing")
  /\ \/ /\ File(p).lock = None
        /\ inodes' = [inodes EXCEPT ![procs[p].fd].lock = p]
        /\ Goto(p, "locked")
        /\ UNCHANGED locks
     \/ /\ File(p).lock # None
        /\ Leave(p)
  /\ UNCHANGED <<dir, synced_dir, published, acked, faults>>

\* The locked descriptor is checked against the entry (a mismatch is an error:
\* stop), file and directory are synced, and the caller replays.
try_lease(p) ==
  /\ At(p, "locked")
  /\ dir.wal = procs[p].fd
  /\ inodes' = SyncedFile(dir.wal)
  /\ synced_dir' = dir
  /\ dir_lock' = None
  /\ Goto(p, "leased")
  /\ acked' = [t \in Tx |-> IF t \in Transactions(File(p).frames)
                            THEN StateOf(File(p).frames, t) ELSE acked[t]]
  /\ UNCHANGED <<dir, published, parent_lock, faults>>

\* No plan, or somebody else is at the directory: Compaction::NotAttempted.
skip_compaction(p) ==
  /\ At(p, "leased")
  /\ ~WorthCompacting(File(p).frames) \/ dir_lock # None
  /\ Goto(p, "writing")
  /\ UNCHANGED <<store, locks, acked, faults>>

\* Mutant: without the directory lock.
mutant_begin_compaction(p) ==
  /\ At(p, "leased")
  /\ WorthCompacting(File(p).frames)
  /\ dir.wal = procs[p].fd
  /\ Goto(p, "compacting")
  /\ UNCHANGED <<store, locks, acked, faults>>

\* compact_terminal_transactions up to the rewrite.
begin_compaction(p) ==
  /\ At(p, "leased")
  /\ WorthCompacting(File(p).frames)
  /\ dir_lock = None
  /\ dir.wal = procs[p].fd
  /\ dir_lock' = p
  /\ Goto(p, "compacting")
  /\ UNCHANGED <<store, parent_lock, acked, faults>>

\* open_fresh_compaction_entry and write_and_sync_compaction.  A short write
\* leaves complete frames and part of the next one.
write_and_sync_compaction(p) ==
  LET kept == compaction_surviving_bytes(File(p).frames, Dropped(File(p).frames))
      Written(frames) == /\ inodes' = Append(inodes, NewInode(frames, None))
                         /\ dir' = [dir EXCEPT !.temp = Len(inodes')]
  IN  /\ At(p, "compacting")
      /\ \/ Written(kept) /\ UNCHANGED faults
         \/ /\ Fault
            /\ \E n \in 0..(Len(kept) - 1) : Written(Append(SubSeq(kept, 1, n), Torn))
      /\ Goto(p, "written")
      /\ UNCHANGED <<synced_dir, published, locks, acked>>

\* What is read back is whole frames, and replays to what was to be kept.
compaction_entry_replays_to(frames, surviving) ==
  frames \in Seq(Frames) /\ replay_records(frames) = surviving

\* Mutant: the caller goes on with the lease it has.
mutant_swap_in_compacted_entry(p) ==
  /\ At(p, "written")
  /\ dir' = [wal |-> dir.temp, temp |-> None]
  /\ dir_lock' = None
  /\ Goto(p, "writing")
  /\ UNCHANGED <<inodes, synced_dir, published, parent_lock, acked, faults>>

\* swap_in_compacted_entry: what was written is read back before it replaces the
\* WAL; otherwise the entry is removed and the live WAL stays.
swap_in_compacted_entry(p) ==
  LET replay == replay_records(File(p).frames)
      surviving == [t \in DOMAIN replay \ compaction_dropped_transactions(replay)
                      |-> replay[t]]
  IN  /\ At(p, "written")
      /\ IF compaction_entry_replays_to(inodes[dir.temp].frames, surviving)
         THEN /\ dir' = [wal |-> dir.temp, temp |-> None]
              /\ Goto(p, "swapped")
              /\ UNCHANGED dir_lock
         ELSE /\ dir' = [dir EXCEPT !.temp = None]
              /\ dir_lock' = None
              /\ Goto(p, "writing")
      /\ UNCHANGED <<inodes, synced_dir, published, parent_lock, acked, faults>>

\* Mutant: the directory is not synced after the rename.
mutant_lease_compacted_entry(p) ==
  /\ At(p, "swapped")
  /\ inodes[dir.wal].lock = None
  /\ inodes' = [Unlocked(p, inodes) EXCEPT ![dir.wal].lock = p]
  /\ dir_lock' = None
  /\ procs' = [procs EXCEPT ![p].pc = "writing", ![p].fd = dir.wal]
  /\ UNCHANGED <<dir, synced_dir, published, parent_lock, acked, faults>>

\* lease_compacted_entry, and the old lease given up for the new one.
lease_compacted_entry(p) ==
  /\ At(p, "swapped")
  /\ inodes[dir.wal].lock = None
  /\ synced_dir' = dir
  /\ inodes' = [Unlocked(p, inodes) EXCEPT ![dir.wal].lock = p]
  /\ dir_lock' = None
  /\ procs' = [procs EXCEPT ![p].pc = "writing", ![p].fd = dir.wal]
  /\ UNCHANGED <<dir, published, parent_lock, acked, faults>>
-----------------------------------------------------------------------------
\* A reclamation id is drawn by one command, which stages the whole group under
\* its one lease.
MayBegin(p, t) ==
  /\ acked[t] = None
  /\ \/ Group[t] \in {None, procs[p].group}
     \/ procs[p].group = None /\ \A u \in Tx : Group[u] = Group[t] => acked[u] = None

\* A leased writer appends: a transaction begins, goes on, or is done with.
write_frame(p) ==
  /\ At(p, "writing")
  /\ Len(File(p).frames) < MAX_WAL_LEN
  /\ \E t \in Tx, s \in {Live, Done} :
       /\ \/ /\ t \in Transactions(File(p).frames)
             /\ StateOf(File(p).frames, t) = Live
             /\ Goto(p, "appended")
          \/ /\ t \notin Transactions(File(p).frames)
             /\ MayBegin(p, t)
             /\ s = Live
             /\ procs' = [procs EXCEPT ![p].pc = "appended",
                                      ![p].group = IF Group[t] = None THEN @ ELSE Group[t]]
       /\ inodes' = [inodes EXCEPT ![procs[p].fd].frames = Append(@, [tx |-> t, state |-> s])]
  /\ UNCHANGED <<dir, synced_dir, published, locks, acked, faults>>

\* append_at returns once the frame is synced.
sync_frame(p) ==
  LET f == File(p).frames[Len(File(p).frames)]
  IN  /\ At(p, "appended")
      /\ inodes' = SyncedFile(procs[p].fd)
      /\ acked' = [acked EXCEPT ![f.tx] = f.state]
      /\ Goto(p, "writing")
      /\ UNCHANGED <<dir, synced_dir, published, locks, faults>>

\* The lease is dropped when the command is done.
close(p) ==
  /\ At(p, "writing")
  /\ Leave(p)
  /\ UNCHANGED <<dir, synced_dir, published, acked, faults>>

\* A step returns an error, or the process is killed.
stop(p) ==
  /\ ~At(p, "closed")
  /\ Fault
  /\ Leave(p)
  /\ UNCHANGED <<dir, synced_dir, published, acked>>

\* What a loss of power leaves of a file and of the directory.
Survives(file) == {SubSeq(file.frames, 1, n) : n \in file.synced..Len(file.frames)}

power_loss ==
  /\ Fault
  /\ \E kept \in [Inodes -> UNION {Survives(inodes[i]) : i \in Inodes}] :
       /\ \A i \in Inodes : kept[i] \in Survives(inodes[i])
       /\ inodes' = [i \in Inodes |-> NewInode(kept[i], None)]
  /\ \/ published # "synced" /\ published' = "no"
                             /\ dir' = [wal |-> None, temp |-> None]
     \/ published' = published /\ dir' \in {dir, synced_dir}
  /\ synced_dir' = dir'
  /\ parent_lock' = None
  /\ dir_lock' = None
  /\ procs' = [p \in Processes |-> NoLease]
  /\ UNCHANGED acked

Step(p) ==
  \/ open_or_create(p) \/ open_with_sync(p)
  \/ lock_directory(p) \/ acquire(p) \/ try_lease(p)
  \/ skip_compaction(p) \/ begin_compaction(p) \/ write_and_sync_compaction(p)
  \/ swap_in_compacted_entry(p) \/ lease_compacted_entry(p)
  \/ sync_frame(p)

Next ==
  \/ \E p \in Processes : Step(p) \/ write_frame(p) \/ close(p) \/ stop(p)
  \/ power_loss

Spec == Init /\ [][Next]_vars

-----------------------------------------------------------------------------
(* Types; and whatever a loss of power leaves of a published directory names a WAL. *)
TypeOK ==
  /\ \A i \in Inodes : /\ inodes[i].frames \in Seq(Frames \cup {Torn})
                       /\ inodes[i].synced \in 0..Len(inodes[i].frames)
                       /\ inodes[i].lock \in Processes \cup {None}
  /\ {dir.wal, synced_dir.wal} \subseteq IF published = "no" THEN {None} ELSE Inodes
  /\ published \in {"no", "yes", "synced"}
  /\ {parent_lock, dir_lock} \subseteq Processes \cup {None}
  /\ \A p \in Processes : procs[p].fd = None \/ procs[p].fd \in Inodes
  /\ acked \in [Tx -> {Live, Done, None}]

Sessions == {p \in Processes : procs[p].pc \in
               {"leased", "compacting", "written", "swapped", "writing", "appended"}}

(* compact_terminal_transactions: "replacing the entry would let another
   participant lock the new one while this lease still holds the old,
   now-unlinked inode".  No two processes are ever past try_lease, whatever the
   one does to the entry the other opened. *)
OneSession == Cardinality(Sessions) <= 1

(* A writer never appends to a file the store's name no longer leads to: frames
   written there would be acknowledged and never replayed. *)
WriterHoldsTheLiveWal ==
  \A p \in Processes :
    procs[p].pc \in {"writing", "appended"} => /\ procs[p].fd = dir.wal
                                              /\ File(p).lock = p

\* Every directory and every file a loss of power may leave.
Remains ==
  UNION {Survives(inodes[d.wal]) : d \in {e \in {dir, synced_dir} : e.wal # None}}

(* Whatever the power leaves of the files and of the directory, at any step of
   publication, lease, append or rewrite: a transaction of which a frame was
   acknowledged is there, and no further back than acknowledged; only one that is
   done with may be gone. *)
AcknowledgedSurvives ==
  \A t \in {u \in Tx : acked[u] # None} :
    /\ published = "synced"
    /\ \A frames \in Remains :
         IF t \in Transactions(frames)
         THEN acked[t] = Done => StateOf(frames, t) = Done
         ELSE acked[t] = Done

(* compaction_dropped_transactions: "Dropping one member of a group that still
   has something to undo would turn that record into an unmapped one and block
   the siblings".  As long as one member of a group has something left, every
   acknowledged member is in the WAL, in whatever a loss of power leaves. *)
UndoMappingSurvives ==
  \A frames \in Remains : \A t, u \in Tx :
    (Group[t] # None /\ Group[t] = Group[u] /\ acked[t] = Live /\ acked[u] # None) =>
      u \in Transactions(frames)

\* The WAL refuses every append, and holds a transaction compaction may drop.
FullOfDone ==
  /\ published = "synced"
  /\ Len(inodes[dir.wal].frames) = MAX_WAL_LEN
  /\ Dropped(inodes[dir.wal].frames) # {}

HasRoom == published = "synced" /\ Len(inodes[dir.wal].frames) < MAX_WAL_LEN
=============================================================================
