------------------------- MODULE SealWalStoreProofs -------------------------
(***************************************************************************)
(* SealWalStore for any number of processes, transactions, groups, frames  *)
(* and failures: at most one process has the WAL, it writes to the file    *)
(* the store's name leads to, and neither a loss of power nor a compaction *)
(* takes away what was acknowledged or what an undo needs.                 *)
(*                                                                         *)
(* How compaction selects the frames it keeps is never used: what was      *)
(* written is replayed before it replaces the WAL, and that is enough.     *)
(***************************************************************************)
EXTENDS SealWalStoreLeases

LEMMA WriteCompactionStep ==
  ASSUME StoreAssumption, IInv, NEW p \in Processes, write_and_sync_compaction(p)
  PROVE  IInv'
<1> USE DEF Holding, AtDirectory, OnTheWal, CaughtUp, At
<1>0. /\ procs[p].pc = "compacting" /\ procs[p].fd = dir.wal /\ published = "synced"
      /\ UNCHANGED <<synced_dir, published, acked, dir_lock>> /\ Goto(p, "written")
      /\ \A d \in Wals : d \in Inodes
  BY DEF write_and_sync_compaction, locks, IInv, Locked, Named
<1>1. PICK frames : /\ inodes' = Append(inodes, NewInode(frames, None))
                    /\ dir' = [dir EXCEPT !.temp = Len(inodes')]
  BY DEF write_and_sync_compaction
<1> DEFINE new == NewInode(frames, None)
<1>2. IsFile(new) /\ new.synced = Len(new.frames)
  BY DEF IsFile, NewInode
<1>3. /\ inodes' \in Seq(Range(inodes')) /\ Len(inodes') = Len(inodes) + 1 /\ Len(inodes) \in Nat
      /\ inodes'[Len(inodes')] = new
      /\ \A i \in Inodes : inodes'[i] = inodes[i]
  <2> HIDE DEF new
  <2>1. inodes \in Seq(Range(inodes)) /\ inodes' = Append(inodes, new)
    BY <1>1 DEF IInv, Types, new
  <2> QED
    BY <2>1, OneMoreFile DEF Inodes
<1> HIDE DEF new
<1>4. Inodes' = Inodes \cup {Len(inodes')}
  BY <1>3 DEF Inodes
<1>5. /\ procs'[p].pc = "written" /\ procs'[p].group = procs[p].group /\ procs'[p].fd = procs[p].fd
      /\ \A q \in Processes \ {p} : procs'[q] = procs[q]
      /\ procs' \in [Processes -> Leases]
  BY ZenonT(60), <1>0 DEF Goto, IInv, Types, Leases, Pcs
<1>6. IsDir(dir') /\ dir'.wal = dir.wal /\ dir'.temp = Len(inodes')
  BY <1>1 DEF IsDir, IInv, Types
<1>7. \A q \in Processes \ {p} : procs[q].pc \notin Holding
  BY <1>0 DEF IInv, Locked
<1>8. Types'
  BY <1>0, <1>2, <1>3, <1>4, <1>5, <1>6 DEF IInv, Types
<1>9. Durable' /\ \A d \in Wals' : d \in Inodes' /\ IsWal(inodes'[d])
  <2>1. \A d \in Wals : /\ d \in Inodes' /\ inodes'[d].frames = inodes[d].frames
                        /\ inodes'[d].synced = inodes[d].synced
    BY <1>0, <1>3, <1>4
  <2>2. Wals' \subseteq Wals
    BY <1>0, <1>6 DEF Wals
  <2> QED
    BY <1>0, <2>1, <2>2, Rests
<1>10. Named'
  BY <1>0, <1>5, <1>9 DEF IInv, Named
<1>11. inodes'[dir'.wal] = inodes[dir.wal]
  BY <1>0, <1>3, <1>6 DEF Wals
<1>12. Locked'
  BY <1>0, <1>5, <1>6, <1>7, <1>11 DEF IInv, Locked
<1>13. Known'
  <2>1. dir'.temp \in Inodes' /\ inodes'[dir'.temp].synced = Len(inodes'[dir'.temp].frames)
    BY <1>2, <1>3, <1>4, <1>6
  <2> QED
    BY <1>0, <1>5, <1>6, <1>7, <1>11, <2>1 DEF IInv, Known
<1> QED
  BY <1>8, <1>9, <1>10, <1>12, <1>13 DEF IInv

\* What compaction leaves out is done with, and no member of its group is not.
LEMMA WhatIsDropped ==
  ASSUME NEW frames \in Seq(Frames), NEW kept \in Seq(Frames),
         compaction_entry_replays_to(kept,
           [t \in DOMAIN replay_records(frames) \ Dropped(frames) |-> replay_records(frames)[t]])
  PROVE  /\ Transactions(kept) = Transactions(frames) \ Dropped(frames)
         /\ \A t \in Transactions(kept) : StateOf(kept, t) = StateOf(frames, t)
         /\ \A u \in Dropped(frames) : u \in Transactions(frames) /\ StateOf(frames, u) = Done
         /\ \A u \in Dropped(frames), t \in Transactions(frames) :
              Group[t] # None /\ Group[t] = Group[u] => StateOf(frames, t) = Done
<1> DEFINE replay == replay_records(frames)
<1>1. DOMAIN replay = Transactions(frames) /\ \A t \in Transactions(frames) : replay[t] = StateOf(frames, t)
  BY DEF replay_records
<1>2. /\ DOMAIN replay_records(kept) = Transactions(kept)
      /\ \A t \in Transactions(kept) : replay_records(kept)[t] = StateOf(kept, t)
  BY DEF replay_records
<1>3. replay_records(kept) = [t \in DOMAIN replay \ Dropped(frames) |-> replay[t]]
  BY DEF compaction_entry_replays_to
<1>4. \A u \in Dropped(frames) : u \in DOMAIN replay /\ replay[u] = Done
  BY DEF Dropped, compaction_dropped_transactions
<1>5. ASSUME NEW u \in Dropped(frames), NEW t \in DOMAIN replay, replay[t] # Done, Group[t] # None
      PROVE  Group[t] # Group[u]
  BY <1>5 DEF Dropped, compaction_dropped_transactions
<1> HIDE DEF replay
<1>6. Transactions(kept) = Transactions(frames) \ Dropped(frames)
  BY <1>1, <1>2, <1>3
<1>7. ASSUME NEW t \in Transactions(kept)
      PROVE  StateOf(kept, t) = StateOf(frames, t)
  BY <1>1, <1>2, <1>3, <1>6
<1> QED
  BY <1>1, <1>4, <1>5, <1>6, <1>7

\* The entry that was read back keeps everything the WAL it replaces kept.
LEMMA EntryKeeps ==
  ASSUME StoreAssumption, NEW frames \in Seq(Frames), NEW kept \in Seq(Frames),
         NEW ack \in [Tx -> {Live, Done, None}],
         Keeps(frames, ack), Agrees(frames, ack, {}),
         Transactions(kept) = Transactions(frames) \ Dropped(frames),
         \A t \in Transactions(kept) : StateOf(kept, t) = StateOf(frames, t),
         \A u \in Dropped(frames) : u \in Transactions(frames) /\ StateOf(frames, u) = Done,
         \A u \in Dropped(frames), t \in Transactions(frames) :
           Group[t] # None /\ Group[t] = Group[u] => StateOf(frames, t) = Done
  PROVE  Keeps(kept, ack) /\ Agrees(kept, ack, {})
<1>0. Live # Done /\ Live # None
  BY DEF Live, Done, StoreAssumption
<1>1. ASSUME NEW t \in Tx, ack[t] # None
      PROVE  IF t \in Transactions(kept)
             THEN ack[t] = Done => StateOf(kept, t) = Done
             ELSE ack[t] = Done
  <2>1. CASE t \in Dropped(frames)
    BY <2>1 DEF Agrees
  <2>2. CASE t \notin Dropped(frames)
    BY <1>1, <2>2 DEF Keeps
  <2> QED
    BY <2>1, <2>2
<1>2. ASSUME NEW t \in Tx, NEW u \in Tx, Group[t] # None, Group[t] = Group[u], ack[u] # None,
             ack[t] = Live \/ (t \in Transactions(kept) /\ StateOf(kept, t) = Live)
      PROVE  u \in Transactions(kept)
  <2>1. ack[t] = Live \/ (t \in Transactions(frames) /\ StateOf(frames, t) = Live)
    BY <1>2
  <2>2. u \in Transactions(frames)
    BY <1>2, <2>1 DEF Keeps
  <2>3. t \in Transactions(frames)
    BY <1>0, <2>1 DEF Keeps
  <2>4. StateOf(frames, t) = Live
    BY <2>1, <2>3 DEF Agrees
  <2> QED
    BY <1>0, <1>2, <2>2, <2>3, <2>4
<1>3. Agrees(kept, ack, {})
  BY DEF Agrees
<1> QED
  BY <1>1, <1>2, <1>3 DEF Keeps

LEMMA SwapStep ==
  ASSUME StoreAssumption, IInv, NEW p \in Processes, swap_in_compacted_entry(p)
  PROVE  IInv'
<1> USE DEF Holding, AtDirectory, OnTheWal, CaughtUp, At
<1> DEFINE frames == inodes[dir.wal].frames
           kept == inodes[dir.temp].frames
           surviving == [t \in DOMAIN replay_records(frames) \ Dropped(frames)
                           |-> replay_records(frames)[t]]
<1>0. /\ procs[p].pc = "written" /\ procs[p].fd = dir.wal /\ published = "synced" /\ dir_lock = p
      /\ UNCHANGED <<inodes, synced_dir, published, acked>>
      /\ \A d \in Wals : d \in Inodes /\ IsWal(inodes[d])
      /\ dir.temp \in Inodes /\ inodes[dir.temp].synced = Len(kept)
      /\ synced_dir.wal = dir.wal /\ dir.wal \in Wals
      /\ inodes[dir.wal].synced = Len(frames) /\ Agrees(frames, acked, {})
      /\ procs[p].group = None
  BY DEF swap_in_compacted_entry, IInv, Locked, Named, Known, Wals
<1>1. \A q \in Processes \ {p} : procs[q].pc \notin Holding
  BY <1>0 DEF IInv, Locked
<1>2. CASE /\ ~compaction_entry_replays_to(kept, surviving)
           /\ dir' = [dir EXCEPT !.temp = None] /\ dir_lock' = None /\ Goto(p, "writing")
  <2>1. IsDir(dir') /\ dir'.wal = dir.wal
    BY <1>2 DEF IsDir, IInv, Types
  <2>2. /\ procs'[p].pc = "writing" /\ procs'[p].group = procs[p].group /\ procs'[p].fd = procs[p].fd
        /\ \A q \in Processes \ {p} : procs'[q] = procs[q]
        /\ procs' \in [Processes -> Leases]
    BY <1>2 DEF Goto, IInv, Types, Leases, Pcs
  <2>3. Inodes' = Inodes /\ Wals' = Wals
    BY <1>0, <2>1 DEF Inodes, Wals
  <2> HIDE DEF frames, kept, surviving
  <2>4. Types'
    BY <1>0, <2>1, <2>2, <2>3 DEF IInv, Types
  <2>5. Named'
    BY <1>0, <2>2, <2>3 DEF IInv, Named
  <2>6. Locked'
    <3>1. \A q \in Processes \ {p} : procs[q].pc \notin AtDirectory
      BY <1>0 DEF IInv, Locked
    <3> QED
      BY SMTT(40), <1>0, <1>1, <2>1, <2>2, <3>1 DEF IInv, Locked
  <2>7. Known'
    BY ZenonT(60), <1>0, <1>1, <2>1, <2>2 DEF IInv, Known
  <2>8. Durable'
    BY <1>0, <2>3 DEF IInv, Durable
  <2> QED
    BY <2>4, <2>5, <2>6, <2>7, <2>8 DEF IInv
<1>3. CASE /\ compaction_entry_replays_to(kept, surviving)
           /\ dir' = [wal |-> dir.temp, temp |-> None] /\ dir_lock' = dir_lock /\ Goto(p, "swapped")
  <2>1. IsDir(dir') /\ dir'.wal = dir.temp
    BY <1>3 DEF IsDir
  <2>2. /\ procs'[p].pc = "swapped" /\ procs'[p].group = procs[p].group
        /\ \A q \in Processes \ {p} : procs'[q] = procs[q]
        /\ procs' \in [Processes -> Leases]
    BY Zenon, <1>3 DEF Goto, IInv, Types, Leases, Pcs
  <2>3. kept \in Seq(Frames) /\ frames \in Seq(Frames)
    BY <1>0, <1>3 DEF compaction_entry_replays_to, IsWal
  <2>4. Keeps(frames, acked)
    BY <1>0, WholeIsKept DEF IInv, Durable
  <2>5. Keeps(kept, acked) /\ Agrees(kept, acked, {})
    <3>0. acked \in [Tx -> {Live, Done, None}] /\ compaction_entry_replays_to(kept, surviving)
      BY <1>3 DEF IInv, Types
    <3> HIDE DEF frames, kept
    <3>1. /\ Transactions(kept) = Transactions(frames) \ Dropped(frames)
          /\ \A t \in Transactions(kept) : StateOf(kept, t) = StateOf(frames, t)
          /\ \A u \in Dropped(frames) : u \in Transactions(frames) /\ StateOf(frames, u) = Done
          /\ \A u \in Dropped(frames), t \in Transactions(frames) :
               Group[t] # None /\ Group[t] = Group[u] => StateOf(frames, t) = Done
      BY Zenon, <2>3, <3>0, WhatIsDropped
    <3> QED
      BY <1>0, <2>3, <2>4, <3>0, <3>1, EntryKeeps
  <2>6. Inodes' = Inodes /\ Wals' = {dir.temp, synced_dir.wal}
    BY <1>0, <2>1 DEF Inodes, Wals
  <2>7. IsWal(inodes[dir.temp]) /\ Lasting(inodes[dir.temp], acked)
    <3>1. IsWal(inodes[dir.temp])
      BY <1>0, <2>3 DEF IsWal
    <3> QED
      BY <1>0, <2>5, <3>1, OneOutcome
  <2> HIDE DEF frames, kept, surviving
  <2>8. Types'
    BY <1>0, <2>1, <2>2, <2>6 DEF IInv, Types
  <2>9. Named'
    BY <1>0, <2>2, <2>6, <2>7 DEF IInv, Named, Wals
  <2>10. Locked'
    <3>1. \A q \in Processes \ {p} : procs[q].pc \notin AtDirectory
      BY <1>0 DEF IInv, Locked
    <3> QED
      BY ZenonT(60), <1>0, <1>1, <1>3, <2>1, <2>2, <3>1 DEF IInv, Locked
  <2>11. Known'
    <3>1. inodes'[dir'.wal].frames = kept /\ synced_dir' = synced_dir /\ acked' = acked
      BY <1>0, <2>1 DEF kept
    <3> QED
      BY <1>0, <1>1, <2>1, <2>2, <2>5, <3>1 DEF IInv, Known, Remembered
  <2>12. Durable'
    BY <1>0, <2>6, <2>7 DEF IInv, Durable, Wals
  <2> QED
    BY <2>8, <2>9, <2>10, <2>11, <2>12 DEF IInv
<1>4. File(p).frames = frames
  BY <1>0 DEF File
<1> QED
  BY <1>2, <1>3, <1>4 DEF swap_in_compacted_entry, Dropped

LEMMA LeaseCompactedStep ==
  ASSUME StoreAssumption, IInv, NEW p \in Processes, lease_compacted_entry(p)
  PROVE  IInv'
<1> USE DEF Holding, AtDirectory, OnTheWal, CaughtUp, At
<1> DEFINE unlocked == Unlocked(p, inodes)
<1>0. /\ procs[p].pc = "swapped" /\ published = "synced" /\ dir_lock = p
      /\ UNCHANGED <<dir, published, acked>> /\ synced_dir' = dir /\ dir_lock' = None
      /\ inodes' = [unlocked EXCEPT ![dir.wal].lock = p]
      /\ \A d \in Wals : d \in Inodes
      /\ dir.wal \in Inodes /\ dir.wal \in Wals
      /\ inodes[dir.wal].synced = Len(inodes[dir.wal].frames)
      /\ Agrees(inodes[dir.wal].frames, acked, {})
      /\ procs[p].group = None
  BY DEF lease_compacted_entry, IInv, Locked, Named, Known, Wals
<1>1. /\ unlocked \in Seq(Range(unlocked)) /\ Len(unlocked) = Len(inodes)
      /\ \A j \in Inodes : IsFile(unlocked[j])
      /\ \A j \in Inodes : unlocked[j].frames = inodes[j].frames
      /\ \A j \in Inodes : unlocked[j].synced = inodes[j].synced
  BY FilesUnlocked DEF IInv
<1> HIDE DEF unlocked
<1>2. Len(inodes) \in Nat /\ DOMAIN unlocked = 1..Len(inodes)
  BY <1>1 DEF IInv, Types
<1>3. inodes' \in Seq(Range(inodes')) /\ Len(inodes') = Len(inodes)
  <2>1. inodes' = [j \in 1..Len(inodes) |-> inodes'[j]]
    BY Zenon, <1>0, <1>2
  <2> QED
    BY <1>2, <2>1, FilesAreASequence
<1>4. /\ Inodes' = Inodes
      /\ \A j \in Inodes : IsFile(inodes'[j])
      /\ \A j \in Inodes : inodes'[j].frames = inodes[j].frames
      /\ \A j \in Inodes : inodes'[j].synced = inodes[j].synced
      /\ inodes'[dir.wal].lock = p
  BY <1>0, <1>1, <1>2, <1>3 DEF Inodes, IsFile
<1>5. dir.wal \in Nat
  BY <1>0 DEF Inodes
<1>6. /\ procs'[p].pc = "writing" /\ procs'[p].group = procs[p].group /\ procs'[p].fd = dir.wal
      /\ \A q \in Processes \ {p} : procs'[q] = procs[q]
      /\ procs' \in [Processes -> Leases]
  <2>1. /\ procs \in [Processes -> Leases]
        /\ procs' = [procs EXCEPT ![p].pc = "writing", ![p].fd = dir.wal]
    BY DEF lease_compacted_entry, IInv, Types
  <2> QED
    BY ZenonT(60), <1>5, <2>1 DEF Leases, Pcs
<1>7. \A q \in Processes \ {p} : procs[q].pc \notin Holding /\ procs[q].pc \notin AtDirectory
  BY <1>0 DEF IInv, Locked
<1>8. Types'
  BY Zenon, <1>0, <1>3, <1>4, <1>6 DEF IInv, Types
<1>9. Durable' /\ \A d \in Wals' : d \in Inodes' /\ IsWal(inodes'[d])
  <2>1. \A d \in Wals : /\ d \in Inodes' /\ inodes'[d].frames = inodes[d].frames
                        /\ inodes'[d].synced = inodes[d].synced
    BY <1>0, <1>4
  <2>2. Wals' \subseteq Wals
    BY <1>0 DEF Wals
  <2> QED
    BY <1>0, <2>1, <2>2, Rests
<1>10. Named'
  BY <1>0, <1>6, <1>9 DEF IInv, Named
<1>11. Locked'
  BY <1>0, <1>4, <1>6, <1>7 DEF IInv, Locked
<1>12. Known'
  BY <1>0, <1>4, <1>6, <1>7 DEF IInv, Known
<1> QED
  BY <1>8, <1>9, <1>10, <1>11, <1>12 DEF IInv

\* A frame is appended to one file.
LongerFile(i, f) == [inodes EXCEPT ![i].frames = Append(@, f)]

LEMMA FileLonger ==
  ASSUME Types, NEW i \in Inodes, NEW f, NEW files, files = LongerFile(i, f)
  PROVE  /\ files \in Seq(Range(files)) /\ Len(files) = Len(inodes)
         /\ \A j \in Inodes : IsFile(files[j])
         /\ \A j \in Inodes : files[j].lock = inodes[j].lock
         /\ \A j \in Inodes : files[j].synced = inodes[j].synced
         /\ \A j \in Inodes : j # i => files[j] = inodes[j]
         /\ files[i].frames = Append(inodes[i].frames, f)
<1>1. inodes \in Seq(Range(inodes)) /\ Len(inodes) \in Nat /\ DOMAIN inodes = 1..Len(inodes)
  BY DEF Types
<1>2. files = [j \in 1..Len(inodes) |-> files[j]]
  BY Zenon, <1>1 DEF LongerFile
<1>3. files \in Seq(Range(files)) /\ Len(files) = Len(inodes)
  BY Zenon, <1>1, <1>2, FilesAreASequence
<1>4. files[i] = [inodes[i] EXCEPT !.frames = Append(inodes[i].frames, f)]
  BY <1>1 DEF LongerFile, Inodes
<1>5. \A j \in Inodes : j # i => files[j] = inodes[j]
  BY <1>1 DEF LongerFile, Inodes
<1>6. IsFile(inodes[i])
  BY DEF Types
<1>7. /\ IsFile(files[i]) /\ files[i].lock = inodes[i].lock /\ files[i].synced = inodes[i].synced
      /\ files[i].frames = Append(inodes[i].frames, f)
  BY <1>4, <1>6 DEF IsFile
<1> QED
  BY <1>3, <1>5, <1>7 DEF Types

\* Every prefix there was, and the whole.
LEMMA LongerLasts ==
  ASSUME NEW f, IsWal(f), NEW x \in Frames, NEW g, g.frames = Append(f.frames, x),
         g.synced = f.synced, NEW ack, Lasting(f, ack), Keeps(Append(f.frames, x), ack)
  PROVE  IsWal(g) /\ Lasting(g, ack)
<1>1. /\ f.frames \in Seq(Frames) /\ g.frames \in Seq(Frames) /\ Len(g.frames) = Len(f.frames) + 1
      /\ Len(f.frames) \in Nat /\ f.synced \in 0..Len(f.frames)
  BY DEF IsWal
<1>2. IsWal(g)
  BY <1>1 DEF IsWal
<1>3. ASSUME NEW n \in g.synced..Len(g.frames) PROVE Keeps(SubSeq(g.frames, 1, n), ack)
  <2>1. CASE n \in 0..Len(f.frames)
    <3>1. SubSeq(g.frames, 1, n) = SubSeq(f.frames, 1, n)
      BY <1>1, <2>1, PrefixOfLonger
    <3>2. n \in f.synced..Len(f.frames)
      BY <1>1, <1>3, <2>1
    <3> QED
      BY Zenon, <3>1, <3>2 DEF Lasting
  <2>2. CASE n = Len(g.frames)
    BY Zenon, <1>1, <2>2, Whole
  <2> QED
    BY <1>1, <1>3, <2>1, <2>2
<1> QED
  BY <1>2, <1>3 DEF Lasting

LEMMA LastIsLatest ==
  ASSUME NEW frames \in Seq(Frames), frames # <<>>
  PROVE  /\ Last(frames) \in Frames /\ Last(frames).tx \in Transactions(frames)
         /\ StateOf(frames, Last(frames).tx) = Last(frames).state
<1> DEFINE f == frames[Len(frames)]
           S == {i \in DOMAIN frames : frames[i].tx = f.tx}
<1>1. Len(frames) \in 1..Len(frames) /\ DOMAIN frames = 1..Len(frames) /\ f \in Frames /\ Last(frames) = f
  BY DEF Last
<1>2. f.tx \in Transactions(frames) /\ Len(frames) \in S
  BY <1>1 DEF Transactions, Range
<1>3. Max(S) \in S /\ Len(frames) <= Max(S) /\ StateOf(frames, f.tx) = frames[Max(S)].state
  BY Zenon, <1>2, LastFrame
<1>4. Max(S) = Len(frames)
  <2> DEFINE m == Max(S)
  <2>1. m \in DOMAIN frames /\ Len(frames) <= m
    BY <1>3
  <2> HIDE DEF m
  <2>2. m = Len(frames)
    BY <1>1, <2>1
  <2> QED
    BY <2>2 DEF m
<1> QED
  BY <1>1, <1>2, <1>3, <1>4

\* The frame a lease may write next.
MayFollow(f, frames, ack, group) ==
  \/ f.tx \in Transactions(frames) /\ StateOf(frames, f.tx) = Live
  \/ /\ f.tx \notin Transactions(frames) /\ ack[f.tx] = None
     /\ \/ Group[f.tx] \in {None, group}
        \/ \A u \in Tx : Group[u] = Group[f.tx] => ack[u] = None

LEMMA FrameKeeps ==
  ASSUME StoreAssumption, NEW frames \in Seq(Frames), NEW ack \in [Tx -> {Live, Done, None}],
         Keeps(frames, ack), NEW f \in Frames, NEW group,
         Remembered(group, frames, ack), MayFollow(f, frames, ack, group)
  PROVE  Keeps(Append(frames, f), ack)
<1>0. Live # Done /\ Live # None /\ f.tx \in Tx
  BY DEF Live, Done, StoreAssumption, Frames
<1> DEFINE longer == Append(frames, f)
<1>1. /\ Transactions(longer) = Transactions(frames) \cup {f.tx}
      /\ \A t \in Transactions(frames) : t # f.tx => StateOf(longer, t) = StateOf(frames, t)
  BY OneMore
<1> HIDE DEF longer
<1>2. ASSUME NEW t \in Tx, ack[t] # None
      PROVE  IF t \in Transactions(longer)
             THEN ack[t] = Done => StateOf(longer, t) = Done
             ELSE ack[t] = Done
  <2>1. CASE t = f.tx
    BY <1>0, <1>1, <1>2, <2>1 DEF Keeps, MayFollow
  <2>2. CASE t # f.tx
    BY <1>1, <1>2, <2>2 DEF Keeps
  <2> QED
    BY <2>1, <2>2
<1>3. ASSUME NEW t \in Tx, NEW u \in Tx, Group[t] # None, Group[t] = Group[u], ack[u] # None,
             ack[t] = Live \/ (t \in Transactions(longer) /\ StateOf(longer, t) = Live)
      PROVE  u \in Transactions(longer)
  <2>1. CASE t # f.tx
    <3>1. ack[t] = Live \/ (t \in Transactions(frames) /\ StateOf(frames, t) = Live)
      BY <1>1, <1>3, <2>1
    <3> QED
      BY <1>1, <1>3, <3>1 DEF Keeps
  <2>2. CASE t = f.tx /\ f.tx \in Transactions(frames) /\ StateOf(frames, f.tx) = Live
    BY <1>1, <1>3, <2>2 DEF Keeps
  <2>3. CASE t = f.tx /\ Group[f.tx] \in {None, group}
    BY <1>1, <1>3, <2>3 DEF Remembered
  <2>4. CASE t = f.tx /\ \A v \in Tx : Group[v] = Group[f.tx] => ack[v] = None
    BY <1>3, <2>4
  <2> QED
    BY <2>1, <2>2, <2>3, <2>4 DEF MayFollow
<1>4. Keeps(longer, ack)
  BY <1>2, <1>3 DEF Keeps
<1> QED
  BY <1>4 DEF longer

LEMMA WriteFrameStep ==
  ASSUME StoreAssumption, IInv, NEW p \in Processes, write_frame(p)
  PROVE  IInv'
<1> USE DEF Holding, AtDirectory, OnTheWal, CaughtUp, At
<1> DEFINE live == inodes[dir.wal].frames
<1>0. /\ procs[p].pc = "writing" /\ procs[p].fd = dir.wal /\ published = "synced"
      /\ UNCHANGED <<dir, synced_dir, published, acked, dir_lock>>
      /\ dir.wal \in Inodes /\ IsWal(inodes[dir.wal]) /\ live \in Seq(Frames)
      /\ synced_dir.wal = dir.wal /\ Wals = {dir.wal} /\ Wals' = {dir.wal}
      /\ Agrees(live, acked, {})
      /\ acked \in [Tx -> {Live, Done, None}]
  BY DEF write_frame, locks, IInv, Types, Locked, Named, Known, Wals, IsWal
<1>1. PICK t \in Tx, s \in {Live, Done} :
        /\ inodes' = LongerFile(dir.wal, [tx |-> t, state |-> s])
        /\ \/ /\ t \in Transactions(live) /\ StateOf(live, t) = Live /\ Goto(p, "appended")
           \/ /\ t \notin Transactions(live) /\ MayBegin(p, t)
              /\ procs' = [procs EXCEPT ![p].pc = "appended",
                                        ![p].group = IF Group[t] = None THEN @ ELSE Group[t]]
  BY Zenon, <1>0 DEF write_frame, File, LongerFile
<1> DEFINE f == [tx |-> t, state |-> s]
<1>2. f \in Frames /\ f.tx = t /\ f.state = s
  BY DEF Frames
<1>3. /\ inodes' \in Seq(Range(inodes')) /\ Inodes' = Inodes
      /\ \A j \in Inodes : IsFile(inodes'[j])
      /\ inodes'[dir.wal].lock = inodes[dir.wal].lock
      /\ inodes'[dir.wal].synced = inodes[dir.wal].synced
      /\ inodes'[dir.wal].frames = Append(live, f)
  <2>1. Types /\ dir.wal \in Inodes /\ inodes' = LongerFile(dir.wal, f)
    BY <1>0, <1>1 DEF IInv
  <2> HIDE DEF f
  <2> QED
    BY <2>1, FileLonger DEF Inodes
<1>4. /\ procs'[p].pc = "appended" /\ procs'[p].fd = procs[p].fd
      /\ \A q \in Processes \ {p} : procs'[q] = procs[q]
      /\ procs' \in [Processes -> Leases]
      /\ \/ procs'[p].group = procs[p].group
         \/ /\ procs'[p].group = Group[t]
            /\ \A u \in Tx : Group[u] = Group[t] => acked[u] = None
  <2>1. procs \in [Processes -> Leases] /\ Group[t] \in Groups
    BY DEF IInv, Types, Groups
  <2> QED
    BY <1>1, <2>1 DEF Goto, Leases, Pcs, MayBegin
<1>5. \A q \in Processes \ {p} : procs[q].pc \notin Holding
  BY <1>0 DEF IInv, Locked
<1>6. Types'
  BY ZenonT(60), <1>0, <1>3, <1>4 DEF IInv, Types
<1>7. procs[p].group # None =>
        \A u \in Tx : Group[u] = procs[p].group /\ acked[u] # None => u \in Transactions(live)
  BY DEF IInv, Known, Remembered
<1>8. Lasting(inodes[dir.wal], acked) /\ Keeps(live, acked)
  <2>1. Lasting(inodes[dir.wal], acked)
    BY <1>0 DEF IInv, Durable
  <2> QED
    BY <1>0, <2>1, WholeIsKept
<1>9. Keeps(Append(live, f), acked)
  <2>1. MayFollow(f, live, acked, procs[p].group) /\ Remembered(procs[p].group, live, acked)
    BY <1>1, <1>2, <1>7 DEF MayBegin, MayFollow, Remembered
  <2> HIDE DEF f, live
  <2> QED
    BY <1>0, <1>2, <1>8, <2>1, FrameKeeps
<1>10. IsWal(inodes'[dir.wal]) /\ Lasting(inodes'[dir.wal], acked)
  <2> HIDE DEF f
  <2> QED
    BY ZenonT(60), <1>0, <1>2, <1>3, <1>8, <1>9, LongerLasts
<1>11. Named'
  BY Zenon, <1>0, <1>3, <1>4, <1>10 DEF IInv, Named
<1>12. Locked'
  <2>1. inodes'[dir'.wal].lock = inodes[dir.wal].lock /\ dir'.wal = dir.wal /\ dir_lock' = dir_lock
    BY Zenon, <1>0, <1>3
  <2> QED
    BY ZenonT(60), <1>0, <1>4, <1>5, <2>1 DEF IInv, Locked
<1>13. /\ Append(live, f) # <<>> /\ Last(Append(live, f)) = f
       /\ Transactions(Append(live, f)) = Transactions(live) \cup {t}
       /\ Agrees(Append(live, f), acked, {Last(Append(live, f)).tx})
  <2> HIDE DEF f
  <2>1. Append(live, f) # <<>> /\ Last(Append(live, f)) = f
    BY <1>0, <1>2 DEF Last
  <2>2. /\ Transactions(Append(live, f)) = Transactions(live) \cup {f.tx}
        /\ \A v \in Transactions(live) : v # f.tx => StateOf(Append(live, f), v) = StateOf(live, v)
    BY <1>0, <1>2, OneMore
  <2> QED
    BY <1>0, <1>2, <2>1, <2>2 DEF Agrees
<1>14. Known'
  <2>1. ASSUME NEW u \in Tx, procs'[p].group # None, Group[u] = procs'[p].group, acked[u] # None
        PROVE  u \in Transactions(Append(live, f))
    BY <1>4, <1>7, <1>13, <2>1
  <2>2. \A q \in Processes \ {p} : procs[q].group = None
    BY <1>5 DEF IInv, Known
  <2>3. inodes'[dir'.wal].frames = Append(live, f) /\ synced_dir'.wal = dir'.wal /\ acked' = acked
    BY <1>0, <1>3
  <2> HIDE DEF live, f
  <2> QED
    BY <1>4, <1>5, <1>13, <2>1, <2>2, <2>3 DEF Known, Remembered
<1>15. Durable'
  BY <1>0, <1>10 DEF IInv, Durable
<1> QED
  BY <1>6, <1>11, <1>12, <1>14, <1>15 DEF IInv

LEMMA SyncFrameStep ==
  ASSUME StoreAssumption, IInv, NEW p \in Processes, sync_frame(p)
  PROVE  IInv'
<1> USE DEF Holding, AtDirectory, OnTheWal, CaughtUp, At
<1> DEFINE live == inodes[dir.wal].frames
           f == Last(live)
<1>0. /\ procs[p].pc = "appended" /\ procs[p].fd = dir.wal /\ published = "synced"
      /\ dir.wal \in Inodes /\ IsWal(inodes[dir.wal]) /\ live \in Seq(Frames) /\ live # <<>>
      /\ synced_dir.wal = dir.wal /\ Wals = {dir.wal}
      /\ Agrees(live, acked, {f.tx})
      /\ acked \in [Tx -> {Live, Done, None}]
  BY ZenonT(60) DEF sync_frame, IInv, Types, Locked, Named, Known, Wals, IsWal
<1>1. /\ UNCHANGED <<dir, synced_dir, published, dir_lock>> /\ Wals' = {dir.wal}
      /\ inodes' = SyncedFile(dir.wal) /\ acked' = [acked EXCEPT ![f.tx] = f.state]
      /\ Goto(p, "writing")
  BY ZenonT(60), <1>0 DEF sync_frame, locks, Wals, File, Last
<1>2. f \in Frames /\ f.tx \in Transactions(live) /\ StateOf(live, f.tx) = f.state
  BY ZenonT(60), <1>0, LastIsLatest
<1> HIDE DEF f
<1>3. /\ inodes' \in Seq(Range(inodes')) /\ Inodes' = Inodes
      /\ \A j \in Inodes : IsFile(inodes'[j])
      /\ inodes'[dir.wal].frames = live
      /\ inodes'[dir.wal].lock = inodes[dir.wal].lock
      /\ inodes'[dir.wal].synced = Len(live)
  BY <1>0, <1>1, FileSynced DEF IInv, Inodes
<1>4. /\ procs'[p].pc = "writing" /\ procs'[p].group = procs[p].group /\ procs'[p].fd = procs[p].fd
      /\ \A q \in Processes \ {p} : procs'[q] = procs[q]
      /\ procs' \in [Processes -> Leases]
  BY <1>1 DEF Goto, IInv, Types, Leases, Pcs
<1>5. \A q \in Processes \ {p} : procs[q].pc \notin Holding
  BY <1>0 DEF IInv, Locked
<1>6. /\ f.tx \in Tx /\ f.state \in {Live, Done} /\ acked' \in [Tx -> {Live, Done, None}]
      /\ acked'[f.tx] = f.state /\ \A t \in Tx : t # f.tx => acked'[t] = acked[t]
  BY <1>0, <1>1, <1>2 DEF Frames
<1>7. Types'
  BY ZenonT(60), <1>1, <1>3, <1>4, <1>6 DEF IInv, Types
<1>8. IsWal(inodes'[dir.wal])
  BY <1>0, <1>3 DEF IsWal
<1>9. Named'
  BY Zenon, <1>0, <1>1, <1>3, <1>4, <1>8 DEF IInv, Named
<1>10. Locked'
  <2>1. inodes'[dir'.wal].lock = inodes[dir.wal].lock /\ dir'.wal = dir.wal /\ dir_lock' = dir_lock
    BY <1>1, <1>3
  <2> QED
    BY ZenonT(60), <1>0, <1>4, <1>5, <2>1 DEF IInv, Locked
<1>11. Keeps(live, acked)
  BY Zenon, <1>0, WholeIsKept DEF IInv, Durable
<1>12. Transactions(live) \subseteq Tx
  BY <1>0, FramesNameTransactions
<1> HIDE DEF live
<1>13. Agrees(live, acked', {})
  BY <1>0, <1>2, <1>6, <1>12 DEF Agrees
<1>14. Keeps(live, acked')
  <2>1. ASSUME NEW t \in Tx, acked'[t] # None
        PROVE  IF t \in Transactions(live)
               THEN acked'[t] = Done => StateOf(live, t) = Done
               ELSE acked'[t] = Done
    BY <1>2, <1>6, <1>11, <2>1 DEF Keeps
  <2>2. ASSUME NEW t \in Tx, NEW u \in Tx, Group[t] # None, Group[t] = Group[u], acked'[u] # None,
               acked'[t] = Live \/ (t \in Transactions(live) /\ StateOf(live, t) = Live)
        PROVE  u \in Transactions(live)
    <3>1. acked[t] = Live \/ (t \in Transactions(live) /\ StateOf(live, t) = Live)
      BY <1>2, <1>6, <2>2
    <3>2. u = f.tx \/ acked[u] # None
      BY <1>6, <2>2
    <3> QED
      BY <1>2, <1>11, <2>2, <3>1, <3>2 DEF Keeps
  <2> QED
    BY <2>1, <2>2 DEF Keeps
<1>15. Known'
  <2>1. /\ inodes'[dir'.wal].frames = live /\ inodes'[dir'.wal].synced = Len(live)
        /\ synced_dir'.wal = dir'.wal
    BY <1>0, <1>1, <1>3
  <2>2. ASSUME NEW u \in Tx, procs'[p].group # None, Group[u] = procs'[p].group, acked'[u] # None
        PROVE  u \in Transactions(live)
    BY ZenonT(60), <1>2, <1>4, <1>6, <2>2 DEF IInv, Known, Remembered, live
  <2>3. \A q \in Processes \ {p} : procs[q].group = None
    BY <1>5 DEF IInv, Known
  <2> QED
    BY <1>4, <1>5, <1>13, <2>1, <2>2, <2>3 DEF Known, Remembered
<1>16. Durable'
  <2>1. Lasting(inodes'[dir.wal], acked')
    BY <1>3, <1>8, <1>14, OneOutcome
  <2> QED
    BY ZenonT(60), <1>0, <1>1, <2>1 DEF Durable
<1> QED
  BY <1>7, <1>9, <1>10, <1>15, <1>16 DEF IInv

LEMMA PowerLossStep ==
  ASSUME StoreAssumption, IInv, power_loss
  PROVE  IInv'
<1> USE DEF NoLease, Holding, AtDirectory, OnTheWal, CaughtUp, At
<1>1. PICK kept : /\ \A i \in Inodes : kept[i] \in Survives(inodes[i])
                  /\ inodes' = [i \in Inodes |-> NewInode(kept[i], None)]
  BY DEF power_loss
<1>2. /\ acked' = acked /\ synced_dir' = dir' /\ procs' = [p \in Processes |-> NoLease]
      /\ \/ published # "synced" /\ published' = "no" /\ dir' = [wal |-> None, temp |-> None]
         \/ published' = published /\ dir' \in {dir, synced_dir}
  BY DEF power_loss
<1>3. Len(inodes) \in Nat
  BY DEF IInv, Types
<1>4. inodes' \in Seq(Range(inodes')) /\ Inodes' = Inodes
  <2>1. inodes' = [j \in 1..Len(inodes) |-> inodes'[j]]
    BY <1>1 DEF Inodes
  <2>2. inodes' \in Seq(Range(inodes')) /\ Len(inodes') = Len(inodes)
    BY <1>3, <2>1, FilesAreASequence
  <2> QED
    BY <2>2 DEF Inodes
<1>5. ASSUME NEW i \in Inodes
      PROVE  /\ inodes'[i] = [frames |-> kept[i], synced |-> Len(kept[i]), lock |-> None]
             /\ IsFile(inodes'[i]) /\ inodes'[i].frames = kept[i] /\ inodes'[i].synced = Len(kept[i])
  <2>1. inodes'[i] = NewInode(kept[i], None)
    BY <1>1
  <2>2. inodes'[i] = [frames |-> kept[i], synced |-> Len(kept[i]), lock |-> None]
    BY <2>1 DEF NewInode
  <2> QED
    BY <2>2 DEF IsFile
<1>6. Types'
  <2>1. \A i \in Inodes : IsFile(inodes'[i])
    BY ZenonT(60), <1>5
  <2>2. IsDir(dir')
    BY <1>2 DEF IsDir, IInv, Types
  <2>3. procs' \in [Processes -> Leases]
    BY <1>2 DEF Leases, Pcs
  <2> QED
    BY <1>2, <1>4, <2>1, <2>2, <2>3 DEF IInv, Types
<1>7. ASSUME published # "no", NEW d \in Wals
      PROVE  d \in Inodes /\ IsWal(inodes'[d]) /\ Lasting(inodes'[d], acked)
  <2>1. d \in Inodes /\ IsWal(inodes[d]) /\ Lasting(inodes[d], acked)
    BY <1>7 DEF IInv, Named, Durable
  <2>2. PICK n \in inodes[d].synced..Len(inodes[d].frames) : kept[d] = SubSeq(inodes[d].frames, 1, n)
    BY <1>1, <2>1 DEF Survives
  <2>3. inodes[d].frames \in Seq(Frames) /\ n \in 0..Len(inodes[d].frames)
    BY <2>1 DEF IsWal
  <2>4. kept[d] \in Seq(Frames)
    BY <2>2, <2>3
  <2>5. inodes'[d].frames = kept[d] /\ inodes'[d].synced = Len(kept[d])
    BY Zenon, <1>5, <2>1
  <2>6. IsWal(inodes'[d])
    BY <2>4, <2>5 DEF IsWal
  <2>7. Keeps(kept[d], acked)
    BY <2>1, <2>2 DEF Lasting
  <2> QED
    BY <2>1, <2>5, <2>6, <2>7, OneOutcome
<1>8. \A p \in Processes : procs'[p].pc = "closed" /\ procs'[p].group = None
  BY <1>2
<1>9. published' # "no" => published # "no" /\ Wals' \subseteq Wals
  BY <1>2 DEF Wals
<1>10. published' = "no" => Wals' = {None}
  <2>1. CASE dir' = [wal |-> None, temp |-> None]
    BY <1>2, <2>1 DEF Wals
  <2>2. CASE published' = published /\ dir' \in {dir, synced_dir}
    BY <1>2, <2>2 DEF Wals, IInv, Named
  <2> QED
    BY <1>2, <2>1, <2>2
<1>11. Named'
  BY <1>4, <1>7, <1>8, <1>9, <1>10 DEF Named
<1>12. Locked' /\ Known'
  BY <1>8 DEF Locked, Known, Remembered
<1>13. Durable'
  BY <1>2, <1>7, <1>9 DEF IInv, Durable
<1> QED
  BY <1>6, <1>11, <1>12, <1>13 DEF IInv
-----------------------------------------------------------------------------
LEMMA NextStep ==
  ASSUME StoreAssumption, IInv, [Next]_vars
  PROVE  IInv'
<1>1. ASSUME NEW p \in Processes, Step(p) PROVE IInv'
  BY <1>1, OpenOrCreateStep, OpenWithSyncStep, LockDirectoryStep, AcquireStep, TryLeaseStep,
     CompactionChoiceStep, WriteCompactionStep, SwapStep, LeaseCompactedStep, SyncFrameStep DEF Step
<1>2. ASSUME NEW p \in Processes, close(p) \/ stop(p) PROVE IInv'
  <2>1. ~At(p, "closed") /\ Leave(p) /\ UNCHANGED <<dir, synced_dir, published, acked>>
    BY <1>2 DEF close, stop, At
  <2> QED
    BY <2>1, LeaveStep
<1>3. CASE UNCHANGED vars
  <2> USE <1>3 DEF vars, store, locks
  <2>1. Types' /\ Named'
    BY ZenonT(60) DEF IInv, Types, Named, Inodes, Wals, At
  <2>2. Locked' /\ Known'
    BY ZenonT(60) DEF IInv, Locked, Known, Inodes, At
  <2>3. Durable'
    BY Zenon DEF IInv, Durable, Wals
  <2> QED
    BY <2>1, <2>2, <2>3 DEF IInv
<1> QED
  BY <1>1, <1>2, <1>3, WriteFrameStep, PowerLossStep DEF Next

(* The inductive invariant: who holds which lock, which file the name leads
   to, what a lease has replayed, and what every prefix the power may leave keeps. *)
THEOREM Invariance == ASSUME StoreAssumption PROVE Spec => []IInv
<1>1. Init => IInv
  BY InitHolds
<1>2. IInv /\ [Next]_vars => IInv'
  BY NextStep
<1> QED
  BY <1>1, <1>2, PTL DEF Spec

(* try_lease and compact_terminal_transactions: no two processes are past the
   lease at once, also while one of them replaces the file the other opened. *)
THEOREM OneSessionOnly == ASSUME StoreAssumption PROVE Spec => []OneSession
<1>1. IInv => OneSession
  <2> SUFFICES ASSUME IInv PROVE Cardinality(Sessions) <= 1
    BY DEF OneSession
  <2>1. \A p, q \in Sessions : p = q
    BY DEF Sessions, IInv, Locked, Holding
  <2>2. CASE Sessions = {}
    BY <2>2, FS_EmptySet
  <2>3. CASE Sessions # {}
    <3>1. PICK p \in Sessions : TRUE
      BY <2>3
    <3>2. Sessions = {p}
      BY <2>1, <3>1
    <3> QED
      BY <3>2, FS_Singleton
  <2> QED
    BY <2>2, <2>3
<1> QED
  BY <1>1, Invariance, PTL

(* A lease appends only to the file the store's name leads to, under its lock. *)
THEOREM WritersHoldTheLiveWal == ASSUME StoreAssumption PROVE Spec => []WriterHoldsTheLiveWal
<1>1. IInv => WriterHoldsTheLiveWal
  BY DEF WriterHoldsTheLiveWal, IInv, Locked, OnTheWal, Holding, File
<1> QED
  BY <1>1, Invariance, PTL

\* What is kept of every prefix is what the properties say of what remains.
LEMMA RemainsKeep ==
  ASSUME IInv, NEW frames \in Remains
  PROVE  Keeps(frames, acked)
<1>1. PICK e \in {dir, synced_dir} : e.wal # None /\ frames \in Survives(inodes[e.wal])
  BY DEF Remains
<1>2. PICK n \in inodes[e.wal].synced..Len(inodes[e.wal].frames) : frames = SubSeq(inodes[e.wal].frames, 1, n)
  BY <1>1 DEF Survives
<1>3. e.wal \in Wals /\ published # "no"
  BY <1>1 DEF Wals, IInv, Named
<1> QED
  BY <1>2, <1>3 DEF IInv, Durable, Lasting

(* append_at, try_lease and compaction: whatever the power leaves, what was
   acknowledged is there and no further back, unless it is done with. *)
THEOREM NothingAcknowledgedIsLost == ASSUME StoreAssumption PROVE Spec => []AcknowledgedSurvives
<1>1. IInv => AcknowledgedSurvives
  BY RemainsKeep DEF AcknowledgedSurvives, Keeps, IInv, Durable
<1> QED
  BY <1>1, Invariance, PTL

(* compaction_dropped_transactions: while one member of a group has something
   left to undo, every acknowledged member is in whatever the power leaves. *)
THEOREM GroupsStayWhole == ASSUME StoreAssumption PROVE Spec => []UndoMappingSurvives
<1>1. IInv => UndoMappingSurvives
  BY RemainsKeep DEF UndoMappingSurvives, Keeps
<1> QED
  BY <1>1, Invariance, PTL
=============================================================================
