------------------------- MODULE SealWalStoreLeases -------------------------
(***************************************************************************)
(* The inductive invariant of SealWalStore, the lemmas on frames and files *)
(* its proof needs, and the steps that open the store and take a lease.    *)
(* SealWalStoreProofs has the steps that write, compact and lose power,    *)
(* and the theorems.                                                       *)
(***************************************************************************)
EXTENDS SealWalStore, FiniteSetTheorems, WellFoundedInduction, TLAPS

\* Holds the flock on a WAL.
Holding == {"locked", "leased", "compacting", "written", "swapped", "writing", "appended"}

\* Holds the flock on the directory.
AtDirectory == {"leasing", "locked", "compacting", "written", "swapped"}

\* The open descriptor is that of the live WAL.
OnTheWal == {"leasing", "locked", "leased", "compacting", "written", "writing", "appended"}

\* Has replayed the WAL and written nothing since that is not synced.
CaughtUp == {"leased", "compacting", "written", "swapped", "writing"}

Pcs == {"closed", "opening", "open"} \cup AtDirectory \cup Holding

Groups == {Group[t] : t \in Tx}

Leases == [pc : Pcs, fd : Nat \cup {None}, group : Groups \cup {None}]

IsFile(f) == f = [frames |-> f.frames, synced |-> f.synced, lock |-> f.lock]

IsWal(f) == f.frames \in Seq(Frames) /\ f.synced \in 0..Len(f.frames)

IsDir(d) == d = [wal |-> d.wal, temp |-> d.temp]

Types ==
  /\ inodes \in Seq(Range(inodes))
  /\ \A i \in Inodes : IsFile(inodes[i])
  /\ IsDir(dir) /\ IsDir(synced_dir)
  /\ published \in {"no", "yes", "synced"}
  /\ procs \in [Processes -> Leases]
  /\ acked \in [Tx -> {Live, Done, None}]

Wals == {dir.wal, synced_dir.wal}

\* What the directory names, and how far publication is.
Named ==
  /\ published = "no" => Wals = {None}
  /\ published # "no" => \A d \in Wals : d \in Inodes /\ IsWal(inodes[d])
  /\ \A p \in Processes : /\ ~At(p, "closed") => published # "no"
                          /\ procs[p].pc \notin {"closed", "opening"} => published = "synced"

\* Who holds what.
Locked ==
  /\ \A p \in Processes :
       /\ procs[p].pc \in AtDirectory => dir_lock = p
       /\ procs[p].pc \in OnTheWal => procs[p].fd = dir.wal
       /\ procs[p].pc \in Holding \ {"swapped"} => inodes[dir.wal].lock = p
  /\ \A p, q \in Processes : {procs[p].pc, procs[q].pc} \subseteq Holding => p = q

\* What a replay of these frames must show of what was acknowledged.
Keeps(frames, ack) ==
  /\ \A t \in Tx : ack[t] # None =>
       IF t \in Transactions(frames)
       THEN ack[t] = Done => StateOf(frames, t) = Done
       ELSE ack[t] = Done
  /\ \A t, u \in Tx :
       (/\ Group[t] # None /\ Group[t] = Group[u] /\ ack[u] # None
        /\ ack[t] = Live \/ (t \in Transactions(frames) /\ StateOf(frames, t) = Live)) =>
          u \in Transactions(frames)

Lasting(file, ack) ==
  \A n \in file.synced..Len(file.frames) : Keeps(SubSeq(file.frames, 1, n), ack)

\* Acknowledged is exactly what these frames say of the transactions they have.
Agrees(frames, ack, but) ==
  \A t \in Transactions(frames) \ but : ack[t] = StateOf(frames, t)

\* The group a lease stages is here as far as it was acknowledged.
Remembered(group, frames, ack) ==
  group # None => \A u \in Tx : Group[u] = group /\ ack[u] # None => u \in Transactions(frames)

Last(frames) == frames[Len(frames)]

\* What a lease knows of the live WAL.
Known ==
  LET live == inodes[dir.wal]
  IN  \A p \in Processes :
        /\ procs[p].pc \in CaughtUp =>
             live.synced = Len(live.frames) /\ Agrees(live.frames, acked, {})
        /\ At(p, "appended") =>
             live.frames # <<>> /\ Agrees(live.frames, acked, {Last(live.frames).tx})
        /\ procs[p].pc \in (CaughtUp \cup {"appended"}) \ {"swapped"} => synced_dir.wal = dir.wal
        /\ At(p, "written") =>
             dir.temp \in Inodes /\ inodes[dir.temp].synced = Len(inodes[dir.temp].frames)
        /\ procs[p].pc \notin {"writing", "appended"} => procs[p].group = None
        /\ Remembered(procs[p].group, live.frames, acked)

Durable ==
  /\ \A t \in Tx : acked[t] # None => published = "synced"
  /\ published # "no" => \A d \in Wals : Lasting(inodes[d], acked)

IInv == Types /\ Named /\ Locked /\ Known /\ Durable
-----------------------------------------------------------------------------
\* A set of naturals that has a bound has a greatest element.
LEMMA Greatest ==
  ASSUME NEW n \in Nat, NEW S \in SUBSET (0..n), S # {}
  PROVE  Max(S) \in S /\ \A i \in S : i <= Max(S)
<1> DEFINE T == {n - i : i \in S}
<1>0. PICK i \in S : TRUE
  BY Zenon
<1>1. T \subseteq Nat /\ n - i \in T
  OBVIOUS
<1>2. PICK x \in T : \A y \in T : ~(<<y, x>> \in OpToRel(<, Nat))
  BY Zenon, <1>1, NatLessThanWellFounded, WFMin
<1>3. \A y \in T : ~(y < x)
  BY Zenon, <1>1, <1>2 DEF OpToRel
<1>4. n - x \in S /\ \A j \in S : n - x >= j
  BY <1>3
<1> QED
  BY Zenon, <1>4 DEF Max

\* The index set StateOf looks at, and the last of it.
LEMMA LastFrame ==
  ASSUME NEW frames \in Seq(Frames), NEW t \in Transactions(frames)
  PROVE  LET S == {i \in DOMAIN frames : frames[i].tx = t}
         IN  /\ Max(S) \in S /\ \A i \in S : i <= Max(S)
             /\ StateOf(frames, t) = frames[Max(S)].state
             /\ StateOf(frames, t) \in {Live, Done}
<1> DEFINE S == {i \in DOMAIN frames : frames[i].tx = t}
<1>1. S # {} /\ S \in SUBSET (0..Len(frames)) /\ Len(frames) \in Nat
  BY DEF Transactions, Range
<1>2. Max(S) \in S /\ \A i \in S : i <= Max(S)
  <2> HIDE DEF S
  <2> QED
    BY Zenon, <1>1, Greatest
<1>3. StateOf(frames, t) = frames[Max(S)].state
  BY DEF StateOf
<1>4. frames[Max(S)] \in Frames
  BY <1>2
<1> QED
  BY <1>2, <1>3, <1>4 DEF Frames

LEMMA FramesNameTransactions ==
  ASSUME NEW frames \in Seq(Frames)
  PROVE  Transactions(frames) \subseteq Tx
<1>1. \A i \in DOMAIN frames : frames[i] \in Frames
  OBVIOUS
<1> QED
  BY <1>1 DEF Transactions, Range, Frames

\* What one more frame changes.
LEMMA OneMore ==
  ASSUME NEW frames \in Seq(Frames), NEW f \in Frames
  PROVE  /\ Append(frames, f) \in Seq(Frames)
         /\ Transactions(Append(frames, f)) = Transactions(frames) \cup {f.tx}
         /\ StateOf(Append(frames, f), f.tx) = f.state
         /\ \A t \in Transactions(frames) :
              t # f.tx => StateOf(Append(frames, f), t) = StateOf(frames, t)
<1> DEFINE g == Append(frames, f)
           S(t) == {i \in DOMAIN frames : frames[i].tx = t}
           R(t) == {i \in DOMAIN g : g[i].tx = t}
<1>1. /\ g \in Seq(Frames) /\ Len(g) = Len(frames) + 1 /\ DOMAIN g = 1..Len(g)
      /\ DOMAIN frames = 1..Len(frames)
      /\ g[Len(g)] = f /\ \A i \in DOMAIN frames : g[i] = frames[i]
  OBVIOUS
<1>2. Transactions(g) = Transactions(frames) \cup {f.tx}
  <2>1. Range(g) = Range(frames) \cup {f}
    BY <1>1 DEF Range
  <2> QED
    BY <2>1 DEF Transactions
<1>3. StateOf(g, f.tx) = f.state
  <2>1. f.tx \in Transactions(g) /\ Len(g) \in R(f.tx)
    BY <1>1, <1>2
  <2>2. Max(R(f.tx)) \in R(f.tx) /\ Len(g) <= Max(R(f.tx)) /\ StateOf(g, f.tx) = g[Max(R(f.tx))].state
    BY Zenon, <2>1, <1>1, LastFrame
  <2>3. Max(R(f.tx)) = Len(g)
    <3> DEFINE m == Max(R(f.tx))
    <3>1. m \in DOMAIN g /\ Len(g) <= m
      BY Zenon, <2>2
    <3> HIDE DEF m, g
    <3>2. m = Len(g)
      BY <1>1, <3>1
    <3> QED
      BY <3>2 DEF m
  <2> QED
    BY Zenon, <1>1, <2>2, <2>3
<1>4. ASSUME NEW t \in Transactions(frames), t # f.tx
      PROVE  StateOf(g, t) = StateOf(frames, t)
  <2>1. R(t) = S(t)
    BY <1>1, <1>4
  <2>2. Max(S(t)) \in S(t)
    BY Zenon, LastFrame
  <2> QED
    BY Zenon, <1>1, <2>1, <2>2 DEF StateOf
<1> QED
  BY <1>1, <1>2, <1>3, <1>4

\* The prefixes of a WAL.
LEMMA Whole ==
  ASSUME NEW S, NEW s \in Seq(S)
  PROVE  SubSeq(s, 1, Len(s)) = s
  OBVIOUS

LEMMA PrefixOfLonger ==
  ASSUME NEW S, NEW s \in Seq(S), NEW x \in S, NEW n \in 0..Len(s)
  PROVE  SubSeq(Append(s, x), 1, n) = SubSeq(s, 1, n)
  OBVIOUS

\* Files are a sequence whatever becomes of one of them.
LEMMA FilesAreASequence ==
  ASSUME NEW files, NEW n \in Nat, files = [i \in 1..n |-> files[i]]
  PROVE  files \in Seq(Range(files)) /\ Len(files) = n /\ DOMAIN files = 1..n
<1>1. \A i \in 1..n : files[i] \in Range(files)
  BY DEF Range
<1> QED
  BY <1>1

LEMMA OneMoreFile ==
  ASSUME NEW files, files \in Seq(Range(files)), NEW x
  PROVE  /\ Append(files, x) \in Seq(Range(Append(files, x)))
         /\ Len(Append(files, x)) = Len(files) + 1 /\ Len(files) \in Nat
         /\ Append(files, x)[Len(files) + 1] = x
         /\ \A i \in 1..Len(files) : Append(files, x)[i] = files[i]
<1>1. files \in Seq(Range(files) \cup {x})
  OBVIOUS
<1>2. /\ Append(files, x) \in Seq(Range(files) \cup {x}) /\ Len(Append(files, x)) = Len(files) + 1
      /\ Len(files) \in Nat
      /\ Append(files, x)[Len(files) + 1] = x
      /\ \A i \in 1..Len(files) : Append(files, x)[i] = files[i]
  BY <1>1
<1>3. \A i \in 1..Len(Append(files, x)) : Append(files, x)[i] \in Range(Append(files, x))
  BY <1>2 DEF Range
<1> QED
  BY <1>2, <1>3

\* One file is synced, or its lock taken.
LEMMA FileSynced ==
  ASSUME Types, NEW i \in Inodes, NEW files, files = SyncedFile(i)
  PROVE  /\ files \in Seq(Range(files)) /\ Len(files) = Len(inodes)
         /\ \A j \in Inodes : IsFile(files[j])
         /\ \A j \in Inodes : files[j].frames = inodes[j].frames
         /\ \A j \in Inodes : files[j].lock = inodes[j].lock
         /\ \A j \in Inodes : j # i => files[j] = inodes[j]
         /\ files[i].synced = Len(inodes[i].frames)
<1>1. inodes \in Seq(Range(inodes)) /\ Len(inodes) \in Nat /\ DOMAIN inodes = 1..Len(inodes)
  BY DEF Types
<1>2. files = [j \in 1..Len(inodes) |-> files[j]]
  BY Zenon, <1>1 DEF SyncedFile
<1>3. files \in Seq(Range(files)) /\ Len(files) = Len(inodes)
  BY Zenon, <1>1, <1>2, FilesAreASequence
<1> QED
  BY <1>1, <1>3 DEF SyncedFile, Types, IsFile, Inodes

LockedFile(i, p) == [inodes EXCEPT ![i].lock = p]

LEMMA FileLocked ==
  ASSUME Types, NEW i \in Inodes, NEW p, NEW files, files = LockedFile(i, p)
  PROVE  /\ files \in Seq(Range(files)) /\ Len(files) = Len(inodes)
         /\ \A j \in Inodes : IsFile(files[j])
         /\ \A j \in Inodes : files[j].frames = inodes[j].frames
         /\ \A j \in Inodes : files[j].synced = inodes[j].synced
         /\ \A j \in Inodes : j # i => files[j] = inodes[j]
         /\ files[i].lock = p
<1>1. inodes \in Seq(Range(inodes)) /\ Len(inodes) \in Nat /\ DOMAIN inodes = 1..Len(inodes)
  BY DEF Types
<1>2. files = [j \in 1..Len(inodes) |-> files[j]]
  BY Zenon, <1>1 DEF LockedFile
<1>3. files \in Seq(Range(files)) /\ Len(files) = Len(inodes)
  BY Zenon, <1>1, <1>2, FilesAreASequence
<1> QED
  BY <1>1, <1>3 DEF Types, IsFile, Inodes, LockedFile

\* Every lock a process has is gone.
LEMMA FilesUnlocked ==
  ASSUME Types, NEW p, NEW files, files = Unlocked(p, inodes)
  PROVE  /\ files \in Seq(Range(files)) /\ Len(files) = Len(inodes)
         /\ \A j \in Inodes : IsFile(files[j])
         /\ \A j \in Inodes : files[j].frames = inodes[j].frames
         /\ \A j \in Inodes : files[j].synced = inodes[j].synced
         /\ \A j \in Inodes : inodes[j].lock # p => files[j].lock = inodes[j].lock
<1>1. inodes \in Seq(Range(inodes)) /\ Len(inodes) \in Nat /\ DOMAIN inodes = 1..Len(inodes)
  BY DEF Types
<1>2. files = [j \in 1..Len(inodes) |-> files[j]]
  BY <1>1 DEF Unlocked
<1>3. files \in Seq(Range(files)) /\ Len(files) = Len(inodes)
  BY Zenon, <1>1, <1>2, FilesAreASequence
<1>4. \A j \in Inodes : files[j] = IF inodes[j].lock = p THEN [inodes[j] EXCEPT !.lock = None] ELSE inodes[j]
  BY <1>1 DEF Unlocked, Inodes
<1> QED
  BY Zenon, <1>3, <1>4 DEF Types, IsFile

\* No more than was synced is forgotten: prefixes that remain kept what they keep.
LEMMA StillLasting ==
  ASSUME NEW f, IsWal(f), NEW g, g.frames = f.frames,
         g.synced = f.synced \/ g.synced = Len(f.frames), NEW ack, Lasting(f, ack)
  PROVE  IsWal(g) /\ Lasting(g, ack)
  BY DEF Lasting, IsWal

\* A WAL all of which is synced has one outcome.
LEMMA OneOutcome ==
  ASSUME NEW f, IsWal(f), f.synced = Len(f.frames), NEW ack
  PROVE  Lasting(f, ack) <=> Keeps(f.frames, ack)
<1>1. f.synced..Len(f.frames) = {Len(f.frames)}
  BY DEF IsWal
<1>2. SubSeq(f.frames, 1, Len(f.frames)) = f.frames
  BY Whole, f.frames \in Seq(Frames) DEF IsWal
<1> QED
  BY Zenon, <1>1, <1>2 DEF Lasting

LEMMA WholeIsKept ==
  ASSUME NEW f, IsWal(f), NEW ack, Lasting(f, ack)
  PROVE  Keeps(f.frames, ack)
<1>1. Len(f.frames) \in f.synced..Len(f.frames)
  BY DEF IsWal
<1>2. SubSeq(f.frames, 1, Len(f.frames)) = f.frames
  BY Whole, f.frames \in Seq(Frames) DEF IsWal
<1> QED
  BY Zenon, <1>1, <1>2 DEF Lasting
-----------------------------------------------------------------------------
LEMMA InitHolds == StoreAssumption /\ Init => IInv
<1> SUFFICES ASSUME StoreAssumption, Init PROVE IInv
  OBVIOUS
<1> USE DEF Init, NoLease, Holding, AtDirectory, OnTheWal, CaughtUp, At
<1>0. Inodes = {} /\ \A p \in Processes : procs[p] = NoLease
  BY DEF Inodes
<1>1. Types
  BY <1>0 DEF Types, IsDir, Leases, Pcs, Range
<1>2. Named
  BY <1>0 DEF Named, Wals
<1>3. Locked /\ Known /\ Durable
  BY <1>0 DEF Locked, Known, Remembered, Durable
<1> QED
  BY <1>1, <1>2, <1>3 DEF IInv

\* A step that acknowledges nothing, writes to no WAL that may remain and lets
\* nothing remain that could not before.
LEMMA Rests ==
  ASSUME IInv, acked' = acked, published # "no", published' \in {published, "synced"},
         Wals' \subseteq Wals,
         \A d \in Wals : /\ d \in Inodes' /\ inodes'[d].frames = inodes[d].frames
                         /\ \/ inodes'[d].synced = inodes[d].synced
                            \/ inodes'[d].synced = Len(inodes[d].frames)
  PROVE  /\ Durable' /\ published' # "no"
         /\ \A d \in Wals' : d \in Inodes' /\ IsWal(inodes'[d])
<1>1. ASSUME NEW d \in Wals PROVE IsWal(inodes'[d]) /\ Lasting(inodes'[d], acked)
  BY StillLasting DEF IInv, Named, Durable
<1> QED
  BY <1>1 DEF IInv, Durable

LEMMA LeaveStep ==
  ASSUME StoreAssumption, IInv, NEW p \in Processes, ~At(p, "closed"), Leave(p),
         UNCHANGED <<dir, synced_dir, published, acked>>
  PROVE  IInv'
<1> USE DEF NoLease, Holding, AtDirectory, OnTheWal, CaughtUp, At
<1>1. /\ inodes' \in Seq(Range(inodes')) /\ Inodes' = Inodes
      /\ \A j \in Inodes : IsFile(inodes'[j])
      /\ \A j \in Inodes : inodes'[j].frames = inodes[j].frames
      /\ \A j \in Inodes : inodes'[j].synced = inodes[j].synced
      /\ \A j \in Inodes : inodes[j].lock # p => inodes'[j].lock = inodes[j].lock
  BY FilesUnlocked DEF IInv, Leave, Inodes
<1>2. /\ procs' = [procs EXCEPT ![p] = NoLease]
      /\ procs'[p] = NoLease /\ \A q \in Processes \ {p} : procs'[q] = procs[q]
      /\ procs' \in [Processes -> Leases]
  BY DEF Leave, IInv, Types, Leases, Pcs
<1>3. published # "no" /\ Wals' = Wals /\ \A d \in Wals : d \in Inodes
  BY DEF IInv, Named, Wals
<1>4. Durable' /\ \A d \in Wals' : d \in Inodes' /\ IsWal(inodes'[d])
  <2>1. \A d \in Wals : /\ d \in Inodes' /\ inodes'[d].frames = inodes[d].frames
                        /\ inodes'[d].synced = inodes[d].synced
    BY <1>1, <1>3
  <2>2. Wals' \subseteq Wals /\ acked' = acked /\ published' = published
    BY <1>3
  <2> QED
    BY <1>3, <2>1, <2>2, Rests
<1>5. Types'
  BY <1>1, <1>2 DEF IInv, Types, Inodes, IsDir
<1>6. Named'
  BY <1>2, <1>3, <1>4 DEF IInv, Named
<1>7. dir.wal \in Inodes
  BY <1>3 DEF Wals
<1>8. Locked'
  <2>1. ASSUME NEW q \in Processes, q # p
        PROVE  /\ procs'[q].pc \in AtDirectory => dir_lock' = q
               /\ procs'[q].pc \in OnTheWal => procs'[q].fd = dir'.wal
               /\ procs'[q].pc \in Holding \ {"swapped"} => inodes'[dir'.wal].lock = q
    BY <1>1, <1>2, <1>7, <2>1 DEF IInv, Locked, Leave
  <2> QED
    BY <1>2, <2>1 DEF IInv, Locked
<1>9. Known'
  <2>1. ASSUME NEW q \in Processes, q # p, procs'[q].pc = "written"
        PROVE  dir'.temp \in Inodes' /\ inodes'[dir'.temp].synced = Len(inodes'[dir'.temp].frames)
    BY <1>1, <1>2, <2>1 DEF IInv, Known
  <2>2. inodes'[dir'.wal].frames = inodes[dir.wal].frames /\ inodes'[dir'.wal].synced = inodes[dir.wal].synced
    BY <1>1, <1>7
  <2>3. ASSUME NEW q \in Processes, q # p
        PROVE  procs'[q] = procs[q]
    BY <1>2, <2>3
  <2> QED
    BY Zenon, <1>2, <2>1, <2>2, <2>3 DEF IInv, Known, Remembered
<1> QED
  BY <1>4, <1>5, <1>6, <1>8, <1>9 DEF IInv

LEMMA OpenOrCreateStep ==
  ASSUME StoreAssumption, IInv, NEW p \in Processes, open_or_create(p)
  PROVE  IInv'
<1> USE DEF Holding, AtDirectory, OnTheWal, CaughtUp, At
<1>2. /\ procs'[p].pc = "opening" /\ procs'[p].group = procs[p].group /\ At(p, "closed")
      /\ \A q \in Processes \ {p} : procs'[q] = procs[q]
      /\ procs' \in [Processes -> Leases]
  BY DEF open_or_create, Goto, IInv, Types, Leases, Pcs
<1>3. CASE published # "no"
  <2>1. UNCHANGED store
    BY <1>3 DEF open_or_create
  <2>2. Types'
    BY <1>2, <2>1 DEF IInv, Types, store, open_or_create, Inodes
  <2>3. Named'
    BY <1>2, <1>3, <2>1 DEF IInv, Named, store, open_or_create, Inodes, Wals
  <2>4. Locked'
    BY <1>2, <2>1 DEF IInv, Locked, store, open_or_create
  <2>5. Known'
    BY Zenon, <1>2, <2>1 DEF IInv, Known, store, open_or_create, Inodes
  <2>6. Durable'
    BY <2>1 DEF IInv, Durable, store, open_or_create, Wals
  <2> QED
    BY <2>2, <2>3, <2>4, <2>5, <2>6 DEF IInv
<1>4. CASE published = "no"
  <2> DEFINE new == NewInode(<<>>, None)
  <2>1. /\ inodes' = Append(inodes, new) /\ dir' = [wal |-> Len(inodes'), temp |-> None]
        /\ synced_dir' = dir' /\ published' = "yes" /\ acked' = acked
    BY <1>4 DEF open_or_create, initialize_unpublished_store
  <2>2. /\ inodes' \in Seq(Range(inodes')) /\ Len(inodes') = Len(inodes) + 1 /\ Len(inodes) \in Nat
        /\ inodes'[Len(inodes')] = new /\ \A i \in Inodes : inodes'[i] = inodes[i]
    BY <2>1, OneMoreFile DEF IInv, Types, Inodes
  <2>3. IsFile(new) /\ IsWal(new) /\ new.frames = <<>> /\ new.synced = 0
    BY DEF IsFile, IsWal, NewInode
  <2>4. \A q \in Processes : At(q, "closed")
    BY <1>4 DEF IInv, Named
  <2>5. \A t \in Tx : acked[t] = None
    BY <1>4 DEF IInv, Durable
  <2>6. Types'
    BY <1>2, <2>1, <2>2, <2>3 DEF IInv, Types, IsDir, Inodes
  <2>7. Named'
    BY <1>2, <2>1, <2>2, <2>3, <2>4 DEF Named, Wals, Inodes
  <2>8. Locked' /\ Known'
    BY ZenonT(60), <1>2, <2>4 DEF IInv, Locked, Known, Remembered
  <2>9. Durable'
    <3>1. Lasting(new, acked)
      <4>1. Keeps(<<>>, acked)
        BY <2>5 DEF Keeps, Transactions, Range
      <4> QED
        BY <2>3, <4>1, OneOutcome
    <3> QED
      BY <2>1, <2>2, <2>5, <3>1 DEF Durable, Wals
  <2> QED
    BY <2>6, <2>7, <2>8, <2>9 DEF IInv
<1> QED
  BY <1>3, <1>4

LEMMA OpenWithSyncStep ==
  ASSUME StoreAssumption, IInv, NEW p \in Processes, open_with_sync(p)
  PROVE  IInv'
<1> USE DEF Holding, AtDirectory, OnTheWal, CaughtUp, At
<1>0. /\ procs[p].pc = "opening" /\ published # "no" /\ dir.wal \in Inodes /\ \A d \in Wals : d \in Inodes
      /\ inodes' = SyncedFile(dir.wal) /\ published' = "synced"
      /\ synced_dir' = dir /\ dir' = dir /\ dir_lock' = dir_lock /\ acked' = acked
  BY DEF open_with_sync, IInv, Named, Wals
<1>1. /\ inodes' \in Seq(Range(inodes')) /\ Inodes' = Inodes
      /\ \A j \in Inodes : IsFile(inodes'[j])
      /\ \A j \in Inodes : inodes'[j].frames = inodes[j].frames
      /\ \A j \in Inodes : inodes'[j].lock = inodes[j].lock
      /\ \A j \in Inodes : j # dir.wal => inodes'[j] = inodes[j]
      /\ inodes'[dir.wal].synced = Len(inodes[dir.wal].frames)
  BY <1>0, FileSynced DEF IInv, Inodes
<1>2. /\ procs'[p].pc = "open" /\ procs'[p].group = procs[p].group
      /\ \A q \in Processes \ {p} : procs'[q] = procs[q]
      /\ procs' \in [Processes -> Leases]
  BY ZenonT(60) DEF open_with_sync, Goto, IInv, Types, Leases, Pcs
<1>3. Types'
  BY <1>0, <1>1, <1>2 DEF IInv, Types
<1>4. Durable' /\ \A d \in Wals' : d \in Inodes' /\ IsWal(inodes'[d])
  <2>1. ASSUME NEW d \in Wals
        PROVE  /\ d \in Inodes' /\ inodes'[d].frames = inodes[d].frames
               /\ \/ inodes'[d].synced = inodes[d].synced
                  \/ inodes'[d].synced = Len(inodes[d].frames)
    <3>1. d \in Inodes
      BY <1>0
    <3> QED
      BY <1>1, <3>1
  <2>2. Wals' \subseteq Wals
    BY <1>0 DEF Wals
  <2> QED
    BY <1>0, <2>1, <2>2, Rests
<1>5. Named'
  BY <1>0, <1>2, <1>4 DEF IInv, Named
<1>6. Locked'
  BY <1>0, <1>1, <1>2 DEF IInv, Locked
<1>7. Known'
  <2>1. ASSUME NEW q \in Processes, procs'[q].pc = "written"
        PROVE  dir'.temp \in Inodes' /\ inodes'[dir'.temp].synced = Len(inodes'[dir'.temp].frames)
    <3>1. procs[q].pc = "written" /\ dir.temp \in Inodes /\ inodes[dir.temp].synced = Len(inodes[dir.temp].frames)
      BY <1>2, <2>1 DEF IInv, Known
    <3> QED
      BY <1>0, <1>1, <3>1
  <2>2. inodes'[dir'.wal].frames = inodes[dir.wal].frames /\ inodes'[dir'.wal].synced = Len(inodes'[dir'.wal].frames)
    BY <1>0, <1>1
  <2> QED
    BY ZenonT(60), <1>0, <1>2, <2>1, <2>2 DEF IInv, Known
<1> QED
  BY <1>3, <1>4, <1>5, <1>6, <1>7 DEF IInv

\* The files, the directory and what was acknowledged stay as they are.
LEMMA StoreRests ==
  ASSUME IInv, UNCHANGED <<inodes, dir, synced_dir, published, acked>>,
         procs' \in [Processes -> Leases],
         \A q \in Processes : /\ procs'[q].pc # "closed" => procs[q].pc # "closed"
                              /\ procs'[q].pc \notin {"closed", "opening"} =>
                                   procs[q].pc \notin {"closed", "opening"}
  PROVE  Types' /\ Named' /\ Durable'
<1>1. Types'
  BY DEF IInv, Types, Inodes
<1>2. Named'
  BY DEF IInv, Named, Wals, Inodes, At
<1>3. Durable'
  BY DEF IInv, Durable, Wals
<1> QED
  BY <1>1, <1>2, <1>3

LEMMA LockDirectoryStep ==
  ASSUME StoreAssumption, IInv, NEW p \in Processes, lock_directory(p)
  PROVE  IInv'
<1> USE DEF Holding, AtDirectory, OnTheWal, CaughtUp, At
<1>0. /\ procs[p].pc = "open" /\ dir_lock = None /\ dir_lock' = p
      /\ UNCHANGED <<inodes, dir, synced_dir, published, acked>>
  BY DEF lock_directory, store
<1>1. dir.wal \in Nat
  BY <1>0 DEF IInv, Named, Wals, Inodes
<1>2. /\ procs'[p].pc = "leasing" /\ procs'[p].fd = dir.wal /\ procs'[p].group = procs[p].group
      /\ \A q \in Processes \ {p} : procs'[q] = procs[q]
      /\ procs' \in [Processes -> Leases]
  BY ZenonT(60), <1>1 DEF lock_directory, IInv, Types, Leases, Pcs
<1>3. Types' /\ Named' /\ Durable'
  BY <1>0, <1>2, StoreRests
<1>4. Locked'
  <2>1. \A q \in Processes : procs[q].pc \notin AtDirectory
    BY <1>0 DEF IInv, Locked, StoreAssumption
  <2> QED
    BY <1>0, <1>2, <2>1 DEF IInv, Locked
<1>5. Known'
  BY Zenon, <1>0, <1>2 DEF IInv, Known, Inodes
<1> QED
  BY <1>3, <1>4, <1>5 DEF IInv

LEMMA AcquireStep ==
  ASSUME StoreAssumption, IInv, NEW p \in Processes, acquire(p)
  PROVE  IInv'
<1> USE DEF Holding, AtDirectory, OnTheWal, CaughtUp, At
<1>0. /\ procs[p].pc = "leasing" /\ procs[p].fd = dir.wal
      /\ UNCHANGED <<dir, synced_dir, published, acked>>
      /\ published = "synced" /\ dir.wal \in Inodes /\ \A d \in Wals : d \in Inodes
  BY DEF acquire, IInv, Named, Locked, Wals
<1>1. CASE Leave(p)
  BY <1>0, <1>1, LeaveStep
<1>2. CASE /\ inodes[dir.wal].lock = None /\ inodes' = [inodes EXCEPT ![dir.wal].lock = p]
           /\ Goto(p, "locked") /\ UNCHANGED locks
  <2>1. /\ inodes' \in Seq(Range(inodes')) /\ Inodes' = Inodes
        /\ \A j \in Inodes : IsFile(inodes'[j])
        /\ \A j \in Inodes : inodes'[j].frames = inodes[j].frames
        /\ \A j \in Inodes : inodes'[j].synced = inodes[j].synced
        /\ inodes'[dir.wal].lock = p
    <3>1. Types /\ dir.wal \in Inodes /\ inodes' = LockedFile(dir.wal, p)
      BY <1>0, <1>2 DEF IInv, LockedFile
    <3>2. /\ inodes' \in Seq(Range(inodes')) /\ Len(inodes') = Len(inodes)
          /\ \A j \in Inodes : IsFile(inodes'[j])
          /\ \A j \in Inodes : inodes'[j].frames = inodes[j].frames
          /\ \A j \in Inodes : inodes'[j].synced = inodes[j].synced
          /\ inodes'[dir.wal].lock = p
      BY <3>1, FileLocked
    <3> QED
      BY <3>2 DEF Inodes
  <2>2. /\ procs'[p].pc = "locked" /\ procs'[p].group = procs[p].group /\ procs'[p].fd = procs[p].fd
        /\ \A q \in Processes \ {p} : procs'[q] = procs[q]
        /\ procs' \in [Processes -> Leases]
    <3>1. procs \in [Processes -> Leases] /\ procs' = [procs EXCEPT ![p].pc = "locked"]
      BY <1>2 DEF Goto, IInv, Types
    <3> QED
      BY <3>1 DEF Leases, Pcs
  <2>3. Types'
    BY <1>0, <2>1, <2>2 DEF IInv, Types
  <2>4. Durable' /\ \A d \in Wals' : d \in Inodes' /\ IsWal(inodes'[d])
    <3>1. \A d \in Wals : /\ d \in Inodes' /\ inodes'[d].frames = inodes[d].frames
                          /\ inodes'[d].synced = inodes[d].synced
      BY <1>0, <2>1
    <3>2. Wals' \subseteq Wals
      BY <1>0 DEF Wals
    <3> QED
      BY <1>0, <3>1, <3>2, Rests
  <2>5. Named'
    BY <1>0, <2>2, <2>4 DEF IInv, Named
  <2>6. \A q \in Processes \ {p} : procs[q].pc \notin Holding
    <3>1. \A q \in Processes \ {p} : procs[q].pc # "swapped"
      BY <1>0 DEF IInv, Locked
    <3> QED
      BY <1>0, <1>2, <3>1 DEF IInv, Locked, StoreAssumption
  <2>7. Locked'
    BY <1>0, <1>2, <2>1, <2>2, <2>6 DEF IInv, Locked, locks
  <2>8. Known'
    BY <1>0, <2>2, <2>6 DEF IInv, Known, Remembered
  <2> QED
    BY <2>3, <2>4, <2>5, <2>7, <2>8 DEF IInv
<1> QED
  BY <1>0, <1>1, <1>2 DEF acquire, File

LEMMA TryLeaseStep ==
  ASSUME StoreAssumption, IInv, NEW p \in Processes, try_lease(p)
  PROVE  IInv'
<1> USE DEF Holding, AtDirectory, OnTheWal, CaughtUp, At
<1> DEFINE live == inodes[dir.wal].frames
<1>0. /\ procs[p].pc = "locked" /\ procs[p].fd = dir.wal /\ published = "synced"
      /\ dir.wal \in Inodes /\ IsWal(inodes[dir.wal]) /\ live \in Seq(Frames)
      /\ inodes' = SyncedFile(dir.wal) /\ published' = published
      /\ synced_dir' = dir /\ dir' = dir
      /\ acked' = [t \in Tx |-> IF t \in Transactions(live) THEN StateOf(live, t) ELSE acked[t]]
  BY DEF try_lease, IInv, Named, Wals, Locked, File, IsWal
<1>1. /\ inodes' \in Seq(Range(inodes')) /\ Inodes' = Inodes
      /\ \A j \in Inodes : IsFile(inodes'[j])
      /\ inodes'[dir.wal].frames = live
      /\ inodes'[dir.wal].lock = inodes[dir.wal].lock
      /\ inodes'[dir.wal].synced = Len(live)
  BY ZenonT(60), <1>0, FileSynced DEF IInv, Inodes
<1>2. /\ procs'[p].pc = "leased" /\ procs'[p].group = procs[p].group /\ procs'[p].fd = procs[p].fd
      /\ \A q \in Processes \ {p} : procs'[q] = procs[q]
      /\ procs' \in [Processes -> Leases]
  BY DEF try_lease, Goto, IInv, Types, Leases, Pcs
<1>3. \A q \in Processes \ {p} : procs[q].pc \notin Holding /\ procs[q].pc \notin AtDirectory
  BY <1>0 DEF IInv, Locked
<1>4. \A t \in Transactions(live) : StateOf(live, t) \in {Live, Done}
  BY ZenonT(60), <1>0, LastFrame
<1>5. Types'
  <2>1. acked' \in [Tx -> {Live, Done, None}]
    BY <1>0, <1>4 DEF IInv, Types
  <2> QED
    BY Zenon, <1>0, <1>1, <1>2, <2>1 DEF IInv, Types
<1>6. IsWal(inodes'[dir.wal])
  BY <1>0, <1>1 DEF IsWal
<1>7. Wals' = {dir.wal}
  BY <1>0 DEF Wals
<1>8. Named'
  BY <1>0, <1>1, <1>2, <1>6, <1>7 DEF IInv, Named
<1>9. Locked'
  BY <1>0, <1>1, <1>2, <1>3 DEF IInv, Locked
<1>10. Known'
  <2>1. \A t \in Transactions(live) : t \in Tx
    BY <1>0, FramesNameTransactions
  <2>2. Agrees(live, acked', {})
    BY <1>0, <2>1 DEF Agrees
  <2>3. procs'[p].group = None
    BY ZenonT(60), <1>0, <1>2 DEF IInv, Known
  <2>4. \A q \in Processes \ {p} : procs[q].group = None
    BY Zenon, <1>3 DEF IInv, Known
  <2>5. /\ inodes'[dir'.wal].frames = live /\ inodes'[dir'.wal].synced = Len(live)
        /\ synced_dir'.wal = dir'.wal
    BY <1>0, <1>1
  <2>6. procs'[p].pc = "leased"
    BY <1>2
  <2>7. \A q \in Processes \ {p} : procs'[q].pc \notin Holding /\ procs'[q].group = None
    BY <1>2, <1>3, <2>4
  <2> HIDE DEF live
  <2> QED
    BY <2>2, <2>3, <2>5, <2>6, <2>7 DEF Known, Remembered
<1>11. Keeps(live, acked)
  BY <1>0, WholeIsKept DEF IInv, Durable, Wals
<1>12. Keeps(live, acked')
  <2>1. ASSUME NEW t \in Tx, acked'[t] # None
        PROVE  IF t \in Transactions(live)
               THEN acked'[t] = Done => StateOf(live, t) = Done
               ELSE acked'[t] = Done
    BY <1>0, <1>11, <2>1 DEF Keeps
  <2>2. ASSUME NEW t \in Tx, NEW u \in Tx, Group[t] # None, Group[t] = Group[u], acked'[u] # None,
               acked'[t] = Live \/ (t \in Transactions(live) /\ StateOf(live, t) = Live)
        PROVE  u \in Transactions(live)
    <3>1. CASE u \notin Transactions(live)
      <4>1. acked'[u] = acked[u]
        BY <1>0, <3>1
      <4>2. acked[t] = Live \/ (t \in Transactions(live) /\ StateOf(live, t) = Live)
        BY <1>0, <2>2
      <4> QED
        BY <1>11, <2>2, <4>1, <4>2 DEF Keeps
    <3> QED
      BY <3>1
  <2> QED
    BY <2>1, <2>2 DEF Keeps
<1>13. Durable'
  <2>1. Lasting(inodes'[dir.wal], acked')
    BY <1>1, <1>6, <1>12, OneOutcome
  <2> QED
    BY <1>0, <1>7, <2>1 DEF Durable
<1> QED
  BY <1>5, <1>8, <1>9, <1>10, <1>13 DEF IInv

LEMMA CompactionChoiceStep ==
  ASSUME StoreAssumption, IInv, NEW p \in Processes, skip_compaction(p) \/ begin_compaction(p)
  PROVE  IInv'
<1> USE DEF Holding, AtDirectory, OnTheWal, CaughtUp, At
<1>0. /\ procs[p].pc = "leased" /\ procs[p].fd = dir.wal
      /\ UNCHANGED <<inodes, dir, synced_dir, published, acked>>
      /\ \/ dir_lock' = dir_lock /\ Goto(p, "writing")
         \/ dir_lock = None /\ dir_lock' = p /\ Goto(p, "compacting")
  BY DEF skip_compaction, begin_compaction, store, locks, IInv, Locked
<1>1. /\ procs'[p].pc \in {"writing", "compacting"}
      /\ procs'[p].group = procs[p].group /\ procs'[p].fd = procs[p].fd
      /\ \A q \in Processes \ {p} : procs'[q] = procs[q]
      /\ procs' \in [Processes -> Leases]
      /\ procs'[p].pc = "compacting" => dir_lock = None /\ dir_lock' = p
      /\ procs'[p].pc = "writing" => dir_lock' = dir_lock
  <2>1. procs \in [Processes -> Leases]
    BY DEF IInv, Types
  <2> QED
    BY <1>0, <2>1 DEF Goto, Leases, Pcs
<1>2. \A q \in Processes \ {p} : procs[q].pc \notin Holding
  BY <1>0 DEF IInv, Locked
<1>3. procs[p].group = None
  BY ZenonT(60), <1>0 DEF IInv, Known
<1>4. Types' /\ Named' /\ Durable'
  BY Zenon, <1>0, <1>1, StoreRests
<1>5. Locked'
  <2>1. procs'[p].pc = "compacting" => \A q \in Processes : procs[q].pc \notin AtDirectory
    BY Zenon, <1>0, <1>1 DEF IInv, Locked, StoreAssumption
  <2> QED
    BY ZenonT(60), <1>0, <1>1, <1>2, <2>1 DEF IInv, Locked
<1>6. Known'
  BY Zenon, <1>0, <1>1, <1>2, <1>3 DEF IInv, Known, Inodes
<1> QED
  BY <1>4, <1>5, <1>6 DEF IInv
=============================================================================
