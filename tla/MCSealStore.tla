----------------------------- MODULE MCSealStore ----------------------------
(***************************************************************************)
(* The store of the WAL (SealWalStore), its frames on disk (WalFrames) and *)
(* the room kept free in it (WalRoom).  t1 and t2 are staged by one        *)
(* command; t3 has no production association.                              *)
(***************************************************************************)
EXTENDS Naturals, Sequences, TLC

CONSTANTS p1, p2, t1, t2, t3, grp, None

VARIABLES
  part,  \* the component, and its bounds, this behaviour is about
  inodes, dir, synced_dir, published, parent_lock, dir_lock, procs, acked,
  faults, file, synced, wal, written, last, answer, g, tx, cache, run, full,
  limit, opens

GroupOf == [t \in {t1, t2, t3} |-> IF t \in {t1, t2} THEN grp ELSE None]

ProcessSymmetry == Permutations({p1, p2})

Large == [src |-> 6, dst |-> {1, 2}, rel |-> <<1, 1, 0>>, assessed |-> TRUE]
Small == [src |-> 1, dst |-> {3}, rel |-> <<0>>, assessed |-> TRUE]
Unassessed == [src |-> 1, dst |-> {1}, rel |-> <<0>>, assessed |-> FALSE]

\* As in WalFrames.
DotDot == 0

Root == 9

Metadata ==
    [source |-> <<<<1>>, <<4>>>>, source_id |-> <<11, 5>>, source_name |-> <<2>>,
     root_id |-> <<12, 5>>, dest |-> <<<<3>>, <<4>>>>, dest_id |-> <<13, 5>>,
     dest_name |-> <<2>>, backend |-> 1, strategy |-> <<>>, association |-> <<>>,
     anchor |-> <<>>]

Anchor == <<<<Root, 1>>>>

Begins ==
    {<<"begin", 1, m>> : m \in
        {Metadata,
         [Metadata EXCEPT !.association = <<<<6>>>>, !.anchor = Anchor],
         [Metadata EXCEPT !.association = <<<<6>>>>],
         [Metadata EXCEPT !.association = <<<<6, 6, 6>>>>, !.anchor = Anchor],
         [Metadata EXCEPT !.anchor = Anchor],
         [Metadata EXCEPT !.anchor = <<<<1>>>>],
         [Metadata EXCEPT !.source[1] = <<>>],
         [Metadata EXCEPT !.source[1] = <<DotDot>>],
         [Metadata EXCEPT !.source[1] = <<1, 1, 1, 1, 1, 1, 1, 1>>],
         [Metadata EXCEPT !.dest[1] = <<1>>],
         [Metadata EXCEPT !.root_id[2] = 6],
         [Metadata EXCEPT !.strategy = <<Metadata.source, Metadata.source_id, 3>>],
         [Metadata EXCEPT !.strategy = <<Metadata.source, Metadata.source_id, 5>>],
         [Metadata EXCEPT !.strategy = <<Metadata.dest, Metadata.source_id, 3>>]}}

Intent(t, mutation, path, mode, reverses) ==
    <<"intent", t, mutation, path, <<<<4>>>>, 11, <<7>>, mode, 5, mode, reverses>>

Commitment ==
    [dest |-> Metadata.dest, dest_id |-> Metadata.dest_id, dest_name |-> Metadata.dest_name,
     root_id |-> Metadata.root_id, manifest |-> <<3, 2, 21>>]

Intents2 ==
    {Intent(1, 0, <<>>, 3, <<>>), Intent(1, 1, <<1, 2>>, 3, <<0>>), Intent(2, 0, <<1>>, 3, <<>>),
     Intent(1, 0, <<DotDot>>, 3, <<>>), Intent(1, 1, <<1>>, 8, <<>>),
     [Intent(1, 1, <<1>>, 3, <<>>) EXCEPT ![8] = 5],
     [Intent(1, 1, <<1>>, 3, <<>>) EXCEPT ![9] = 8]}

Others ==
    {<<"state", 1, "Prepared">>, <<"state", 1, "SourceParentRestored">>,
     <<"state", 2, "UndoIntent">>, <<"state", 1, "PurgeIntent">>,
     <<"applied", 1, 0>>, <<"not_applied", 1, 1>>,
     <<"manifest", 1, <<2, 2, 21>>>>, <<"manifest", 1, <<1, 2, 21>>>>,
     <<"sidecar", 1, <<3, 2, 21>>, <<1, 1, 2, 22>>>>,
     <<"sidecar", 1, <<3, 2, 21>>, <<2, 1, 2, 22>>>>,
     <<"rename_intent", 1>>, <<"rename_outcome", 1, 1, <<12, 5>>>>,
     <<"rename_outcome", 1, 2, <<12, 5>>>>, <<"undo_outcome", 1, 2, <<12, 5>>>>,
     <<"authorized", 1, Commitment>>, <<"claimed", 1, Commitment>>,
     <<"progress", 1, 2, <<>>>>, <<"progress", 1, 1, <<1>>>>}

Wide == Begins \cup Intents2 \cup Others

Few ==
    {Intent(1, 0, <<1>>, 3, <<>>), Intent(2, 0, <<1>>, 3, <<>>), <<"applied", 1, 0>>,
     <<"state", 2, "Prepared">>}

\* Two processes, a WAL of four frames, one failure.
Store ==
  INSTANCE SealWalStore WITH Processes <- {p1, p2}, Tx <- {t1, t2, t3},
    Group <- GroupOf, MAX_WAL_LEN <- 4, COMPACTION_PRESSURE_LEN <- 4,
    COMPACTION_MIN_RECLAIMED_BYTES <- 2, COMPACTION_MIN_RECLAIMED_SHARE <- 2,
    MaxFaults <- 1

\* Every kind of record, sound and unsound, written by this and by earlier
\* releases.
Frames ==
  INSTANCE WalFrames WITH Records <- Wide, LegacyVersions <- {6, 12},
    MaxWalLen <- 120, Garbage <- {99}, MaxFrames <- 2, MaxFaults <- 0,
    MaxDamage <- 0, NewerVersion <- 14, MaxPayload <- 36, MaxAssociation <- 2,
    MaxMode <- 7, ExclusiveModes <- {3}, MaxOpens <- 2, MaxReads <- 1

\* Few records, a failed write or power cut, and a damaged byte.
Torn ==
  INSTANCE WalFrames WITH Records <- Few, LegacyVersions <- {3, 10, 11},
    MaxWalLen <- 70, Garbage <- {30}, MaxFrames <- 2, MaxFaults <- 1,
    MaxDamage <- 1, NewerVersion <- 14, MaxPayload <- 36, MaxAssociation <- 2,
    MaxMode <- 7, ExclusiveModes <- {3}, MaxOpens <- 2, MaxReads <- 1

\* Too little room for either tree, enough for one of them, and enough for
\* both but not for a retry.
Room ==
  INSTANCE WalRoom WITH Items <- <<Large, Small>>, Limits <- {30, 87, 124},
    Pressure <- 60, MinReclaimed <- 8, MaxOpens <- 1

\* A tree only the seal can walk comes first: enough room for the second tree
\* beside the round trip of the first, and not beside its whole life.
Deferred ==
  INSTANCE WalRoom WITH Items <- <<Unassessed, Large>>, Limits <- {98},
    Pressure <- 60, MinReclaimed <- 8, MaxOpens <- 1

ASSUME Store!StoreAssumption

\* A behaviour is one of one component; the variables of the others rest.
vars == <<part, inodes, dir, synced_dir, published, parent_lock, dir_lock,
          procs, acked, faults, file, synced, wal, written, last, answer, g,
          tx, cache, run, full, limit, opens>>

Init ==
  \/ /\ part = "store" /\ Store!Init
     /\ file = 0 /\ synced = 0 /\ wal = 0 /\ written = 0 /\ last = 0
     /\ answer = 0 /\ g = 0 /\ tx = 0 /\ cache = 0 /\ run = 0 /\ full = 0
     /\ limit = 0 /\ opens = 0
  \/ /\ part = "frames" /\ Frames!Init
     /\ inodes = 0 /\ dir = 0 /\ synced_dir = 0 /\ published = 0
     /\ parent_lock = 0 /\ dir_lock = 0 /\ procs = 0 /\ acked = 0
     /\ faults = 0 /\ tx = 0 /\ cache = 0 /\ run = 0 /\ full = 0
     /\ limit = 0 /\ opens = 0
  \/ /\ part = "torn" /\ Torn!Init
     /\ inodes = 0 /\ dir = 0 /\ synced_dir = 0 /\ published = 0
     /\ parent_lock = 0 /\ dir_lock = 0 /\ procs = 0 /\ acked = 0
     /\ faults = 0 /\ tx = 0 /\ cache = 0 /\ run = 0 /\ full = 0
     /\ limit = 0 /\ opens = 0
  \/ /\ part = "room" /\ Room!Init
     /\ inodes = 0 /\ dir = 0 /\ synced_dir = 0 /\ published = 0
     /\ parent_lock = 0 /\ dir_lock = 0 /\ procs = 0 /\ acked = 0
     /\ faults = 0 /\ file = 0 /\ synced = 0 /\ wal = 0 /\ written = 0
     /\ last = 0 /\ answer = 0 /\ g = 0
  \/ /\ part = "deferred" /\ Deferred!Init
     /\ inodes = 0 /\ dir = 0 /\ synced_dir = 0 /\ published = 0
     /\ parent_lock = 0 /\ dir_lock = 0 /\ procs = 0 /\ acked = 0
     /\ faults = 0 /\ file = 0 /\ synced = 0 /\ wal = 0 /\ written = 0
     /\ last = 0 /\ answer = 0 /\ g = 0

Next ==
  /\ part' = part
  /\ \/ /\ part = "store" /\ Store!Next
        /\ UNCHANGED <<file, synced, wal, written, last, answer, g, tx, cache,
                       run, full, limit, opens>>
     \/ /\ part = "frames" /\ Frames!Next
        /\ UNCHANGED <<inodes, dir, synced_dir, published, parent_lock,
                       dir_lock, procs, acked, faults, tx, cache, run, full,
                       limit, opens>>
     \/ /\ part = "torn" /\ Torn!Next
        /\ UNCHANGED <<inodes, dir, synced_dir, published, parent_lock,
                       dir_lock, procs, acked, faults, tx, cache, run, full,
                       limit, opens>>
     \/ /\ part = "room" /\ Room!Next
        /\ UNCHANGED <<inodes, dir, synced_dir, published, parent_lock,
                       dir_lock, procs, acked, faults, file, synced, wal,
                       written, last, answer, g>>
     \/ /\ part = "deferred" /\ Deferred!Next
        /\ UNCHANGED <<inodes, dir, synced_dir, published, parent_lock,
                       dir_lock, procs, acked, faults, file, synced, wal,
                       written, last, answer, g>>
     \* These end: their budget is spent, or the call has returned.
     \/ part \in {"room", "deferred"} /\ UNCHANGED vars

Spec == Init /\ [][Next]_vars

-----------------------------------------------------------------------------
(* Properties *)

\* One session at a time, on the WAL the store's name leads to.
\* - No two processes are ever past try_lease, whatever the one does to the
\*   entry the other opened: compaction replaces the file both lock.
\* - A writer never appends to a file the store's name no longer leads to:
\*   frames written there would be acknowledged and never replayed.
OneSession ==
  part = "store" =>
    /\ Store!TypeOK
    /\ Store!OneSession
    /\ Store!WriterHoldsTheLiveWal

\* Nothing acknowledged is lost.
\* - Whatever the power leaves, at any step of publication, lease, append or
\*   rewrite, a transaction of which a frame was acknowledged is there, and no
\*   further back than acknowledged; only one that is done with may be gone.
\* - As long as one member of a group has something left, every acknowledged
\*   member is in the WAL, in whatever a loss of power leaves
\*   (compaction_dropped_transactions).
AcknowledgedSurvives ==
  part = "store" =>
    /\ Store!AcknowledgedSurvives
    /\ Store!UndoMappingSurvives

\* What the releases wrote is what is read.
\* - An open that succeeds has read exactly a prefix of what the releases
\*   wrote, and that prefix holds every frame that was on the disk: no damaged
\*   frame is taken for an unfinished tail and cut off with what follows it
\*   (parse_frames, replay_and_repair).
\* - A file nothing hurt always opens, whatever an append admitted or an
\*   earlier release wrote, and wherever the last write was cut.
\* - A record read back is the very intent the ledger indexed; a frame that no
\*   longer holds it is refused, and only a hurt file refuses
\*   (read_permission_record).
LogOpensAsWritten ==
  /\ part = "frames" =>
       /\ Frames!TypeOK
       /\ Frames!OpenedIsAPrefix
       /\ Frames!UnhurtLogOpens
       /\ Frames!ReadBackIsExact
  /\ part = "torn" =>
       /\ Torn!TypeOK
       /\ Torn!OpenedIsAPrefix
       /\ Torn!UnhurtLogOpens
       /\ Torn!ReadBackIsExact

\* What was admitted fits.
\* - Once a transaction has been admitted no frame of it, or of any entry
\*   already in the trash, finds the WAL full, through commit, rollback,
\*   quarantine, undo, purge, refusal, retry and crash.
\* - The allowances add up: what is committed and what the settled entries hold
\*   never pass the limit while no transaction is part way.
\* - A cached allowance is what measuring again would give: nothing a settled
\*   transaction holds changes while its state stays.
\* - What the preview says fits, staging admits, whatever the items before it
\*   turn out to do and whether or not the lease compacts, unless another
\*   command changed the trash in between or an earlier tree, deferred by the
\*   preview, took more than the round trip it was charged.
AdmittedNeverFull ==
  /\ part = "room" =>
       /\ Room!AdmittedNeverFull
       /\ Room!ReservesFit
       /\ Room!CacheIsCurrent
       /\ Room!PromiseKept
  /\ part = "deferred" =>
       /\ Deferred!AdmittedNeverFull
       /\ Deferred!ReservesFit
       /\ Deferred!CacheIsCurrent
       /\ Deferred!PromiseKept
=============================================================================
