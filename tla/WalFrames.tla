----------------------------- MODULE WalFrames -----------------------------
(***************************************************************************)
(* The bytes of the seal WAL: how a record becomes a frame, how a file of  *)
(* frames is read back, and how one indexed frame is read again later.     *)
(* seal/wal.rs encodes every record at one version and decodes the frames  *)
(* of every release before it, so the file is a history written by several *)
(* programs: the frames of earlier releases, then those of this one.       *)
(*                                                                         *)
(* A unit of the file stands for one fixed-width field (a tag, a number, a *)
(* digest) or for one byte of a length-prefixed field.  Byte strings are   *)
(* sequences: in a path a positive number is a normal component, DotDot is *)
(* "..", and Root opens an absolute path.  A checksum is the sequence it   *)
(* was computed over, so two of them agree only when the bytes do.         *)
(*                                                                         *)
(* Which record may follow which (the transaction's states) is SealWal's;  *)
(* here a record is admitted on what it carries.                           *)
(***************************************************************************)
EXTENDS Integers, Sequences, SequencesExt, FiniteSets

CONSTANTS
    Records,        \* what the callers of the append side may ask to record
    LegacyVersions, \* frame versions of the releases that wrote before this one
    NewerVersion,   \* a version only a later release writes
    MaxPayload,     \* MAX_PAYLOAD_LEN, in units
    MaxWalLen,      \* MAX_WAL_LEN, in units
    MaxAssociation, \* the longest reclamation id a record carries
    MaxMode,        \* the largest mode inside the 0o7777 mask
    ExclusiveModes, \* the modes of a parent only its owner can rearrange
    Garbage,        \* what a damaged unit may hold
    MaxFrames,      \* bound: frames ever written
    MaxFaults,      \* bound: failed writes and power cuts
    MaxDamage,      \* bound: damaged units
    MaxOpens,       \* bound: sessions
    MaxReads        \* bound: records read back

VARIABLES
    file,           \* the units of the WAL file
    synced,         \* length known to be on the disk
    wal,            \* the session holding the lease
    written,        \* every whole frame in the file, as its writer meant it
    last,           \* what the last open found
    answer,         \* what the last read of an indexed record answered
    g               \* bounds, and whether the bytes were hurt

vars == <<file, synced, wal, written, last, answer, g>>

VERSION == 13

SIDECAR_VERSION == 12

HEADER_LEN == 6

DotDot == 0

Root == 9

NotUtf8 == 8

-----------------------------------------------------------------------------
(***************************************************************************)
(* Units and checksums.                                                    *)
(***************************************************************************)
Num(n) == <<"num", n>>

crc32(units) == <<"crc", units>>

Nums(s) == [i \in 1 .. Len(s) |-> Num(s[i])]

Transactions == {r[2] : r \in Records}

MAGIC == <<"magic", 0>>

Zero == Num(0)

(***************************************************************************)
(* Values the records carry.                                               *)
(***************************************************************************)
Normal(component) == component \notin {DotDot, Root}

staging_path_is_confined(path) == \A i \in 1 .. Len(path) : Normal(path[i])

is_confined_relative_path(path) ==
    path # <<>> /\ \A i \in 1 .. Len(path) : Normal(path[i])

recovery_anchor_path_is_normal(path) ==
    /\ path # <<>>
    /\ Head(path) = Root
    /\ \A i \in 2 .. Len(path) : Normal(path[i])

Utf8(bytes) == \A i \in 1 .. Len(bytes) : bytes[i] # NotUtf8

mode_is_exclusive_parent(mode) == mode <= MaxMode /\ mode \in ExclusiveModes

normal_name(name) == Len(name) = 1 /\ Normal(name[1])

StagingLocator(path, filesystem_id) ==
    staging_path_is_confined(path) /\ filesystem_id # <<>>

new_evidence(path, allow_anchor) ==
    is_confined_relative_path(path) \/ (allow_anchor /\ path = <<>>)

ProductionAssociation(reclamation_id) ==
    reclamation_id # <<>> /\ Len(reclamation_id) <= MaxAssociation

strategy_is_bound(m) ==
    \/ m.strategy = <<>>
    \/ /\ m.strategy # <<>>
       /\ m.strategy[1] = m.source
       /\ m.strategy[2] = m.source_id
       /\ mode_is_exclusive_parent(m.strategy[3])

invariants_hold(m) ==
    /\ StagingLocator(m.source[1], m.source[2])
    /\ StagingLocator(m.dest[1], m.dest[2])
    /\ m.source[2] = m.dest[2]
    /\ m.source_id[2] # 0
    /\ m.source_id[2] = m.root_id[2]
    /\ m.root_id[2] = m.dest_id[2]
    /\ normal_name(m.source_name)
    /\ normal_name(m.dest_name)
    /\ m.source[1] # m.dest[1] \/ m.source_name # m.dest_name
    /\ strategy_is_bound(m)
    /\ m.anchor # <<>> => recovery_anchor_path_is_normal(m.anchor[1])
    /\ m.association # <<>> => ProductionAssociation(m.association[1])

ProductionIsAnchored(m) == m.association # <<>> => m.anchor # <<>>

-----------------------------------------------------------------------------
(***************************************************************************)
(* Encoding.  `v` is the version of the release that writes: this one      *)
(* writes VERSION, and the forms below it are those of earlier releases,   *)
(* which lacked the fields added since.                                    *)
(***************************************************************************)
put_bytes(bytes) == <<Len(bytes)>> \o bytes

put_optional_bytes(bytes) == IF bytes = <<>> THEN <<0>> ELSE <<1>> \o put_bytes(bytes[1])

put_optional_u64(value) == IF value = <<>> THEN <<0>> ELSE <<1, value[1]>>

encode_strong_identity(id, v) == IF v >= 4 THEN <<id[1], id[2]>> ELSE <<id[1]>>

encode_locator(locator) == put_bytes(locator[1]) \o put_bytes(locator[2])

StateNames ==
    <<"Prepared", "ParentSealIntent", "ParentSealed", "TreeSealIntent", "TreeSealed",
      "RenameIntent", "StagedUnverified", "StagedSealed", "VerifiedCommitted",
      "Purgeable", "Purged", "RollbackIntent", "RolledBack", "RestoreIntent",
      "Restored", "Quarantined", "RecoveryRequired", "SourceParentRestoreIntent",
      "SourceParentRestored", "UndoIntent", "UndoModesRestored", "UndoRenameIntent",
      "UndoConflict", "PurgeIntent", "PurgeOutcome">>

encode_state(state) == (CHOOSE i \in 1 .. Len(StateNames) : StateNames[i] = state) - 1

encode_strategy(m, v) ==
    IF m.strategy = <<>> THEN <<1>>
    ELSE <<2>> \o encode_locator(m.strategy[1])
           \o encode_strong_identity(m.strategy[2], v) \o <<m.strategy[3]>>

encode_staging_metadata(m, v) ==
    encode_locator(m.source) \o encode_strong_identity(m.source_id, v)
      \o put_bytes(m.source_name) \o encode_strong_identity(m.root_id, v)
      \o encode_locator(m.dest) \o encode_strong_identity(m.dest_id, v)
      \o put_bytes(m.dest_name) \o <<m.backend>> \o encode_strategy(m, v)
      \o (IF v >= 5 THEN put_optional_bytes(m.association) ELSE <<>>)
      \o (IF v >= 11 THEN put_optional_bytes(m.anchor) ELSE <<>>)

encode_manifest(manifest, v) ==
    IF v >= 7 THEN manifest ELSE SubSeq(manifest, 2, 3)

encode_commitment(c, v) ==
    encode_locator(c.dest) \o encode_strong_identity(c.dest_id, v)
      \o put_bytes(c.dest_name) \o encode_strong_identity(c.root_id, v) \o c.manifest

(***************************************************************************)
(* The intent: mutation, path, file system, object, incarnation, the mode  *)
(* of the evidence, the mode before and the one expected, and the mutation *)
(* it reverses.                                                            *)
(***************************************************************************)
encode_intent(r) ==
    <<r[3]>> \o put_bytes(r[4]) \o put_optional_bytes(r[5]) \o <<r[6]>>
      \o put_optional_u64(r[7]) \o <<r[8], r[9], r[10]>> \o put_optional_u64(r[11])

Tags ==
    [state |-> 1, intent |-> 2, applied |-> 3, not_applied |-> 4, begin |-> 5,
     manifest |-> 6, rename_intent |-> 7, rename_outcome |-> 8, undo_outcome |-> 9,
     authorized |-> 10, claimed |-> 11, progress |-> 12, sidecar |-> 13]

Body(r, v) ==
    CASE r[1] = "state" -> <<encode_state(r[3])>>
      [] r[1] = "intent" -> encode_intent(r)
      [] r[1] \in {"applied", "not_applied"} -> <<r[3]>>
      [] r[1] = "begin" -> encode_staging_metadata(r[3], v)
      [] r[1] = "manifest" -> encode_manifest(r[3], v)
      [] r[1] = "sidecar" -> r[3] \o Tail(r[4])
      [] r[1] = "rename_intent" -> <<>>
      [] r[1] \in {"rename_outcome", "undo_outcome"} ->
            <<r[3]>> \o encode_strong_identity(r[4], v)
      [] r[1] \in {"authorized", "claimed"} -> encode_commitment(r[3], v)
      [] r[1] = "progress" -> <<r[3]>> \o put_bytes(r[4])

encode_record(r, v) == <<Tags[r[1]], r[2]>> \o Body(r, v)

frame_payload(version, payload) ==
    LET header == <<Num(version), Zero, Num(Len(payload))>> IN
    <<MAGIC>> \o header \o <<crc32(header), crc32(Nums(payload))>> \o Nums(payload)

encode_frame(r) ==
    LET payload == encode_record(r, VERSION) IN
    IF r[1] = "manifest" \/ Len(payload) > MaxPayload THEN <<>>
    ELSE frame_payload(VERSION, payload)

-----------------------------------------------------------------------------
(***************************************************************************)
(* Decoding.  decode_X(v) lists the fields X is read from at version v, in *)
(* order, and a body the values it is read from; the cursor reads them one *)
(* by one and keeps their values.  A field that is not there, or a value   *)
(* that may not be, stops it.  A field a version lacks is filled with what *)
(* the decoder puts in its place, and the last name of a list is what is   *)
(* made of the values before it.                                           *)
(***************************************************************************)
Cursor(payload, vals) ==
    [bytes |-> payload, at |-> Len(vals) + 1, ok |-> TRUE, vals |-> vals]

Available(c, count) == c.at + count - 1 <= Len(c.bytes)

Fail(c) == [c EXCEPT !.ok = FALSE]

take(c, count, value) == [c EXCEPT !.vals = Append(@, value), !.at = @ + count]

number(c) == IF Available(c, 1) THEN take(c, 1, c.bytes[c.at]) ELSE Fail(c)

bytes_(c) ==
    IF /\ Available(c, 1)
       /\ c.bytes[c.at] <= MaxPayload
       /\ Available(c, c.bytes[c.at] + 1)
    THEN take(c, c.bytes[c.at] + 1, SubSeq(c.bytes, c.at + 1, c.at + c.bytes[c.at]))
    ELSE Fail(c)

Latest(c, count) == SubSeq(c.vals, Len(c.vals) - count + 1, Len(c.vals))

Made(c, count, value, sound) ==
    IF sound
    THEN [c EXCEPT !.vals = Append(SubSeq(@, 1, Len(@) - count), value)]
    ELSE Fail(c)

Present(c) == [c EXCEPT !.at = @ + 1]

Optional(c, value) ==
    IF ~Available(c, 1) \/ c.bytes[c.at] \notin {0, 1} THEN Fail(c)
    ELSE IF c.bytes[c.at] = 0 THEN take(c, 1, <<>>)
    ELSE Made(value, 1, Latest(value, 1), value.ok)

decode_strong_identity(v) == <<"number", IF v >= 4 THEN "number" ELSE "zero", "pair">>

decode_locator == <<"bytes", "bytes", "locator">>

LocatorIsSound(l, v) ==
    /\ Utf8(l[2])
    /\ v < 11 => l[1] # <<>>
    /\ StagingLocator(l[1], l[2])

decode_association(v) == IF v < 5 THEN <<"absent">> ELSE <<"optional_bytes", "association">>

AssociationIsSound(a) == a # <<>> => Utf8(a[1]) /\ ProductionAssociation(a[1])

decode_anchor(v) == IF v < 11 THEN <<"absent">> ELSE <<"optional_bytes">>

decode_staging_metadata(v) ==
    <<decode_locator, decode_strong_identity(v), <<"bytes">>, decode_strong_identity(v),
      decode_locator, decode_strong_identity(v), <<"bytes", "number">>, <<"strategy">>,
      decode_association(v), decode_anchor(v), <<"metadata">>>>

Mount(m, id) ==
    [m EXCEPT !.source_id[2] = id, !.root_id[2] = id, !.dest_id[2] = id,
              !.strategy = IF @ = <<>> THEN @ ELSE [@ EXCEPT ![2][2] = id]]

Metadata(f) ==
    [source |-> f[1], source_id |-> f[2], source_name |-> f[3], root_id |-> f[4],
     dest |-> f[5], dest_id |-> f[6], dest_name |-> f[7], backend |-> f[8],
     strategy |-> f[9], association |-> f[10], anchor |-> f[11]]

MetadataIsSound(m, v) ==
    /\ m.backend \in 1 .. 3
    /\ v >= 11 => ProductionIsAnchored(m)
    /\ IF v >= 4 THEN invariants_hold(m)
       ELSE /\ {m.source_id[2], m.root_id[2], m.dest_id[2]} = {0}
            /\ invariants_hold(Mount(m, 1))

decode_manifest(v) == <<IF v >= 7 THEN "number" ELSE "one", "number", "number", "triple">>

(***************************************************************************)
(* A rename outcome: its kind, then the identity it names.                 *)
(***************************************************************************)
decode_outcome(v) == <<<<"number">>, decode_strong_identity(v), <<"outcome">>>>

decode_commitment(v) ==
    <<decode_locator, decode_strong_identity(v), <<"bytes">>, decode_strong_identity(v),
      decode_manifest(VERSION), <<"commitment">>>>

Commitment(f) ==
    [dest |-> f[1], dest_id |-> f[2], dest_name |-> f[3], root_id |-> f[4],
     manifest |-> f[5]]

KnownSince(code) ==
    IF code <= 16 THEN 1 ELSE IF code <= 18 THEN 5 ELSE IF code <= 22 THEN 6 ELSE 9

decode_state(code, v) == code \in 0 .. Len(StateNames) - 1 /\ v >= KnownSince(code)

decode_intent ==
    <<<<"number", "bytes", "optional_bytes", "number", "optional_number">>,
      <<"number", "number", "number", "optional_number">>, <<"intent">>>>

IntentIsSound(f, v) ==
    /\ f[3] # <<>> => Utf8(f[3][1])
    /\ f[6] = f[8]
    /\ f[7] <= MaxMode /\ f[8] <= MaxMode
    /\ new_evidence(f[2], v >= 11)

Checked(c, sound) == IF sound THEN c ELSE Fail(c)

Field(c, field, v) ==
    CASE field = "number" -> number(c)
      [] field = "bytes" -> bytes_(c)
      [] field = "optional_number" -> Optional(c, number(Present(c)))
      [] field = "optional_bytes" -> Optional(c, bytes_(Present(c)))
      [] field = "absent" -> take(c, 0, <<>>)
      [] field = "zero" -> take(c, 0, 0)
      [] field = "one" -> take(c, 0, 1)
      [] field = "transaction" -> take(c, 0, c.vals[2])
      [] field = "pair" -> Made(c, 2, Latest(c, 2), TRUE)
      [] field = "triple" -> Made(c, 3, Latest(c, 3), TRUE)
      [] field = "sidecar" -> Made(c, 4, Latest(c, 4), TRUE)
      [] field = "locator" -> Made(c, 2, Latest(c, 2), LocatorIsSound(Latest(c, 2), v))
      [] field = "association" -> Checked(c, AssociationIsSound(Latest(c, 1)[1]))
      [] field = "metadata" ->
            Made(c, 11, Metadata(Latest(c, 11)),
                 \A m \in {Metadata(Latest(c, 11))} : MetadataIsSound(m, v))
      [] field = "outcome" -> Checked(c, Latest(c, 2)[1] \in {1, 2})
      [] field = "commitment" -> Made(c, 5, Commitment(Latest(c, 5)), TRUE)
      [] field = "state" ->
            Made(c, 1, StateNames[Latest(c, 1)[1] + 1], decode_state(Latest(c, 1)[1], v))
      [] field = "intent" -> Checked(c, IntentIsSound(Latest(c, 9), v))

Read(c, fields, v) ==
    FoldLeft(LAMBDA d, field : IF ~d.ok THEN d ELSE Field(d, field, v), c, fields)

decode_strategy(c, v) ==
    IF ~Available(c, 1) \/ c.bytes[c.at] \notin {1, 2} THEN Fail(c)
    ELSE IF c.bytes[c.at] = 1 THEN take(c, 1, <<>>)
    ELSE Read([c EXCEPT !.at = @ + 1],
              decode_locator \o decode_strong_identity(v) \o <<"number", "triple">>, v)

Kinds ==
    <<"state", "intent", "applied", "not_applied", "begin", "manifest", "rename_intent",
      "rename_outcome", "undo_outcome", "authorized", "claimed", "progress", "sidecar">>

Readable(tag, v) ==
    CASE tag \in 1 .. 4 -> TRUE
      [] tag \in {5, 7, 8} -> v >= 3
      [] tag = 6 -> v \in 3 .. SIDECAR_VERSION - 1
      [] tag = 9 -> v >= 6
      [] tag = 10 -> v >= 8
      [] tag \in {11, 12} -> v >= 10
      [] tag = 13 -> v >= SIDECAR_VERSION
      [] OTHER -> FALSE

decode_body(kind, v) ==
    CASE kind = "state" -> <<<<"number", "state">>>>
      [] kind = "intent" -> decode_intent
      [] kind \in {"applied", "not_applied"} -> <<<<"number">>>>
      [] kind = "begin" -> decode_staging_metadata(v)
      [] kind = "manifest" -> <<decode_manifest(v)>>
      [] kind = "rename_intent" -> <<>>
      [] kind \in {"rename_outcome", "undo_outcome"} -> decode_outcome(v)
      [] kind \in {"authorized", "claimed"} -> decode_commitment(v)
      [] kind = "progress" -> <<<<"number", "bytes">>>>
      [] kind = "sidecar" ->
            <<decode_manifest(VERSION), <<"transaction", "number", "number", "number", "sidecar">>>>

(***************************************************************************)
(* The record the payload holds, or <<>> when it is malformed: an unknown  *)
(* kind for the version, a field that does not decode, or bytes left over. *)
(***************************************************************************)
decode_record(payload, v) ==
    IF Len(payload) < 2 \/ ~Readable(payload[1], v) THEN <<>>
    ELSE LET kind == Kinds[payload[1]]
             body == FoldLeft(LAMBDA c, fields : IF ~c.ok THEN c
                                                 ELSE IF fields = <<"strategy">>
                                                 THEN decode_strategy(c, v)
                                                 ELSE Read(c, fields, v),
                              Cursor(payload, <<kind, payload[2]>>), decode_body(kind, v))
         IN IF body.ok /\ body.at = Len(payload) + 1 THEN body.vals ELSE <<>>

-----------------------------------------------------------------------------
(***************************************************************************)
(* Frames in a file.  check_frame answers "tail" where the bytes end       *)
(* inside the frame, "bad" where they hold no frame this binary reads, and *)
(* the frame otherwise.                                                    *)
(***************************************************************************)
Supported(v) == v \in {1} \cup 3 .. VERSION

mutant_HeaderReads(header) ==
    /\ header[1] = MAGIC
    /\ Supported(header[2][2])
    /\ header[3] = Zero
    /\ header[4][2] <= MaxPayload

HeaderReads(header) ==
    /\ header[1] = MAGIC
    /\ crc32(SubSeq(header, 2, 4)) = header[5]
    /\ Supported(header[2][2])
    /\ header[3] = Zero
    /\ header[4][2] <= MaxPayload

check_frame(bytes, offset) ==
    LET left == Len(bytes) - offset
        header == SubSeq(bytes, offset + 1, offset + HEADER_LEN)
        version == header[2][2]
        length == header[4][2]
        payload == SubSeq(bytes, offset + HEADER_LEN + 1, offset + HEADER_LEN + length)
        answer_(kind) == [kind |-> kind, version |-> 0, payload |-> <<>>]
    IN IF left < HEADER_LEN THEN answer_("tail")
       ELSE IF ~HeaderReads(header) THEN answer_("bad")
       ELSE IF left < HEADER_LEN + length THEN answer_("tail")
       ELSE IF crc32(payload) # header[6] THEN answer_("bad")
       ELSE [kind |-> "frame", version |-> version,
             payload |-> [i \in 1 .. length |-> payload[i][2]]]

FrameExtent(start, len) ==
    /\ len \in HEADER_LEN .. HEADER_LEN + MaxPayload
    /\ start + len <= MaxWalLen

(***************************************************************************)
(* One step of the loop over the file, from the end of the frames read so  *)
(* far; `done` when the bytes are used up or end inside a frame.           *)
(***************************************************************************)
mutant_NextFrame(bytes, p) ==
    LET frame == check_frame(bytes, p.len)
        record == decode_record(frame.payload, frame.version)
        len == HEADER_LEN + Len(frame.payload)
    IN IF p.len >= Len(bytes) THEN [p EXCEPT !.done = TRUE]
       ELSE IF frame.kind # "frame" \/ record = <<>> THEN [p EXCEPT !.done = TRUE, !.ok = FALSE]
       ELSE [p EXCEPT !.len = @ + len,
                      !.frames = Append(@, [version |-> frame.version, record |-> record,
                                            start |-> p.len, len |-> len])]

NextFrame(bytes, p) ==
    LET frame == check_frame(bytes, p.len)
        record == decode_record(frame.payload, frame.version)
        len == HEADER_LEN + Len(frame.payload)
        previous == IF p.frames = <<>> THEN 0 ELSE p.frames[Len(p.frames)].version
    IN IF p.len >= Len(bytes) \/ frame.kind = "tail" THEN [p EXCEPT !.done = TRUE]
       ELSE IF frame.kind = "bad" THEN [p EXCEPT !.done = TRUE, !.ok = FALSE]
       ELSE IF record = <<>> \/ frame.version < previous
            THEN [p EXCEPT !.done = TRUE, !.ok = FALSE]
       ELSE [p EXCEPT !.len = @ + len,
                      !.frames = Append(@, [version |-> frame.version, record |-> record,
                                            start |-> p.len, len |-> len])]

parse_frames(bytes) ==
    FoldLeft(LAMBDA p, i : IF p.done THEN p ELSE NextFrame(bytes, p),
             [ok |-> TRUE, done |-> FALSE, len |-> 0, frames |-> <<>>],
             [i \in 1 .. MaxFrames + 1 |-> i])

(***************************************************************************)
(* Reading one indexed intent back.  The frame is checked as replay checks *)
(* it, must fill its extent exactly, and must name the mutation asked for. *)
(***************************************************************************)
decode_indexed_intent(frame, tx, mutation) ==
    LET checked == check_frame(frame, 0)
        record == decode_record(checked.payload, checked.version)
    IN IF checked.kind # "frame" THEN <<>>
       ELSE IF HEADER_LEN + Len(checked.payload) # Len(frame) THEN <<>>
       ELSE IF record = <<>> THEN <<>>
       ELSE IF record[1] # "intent" THEN <<>>
       ELSE IF record[2] # tx \/ record[3] # mutation THEN <<>>
       ELSE record

FrameAt(bytes, extent) ==
    SubSeq(bytes, extent.start + 1, extent.start + extent.len)

read_framed_intent(bytes, tx, mutation, extent) ==
    IF extent.start + extent.len > Len(bytes) THEN <<>>
    ELSE decode_indexed_intent(FrameAt(bytes, extent), tx, mutation)

Intents(frames) == {i \in 1 .. Len(frames) : frames[i].record[1] = "intent"}

Indexed(frames) ==
    {[tx |-> frames[i].record[2], mutation |-> frames[i].record[3],
      start |-> frames[i].start, len |-> frames[i].len] : i \in Intents(frames)}

(***************************************************************************)
(* Replay reads the original of every inverse back from the bytes it is    *)
(* replaying.                                                              *)
(***************************************************************************)
InversesRead(bytes, frames) ==
    \A i \in Intents(frames) :
        LET r == frames[i].record IN
        r[11] # <<>> =>
            \A e \in Indexed(SubSeq(frames, 1, i - 1)) :
                e.tx = r[2] /\ e.mutation = r[11][1] =>
                    read_framed_intent(bytes, e.tx, e.mutation, e) # <<>>

-----------------------------------------------------------------------------
(***************************************************************************)
(* The session.                                                            *)
(***************************************************************************)
Closed == [open |-> FALSE, fresh |-> FALSE, poisoned |-> FALSE, len |-> 0, ledger |-> {}]

NotAsked == [asked |-> <<>>, key |-> <<>>, got |-> <<>>]

Untried == [tried |-> FALSE, ok |-> TRUE, frames |-> <<>>, meant |-> <<>>, durable |-> 0]

Whole(length) == SelectSeq(written, LAMBDA f : f.start + f.len <= length)

Highest ==
    IF written = <<>> THEN 0 ELSE written[Len(written)].version

(***************************************************************************)
(* What the append side asks of a record before it frames it.              *)
(***************************************************************************)
mutant_may_begin(m) == invariants_hold(m)

may_begin(m) == invariants_hold(m) /\ ProductionIsAnchored(m)

may_intend(r) ==
    /\ r[8] = r[10]
    /\ r[9] <= MaxMode
    /\ r[10] <= MaxMode
    /\ r[5] # <<>> /\ r[7] # <<>>
    /\ new_evidence(r[4], TRUE)
    /\ ~\E e \in wal.ledger : e.tx = r[2] /\ e.mutation = r[3]

mutant_may_complete(r) ==
    /\ r[3][1] = 3
    /\ r[4][3] = r[3][2]

may_complete(r) ==
    /\ r[3][1] = 3
    /\ r[4][1] = r[2]
    /\ r[4][3] = r[3][2]

Admitted(r) ==
    CASE r[1] = "begin" -> may_begin(r[3])
      [] r[1] = "intent" -> may_intend(r)
      [] r[1] = "sidecar" -> may_complete(r)
      [] r[1] = "progress" -> r[4] = <<>>
      [] OTHER -> TRUE

Appended(r, frame) ==
    [version |-> VERSION, record |-> r, start |-> wal.len, len |-> Len(frame)]

mutant_Index(r, frame) ==
    IF r[1] = "intent"
    THEN wal.ledger \cup {[tx |-> r[2], mutation |-> r[3], start |-> synced,
                           len |-> Len(frame)]}
    ELSE wal.ledger

Index(r, frame) ==
    IF r[1] = "intent"
    THEN wal.ledger \cup {[tx |-> r[2], mutation |-> r[3], start |-> wal.len,
                           len |-> Len(frame)]}
    ELSE wal.ledger

append_at(r, sync) ==
    LET frame == encode_frame(r) IN
    /\ wal.open /\ ~wal.poisoned
    /\ g.frames < MaxFrames
    /\ sync \/ r[1] = "applied"
    /\ Admitted(r)
    /\ frame # <<>>
    /\ FrameExtent(wal.len, Len(frame))
    /\ file' = file \o frame
    /\ synced' = IF sync THEN Len(file') ELSE synced
    /\ wal' = [wal EXCEPT !.len = @ + Len(frame), !.ledger = Index(r, frame), !.fresh = FALSE]
    /\ written' = Append(written, Appended(r, frame))
    /\ g' = [g EXCEPT !.frames = @ + 1]
    /\ UNCHANGED <<last, answer>>

(***************************************************************************)
(* The write or its sync fails: some units of the frame are in the file,   *)
(* possibly all, and the session appends no more.                          *)
(***************************************************************************)
append_fails(r, sync) ==
    LET frame == encode_frame(r) IN
    /\ wal.open /\ ~wal.poisoned
    /\ g.frames < MaxFrames /\ g.faults < MaxFaults
    /\ sync \/ r[1] = "applied"
    /\ Admitted(r)
    /\ frame # <<>>
    /\ FrameExtent(wal.len, Len(frame))
    /\ \E n \in 0 .. Len(frame) :
          /\ n = Len(frame) => sync
          /\ file' = file \o SubSeq(frame, 1, n)
          /\ written' = IF n = Len(frame) THEN Append(written, Appended(r, frame)) ELSE written
    /\ wal' = [wal EXCEPT !.poisoned = TRUE]
    /\ g' = [g EXCEPT !.frames = @ + 1, !.faults = @ + 1]
    /\ UNCHANGED <<synced, last, answer>>

settle ==
    /\ wal.open /\ ~wal.poisoned
    /\ synced < wal.len
    /\ \/ /\ synced' = wal.len
          /\ UNCHANGED <<wal, g>>
       \/ /\ g.faults < MaxFaults
          /\ wal' = [wal EXCEPT !.poisoned = TRUE]
          /\ g' = [g EXCEPT !.faults = @ + 1]
          /\ UNCHANGED synced
    /\ UNCHANGED <<file, written, last, answer>>

read_permission_record ==
    \E e \in wal.ledger :
        /\ wal.open
        /\ g.reads < MaxReads
        /\ LET f == CHOOSE f \in {written[i] : i \in 1 .. Len(written)} : f.start = e.start IN
           answer' = [asked |-> f.record, key |-> <<e.tx, e.mutation>>,
                      got |-> read_framed_intent(file, e.tx, e.mutation, e)]
        /\ g' = [g EXCEPT !.reads = @ + 1]
        /\ UNCHANGED <<file, synced, wal, written, last>>

(***************************************************************************)
(* Opening the store: the lease syncs what is in the file, the whole file  *)
(* is parsed and replayed, and a partial frame at its end is cut off.      *)
(***************************************************************************)
mutant_Session(p) ==
    [open |-> TRUE, fresh |-> TRUE, poisoned |-> FALSE, len |-> Len(file),
     ledger |-> Indexed(p.frames)]

Session(p) ==
    [open |-> TRUE, fresh |-> TRUE, poisoned |-> FALSE, len |-> p.len,
     ledger |-> Indexed(p.frames)]

replay_and_repair ==
    /\ ~wal.open
    /\ g.opens < MaxOpens
    /\ \E p \in {parse_frames(file)} :
       \E good \in {Len(file) <= MaxWalLen /\ p.ok /\ InversesRead(file, p.frames)} :
       /\ last' = [tried |-> TRUE, ok |-> good, frames |-> p.frames, meant |-> written,
                   durable |-> Len(Whole(synced))]
       /\ file' = IF good THEN SubSeq(file, 1, p.len) ELSE file
       /\ synced' = Len(file')
       /\ wal' = IF good THEN Session(p) ELSE wal
       /\ written' = IF good THEN Whole(p.len) ELSE written
    /\ g' = [g EXCEPT !.opens = @ + 1]
    /\ UNCHANGED answer

(***************************************************************************)
(* Compaction copies the ranges of the frames it keeps, and replaces the   *)
(* file only by one that parses to its last byte.                          *)
(***************************************************************************)
compaction_surviving_bytes(frames, tx) ==
    FoldLeft(LAMBDA kept, f : IF f.record[2] = tx THEN kept ELSE kept \o FrameAt(file, f),
             <<>>, frames)

Rebased(frames) ==
    FoldLeft(LAMBDA done, f :
                Append(done, [f EXCEPT !.start = IF done = <<>> THEN 0
                                                 ELSE done[Len(done)].start + done[Len(done)].len]),
             <<>>, frames)

compact_terminal_transactions(tx) ==
    /\ wal.open /\ wal.fresh
    /\ \E i \in 1 .. Len(written) : written[i].record[2] = tx
    /\ \E plan \in {parse_frames(file)} :
       \E bytes \in {compaction_surviving_bytes(plan.frames, tx)} :
       \E p \in {parse_frames(bytes)} :
          IF plan.ok /\ p.ok /\ p.len = Len(bytes)
          THEN /\ file' = bytes
               /\ synced' = Len(bytes)
               /\ wal' = [Session(p) EXCEPT !.fresh = FALSE]
               /\ written' = Rebased(SelectSeq(written, LAMBDA f : f.record[2] # tx))
          ELSE /\ wal' = [wal EXCEPT !.fresh = FALSE]
               /\ UNCHANGED <<file, synced, written>>
    /\ UNCHANGED <<last, answer, g>>

-----------------------------------------------------------------------------
(***************************************************************************)
(* The environment: releases before and after this one, the process dying, *)
(* the power failing, and bytes that rot.                                  *)
(***************************************************************************)
AsKnown(r, v) ==
    CASE r[1] = "begin" ->
            LET m == [r[3] EXCEPT !.association = IF v >= 5 THEN @ ELSE <<>>,
                                  !.anchor = IF v >= 11 THEN @ ELSE <<>>]
            IN [r EXCEPT ![3] = IF v >= 4 THEN m ELSE Mount(m, 0)]
      [] r[1] \in {"rename_outcome", "undo_outcome"} ->
            [r EXCEPT ![4][2] = IF v >= 4 THEN @ ELSE 0]
      [] r[1] = "manifest" -> [r EXCEPT ![3][1] = IF v >= 7 THEN @ ELSE 1]
      [] OTHER -> r

Locators(r) ==
    CASE r[1] = "begin" -> {r[3].source[1], r[3].dest[1]}
      [] r[1] \in {"authorized", "claimed"} -> {r[3].dest[1]}
      [] r[1] = "intent" -> {r[4]}
      [] OTHER -> {}

LegacyWrites(v, r) ==
    /\ Readable(Tags[r[1]], v)
    /\ r[1] = "state" => v >= KnownSince(encode_state(r[3]))
    /\ v < 11 => <<>> \notin Locators(r)
    /\ Len(encode_record(r, v)) <= MaxPayload
    /\ CASE r[1] = "begin" -> invariants_hold(r[3]) /\ (v >= 11 => ProductionIsAnchored(r[3]))
         [] r[1] = "intent" ->
               /\ may_intend(r)
               /\ ~\E i \in Intents(written) : SubSeq(written[i].record, 2, 3) = SubSeq(r, 2, 3)
         [] r[1] = "sidecar" -> may_complete(r)
         [] OTHER -> TRUE

Added(v, r) ==
    LET frame == frame_payload(v, encode_record(r, v)) IN
    /\ Len(file) + Len(frame) <= MaxWalLen
    /\ file' = file \o frame
    /\ synced' = Len(file')
    /\ written' = Append(written, [version |-> v, record |-> AsKnown(r, v),
                                   start |-> Len(file), len |-> Len(frame)])

EarlierRelease ==
    /\ g.opens = 0 /\ ~g.hurt /\ g.frames < MaxFrames
    /\ \E v \in LegacyVersions, r \in Records :
          v >= Highest /\ LegacyWrites(v, r) /\ Added(v, r)
    /\ g' = [g EXCEPT !.frames = @ + 1]
    /\ UNCHANGED <<wal, last, answer>>

LaterRelease ==
    /\ ~wal.open /\ ~g.hurt /\ g.frames < MaxFrames
    /\ Len(Whole(Len(file))) > 0 => Len(file) = written[Len(written)].start + written[Len(written)].len
    /\ written = <<>> => file = <<>>
    /\ \E r \in Records : r[1] = "state" /\ Added(NewerVersion, r)
    /\ g' = [g EXCEPT !.frames = @ + 1, !.hurt = TRUE]
    /\ UNCHANGED <<wal, last, answer>>

Killed ==
    /\ wal.open
    /\ wal' = Closed
    /\ UNCHANGED <<file, synced, written, last, answer, g>>

(***************************************************************************)
(* What was not synced may be cut anywhere, and the disk may have kept a   *)
(* later frame without an earlier one, whose units are then zero.          *)
(***************************************************************************)
Holes(n) == {i \in 1 .. Len(written) : /\ written[i].start >= synced
                                       /\ written[i].start + written[i].len <= n}

PowerCut ==
    /\ synced < Len(file)
    /\ g.faults < MaxFaults
    /\ \E n \in synced .. Len(file) : \E lost \in SUBSET Holes(n) :
          /\ file' = [j \in 1 .. n |->
                        IF \E i \in lost : j > written[i].start
                                           /\ j <= written[i].start + written[i].len
                        THEN Zero ELSE file[j]]
          /\ synced' = n
          /\ written' = Whole(n)
          /\ g' = [g EXCEPT !.faults = @ + 1, !.hurt = @ \/ lost # {}]
    /\ wal' = Closed
    /\ UNCHANGED <<last, answer>>

Damage ==
    /\ g.damage < MaxDamage
    /\ \E i \in 1 .. Len(file), value \in Garbage :
          /\ file[i] # Num(value)
          /\ file' = [file EXCEPT ![i] = Num(value)]
    /\ g' = [g EXCEPT !.damage = @ + 1, !.hurt = TRUE]
    /\ UNCHANGED <<synced, wal, written, last, answer>>

-----------------------------------------------------------------------------
Init ==
    /\ file = <<>> /\ synced = 0 /\ written = <<>>
    /\ wal = Closed
    /\ last = Untried
    /\ answer = NotAsked
    /\ g = [frames |-> 0, faults |-> 0, damage |-> 0, opens |-> 0, reads |-> 0, hurt |-> FALSE]

Done ==
    /\ g.opens = MaxOpens /\ ~wal.open
    /\ UNCHANGED vars

Next ==
    \/ \E r \in Records, sync \in BOOLEAN : append_at(r, sync)
    \/ \E r \in Records, sync \in BOOLEAN : append_fails(r, sync)
    \/ settle
    \/ read_permission_record
    \/ replay_and_repair
    \/ \E tx \in Transactions : compact_terminal_transactions(tx)
    \/ EarlierRelease
    \/ LaterRelease
    \/ Killed
    \/ PowerCut
    \/ Damage
    \/ Done

Spec == Init /\ [][Next]_vars

-----------------------------------------------------------------------------
(***************************************************************************)
(* Lengths agree: what is synced lies in the file, and a session appends   *)
(* where its file ends and indexes only whole frames of it.                *)
(***************************************************************************)
TypeOK ==
    /\ synced \in 0 .. Len(file)
    /\ Len(file) <= MaxWalLen + HEADER_LEN + MaxPayload
    /\ wal.open /\ ~wal.poisoned => wal.len = Len(file)
    /\ \A e \in wal.ledger : e.start + e.len <= wal.len
    /\ g.frames \in 0 .. MaxFrames /\ g.faults \in 0 .. MaxFaults /\ g.damage \in 0 .. MaxDamage

(***************************************************************************)
(* An open that succeeds has read exactly a prefix of what the releases    *)
(* wrote, record for record and version for version, and that prefix holds *)
(* every frame that was on the disk: no damaged or missing frame is taken  *)
(* for an unfinished tail and cut off with what follows it (check_frame,   *)
(* parse_frames, replay_and_repair).                                       *)
(***************************************************************************)
OpenedIsAPrefix ==
    last.tried /\ last.ok =>
        /\ Len(last.frames) >= last.durable
        /\ Len(last.frames) <= Len(last.meant)
        /\ \A i \in 1 .. Len(last.frames) : last.frames[i] = last.meant[i]

(***************************************************************************)
(* A file nothing hurt always opens: whatever an append admitted, or an    *)
(* earlier release wrote, and wherever the last write was cut, decoding    *)
(* finds no reason to refuse it (the checks before an append are no weaker *)
(* than those of decode_record at the version it was written at).          *)
(***************************************************************************)
UnhurtLogOpens == last.tried /\ ~last.ok => g.hurt

(***************************************************************************)
(* A record read back is the very intent the ledger indexed; a frame that  *)
(* no longer holds it is refused, and only a hurt file refuses             *)
(* (read_permission_record, decode_indexed_intent, compaction's rebuilt    *)
(* index).                                                                 *)
(***************************************************************************)
ReadBackIsExact ==
    answer.asked # <<>> =>
        /\ answer.got = <<>> => g.hurt
        /\ answer.got # <<>> =>
              /\ answer.got = answer.asked
              /\ <<answer.got[2], answer.got[3]>> = answer.key
=============================================================================
