----------------------------- MODULE Activation -----------------------------
(***************************************************************************)
(* Which authority and which store an account's mutations go through       *)
(* (activation/mod.rs, activation/selection.rs).  Two fixed places may     *)
(* hold an authority: the system anchor, made by an administrator, and the *)
(* account's own, made by degu init.  A claim names the selected one, also *)
(* to the other; prepare, the store's marker and active, in this order,    *)
(* bind the selected authority to one store for good.                      *)
(*                                                                         *)
(* A record is put in place by a rename and is safe once its directory is  *)
(* synced.  Identities and activation ids are numbers nobody holds yet.    *)
(***************************************************************************)
EXTENDS Naturals, FiniteSets, FiniteSetsExt

CONSTANTS
  Processes,
  Stores,     \* paths the environment may name as the store (XDG_STATE_HOME)
  Supported,  \* those on a backend that store activation supports
  None,
  Losses,     \* which of "store", "witnessed", "anchor" may be lost
  MaxFaults   \* bound: killed processes, losses of power, losses of storage

ActivationAssumption ==
  /\ Supported \subseteq Stores
  /\ None \notin Processes \cup Stores
  /\ Losses \subseteq {"store", "witnessed", "anchor"}

VARIABLES
  anchors,   \* anchor -> its strong identity, or None when not provisioned
  records,   \* anchor -> the records in it
  synced,    \* what a loss of power leaves of records
  stores,    \* path -> the store's identity (None: no store) and its marker
  marked,    \* path -> what a loss of power leaves of the marker
  lock,      \* anchor -> who holds its provisioning lock and its own
  admin,     \* the administrator has seen no self-managed candidate
  procs,
  used,      \* ghost: identities of the stores mutations went through
  witnessed, \* ghost: anchors claimed in the presence of their peer
  faults

disk == <<anchors, records, synced, stores, marked>>
vars == <<disk, lock, admin, procs, used, witnessed, faults>>

Anchors == {"system", "self"}
Peer(a) == IF a = "system" THEN "self" ELSE "system"
NoRecords == [claim |-> None, prepare |-> None, active |-> None]
Idle == [pc |-> "idle", want |-> None, held |-> {}, selected |-> None,
         claim |-> None, then |-> None]

Fresh(inUse) == Min(1..(Cardinality(inUse) + 1) \ inUse)

Provisioned == {a \in Anchors : anchors[a] # None}
AnchorIds == {anchors[a] : a \in Provisioned}
             \cup {records[a].claim.identity : a \in {b \in Anchors : records[b].claim # None}}
             \cup {stores[s].marker.authority_identity :
                     s \in {t \in Stores : stores[t].marker # None}}
StoreIds == {stores[s].id : s \in {t \in Stores : stores[t].id # None}} \cup used
            \cup {records[a].prepare.store_identity :
                    a \in {b \in Anchors : records[b].prepare # None}}
SelectionIds ==
  {c.id : c \in ({records[a].claim : a \in Anchors} \cup {procs[p].claim : p \in Processes})
                  \ {None}}
  \cup {stores[s].marker.id : s \in {t \in Stores : stores[t].marker # None}}
-----------------------------------------------------------------------------
NamesAuthority(a, r) == r.authority = a /\ r.authority_identity = anchors[a]

\* Mutant: only a store that is already marked can be resumed.
mutant_classify_preparing(a, r) ==
  CASE ~NamesAuthority(a, r)                   -> "CorruptOrReplaced"
    [] stores[r.store].id = None               -> "Lost"
    [] stores[r.store].marker # r              -> "CorruptOrReplaced"
    [] OTHER                                   -> "Preparing"

classify_preparing(a, r) ==
  CASE ~NamesAuthority(a, r)                  -> "CorruptOrReplaced"
    [] stores[r.store].id = None              -> "Lost"
    [] stores[r.store].id # r.store_identity  -> "CorruptOrReplaced"
    [] stores[r.store].marker \notin {None, r} -> "CorruptOrReplaced"
    [] OTHER                                  -> "Preparing"

\* Mutant: the store is known by its path and its marker.
mutant_validate_activated(a, r) ==
  CASE ~NamesAuthority(a, r)                  -> "CorruptOrReplaced"
    [] stores[r.store].id = None              -> "Lost"
    [] stores[r.store].marker # r             -> "CorruptOrReplaced"
    [] OTHER                                  -> "Activated"

validate_activated(a, r) ==
  CASE ~NamesAuthority(a, r)                  -> "CorruptOrReplaced"
    [] stores[r.store].id = None              -> "Lost"
    [] stores[r.store].id # r.store_identity  -> "CorruptOrReplaced"
    [] stores[r.store].marker # r             -> "CorruptOrReplaced"
    [] OTHER                                  -> "Activated"

discover_with_authority(a) ==
  LET r == records[a]
  IN  CASE r.active # None /\ r.prepare = r.active -> validate_activated(a, r.active)
        [] r.active # None /\ r.prepare # r.active -> "CorruptOrReplaced"
        [] r.active = None /\ r.prepare # None     -> classify_preparing(a, r.prepare)
        [] OTHER                                   -> "NeverActivated"

state_has_activation_evidence(a) == discover_with_authority(a) # "NeverActivated"

\* Without a claim: the only candidate, or the one with evidence, or the system's.
choose_authority(held) ==
  LET evident == {a \in held : state_has_activation_evidence(a)}
  IN  CASE Cardinality(held) = 1    -> held
        [] evident = {"self"}       -> {"self"}
        [] Cardinality(evident) = 2 -> {}
        [] OTHER                    -> held \cap {"system"}

Claims(held) == {records[a].claim : a \in held} \ {None}

claim_matches_candidate_activation(a, c) ==
  records[a].prepare = None \/ records[a].prepare.id = c.id

\* The selected anchor, or nothing: SplitAuthority, SelectedAuthorityLost,
\* AuthorityClaimInvalid.
claimed_authority_choice(held) ==
  {a \in held :
     /\ \A c \in Claims(held) : /\ c.selected = a
                                /\ c.identity = anchors[a]
                                /\ claim_matches_candidate_activation(a, c)
     /\ Cardinality(Claims(held)) = 1
     /\ \A b \in held \ {a} : ~state_has_activation_evidence(b)}

select_authority_pair_with(held) ==
  IF Claims(held) = {} THEN choose_authority(held) ELSE claimed_authority_choice(held)
-----------------------------------------------------------------------------
Init ==
  /\ anchors = [a \in Anchors |-> None]
  /\ records = [a \in Anchors |-> NoRecords]
  /\ synced = records
  /\ stores = [s \in Stores |-> [id |-> None, marker |-> None]]
  /\ marked = [s \in Stores |-> None]
  /\ lock = [a \in Anchors |-> None]
  /\ admin = FALSE
  /\ procs = [p \in Processes |-> Idle]
  /\ used = {}
  /\ witnessed = {}
  /\ faults = 0

At(p, pc) == procs[p].pc = pc
Goto(p, pc) == procs' = [procs EXCEPT ![p].pc = pc]
Released(p) == [a \in Anchors |-> IF lock[a] = p THEN None ELSE lock[a]]

\* The command returns; its locks go with it.
Return(p) == procs' = [procs EXCEPT ![p] = Idle] /\ lock' = Released(p)

Ghosts == <<used, witnessed>>
Me(p) == procs[p].selected
SyncedAnchor(a) == [synced EXCEPT ![a] = records[a]]
SyncedStore(a) ==
  [s \in Stores |-> IF records[a].prepare # None /\ records[a].prepare.store = s
                    THEN stores[s].marker ELSE marked[s]]
-----------------------------------------------------------------------------
\* provision_activation_anchor looks for a self-managed candidate, then makes
\* the anchor under the provisioning lock; publication is durable (provision/).
refuse_existing_self_candidate ==
  /\ anchors["system"] = None
  /\ anchors["self"] = None
  /\ ~admin
  /\ admin' = TRUE
  /\ UNCHANGED <<disk, lock, procs, Ghosts, faults>>

provision(a) ==
  /\ anchors' = [anchors EXCEPT ![a] = Fresh(AnchorIds)]
  /\ UNCHANGED <<records, synced, stores, marked>>

provision_activation_anchor ==
  /\ admin
  /\ lock["system"] = None
  /\ admin' = FALSE
  /\ IF anchors["system"] = None THEN provision("system") ELSE UNCHANGED disk
  /\ UNCHANGED <<lock, procs, Ghosts, faults>>

AuthenticatedStore(s) ==
  \E a \in select_authority_pair_with(Provisioned) :
    discover_with_authority(a) = "Activated" /\ records[a].prepare.store = s

\* Mutant: degu init does not look at the store.
mutant_refuse_activated_store_in(s) == TRUE

\* degu init: no marker in the store this environment names, or the account's
\* authority authenticates it.
refuse_activated_store_in(s) == stores[s].marker = None \/ AuthenticatedStore(s)

init(p) ==
  /\ At(p, "idle")
  /\ \E s \in Stores :
       /\ refuse_activated_store_in(s)
       /\ procs' = [procs EXCEPT ![p] = [Idle EXCEPT !.pc = "init_system", !.want = s]]
  /\ UNCHANGED <<disk, lock, admin, Ghosts, faults>>

\* initialize_current_euid_self_authority.
initialize_current_euid_self_authority(p) ==
  /\ At(p, "init_system")
  /\ IF anchors["system"] = None
     THEN Goto(p, "init_provision") /\ UNCHANGED lock
     ELSE Return(p)
  /\ UNCHANGED <<disk, admin, Ghosts, faults>>

provision_current_euid_self_activation_anchor(p) ==
  /\ At(p, "init_provision")
  /\ IF lock["self"] = None
     THEN /\ IF anchors["self"] = None THEN provision("self") ELSE UNCHANGED disk
          /\ Goto(p, "init_recheck")
          /\ UNCHANGED lock
     ELSE Return(p) /\ UNCHANGED disk
  /\ UNCHANGED <<admin, Ghosts, faults>>

\* complete_provisioned_self_authority_with: the system anchor is asked again.
recheck_system(p) ==
  /\ At(p, "init_recheck")
  /\ IF anchors["system"] = None
     THEN Goto(p, "init_self") /\ UNCHANGED lock
     ELSE Return(p)
  /\ UNCHANGED <<disk, admin, Ghosts, faults>>

\* open_activation_anchor_with: the anchor's locks are taken without waiting and
\* its contents are made durable, and those of the store it records.
MayOpen(a) == anchors[a] # None /\ lock[a] = None

SyncContents(a) ==
  /\ synced' = SyncedAnchor(a)
  /\ marked' = SyncedStore(a)
  /\ UNCHANGED <<anchors, records, stores>>

OpenAnchor(p, a) == lock' = [lock EXCEPT ![a] = p] /\ SyncContents(a)

\* What ensure_authority_claim is going to publish.
ExpectedClaim(a, existing) ==
  [id |-> CASE existing # {}                             -> (CHOOSE c \in existing : TRUE).id
            [] existing = {} /\ records[a].prepare # None -> records[a].prepare.id
            [] OTHER                                     -> Fresh(SelectionIds),
   selected |-> a,
   identity |-> anchors[a]]

\* The rest of complete_provisioned_self_authority_with, up to the claim.
MayDeclare ==
  LET r == records["self"]
      state == discover_with_authority("self")
      expected == ExpectedClaim("self", {r.claim} \ {None})
  IN  /\ state \notin {"Lost", "CorruptOrReplaced"}
      /\ r.claim = None => state = "NeverActivated"
      /\ r.claim # None => r.claim = expected
      /\ claim_matches_candidate_activation("self", expected)

complete_provisioned_self_authority_with(p) ==
  /\ At(p, "init_self")
  /\ CASE ~MayOpen("self")               -> Return(p) /\ UNCHANGED disk
       [] MayOpen("self") /\ ~MayDeclare -> Return(p) /\ SyncContents("self")
       [] MayOpen("self") /\ MayDeclare  ->
            /\ OpenAnchor(p, "self")
            /\ procs' = [procs EXCEPT ![p] =
                 [Idle EXCEPT !.pc = "claim", !.held = {"self"}, !.selected = "self",
                              !.claim = ExpectedClaim("self", Claims({"self"})),
                              !.then = "end"]]
  /\ UNCHANGED <<admin, Ghosts, faults>>
-----------------------------------------------------------------------------
\* A command that mutates: activate_current_euid_store.
activate_current_euid_store(p) ==
  /\ At(p, "idle")
  /\ \E s \in Stores :
       procs' = [procs EXCEPT ![p] = [Idle EXCEPT !.pc = "system", !.want = s]]
  /\ UNCHANGED <<disk, lock, admin, Ghosts, faults>>

\* The system anchor comes first.
open_system(p) ==
  /\ At(p, "system")
  /\ CASE MayOpen("system")         -> /\ OpenAnchor(p, "system")
                                       /\ procs' = [procs EXCEPT ![p].pc = "self",
                                                                 ![p].held = {"system"}]
       [] anchors["system"] = None  -> Goto(p, "self") /\ UNCHANGED <<disk, lock>>
       [] OTHER                     -> Return(p) /\ UNCHANGED disk
  /\ UNCHANGED <<admin, Ghosts, faults>>

\* Mutant: the peer is forgotten, its lock is not given back.
mutant_open_self(p) ==
  /\ At(p, "self")
  /\ MayOpen("self")
  /\ OpenAnchor(p, "self")
  /\ procs' = [procs EXCEPT ![p].pc = "select", ![p].held = {"self"}]
  /\ UNCHANGED <<admin, Ghosts, faults>>

open_self(p) ==
  /\ At(p, "self")
  /\ CASE MayOpen("self")        -> /\ OpenAnchor(p, "self")
                                    /\ procs' = [procs EXCEPT ![p].pc = "select",
                                                              ![p].held = @ \cup {"self"}]
       [] anchors["self"] = None -> Goto(p, "select") /\ UNCHANGED <<disk, lock>>
       [] OTHER                  -> Return(p) /\ UNCHANGED disk
  /\ UNCHANGED <<admin, Ghosts, faults>>

\* Mutant: support is probed before the state is looked at.
mutant_Course(a, want, claims) ==
  LET state == discover_with_authority(a)
  IN  CASE want \notin Supported                  -> "legacy"
        [] state = "Activated"                     -> "session"
        [] state \in {"Preparing", "NeverActivated"} -> "prepare"
        [] OTHER                                   -> "refuse"

\* What activate_authority_selection_with_probe does about the selected anchor.
Course(a, want, claims) ==
  LET state == discover_with_authority(a)
  IN  CASE state = "Activated"                     -> "session"
        [] state = "Preparing"                     -> "prepare"
        [] state # "NeverActivated"                -> "refuse"
        [] a = "self" /\ claims = {}               -> "refuse"
        [] want \in Supported                      -> "prepare"
        [] OTHER                                   -> "legacy"

activate_authority_selection_with_probe(p) ==
  /\ At(p, "select")
  /\ LET held == procs[p].held
         claims == Claims(held)
         Take(a, pc, then) ==
           /\ procs' = [procs EXCEPT ![p].pc = pc, ![p].selected = a, ![p].then = then,
                                     ![p].claim = ExpectedClaim(a, claims)]
           /\ UNCHANGED lock
     IN  \/ /\ held = {} \/ select_authority_pair_with(held) = {}
            /\ Return(p)
         \/ \E a \in select_authority_pair_with(held) :
              LET course == Course(a, procs[p].want, claims)
              IN  CASE course = "refuse"                  -> Return(p)
                    [] course = "legacy" /\ claims = {}   -> Take(a, "legacy", None)
                    [] Peer(a) \in held                   -> Take(a, "witness", course)
                    [] OTHER                              -> Take(a, "claim", course)
  /\ UNCHANGED <<disk, admin, Ghosts, faults>>

\* publish_record: a record that is there is never replaced by another.
publish_record(p, a, name, r, pc) ==
  IF records[a][name] \in {None, r}
  THEN /\ records' = [records EXCEPT ![a] = [@ EXCEPT ![name] = r]]
       /\ Goto(p, pc)
       /\ UNCHANGED lock
  ELSE Return(p) /\ UNCHANGED records

\* ensure_authority_claim: the peer learns of the selection first.
publish_witness(p) ==
  /\ At(p, "witness")
  /\ publish_record(p, Peer(Me(p)), "claim", procs[p].claim, "witness_sync")
  /\ UNCHANGED <<anchors, synced, stores, marked, admin, Ghosts, faults>>

\* Mutant: the peer's directory is not synced.
mutant_sync_witness(p) ==
  /\ At(p, "witness_sync")
  /\ Goto(p, "claim")
  /\ UNCHANGED <<disk, lock, admin, Ghosts, faults>>

sync_witness(p) ==
  /\ At(p, "witness_sync")
  /\ synced' = SyncedAnchor(Peer(Me(p)))
  /\ Goto(p, "claim")
  /\ UNCHANGED <<anchors, records, stores, marked, lock, admin, Ghosts, faults>>

publish_claim(p) ==
  /\ At(p, "claim")
  /\ publish_record(p, Me(p), "claim", procs[p].claim, "claim_sync")
  /\ witnessed' = witnessed \cup {Me(p) : a \in procs[p].held \ {Me(p)}}
  /\ UNCHANGED <<anchors, synced, stores, marked, admin, used, faults>>

\* The claim is durable; degu init is done, everybody else goes on.
sync_claim(p) ==
  /\ At(p, "claim_sync")
  /\ synced' = SyncedAnchor(Me(p))
  /\ CASE procs[p].then = "end"     -> Return(p) /\ UNCHANGED used
       [] procs[p].then = "session" -> /\ Goto(p, "session")
                                       /\ used' = used \cup {stores[records[Me(p)].prepare.store].id}
                                       /\ UNCHANGED lock
       [] OTHER                     -> Goto(p, procs[p].then) /\ UNCHANGED <<lock, used>>
  /\ UNCHANGED <<anchors, records, stores, marked, admin, witnessed, faults>>
-----------------------------------------------------------------------------
\* activate_or_resume_with_authorities: a recorded store is taken as recorded
\* whatever the environment names, otherwise the named one is opened or made.
open_or_create(p) ==
  LET s == procs[p].want
  IN  /\ At(p, "prepare")
      /\ IF records[Me(p)].prepare # None
         THEN Goto(p, "prepare_sync") /\ UNCHANGED stores
         ELSE /\ stores' = IF stores[s].id # None THEN stores
                           ELSE [stores EXCEPT ![s].id = Fresh(StoreIds)]
              /\ Goto(p, "prepare_publish")
      /\ UNCHANGED <<anchors, records, synced, marked, lock, admin, Ghosts, faults>>

publish_prepare(p) ==
  LET s == procs[p].want
  IN  /\ At(p, "prepare_publish")
      /\ publish_record(p, Me(p), "prepare",
                        [id |-> procs[p].claim.id,
                         authority |-> Me(p), authority_identity |-> anchors[Me(p)],
                         store |-> s, store_identity |-> stores[s].id], "prepare_sync")
      /\ UNCHANGED <<anchors, synced, stores, marked, admin, Ghosts, faults>>

sync_prepare(p) ==
  /\ At(p, "prepare_sync")
  /\ synced' = SyncedAnchor(Me(p))
  /\ Goto(p, "marker")
  /\ UNCHANGED <<anchors, records, stores, marked, lock, admin, Ghosts, faults>>

\* publish_or_verify_store_binding: another marker is never replaced.
publish_or_verify_store_binding(p) ==
  LET r == records[Me(p)].prepare
  IN  /\ At(p, "marker")
      /\ IF stores[r.store].marker \in {None, r}
         THEN /\ stores' = [stores EXCEPT ![r.store].marker = r]
              /\ Goto(p, "marker_sync")
              /\ UNCHANGED lock
         ELSE Return(p) /\ UNCHANGED stores
      /\ UNCHANGED <<anchors, records, synced, marked, admin, Ghosts, faults>>

\* Mutant: the store directory is not synced before the active record.
mutant_sync_marker(p) ==
  /\ At(p, "marker_sync")
  /\ Goto(p, "active")
  /\ UNCHANGED <<disk, lock, admin, Ghosts, faults>>

sync_marker(p) ==
  /\ At(p, "marker_sync")
  /\ marked' = SyncedStore(Me(p))
  /\ Goto(p, "active")
  /\ UNCHANGED <<anchors, records, synced, stores, lock, admin, Ghosts, faults>>

publish_active(p) ==
  /\ At(p, "active")
  /\ publish_record(p, Me(p), "active", records[Me(p)].prepare, "active_sync")
  /\ UNCHANGED <<anchors, synced, stores, marked, admin, Ghosts, faults>>

\* Mutant: the session starts before the record is synced and read back.
mutant_sync_active(p) ==
  /\ At(p, "active_sync")
  /\ used' = used \cup {stores[records[Me(p)].prepare.store].id}
  /\ Goto(p, "session")
  /\ UNCHANGED <<disk, lock, admin, witnessed, faults>>

sync_active(p) ==
  /\ At(p, "active_sync")
  /\ synced' = SyncedAnchor(Me(p))
  /\ IF discover_with_authority(Me(p)) = "Activated"
     THEN /\ Goto(p, "session")
          /\ used' = used \cup {stores[records[Me(p)].prepare.store].id}
          /\ UNCHANGED lock
     ELSE Return(p) /\ UNCHANGED used
  /\ UNCHANGED <<anchors, records, stores, marked, admin, witnessed, faults>>

\* The lifecycle session, sealed or legacy, ends.
close(p) ==
  /\ procs[p].pc \in {"session", "legacy"}
  /\ Return(p)
  /\ UNCHANGED <<disk, admin, Ghosts, faults>>
-----------------------------------------------------------------------------
Fault == faults < MaxFaults /\ faults' = faults + 1

\* The process is killed, or a step of it fails.
stop(p) ==
  /\ ~At(p, "idle")
  /\ Fault
  /\ Return(p)
  /\ UNCHANGED <<disk, admin, Ghosts>>

power_loss ==
  /\ Fault
  /\ \E lost \in SUBSET Anchors, unmarked \in SUBSET Stores :
       /\ records' = [a \in Anchors |-> IF a \in lost THEN synced[a] ELSE records[a]]
       /\ stores' = [s \in Stores |-> IF s \in unmarked THEN [stores[s] EXCEPT !.marker = marked[s]]
                                                       ELSE stores[s]]
  /\ synced' = records'
  /\ marked' = [s \in Stores |-> stores'[s].marker]
  /\ procs' = [p \in Processes |-> Idle]
  /\ lock' = [a \in Anchors |-> None]
  /\ admin' = FALSE
  /\ UNCHANGED <<anchors, Ghosts>>

Quiet == \A p \in Processes : At(p, "idle")

\* The storage an anchor or a store is on is lost between two commands.
lose_anchor(a) ==
  /\ Quiet /\ ~admin
  /\ anchors[a] # None
  /\ "anchor" \in Losses \/ ("witnessed" \in Losses /\ a \in witnessed)
  /\ Fault
  /\ anchors' = [anchors EXCEPT ![a] = None]
  /\ records' = [records EXCEPT ![a] = NoRecords]
  /\ synced' = [synced EXCEPT ![a] = NoRecords]
  /\ witnessed' = witnessed \ {a}
  /\ UNCHANGED <<stores, marked, lock, admin, procs, used>>

lose_store(s) ==
  /\ Quiet
  /\ "store" \in Losses
  /\ stores[s].id # None
  /\ Fault
  /\ stores' = [stores EXCEPT ![s] = [id |-> None, marker |-> None]]
  /\ marked' = [marked EXCEPT ![s] = None]
  /\ UNCHANGED <<anchors, records, synced, lock, admin, procs, Ghosts>>

\* A copy, or an empty store, takes its place (a backup is restored).
replace_store(s) ==
  /\ Quiet
  /\ "store" \in Losses
  /\ stores[s].id # None
  /\ Fault
  /\ \E m \in {None, stores[s].marker} :
       /\ stores' = [stores EXCEPT ![s] = [id |-> Fresh(StoreIds), marker |-> m]]
       /\ marked' = [marked EXCEPT ![s] = m]
  /\ UNCHANGED <<anchors, records, synced, lock, admin, procs, Ghosts>>

Continue(p) ==
  \/ initialize_current_euid_self_authority(p)
  \/ provision_current_euid_self_activation_anchor(p) \/ recheck_system(p)
  \/ complete_provisioned_self_authority_with(p)
  \/ open_system(p) \/ open_self(p) \/ activate_authority_selection_with_probe(p)
  \/ publish_witness(p) \/ sync_witness(p) \/ publish_claim(p) \/ sync_claim(p)
  \/ open_or_create(p) \/ publish_prepare(p) \/ sync_prepare(p)
  \/ publish_or_verify_store_binding(p) \/ sync_marker(p)
  \/ publish_active(p) \/ sync_active(p) \/ close(p)

Next ==
  \/ refuse_existing_self_candidate \/ provision_activation_anchor
  \/ \E p \in Processes : init(p) \/ activate_current_euid_store(p) \/ Continue(p) \/ stop(p)
  \/ power_loss
  \/ \E a \in Anchors : lose_anchor(a)
  \/ \E s \in Stores : lose_store(s) \/ replace_store(s)

Spec == Init /\ [][Next]_vars

-----------------------------------------------------------------------------
Kinds == {"NeverActivated", "Preparing", "Activated", "Lost", "CorruptOrReplaced"}

(* Types; an anchor that is not there has no records, and nobody is locked out by
   a command that has returned. *)
TypeOK ==
  /\ \A a \in Anchors :
       /\ anchors[a] = None => records[a] = NoRecords /\ synced[a] = NoRecords
       /\ lock[a] # None => a \in procs[lock[a]].held
       /\ discover_with_authority(a) \in Kinds
  /\ \A s \in Stores : stores[s].id = None => stores[s].marker = None
  /\ \A p \in Processes : procs[p].held \subseteq {a \in Anchors : lock[a] = p}
  /\ admin \in BOOLEAN
  /\ faults \in 0..MaxFaults

(* One account, one store: whatever stops where, whatever store the environment
   names, and though stores may be lost or replaced, and anchors that were selected
   in the presence of their peer lost: all the mutations ever made went through
   one store.
   A lost, replaced or corrupt one "never creates a substitute store". *)
OneStore == Cardinality(used) <= 1

(* The lifecycle without sealed staging runs only for an account that never
   activated a store, and never beside a sealed session. *)
LegacyOnlyBeforeActivation ==
  (\E p \in Processes : At(p, "legacy")) => used = {}

(* A sealed session never begins on evidence the power could take back: claim,
   prepare, active and the store's marker are all durable and agree, no matter
   which killed commands wrote them. *)
SessionEvidenceIsDurable ==
  \A p \in Processes : At(p, "session") =>
    LET r == synced[Me(p)]
    IN  /\ r.claim # None /\ r.active # None /\ r.prepare = r.active
        /\ r.prepare.id = r.claim.id
        /\ marked[r.active.store] = r.active

(* ensure_authority_claim: a crash "can never leave a newly selected root whose
   existing peer has no loss evidence".  An anchor claimed in the presence of its
   peer has its witness there, in whatever the power leaves. *)
WitnessFirst ==
  \A a \in witnessed : (records[a].claim # None /\ anchors[Peer(a)] # None) =>
    records[Peer(a)].claim = records[a].claim /\ synced[Peer(a)].claim = records[a].claim

(* Commands killed at any step, and losses of power, leave an account that the
   next command can use: the selector selects, and what it selects was never
   activated, is activated, or can be resumed. *)
CrashesLeaveItResumable ==
  Provisioned # {} =>
    /\ select_authority_pair_with(Provisioned) # {}
    /\ \A a \in Provisioned :
         discover_with_authority(a) \in {"NeverActivated", "Preparing", "Activated"}

(* degu init never publishes "a fresh authority over a store that has already been
   activated": when the account claims its own anchor, the store its environment
   names carries no marker of an anchor that is gone. *)
InitNeverAbandonsAStore ==
  \A s \in Stores :
    (/\ records["self"].claim # None
     /\ records["self"].claim.selected = "self"
     /\ stores[s].marker # None) =>
      stores[s].marker.authority_identity = records["self"].claim.identity

Claimed == \E a \in Anchors : synced[a].claim # None

InSession == \E p \in Processes : At(p, "session")
=============================================================================
