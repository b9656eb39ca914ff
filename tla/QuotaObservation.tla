-------------------------- MODULE QuotaObservation --------------------------
(***************************************************************************)
(* native/observation.rs and native/result.rs, with the bridge of          *)
(* native/action.rs: quota is probed before and after one permanent action *)
(* and the difference reported per scope.                                  *)
(*                                                                         *)
(* The requests are probed one after the other, the action runs, and every *)
(* scope found is probed once more.  Meanwhile links are retargeted, file  *)
(* systems remounted, probes fail, and a tool whose end could not be       *)
(* confirmed (NativeRunner) goes on freeing space.                         *)
(***************************************************************************)
EXTENDS Naturals, Sequences, FiniteSets

CONSTANTS Anchors,       \* absolute paths an action may ask to observe
          Relative,      \* relative ones
          Paths,         \* canonical paths
          Filesystems, Subjects,
          Mounts,        \* [filesystem, at]: what may be mounted, and where
          MaxRequests,
          MaxChanges,    \* retargeted links and remounts
          MaxFreed,      \* units the action frees in all
          MaxFaults      \* failing probes

VARIABLES pc, requests,
          canon,         \* anchor -> the path it leads to
          mount,         \* path -> [filesystem, at, subject, active]: what the provider says of it
          used,          \* [filesystem, subject] -> units in use
          tool,          \* the action: idle, working, ended
          batch,         \* [targets, seen, pre, outcome, policy, resolved]
          report,        \* what the action envelope carries
          budget

vars == <<pc, requests, canon, mount, used, tool, batch, report, budget>>
world == <<canon, mount, used, tool>>

Placements(states) == {[filesystem |-> m.filesystem, at |-> m.at, subject |-> u, active |-> a] :
                          m \in Mounts, u \in Subjects, a \in states}
Usages == [filesystem : Filesystems, subject : Subjects]
Requests == Anchors \cup Relative
Quota == MaxFreed                \* in use at first, everywhere

(* ScopeIdentity: a file system mounted twice is two scopes of one usage.   *)
Identity(snapshot) == [filesystem |-> snapshot.filesystem, at |-> snapshot.at, subject |-> snapshot.subject]

Usage(scope) == [filesystem |-> scope.filesystem, subject |-> scope.subject]

(* The distinct requests, in the order they were first made.               *)
ActionObservationTargets(s) ==
    LET first == {i \in 1 .. Len(s) : \A j \in 1 .. i - 1 : s[j] # s[i]}
        kth(k) == CHOOSE i \in first : Cardinality({j \in first : j <= i}) = k
    IN  [k \in 1 .. Cardinality(first) |-> s[kth(k)]]

Init == /\ pc = "attach"
        /\ requests \in UNION {[1 .. n -> Requests] : n \in 1 .. MaxRequests}
        /\ canon \in [Anchors -> Paths]
        /\ mount \in [Paths -> Placements({TRUE})]
        /\ used = [s \in Usages |-> Quota]
        /\ tool = "idle"
        /\ batch = [targets |-> <<>>, seen |-> 0, pre |-> <<>>, outcome |-> "none", policy |-> "none", resolved |-> <<>>]
        /\ report = <<>>
        /\ budget = [changes |-> MaxChanges, freed |-> MaxFreed, faults |-> MaxFaults]

attach_quota_observation ==
    /\ pc = "attach" /\ pc' = "before"
    /\ batch' = [batch EXCEPT !.targets = ActionObservationTargets(requests)]
    /\ UNCHANGED <<requests, world, report, budget>>

-----------------------------------------------------------------------------
(* A probe of a canonical path, by the provider (external).                *)
Snapshot(p) == [filesystem |-> mount[p].filesystem, at |-> mount[p].at, subject |-> mount[p].subject,
                active |-> mount[p].active, path |-> p,
                used |-> used[Usage(mount[p])]]

Unavailable(as, phase, category) ==
    [anchors |-> as, state |-> "unavailable", phase |-> phase, category |-> category]

(* Mutant: anchors are folded by path, and one scope is reported twice.    *)
mutant_SameScope(entry, snapshot) == "before" \in DOMAIN entry /\ entry.canonical = snapshot.path

SameScope(entry, snapshot) == "before" \in DOMAIN entry /\ Identity(entry.before) = Identity(snapshot)

(* Mutant: the pushed anchor of a known scope is lost.                     *)
mutant_Folded(pre, anchor, snapshot) ==
    IF \E i \in 1 .. Len(pre) : SameScope(pre[i], snapshot) THEN pre
    ELSE Append(pre, [anchors |-> {anchor}, canonical |-> snapshot.path, before |-> snapshot])

(* A scope already found takes the anchor along; else it is a new one.     *)
Folded(pre, anchor, snapshot) ==
    LET known == {i \in 1 .. Len(pre) : SameScope(pre[i], snapshot)}
    IN  IF known # {}
        THEN [pre EXCEPT ![CHOOSE i \in known : TRUE].anchors = @ \cup {anchor}]
        ELSE Append(pre, [anchors |-> {anchor}, canonical |-> snapshot.path, before |-> snapshot])

PreUnavailable(anchor, category) ==
    batch' = [batch EXCEPT !.seen = @ + 1, !.pre = Append(@, Unavailable({anchor}, "before", category))]

observe_before ==
    /\ pc = "before" /\ batch.seen < Len(batch.targets)
    /\ LET anchor == batch.targets[batch.seen + 1]
       IN  \/ anchor \in Relative /\ PreUnavailable(anchor, "invalid_request") /\ UNCHANGED budget
           \/ /\ anchor \in Anchors
              /\ batch' = [batch EXCEPT !.seen = @ + 1, !.pre = Folded(@, anchor, Snapshot(canon[anchor]))]
              /\ UNCHANGED budget
           \/ /\ anchor \in Anchors /\ budget.faults > 0
              /\ budget' = [budget EXCEPT !.faults = @ - 1]
              /\ \E c \in {"canonicalize_io", "probe"} : PreUnavailable(anchor, c)
    /\ UNCHANGED <<pc, requests, world, report>>

-----------------------------------------------------------------------------
start == /\ pc = "before" /\ batch.seen = Len(batch.targets)
         /\ pc' = "execute" /\ tool' = "working"
         /\ UNCHANGED <<requests, canon, mount, used, batch, report, budget>>

(* Mutant: a tool that may still run is probed after all.                  *)
mutant_native_post_policy(r) == "probe"

(* Mutant: the result itself is passed for a policy.                       *)
mutant_policy_of(r) == r

native_post_policy(r) == IF r = "TerminationUnconfirmed" THEN "unavailable" ELSE "probe"

(* The execution returns once, whatever the probes gave: with a report, or *)
(* with an error that makes the outcome Failure.  All but the unconfirmed  *)
(* one come after the end of the tool (NativeRunner's NothingGoesOn).      *)
action_outcome(r) ==
    IF r \in {"ExitFailure", "Spawn", "Wait", "TerminationUnconfirmed"} THEN "Failure" ELSE r

execute_output ==
    /\ pc = "execute" /\ pc' = "after"
    /\ \E r \in {"Success", "Timeout", "Signal", "ExitFailure", "OutputTruncated", "OutputParseFailure",
                "Spawn", "Wait", "TerminationUnconfirmed"} :
          /\ batch' = [batch EXCEPT !.outcome = action_outcome(r), !.policy = native_post_policy(r)]
          /\ tool' = IF r = "TerminationUnconfirmed" THEN "working" ELSE "ended"
    /\ UNCHANGED <<requests, canon, mount, used, report, budget>>

-----------------------------------------------------------------------------
(* Mutant: the usage of another subject is compared with that of the first.*)
mutant_compare(canonical, b, a) ==
    CASE ~b.active \/ ~a.active -> "ActiveState"
      [] b.filesystem # a.filesystem -> "Filesystem"
      [] b.at # a.at -> "MountPoint"
      [] b.path # canonical \/ a.path # canonical -> "ObservationAnchor"
      [] OTHER -> "same"

compare(canonical, b, a) ==
    CASE ~b.active \/ ~a.active -> "ActiveState"
      [] b.filesystem # a.filesystem -> "Filesystem"
      [] b.at # a.at -> "MountPoint"
      [] b.subject # a.subject -> "SubjectId"
      [] b.path # canonical \/ a.path # canonical -> "ObservationAnchor"
      [] OTHER -> "same"

Resolved(entry) ==
    LET after == Snapshot(entry.canonical)
        verdict == compare(entry.canonical, entry.before, after)
    IN  IF verdict = "same"
        THEN [anchors |-> entry.anchors, state |-> "observed", scope |-> Identity(entry.before),
              before |-> entry.before.used, after |-> after.used]
        ELSE [anchors |-> entry.anchors, state |-> "incomparable", dimension |-> verdict]

observe_after ==
    /\ pc = "after" /\ Len(batch.resolved) < Len(batch.pre)
    /\ LET entry == batch.pre[Len(batch.resolved) + 1]
           Resolve(r) == batch' = [batch EXCEPT !.resolved = Append(@, r)]
       IN  \/ "before" \notin DOMAIN entry /\ Resolve(entry) /\ UNCHANGED budget
           \/ /\ "before" \in DOMAIN entry /\ batch.policy = "unavailable"
              /\ Resolve(Unavailable(entry.anchors, "after", "action_not_terminal")) /\ UNCHANGED budget
           \/ /\ "before" \in DOMAIN entry /\ batch.policy = "probe"
              /\ Resolve(Resolved(entry)) /\ UNCHANGED budget
           \/ /\ "before" \in DOMAIN entry /\ batch.policy = "probe" /\ budget.faults > 0
              /\ budget' = [budget EXCEPT !.faults = @ - 1]
              /\ Resolve(Unavailable(entry.anchors, "after", "probe"))
    /\ UNCHANGED <<pc, requests, world, report>>

AnchorsOf(s) == UNION {s[i].anchors : i \in 1 .. Len(s)}

(* No anchor in two records, and the records cover the targets exactly.    *)
resolve_accepts(targets, s) ==
    /\ \A i \in 1 .. Len(s) : s[i].anchors # {}
    /\ \A i, j \in 1 .. Len(s) : i # j => s[i].anchors \cap s[j].anchors = {}
    /\ AnchorsOf(s) = {targets[i] : i \in 1 .. Len(targets)}

complete_or_all_unavailable ==
    /\ pc = "after" /\ Len(batch.resolved) = Len(batch.pre)
    /\ pc' = "done"
    /\ report' = IF resolve_accepts(batch.targets, batch.resolved) THEN batch.resolved
                 ELSE [i \in 1 .. Len(batch.targets) |->
                          Unavailable({batch.targets[i]}, "after", "internal_contract")]
    /\ UNCHANGED <<requests, world, batch, budget>>

-----------------------------------------------------------------------------
(* The world (external).                                                   *)
Work == /\ tool = "working" /\ budget.freed > 0
        /\ \E s \in Usages : used' = [used EXCEPT ![s] = @ - 1]
        /\ budget' = [budget EXCEPT !.freed = @ - 1]
        /\ UNCHANGED <<pc, requests, canon, mount, tool, batch, report>>

ToolEnds == /\ tool = "working" /\ pc \in {"after", "done"}
            /\ tool' = "ended"
            /\ UNCHANGED <<pc, requests, canon, mount, used, batch, report, budget>>

Change == /\ budget.changes > 0 /\ budget' = [budget EXCEPT !.changes = @ - 1]
          /\ UNCHANGED <<pc, requests, used, tool, batch, report>>

Retarget == Change /\ UNCHANGED mount /\ \E a \in Anchors, p \in Paths : canon' = [canon EXCEPT ![a] = p]

Remount == /\ Change /\ UNCHANGED canon
           /\ \E p \in Paths, m \in Placements(BOOLEAN) :
                 mount' = [mount EXCEPT ![p] = m]

Next == \/ attach_quota_observation \/ observe_before \/ start \/ execute_output
        \/ observe_after \/ complete_or_all_unavailable
        \/ Work \/ ToolEnds \/ Retarget \/ Remount

Spec == Init /\ [][Next]_vars

-----------------------------------------------------------------------------
(* Properties.                                                             *)

(* Every variable stays in its set.                                        *)
TypeOK == /\ pc \in {"attach", "before", "execute", "after", "done"}
          /\ canon \in [Anchors -> Paths]
          /\ used \in [Usages -> 0 .. Quota]
          /\ tool \in {"idle", "working", "ended"}
          /\ Len(batch.resolved) <= Len(batch.pre) /\ Len(batch.pre) <= batch.seen
          /\ batch.policy \in {"none", "probe", "unavailable"}

(* The report names every path the action asked for in one record and no   *)
(* other path, and the fallback for a broken contract is never needed:     *)
(* folding by scope loses no anchor and repeats none                       *)
(* (coordinate_with_post_policy, ActionObservations::resolve).             *)
EveryRequestOnce ==
    pc = "done" =>
        /\ \A a \in {requests[i] : i \in 1 .. Len(requests)} :
              Cardinality({i \in 1 .. Len(report) : a \in report[i].anchors}) = 1
        /\ AnchorsOf(report) = {requests[i] : i \in 1 .. Len(requests)}
        /\ \A i \in 1 .. Len(report) :
              report[i].state = "unavailable" => report[i].category # "internal_contract"

(* A reported difference is all that the action did to that scope, also    *)
(* after links and mounts changed under it, and whatever the action does   *)
(* later: no snapshot is taken while a tool may still work, and none of    *)
(* another scope is compared (compare, native_post_policy).                *)
DeltaIsWhole ==
    \A i \in 1 .. Len(report) :
        report[i].state = "observed" =>
            /\ report[i].before = Quota
            /\ report[i].after = used[Usage(report[i].scope)]

(* Two records never report the same scope (the folding by ScopeIdentity): *)
(* adding them up counts nothing twice, unless a file system is mounted    *)
(* twice, which is two scopes.                                             *)
ScopeReportedOnce ==
    \A i, j \in 1 .. Len(report) :
        i # j /\ report[i].state = "observed" /\ report[j].state = "observed" =>
            report[i].scope # report[j].scope
=============================================================================
