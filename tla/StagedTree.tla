----------------------------- MODULE StagedTree -----------------------------
(***************************************************************************)
(* What sealed staging promises of a tree, without logs, modes, syncs or   *)
(* sessions: where the tree is and what the account may rely on.  A tree   *)
(* is moved or deleted only while a decision of that kind is open, and a   *)
(* verdict, once it stands, stays true through every crash until degu is   *)
(* asked to open another decision.                                         *)
(***************************************************************************)
CONSTANT Trees

VARIABLES
  place,     \* where the tree is
  intact,    \* whether its directories have the modes they had at first
  verdict    \* what has been decided about it

vars == <<place, intact, verdict>>

\* While a decision is open the tree may be on either side of it.
Open == [staging   |-> {"source", "staged"},
         returning |-> {"staged", "source"},
         purging   |-> {"staged", "partial", "gone"}]

\* The verdicts that end a decision, and what must be so when they are reached.
Holds(v, at, whole) ==
  CASE v = "committed" -> at = "staged"
    [] v = "restored" -> at = "source" /\ whole
    [] v \in {"conflict", "quarantined"} -> at = "staged" /\ whole
    [] v = "purged" -> at = "gone"
    [] OTHER -> TRUE

Follows ==
  {<<"none", "staging">>, <<"staging", "committed">>, <<"staging", "restored">>,
   <<"staging", "quarantined">>, <<"committed", "returning">>, <<"returning", "restored">>,
   <<"returning", "conflict">>, <<"committed", "purging">>, <<"purging", "purged">>}

Decide(t) ==
  /\ <<verdict[t], verdict'[t]>> \in Follows
  /\ place'[t] = place[t] /\ intact'[t] = intact[t]
  /\ Holds(verdict'[t], place[t], intact[t])

Work(t) ==
  /\ verdict[t] \in DOMAIN Open
  /\ place'[t] \in Open[verdict[t]]
  /\ verdict'[t] = verdict[t]

\* What a loss of power may do to a place that was not durable: it deletes nothing.
Reverts ==
  {<<"source", "staged">>, <<"staged", "source">>, <<"gone", "partial">>,
   <<"gone", "staged">>, <<"partial", "staged">>}
  \cup {<<p, p>> : p \in {"source", "staged", "partial", "gone"}}

\* degu gives up on a tree, for good, and leaves it alone: recovery cannot tell
\* where it is, or the manifest it would be verified against is unusable.
GiveUp(t) ==
  /\ verdict[t] \in DOMAIN Open \cup {"committed", "quarantined", "stuck"}
  /\ verdict'[t] = "stuck"
  /\ <<place[t], place'[t]>> \in Reverts
  /\ verdict[t] \notin DOMAIN Open \cup {"stuck"} =>
       place'[t] = place[t] /\ intact'[t] = intact[t]

Rest(t) ==
  place'[t] = place[t] /\ intact'[t] = intact[t] /\ verdict'[t] = verdict[t]

Init ==
  /\ place = [t \in Trees |-> "source"]
  /\ intact = [t \in Trees |-> TRUE]
  /\ verdict = [t \in Trees |-> "none"]

\* One crash, or one start of degu, may concern several trees at once.
Next == \A t \in Trees : Decide(t) \/ Work(t) \/ GiveUp(t) \/ Rest(t)

Spec == Init /\ [][Next]_vars
=============================================================================
