---------------------------- MODULE NativeRunner ----------------------------
(***************************************************************************)
(* native/runner.rs: one bounded run of a native tool.                     *)
(*                                                                         *)
(* The caller's thread spawns the tool in a process group of its own and   *)
(* then loops: drain both pipes, poll for the exit, look at the deadlines, *)
(* decide or sleep.  The kernel and the tool run beside it: the tool and a *)
(* helper it starts write, exit and die in any order with those steps, and *)
(* a killed task may take as long as it likes to go away.                  *)
(*                                                                         *)
(* Output is counted in units; time in units of the sleep.                 *)
(***************************************************************************)
EXTENDS Naturals, FiniteSets, FiniteSetsExt

CONSTANTS Timeout,      \* declaration.timeout
          KillGrace,    \* KILL_REAP_GRACE
          DrainGrace,   \* POST_EXIT_DRAIN_GRACE
          MaxDrain,     \* MAX_DRAIN_BYTES_PER_TICK
          Limit,        \* stdout_limit, stderr_limit
          Capacity,     \* units a pipe holds before a writer waits
          MaxFaults,    \* failing calls
          MaxTicks      \* units of time the caller spends not scheduled

Streams == {"stdout", "stderr"}
Procs == {"tool", "helper"}
Descriptors == 3 .. 4          \* descriptors other code of the process may open

(* The times and limits the declaration and the runner's constants allow.  *)
RunnerAssumption == /\ {Timeout, MaxDrain, Limit, Capacity} \subseteq Nat \ {0}
                    /\ {KillGrace, DrainGrace} \subseteq Nat

VARIABLES pc,      \* where the caller is
          rn,      \* its locals
          proc,    \* per process: what the kernel knows of it
          pipe,    \* per stream: units waiting, units ever written
          fds,     \* inheritable descriptors; after spawn, those the tool has
          clock,
          result,  \* what the call returned
          budget

vars == <<pc, rn, proc, pipe, fds, clock, result, budget>>

None == "none"
LongestWait == Timeout + Max({KillGrace, DrainGrace})     \* of the loop, asleep
Never == LongestWait + KillGrace + MaxTicks + 1

-----------------------------------------------------------------------------
Locals == [status |-> None, timed_out |-> FALSE, kill_at |-> Never, drain_at |-> Never, now |-> 0,
           eof |-> {}, got |-> [s \in Streams |-> 0], truncated |-> {}, scan |-> 3,
           error |-> None, grace |-> Never, reaper |-> FALSE, slept |-> 0]

(* exit: how it ended.  signalled: SIGKILL is pending or was delivered.    *)
(* holds: the write ends it has open.                                      *)
Unborn == [state |-> "unborn", exit |-> None, signalled |-> FALSE, holds |-> {}, escaped |-> FALSE]

Init == /\ pc = "prepared"
        /\ rn = Locals
        /\ proc = [p \in Procs |-> Unborn]
        /\ pipe = [s \in Streams |-> [waiting |-> 0, written |-> 0]]
        /\ fds = {}
        /\ clock = 0
        /\ result = None
        /\ budget = [faults |-> MaxFaults, ticks |-> MaxTicks]

Fault == budget.faults > 0 /\ budget' = [budget EXCEPT !.faults = @ - 1]
Returns(r) == pc' = "returned" /\ result' = r
Untouched == UNCHANGED <<proc, pipe, fds, clock, result, budget>>   \* only the locals change

-----------------------------------------------------------------------------
(* Before the tool exists.                                                 *)

(* Code elsewhere in the process opens a descriptor after the action was   *)
(* prepared (external: any code of the program).                           *)
OpenDescriptor(fd) == /\ pc = "prepared" /\ fd \notin fds
                      /\ fds' = fds \cup {fd}
                      /\ UNCHANGED <<pc, rn, proc, pipe, clock, result, budget>>

descriptor_scan_limit == Max({2} \cup fds) + 1

(* Mutant: the bound of an empty table, taken when the action was prepared.*)
mutant_refresh_descriptor_limit == /\ pc = "prepared" /\ pc' = "revalidate"
                                   /\ rn' = [rn EXCEPT !.scan = 3]
                                   /\ Untouched

refresh_descriptor_limit ==
    \/ /\ pc = "prepared" /\ pc' = "revalidate"
       /\ rn' = [rn EXCEPT !.scan = descriptor_scan_limit]
       /\ Untouched
    \/ /\ pc = "prepared" /\ Fault /\ Returns("DescriptorPolicy")
       /\ UNCHANGED <<rn, proc, pipe, fds, clock>>

(* The held executable, then the one-shot binding of what will be changed. *)
revalidate_then(here, next, error) ==
    \/ pc = here /\ pc' = next /\ UNCHANGED rn /\ Untouched
    \/ pc = here /\ Fault /\ Returns(error) /\ UNCHANGED <<rn, proc, pipe, fds, clock>>

executable_revalidate == revalidate_then("revalidate", "binding", "ExecutableBinding")

mutation_binding == revalidate_then("binding", "spawn", "MutationBinding")

(* What the tool inherits: close_range marks every descriptor; without it  *)
(* the scan marks the ones below the limit.                                *)
mark_nonstdio_cloexec(ranged) == IF ranged THEN {} ELSE {fd \in fds : fd >= rn.scan}

spawn == 
    \/ \E ranged \in BOOLEAN :
          /\ pc = "spawn" /\ pc' = "setup"
          /\ proc' = [proc EXCEPT !["tool"] = [@ EXCEPT !.state = "alive", !.holds = Streams]]
          /\ fds' = mark_nonstdio_cloexec(ranged)
          /\ UNCHANGED <<rn, pipe, clock, result, budget>>
    \/ pc = "spawn" /\ Fault /\ Returns("Spawn") /\ UNCHANGED <<rn, proc, pipe, fds, clock>>

-----------------------------------------------------------------------------
(* Signals and the waiter.                                                 *)

(* kill(-pgid, SIGKILL) reaches every live member that has not left.       *)
Killed(ps) == [p \in Procs |-> IF p \in ps /\ proc[p].state = "alive"
                               THEN [proc[p] EXCEPT !.signalled = TRUE] ELSE proc[p]]

Group == {p \in Procs : ~proc[p].escaped}

terminate_process_group == Killed(Group)

Reaped(ps) == [ps EXCEPT !["tool"].state = "reaped"]

(* A detached thread waits for the tool; creating it may fail, silently.   *)
defer_reap == \E spawned \in BOOLEAN : rn' = [rn EXCEPT !.reaper = spawned]

reaper_wait == /\ rn.reaper /\ proc["tool"].state = "zombie"
               /\ proc' = Reaped(proc)
               /\ rn' = [rn EXCEPT !.reaper = FALSE]
               /\ UNCHANGED <<pc, pipe, fds, clock, result, budget>>

(* terminate_reap_or_defer: the signals ...                                *)
TerminateBecause(error) == /\ proc' = Killed(Group \cup {"tool"})
                           /\ rn' = [rn EXCEPT !.error = error, !.grace = clock + KillGrace]
                           /\ pc' = "reap"
                           /\ Fault
                           /\ UNCHANGED <<pipe, fds, clock, result>>

(* ... and the wait for the end within the grace.                          *)
reap_within_grace ==
    /\ pc = "reap"
    /\ \/ /\ proc["tool"].state \in {"zombie", "reaped"}     \* std keeps a status it has seen
          /\ proc' = Reaped(proc) /\ Returns(rn.error)
          /\ UNCHANGED <<rn, pipe, fds, clock, budget>>
       \/ /\ proc["tool"].state = "alive" /\ clock < rn.grace
          /\ pc' = "reap_sleep" /\ UNCHANGED rn /\ Untouched
       \/ /\ proc["tool"].state = "alive" /\ clock >= rn.grace
          /\ defer_reap /\ Returns("TerminationUnconfirmed")
          /\ UNCHANGED <<proc, pipe, fds, clock, budget>>
       \/ /\ proc["tool"].state # "reaped" /\ Fault                       \* try_wait fails
          /\ defer_reap /\ Returns("TerminationUnconfirmed")
          /\ UNCHANGED <<proc, pipe, fds, clock>>

Sleep(from, to) == /\ pc = from /\ pc' = to
                   /\ clock' = clock + 1
                   /\ rn' = [rn EXCEPT !.slept = @ + 1]
                   /\ UNCHANGED <<proc, pipe, fds, result, budget>>

reap_sleep == Sleep("reap_sleep", "reap")

-----------------------------------------------------------------------------
(* The loop.                                                               *)

set_nonblocking == 
    \/ pc = "setup" /\ pc' = "stdout" /\ UNCHANGED rn /\ Untouched
    \/ pc = "setup" /\ TerminateBecause("OutputSetup")

Holders(s) == {p \in Procs : s \in proc[p].holds}

(* Mutant: bytes past the limit are dropped without a trace.               *)
mutant_retain_bytes(s, n) ==
    [rn EXCEPT !.got[s] = Min({Limit, @ + n})]

(* Mutant: the whole of what was read is kept, and then marked.            *)
mutant_retain_all(s, n) ==
    [rn EXCEPT !.got[s] = @ + n,
               !.truncated = IF rn.got[s] + n > Limit THEN @ \cup {s} ELSE @]

retain_bytes(s, n) ==
    [rn EXCEPT !.got[s] = Min({Limit, @ + n}),
               !.truncated = IF rn.got[s] + n > Limit THEN @ \cup {s} ELSE @]

(* Reads until the pipe is empty or the share of this turn is used up; end *)
(* of file is seen only by a read that finds the pipe empty and unheld.    *)
drain_available(s) ==
    LET n == Min({pipe[s].waiting, MaxDrain})
        ended == n < MaxDrain /\ Holders(s) = {}
    IN  /\ rn' = [retain_bytes(s, n) EXCEPT !.eof = IF ended THEN @ \cup {s} ELSE @]
        /\ pipe' = [pipe EXCEPT ![s].waiting = @ - n]

(* Mutant: a turn ends only when the pipe is empty.                        *)
mutant_Drain(s, next) ==
    /\ pc = s
    /\ \/ s \in rn.eof /\ pc' = next /\ UNCHANGED rn /\ Untouched
       \/ /\ s \notin rn.eof /\ drain_available(s)
          /\ pc' = IF pipe[s].waiting < MaxDrain THEN next ELSE pc
          /\ UNCHANGED <<proc, fds, clock, result, budget>>
       \/ s \notin rn.eof /\ TerminateBecause("Drain")

Drain(s, next) ==
    /\ pc = s
    /\ \/ s \in rn.eof /\ pc' = next /\ UNCHANGED rn /\ Untouched
       \/ /\ s \notin rn.eof /\ drain_available(s) /\ pc' = next
          /\ UNCHANGED <<proc, fds, clock, result, budget>>
       \/ s \notin rn.eof /\ TerminateBecause("Drain")

drain_stdout == Drain("stdout", "stderr")

drain_stderr == Drain("stderr", "now")

(* now = Instant::now(): what the rest of the turn goes by.                *)
read_clock == /\ pc = "now" /\ pc' = "wait"
              /\ rn' = [rn EXCEPT !.now = clock]
              /\ Untouched

(* Mutant: the drain after an exit is timed anew once the tool was killed. *)
mutant_DrainDeadline == rn.now + DrainGrace

DrainDeadline == Min({rn.now + DrainGrace, rn.kill_at})

(* Mutant: helpers left in the group are not signalled at the exit.        *)
mutant_try_wait ==
    /\ pc = "wait"
    /\ \/ /\ rn.status = None /\ proc["tool"].state = "zombie"
          /\ rn' = [rn EXCEPT !.status = proc["tool"].exit, !.drain_at = DrainDeadline]
          /\ proc' = Reaped(proc)
          /\ pc' = "deadline" /\ UNCHANGED <<pipe, fds, clock, result, budget>>
       \/ /\ rn.status # None \/ proc["tool"].state # "zombie"
          /\ pc' = "deadline" /\ UNCHANGED rn /\ Untouched
       \/ rn.status = None /\ TerminateBecause("Wait")

try_wait ==
    /\ pc = "wait"
    /\ \/ /\ rn.status = None /\ proc["tool"].state = "zombie"
          /\ rn' = [rn EXCEPT !.status = proc["tool"].exit, !.drain_at = DrainDeadline]
          /\ proc' = Reaped(terminate_process_group)
          /\ pc' = "deadline" /\ UNCHANGED <<pipe, fds, clock, result, budget>>
       \/ /\ rn.status # None \/ proc["tool"].state # "zombie"
          /\ pc' = "deadline" /\ UNCHANGED rn /\ Untouched
       \/ rn.status = None /\ TerminateBecause("Wait")

(* Mutant: the timeout signals the group and the flag is forgotten.        *)
mutant_execution_deadline ==
    /\ pc = "deadline" /\ rn.status = None /\ ~rn.timed_out /\ rn.now >= Timeout /\ rn.kill_at = Never
    /\ rn' = [rn EXCEPT !.kill_at = rn.now + KillGrace]
    /\ proc' = Killed(Group \cup {"tool"})
    /\ pc' = "kill" /\ UNCHANGED <<pipe, fds, clock, result, budget>>

execution_deadline ==
    /\ pc = "deadline" /\ rn.status = None /\ ~rn.timed_out /\ rn.now >= Timeout
    /\ rn' = [rn EXCEPT !.timed_out = TRUE, !.kill_at = rn.now + KillGrace]
    /\ proc' = Killed(Group \cup {"tool"})
    /\ pc' = "kill" /\ UNCHANGED <<pipe, fds, clock, result, budget>>

before_deadline == /\ pc = "deadline"
                   /\ rn.status # None \/ rn.timed_out \/ rn.now < Timeout
                   /\ pc' = "kill" /\ UNCHANGED rn /\ Untouched

kill_deadline == /\ pc = "kill" /\ rn.status = None /\ rn.now >= rn.kill_at
                 /\ defer_reap /\ Returns("TerminationUnconfirmed")
                 /\ UNCHANGED <<proc, pipe, fds, clock, budget>>

normalize_outcome(truncated) ==
    CASE rn.timed_out -> {"Timeout"}
      [] rn.status = "signal" -> {"Signal"}
      [] rn.status = "fail" -> {"ExitFailure"}
      [] truncated # {} -> {"OutputTruncated"}
      [] OTHER -> {"Success", "OutputParseFailure"}     \* the adapter's parser

decide ==
    /\ pc = "kill" /\ rn.status # None
    /\ rn.eof = Streams \/ rn.now >= rn.drain_at
    /\ \E o \in normalize_outcome(rn.truncated \cup (Streams \ rn.eof)) : Returns(o)
    /\ UNCHANGED <<rn, proc, pipe, fds, clock, budget>>

undecided == /\ pc = "kill"
             /\ IF rn.status = None THEN rn.now < rn.kill_at
                                    ELSE rn.eof # Streams /\ rn.now < rn.drain_at
             /\ pc' = "sleep" /\ UNCHANGED rn /\ Untouched

sleep == Sleep("sleep", "stdout")

Runner == \/ refresh_descriptor_limit \/ executable_revalidate \/ mutation_binding \/ spawn
          \/ set_nonblocking \/ drain_stdout \/ drain_stderr \/ read_clock \/ try_wait
          \/ execution_deadline \/ before_deadline \/ kill_deadline \/ decide \/ undecided \/ sleep
          \/ reap_within_grace \/ reap_sleep

-----------------------------------------------------------------------------
(* The kernel and the tool (external).                                     *)

Runs(p) == proc[p].state = "alive" /\ ~proc[p].signalled

OfTheTool == UNCHANGED <<pc, rn, fds, clock, result>>

(* It may write for ever; what was written is counted up to one past the   *)
(* limit.                                                                  *)
Write(p, s) == /\ Runs(p) /\ s \in proc[p].holds /\ pipe[s].waiting < Capacity
               /\ pipe' = [pipe EXCEPT ![s] = [waiting |-> @.waiting + 1,
                                               written |-> Min({Limit + 1, @.written + 1})]]
               /\ OfTheTool /\ UNCHANGED <<proc, budget>>

(* The tool starts a helper that keeps some of its pipes, in its group or  *)
(* in a session of its own.                                                *)
Fork == /\ Runs("tool") /\ proc["helper"].state = "unborn"
        /\ \E held \in SUBSET proc["tool"].holds, away \in BOOLEAN :
              proc' = [proc EXCEPT !["helper"] = [@ EXCEPT !.state = "alive", !.holds = held, !.escaped = away]]
        /\ OfTheTool /\ UNCHANGED <<pipe, budget>>

Ends(p, how) == /\ proc' = [proc EXCEPT ![p] = [@ EXCEPT !.state = IF p = "tool" THEN "zombie" ELSE "gone",
                                                         !.exit = how, !.holds = {}]]
                /\ OfTheTool /\ UNCHANGED <<pipe, budget>>

(* How the helper ends is nobody's concern.                                *)
Exit(p) == Runs(p) /\ \E how \in IF p = "tool" THEN {"ok", "fail", "signal"} ELSE {"ok"} : Ends(p, how)

(* A signalled process goes away when the kernel lets it.                  *)
Die(p) == proc[p].state = "alive" /\ proc[p].signalled /\ Ends(p, IF p = "tool" THEN "signal" ELSE "ok")

(* The caller's thread is not scheduled for a while.  Time counts from the *)
(* start of the loop.                                                      *)
Tick == /\ pc \in {"stdout", "stderr", "now", "wait", "deadline", "kill", "sleep", "reap"}
        /\ budget.ticks > 0 /\ budget' = [budget EXCEPT !.ticks = @ - 1]
        /\ clock' = clock + 1
        /\ UNCHANGED <<pc, rn, proc, pipe, fds, result>>

Kernel == \/ \E fd \in Descriptors : OpenDescriptor(fd)
          \/ \E p \in Procs : Exit(p) \/ Die(p) \/ \E s \in Streams : Write(p, s)
          \/ Fork \/ Tick

Next == Runner \/ reaper_wait \/ Kernel

Spec == Init /\ [][Next]_vars

-----------------------------------------------------------------------------
(* Properties.                                                             *)

Errors == {"DescriptorPolicy", "ExecutableBinding", "MutationBinding", "Spawn",
           "OutputSetup", "Drain", "Wait", "TerminationUnconfirmed"}
Outcomes == {"Timeout", "Signal", "ExitFailure", "OutputTruncated", "OutputParseFailure", "Success"}

(* Every variable stays in its set.                                        *)
TypeOK ==
    /\ pc \in {"prepared", "revalidate", "binding", "spawn", "setup", "stdout", "stderr", "now", "wait",
               "deadline", "kill", "sleep", "reap", "reap_sleep", "returned"}
    /\ rn.eof \cup rn.truncated \subseteq Streams
    /\ rn.got \in [Streams -> 0 .. Limit]
    /\ \A p \in Procs : /\ proc[p].state \in {"unborn", "alive", "zombie", "reaped", "gone"}
                        /\ proc[p].holds \subseteq Streams
    /\ pipe \in [Streams -> [waiting : 0 .. Capacity, written : 0 .. Limit + 1]]
    /\ fds \subseteq Descriptors
    /\ clock \in 0 .. Never
    /\ result \in {None} \cup Errors \cup Outcomes

Spawned == proc["tool"].state # "unborn"

(* The adapter's parser is given the output only of a tool that exited     *)
(* with success in time, and all that was ever written to either stream,   *)
(* whatever a helper still held when the tool exited                       *)
(* (run_preflighted_output, normalize_outcome).                            *)
ParsedIsWhole ==
    result \in {"Success", "OutputParseFailure"} =>
        /\ proc["tool"].exit = "ok" /\ ~rn.timed_out
        /\ \A s \in Streams : rn.got[s] = pipe[s].written /\ Holders(s) = {}

(* An exit failure or a signal is the tool's own doing: the runner's       *)
(* SIGKILL is reported as a timeout or as the failure that led to it,      *)
(* never as the way the tool ended (normalize_outcome's precedence).       *)
OutcomeIsItsOwn == result \in {"Signal", "ExitFailure"} => ~proc["tool"].signalled

(* When the call returns nothing of the tool goes on working: it was       *)
(* reaped, or the caller is told that its end is unconfirmed and it was    *)
(* signalled; and whatever stayed in its process group was signalled.      *)
NothingGoesOn ==
    pc = "returned" /\ Spawned =>
        /\ \A p \in Group : ~Runs(p)
        /\ result # "TerminationUnconfirmed" => proc["tool"].state = "reaped"

(* The caller is asleep no longer than the timeout and one grace, plus the *)
(* grace of a termination after an error: a tool that ignores SIGKILL, a   *)
(* helper that keeps a pipe or a tool that dies late of the timeout's kill *)
(* adds nothing (kill_deadline, drain_deadline, reap_within_grace).        *)
SleepIsBounded == /\ rn.error = None => rn.slept <= LongestWait
                  /\ rn.slept <= LongestWait + KillGrace

(* No descriptor of the program reaches the tool, those opened after the   *)
(* action was prepared included, with close_range or without it.           *)
NoDescriptorInherited == Spawned => fds = {}
=============================================================================
