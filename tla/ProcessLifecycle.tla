-------------------------- MODULE ProcessLifecycle --------------------------
(***************************************************************************)
(* What the scheduler promises about process states (spec section 4.4):    *)
(* every process moves only along the lifecycle edges Ready -> Running,    *)
(* Running -> Ready, Running -> Blocked, Running -> Waiting,               *)
(* Blocked -> Ready, Waiting -> Ready and Running -> Terminated, at most   *)
(* one process is Running, and a Waiting process becomes Ready only in the *)
(* step in which the process it waits for terminates.  A pid is Unused     *)
(* until a creation takes it; a creation that fails after taking the pid   *)
(* leaves it Terminated.  One kernel step may move several processes, and  *)
(* a child created by a trap may be dispatched by the same trap.           *)
(***************************************************************************)
EXTENDS Naturals, FiniteSets

CONSTANT Pid

VARIABLES st,     \* lifecycle state of every pid
          waits   \* the pid a Waiting process waits for (0 when none)

AbsStates == {"Unused", "Ready", "Running", "Blocked", "Waiting", "Terminated"}

Edges ==
    { <<"Unused", "Ready">>, <<"Unused", "Terminated">>, <<"Unused", "Running">>,
      <<"Ready", "Running">>, <<"Running", "Ready">>, <<"Running", "Blocked">>,
      <<"Running", "Waiting">>, <<"Blocked", "Ready">>, <<"Running", "Terminated">> }

\* Waiting -> Ready is allowed only together with the termination of the
\* awaited process.
Moves(p) ==
    \/ st'[p] = st[p]
    \/ <<st[p], st'[p]>> \in Edges
    \/ /\ st[p] = "Waiting" /\ st'[p] = "Ready"
       /\ st[waits[p]] # "Terminated" /\ st'[waits[p]] = "Terminated"

\* A process that starts waiting waits for a child created in the same step;
\* a woken process forgets whom it waited for.
WaitsFor(p) ==
    IF st'[p] = "Waiting" /\ st[p] # "Waiting"
    THEN waits'[p] \in Pid /\ st[waits'[p]] = "Unused" /\ st'[waits'[p]] \in {"Ready", "Running"}
    ELSE IF st[p] = "Waiting" /\ st'[p] # "Waiting"
    THEN waits'[p] = 0
    ELSE waits'[p] = waits[p]

Init ==
    /\ st = [p \in Pid |-> "Unused"]
    /\ waits = [p \in Pid |-> 0]

Next ==
    /\ st' \in [Pid -> AbsStates]
    /\ \A p \in Pid : Moves(p) /\ WaitsFor(p)
    /\ Cardinality({p \in Pid : st'[p] = "Running"}) <= 1

Spec == Init /\ [][Next]_<<st, waits>>

=============================================================================
