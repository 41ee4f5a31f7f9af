--------------------------- MODULE MachinePath ---------------------------
(***************************************************************************)
(* What `agent6 machine run` promises, whoever dies and whenever: the      *)
(* journal is one path of the machine.  Each durable step is one legal     *)
(* transition from where the last one led, taken within both budgets; the  *)
(* spend of an attempt that died is added, never taken back; and once the  *)
(* machine has ended nothing more is recorded.                             *)
(***************************************************************************)
EXTENDS MachineSpec

VARIABLES
    at,    \* the position the recorded facts lead to
    over   \* "no", or the status it ended with

Init == at = StartPosition /\ over = "no"

\* One legal edge, within both budgets.
Transition(from, to) ==
    /\ ~IsTerminal(from.state)
    /\ from.transitions < MaxTransitions
    /\ from.spent < MaxUsd
    /\ \E label \in DOMAIN Machine[from.state].on : to.state = Machine[from.state].on[label]
    /\ to.transitions = from.transitions + 1
    /\ to.spent >= from.spent

\* A dead attempt is paid for and moves nothing.
Payment(from, to) == to.spent > from.spent /\ to = [from EXCEPT !.spent = to.spent]

Record ==
    /\ over = "no"
    /\ over' = over
    /\ Transition(at, at') \/ Payment(at, at')

\* A machine ends ok only in a terminal that says so.
Finish ==
    /\ over = "no"
    /\ over' \in {"ok", "failed"}
    /\ over' = "ok" => IsTerminal(at.state) /\ Machine[at.state].status = "ok"
    /\ at' = at

Next == Record \/ Finish

Spec == Init /\ [][Next]_<<at, over>>
==========================================================================
