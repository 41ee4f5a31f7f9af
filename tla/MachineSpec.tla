--------------------------- MODULE MachineSpec ---------------------------
(***************************************************************************)
(* What a machine file declares and what a journaled fact does to it       *)
(* (machine/schema.py, machine/execution.py).  Pure: no state of its own.  *)
(*                                                                         *)
(* Machine[s] is a state: its kind, its edges `on` (label to state), and   *)
(*   when       the boards on which a branch takes its first clause        *)
(*   delay      a wait's timer, 0 for a wait without one                   *)
(*   captures   whether a tool's or an agent's ok result goes on the board *)
(*   notify     whether entering it tells the operator                     *)
(*   status     how a terminal ends                                        *)
(* The blackboard is the value last captured.  A Bad value is one the      *)
(* reducer cannot take: it fails its schema or its template.               *)
(***************************************************************************)
EXTENDS Integers, Sequences, FiniteSets

CONSTANTS
    Machine,         \* the states
    Start,           \* the initial state
    Value,           \* what a tool or an agent can return
    Bad,             \* a value that cannot be captured
    MaxTransitions,  \* budget.max_transitions
    MaxUsd           \* budget.max_usd

State == DOMAIN Machine
Kind == {"tool", "agent", "branch", "wait", "terminal"}

\* The outcomes a state of each kind must have an edge for, and may have no other.
Labels ==
    [tool |-> {"ok", "nonzero", "timeout"},
     agent |-> {"ok", "failed", "budget_exhausted", "timeout"},
     branch |-> {"if", "else"},
     wait |-> {"tick", "signal"}]

ASSUME MachineAssumption ==
    /\ Start \in State
    /\ \A s \in State :
          /\ Machine[s].kind \in Kind
          /\ Machine[s].kind = "terminal" => Machine[s].status \in {"ok", "failed"}
          /\ Machine[s].kind # "terminal" => DOMAIN Machine[s].on = Labels[Machine[s].kind]
          /\ \A l \in DOMAIN Machine[s].on : Machine[s].on[l] \in State
          /\ Machine[s].delay \in Nat
    /\ Bad \notin Value
ASSUME BudgetAssumption == MaxTransitions \in Nat \ {0} /\ MaxUsd \in Nat \ {0}

NoValue == "no value"
NoPoke == 0
NoWake == 0

\* A fact: what one execution of a state observed.  `label` is the outcome of a
\* tool or an agent, what woke a wait, or the clause of a branch.
FactOf(kind, label) ==
    [kind |-> kind, label |-> label, value |-> NoValue, usd |-> 0, wake |-> NoWake,
     payload |-> NoPoke]

Position == [state : State, board : Value \cup {NoValue}, transitions : Nat, spent : Nat]
StartPosition == [state |-> Start, board |-> NoValue, transitions |-> 0, spent |-> 0]

IsTerminal(s) == Machine[s].kind = "terminal"

\* The first clause that fires, else the last one.
RouteBranch(s, board) == IF board \in Machine[s].when THEN "if" ELSE "else"

Captured(s, f) == f.label = "ok" /\ f.kind \in {"tool", "agent"} /\ Machine[s].captures

Reducible(s, f) == Captured(s, f) => f.value # Bad
Reduce(s, f, board) == IF Captured(s, f) THEN f.value ELSE board

\* A fact this position can have produced.
Fits(p, f) ==
    /\ f.kind = Machine[p.state].kind
    /\ f.label \in DOMAIN Machine[p.state].on
    /\ f.kind = "branch" => f.label = RouteBranch(p.state, p.board)
    /\ Reducible(p.state, f)

After(p, f) ==
    [state |-> Machine[p.state].on[f.label],
     board |-> Reduce(p.state, f, p.board),
     transitions |-> p.transitions + 1,
     spent |-> p.spent + f.usd]
==========================================================================
