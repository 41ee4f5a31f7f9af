---------------------------- MODULE MCMachine ----------------------------
(* Small machines for TLC.                                                 *)
EXTENDS MachineEngine

Terminal(status) ==
    [kind |-> "terminal", on |-> <<>>, when |-> {}, delay |-> 0, captures |-> FALSE,
     notify |-> FALSE, status |-> status]
Worker(kind, on) == [Terminal("ok") EXCEPT !.kind = kind, !.on = on, !.captures = TRUE]
WaitFor(delay, tick, signalled) ==
    [Terminal("ok") EXCEPT !.kind = "wait", !.delay = delay, !.notify = TRUE,
                           !.on = [tick |-> tick, signal |-> signalled]]

\* Every kind of state: an agent works, a wait parks, a tool checks, a branch
\* sends it round again or ends it.
WorkMachine ==
    [plan |-> Worker("agent", [ok |-> "park", failed |-> "plan", budget_exhausted |-> "bad",
                               timeout |-> "bad"]),
     park |-> WaitFor(1, "check", "check"),
     check |-> Worker("tool", [ok |-> "route", nonzero |-> "plan", timeout |-> "bad"]),
     route |-> [Terminal("ok") EXCEPT !.kind = "branch", !.when = {"good"},
                                      !.on = [if |-> "done", else |-> "plan"]],
     done |-> Terminal("ok"),
     bad |-> Terminal("failed")]

\* A tool and two waits, one without a timer: pokes, ticks and stops.
WaitMachine ==
    [park |-> WaitFor(1, "check", "check"),
     check |-> Worker("tool", [ok |-> "park", nonzero |-> "idle", timeout |-> "bad"]),
     idle |-> [WaitFor(0, "check", "check") EXCEPT !.notify = FALSE],
     bad |-> Terminal("failed")]
=============================================================================
