--------------------------- MODULE MCTaskGraph ---------------------------
(* Instances of TaskGraph small enough for TLC.                            *)
EXTENDS TaskGraph

WorkerDraft == [by |-> "worker", standing |-> FALSE]
\* A model asking for the standing flag keeps its task and loses the flag.
GreedyDraft == [by |-> "worker", standing |-> TRUE]
SteeringDraft == [by |-> "steering", standing |-> TRUE]

OneDraft == {GreedyDraft}
TwoDrafts == {WorkerDraft, SteeringDraft}
==========================================================================
