----------------------------- MODULE MCCsScheduler -----------------------------
(* Model-checking instances of CsScheduler. *)
EXTENDS CsScheduler

CONSTANT pss

PssOnly   == <<pss>>
OneField  == [x \in Nodes |-> 1]
TwoFields == [x \in Nodes |-> 2]

================================================================================
