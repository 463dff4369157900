----------------------------- MODULE MCBusExchange -----------------------------
(* Model-checking instances of BusExchange: windows of one or two blocks. *)
EXTENDS BusExchange

CONSTANTS pss, tcs, mns

OneBlock   == [x \in Nodes |-> 1]
TwoBlocks  == [x \in Nodes |-> 2]
TwoOrOne   == [x \in Nodes |-> IF x = pss THEN 2 ELSE 1]

================================================================================
