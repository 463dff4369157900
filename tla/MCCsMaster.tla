------------------------------- MODULE MCCsMaster -------------------------------
(* Model-checking instances of CsMaster. *)
EXTENDS CsMaster

CONSTANTS pss, tcs

TcsPss   == <<tcs, pss>>
OneField == [x \in Nodes |-> 1]

\* The thresholds of the program, with shorter cooldowns.
ShortThreshold == [r \in Failures |-> IF r = "timeout" THEN 3 ELSE 1]
ShortCooldown  == [r \in Failures |-> IF r = "timeout" THEN 2 ELSE 3]

================================================================================
