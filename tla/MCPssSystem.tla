------------------------------ MODULE MCPssSystem ------------------------------
(* A model-checking instance of PssSystem: which commands CS sends together. *)
EXTENDS PssSystem

TwoRails == <<"PSSPWR12", "PSSPWR6">>
Loads    == [r \in Rails |-> IF r = "PSSPWR12" THEN 6 ELSE 2]

MCCommands ==
    { <<"model", "init">>, <<"PSSPWR", "on">>, <<"PSSPWR", "off">>,
      <<"PSSPWR12", "on">>, <<"PSSPWR12", "off">>, <<"PSSMAXA", "value">> }

\* Every command alone, both orders of a switch at once, a reset with a switch.
MCFrames ==
    { [c \in MCCommands |-> IF c \in s THEN 1 ELSE 0] :
        s \in {{c} : c \in MCCommands}
              \cup {{<<"PSSPWR12", "on">>, <<"PSSPWR12", "off">>},
                    {<<"model", "init">>, <<"PSSPWR", "on">>}} }

================================================================================
