----------------------------- MODULE MCControlInput -----------------------------
(* A model-checking instance of ControlInput: a command for any system and a  *)
(* line that only the console may give; without a target on the console.      *)
EXTENDS ControlInput

NominalOrQuit == {<<"any", "nominal">>, <<"quit">>}
NominalQuit   == {<<"nominal">>, <<"quit">>}

================================================================================
