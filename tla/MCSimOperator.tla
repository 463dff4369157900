----------------------------- MODULE MCSimOperator -----------------------------
(* A model-checking instance of SimOperator: the two systems, one model. *)
EXTENDS SimOperator

CsPssModel == <<"cs", "pss", "sim_pss">>

================================================================================
