------------------------------ MODULE MCPeInfo ------------------------------
(***************************************************************************)
(* Model-checking instance of PeInfo over the inputs of PeInfoInputs.      *)
(***************************************************************************)
EXTENDS PeInfo

In == INSTANCE PeInfoInputs

MCSources == In!MCSources
====
