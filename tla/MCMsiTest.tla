----------------------------- MODULE MCMsiTest -----------------------------
(***************************************************************************)
(* Model-checking instance of MsiTest over the BDF tables of               *)
(* ExerciserInputs.                                                        *)
(***************************************************************************)
EXTENDS MsiTest, ExerciserInputs
====
