--------------------------- MODULE MCGicInfoAcpi ---------------------------
(***************************************************************************)
(* Model-checking instance of GicInfoAcpi over the MADTs of GicAcpiInputs. *)
(***************************************************************************)
EXTENDS GicInfoAcpi

In == INSTANCE GicAcpiInputs

MCGarbage == In!MCGarbage
TruncatedMadts == In!TruncatedMadts
=============================================================================
