---------------------------- MODULE MCGicInfoDt ----------------------------
(***************************************************************************)
(* Model-checking instance of GicInfoDt over the trees of GicDtInputs.     *)
(***************************************************************************)
EXTENDS GicInfoDt

In == INSTANCE GicDtInputs

MCDts == In!MCDts
MCUninitRd == In!MCUninitRd
====
