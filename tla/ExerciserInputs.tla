--------------------------- MODULE ExerciserInputs --------------------------
(***************************************************************************)
(* BDF tables for ExerciserTable and MsiTest: up to MaxDevices functions   *)
(* with distinct BDFs in increasing order, each an exerciser or not and    *)
(* with or without a config mapping, with at most MaxCards exercisers      *)
(* (MAX_EXERCISER_CARDS scaled down; the walk itself never checks the     *)
(* bound).                                                                 *)
(***************************************************************************)
EXTENDS Integers, Sequences

MaxDevices == 3
MaxCards == 2

MCBdfs == 1..MaxDevices

Device(b, x, m) == [bdf |-> b, exerciser |-> x, mapped |-> m]

MCBdfTables ==
  { t \in UNION { [1..n -> { Device(b, x, m) : b \in MCBdfs, x \in BOOLEAN,
                                               m \in BOOLEAN }] :
                  n \in 0..MaxDevices } :
      /\ \A i \in 1..Len(t) : t[i].bdf = i
      /\ Len(SelectSeq(t, LAMBDA d : d.exerciser)) <= MaxCards }
=============================================================================
