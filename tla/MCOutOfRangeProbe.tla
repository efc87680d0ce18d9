------------------------- MODULE MCOutOfRangeProbe -------------------------
(***************************************************************************)
(* Model-checking instance of OutOfRangeProbe: buses 0..3 of segment 0,    *)
(* two function slots per bus, one or two ECAM regions (whole bus range,   *)
(* or the lower and upper halves, at one base or two), and any set of      *)
(* functions present on the buses the regions decode.                      *)
(***************************************************************************)
EXTENDS OutOfRangeProbe

MCMaxBus == 3
MCFns == {0, 1}

Region(b, s, e) == [segment |-> 0, base |-> b, startBus |-> s, endBus |-> e]

EcamLists ==
     { <<Region(b, 0, 3)>> : b \in {0, 1} }
  \cup { <<Region(1, 0, 1), Region(b, 2, 3)>> : b \in {1, 2} }
  \cup { <<Region(b, 2, 3), Region(1, 0, 1)>> : b \in {1, 2} }

Decoded(es) == { <<0, bus, f>> : bus \in UNION { e.startBus..e.endBus : e \in ToSet(es) },
                                 f \in MCFns }

MCPlatforms == UNION { { [ecams |-> es, present |-> p] : p \in SUBSET Decoded(es) } :
                         es \in EcamLists }
=============================================================================
