---------------------------- MODULE MCGicBringUp ----------------------------
(***************************************************************************)
(* Model-checking instance of GicBringUp.                                  *)
(*                                                                         *)
(* pal_uefi: every well-formed MADT of 1-3 sub-tables, and the four-sub-   *)
(* table MADTs with two ITS blocks that may share an ID.                   *)
(*                                                                         *)
(* pal_uefi_dt: every PE input of PeInfoInputs; a PE input with an MADT   *)
(* goes with one GICv3 MADT holding an ITS, and the first of them also     *)
(* with each two-ITS MADT; a tree input goes with the GICv3 node holding   *)
(* a CPU-interface pair, and trees of one and of two PEs with every GIC    *)
(* node of GicDtInputs.                                                    *)
(***************************************************************************)
EXTENDS GicBringUp

AcpiIn == INSTANCE GicAcpiInputs
PeIn == INSTANCE PeInfoInputs
GicIn == INSTANCE GicDtInputs

MCUefiMadts == AcpiIn!WellFormedMadts \cup AcpiIn!TwoItsMadts
MCGarbage == AcpiIn!MCGarbage

\* GICD v3, a redistributor region and one ITS.
ItsMadt ==
  AcpiIn!Madt(<<AcpiIn!Rec("GICD", 24, 4, 0, 0, 0, 3, 0),
                AcpiIn!Rec("GICR", 16, 5, 0, 0, 0, 0, 6),
                AcpiIn!Rec("ITS", 20, 7, 0, 0, 0, 0, 0)>>)

\* What the madt variable holds where the firmware has no MADT.
NoMadt == AcpiIn!Madt(<<>>)

\* pes is not an input here: the GIC reader reads g_num_pe.
GicNodes == {[d EXCEPT !.pes = 0] : d \in GicIn!MCDts}

\* GICD, one redistributor region, the CPU interface; one cell each.
CpuIfNode == GicIn!Node(TRUE, "v3", 1, 1, TRUE, 3, -1, <<>>, 1, 1, 0, 0)

\* Trees of one and of two cpu nodes, without PMU or GIC interrupts.
SmallPeTrees ==
  {[madt |-> NONE,
    dt |-> PeIn!Dt(cs, 1, 0, <<>>, NONE)] :
      cs \in {<<PeIn!Cpu(<<PeIn!Cell(0, 0, 0, 0)>>)>>,
              <<PeIn!Cpu(<<PeIn!Cell(0, 0, 0, 0)>>), PeIn!Cpu(<<PeIn!Cell(1, 0, 0, 0)>>)>>}}

MadtSources == {s \in PeIn!MCSources : s.madt # NONE}
TreeSources == {s \in PeIn!MCSources : s.madt = NONE}

MCPlatforms ==
  {[pe |-> s, gic |-> CpuIfNode, madt |-> ItsMadt] : s \in MadtSources}
  \cup {[pe |-> CHOOSE s \in MadtSources : TRUE, gic |-> CpuIfNode, madt |-> m] :
          m \in AcpiIn!TwoItsMadts}
  \cup {[pe |-> s, gic |-> CpuIfNode, madt |-> NoMadt] : s \in TreeSources}
  \cup {[pe |-> s, gic |-> d, madt |-> NoMadt] : s \in SmallPeTrees, d \in GicNodes}

MCUninitRd == GicIn!MCUninitRd
====
