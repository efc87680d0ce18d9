---------------------------- MODULE PeInfoInputs ----------------------------
(***************************************************************************)
(* MADTs and device trees for PeInfo.  Affinity bytes are 0..2 and one     *)
(* "reg" cell sets bits 24-31, which the mask must drop.  PMU nodes use    *)
(* the compatibles "arm,armv8-pmuv3" (0) and "arm,cortex-a15-pmu" (2), with *)
(* one or two frames of 1, 2 or 3 cells.                                   *)
(***************************************************************************)
EXTENDS Integers, Sequences

CONSTANT NONE   \* an absent property or node

\* A 32-bit cell, low byte first.
Cell(b0, b1, b2, b3) == <<b0, b1, b2, b3>>

Gicc(a0, a1, a3, pmu) ==
  [type |-> "GICC", mpidr |-> <<a0, a1, 0, 0, a3>>, pmu |-> pmu]
Other == [type |-> "OTHER"]

Madts ==
  {<<g>> : g \in {Gicc(0, 0, 0, 23), Gicc(2, 1, 1, 24)}} \cup
  {<<Gicc(0, 0, 0, 23), e>> : e \in {Other, Gicc(1, 0, 0, 23), Gicc(0, 2, 1, 23)}} \cup
  {<<Other, Gicc(1, 1, 0, 23)>>}

\* "reg" of a cpu node for #address-cells 1 and 2.
Cells == {Cell(0, 0, 0, 0), Cell(1, 0, 0, 0), Cell(0, 1, 0, 1)}
Regs1 == {<<c>> : c \in Cells}
Regs2 == {<<Cell(0, 0, 0, 0), c>> : c \in Cells} \cup
         {<<Cell(1, 0, 0, 0), Cell(2, 0, 0, 0)>>}

Cpu(r) == [reg |-> r]

CpuSeqs(regs) ==
  {<<Cpu(r)>> : r \in regs} \cup {<<Cpu(r), Cpu(q)>> : r, q \in regs}

Pmu(c, ws, cells) == [compat |-> c, intr |-> ws, cells |-> cells]

\* No PMU; one node with one or two frames; two nodes found in turn.
PmuSeqs ==
  {<<>>,
   <<Pmu(0, <<1, 7, 4>>, 3)>>,
   <<Pmu(0, <<23>>, 1)>>,
   <<Pmu(0, <<0, 20, 4, 0, 21, 4>>, 3)>>,
   <<Pmu(0, <<20, 21>>, 1)>>,
   <<Pmu(0, <<20, 4, 21, 4>>, 2)>>,
   <<Pmu(0, <<0, 20, 4, 0, 21, 4>>, 3), Pmu(0, <<0, 22, 4>>, 3)>>,
   <<Pmu(2, <<0, 20, 4, 0, 21, 4>>, 3), Pmu(2, <<0, 22, 4, 0, 23, 4>>, 3)>>,
   <<Pmu(0, <<20>>, 0)>>,
   <<Pmu(0, NONE, 3)>>}

Gics == {NONE, [intr |-> <<1, 9, 4>>, cells |-> 3],
         [intr |-> <<0, 9, 4>>, cells |-> 3], [intr |-> <<9>>, cells |-> 1]}

Dt(cpus, ac, sc, pmus, gic) ==
  [cpus |-> cpus, ac |-> ac, sc |-> sc, pmus |-> pmus, gic |-> gic]

Cpus3 == <<Cpu(<<Cell(0, 0, 0, 0)>>), Cpu(<<Cell(1, 0, 0, 0)>>),
           Cpu(<<Cell(0, 1, 0, 0)>>)>>

\* Well-formed trees, then a cpu node without "reg" and the bad parents.
DtSet ==
  {Dt(cs, 1, 0, p, g) : cs \in CpuSeqs(Regs1) \cup {Cpus3}, p \in PmuSeqs,
                        g \in Gics} \cup
  {Dt(cs, 2, 0, p, NONE) : cs \in CpuSeqs(Regs2), p \in PmuSeqs} \cup
  {Dt(<<Cpu(<<Cell(1, 0, 0, 0)>>), Cpu(NONE)>>, 1, 0, <<>>, NONE),
   Dt(<<>>, 1, 0, <<>>, NONE),
   Dt(<<Cpu(<<Cell(1, 0, 0, 0)>>)>>, 1, 1, <<>>, NONE),
   Dt(<<Cpu(<<Cell(1, 0, 0, 0)>>)>>, 3, 0, <<>>, NONE)}

MCSources ==
  {[madt |-> m, dt |-> NONE] : m \in Madts} \cup
  {[madt |-> NONE, dt |-> d] : d \in DtSet}
====
