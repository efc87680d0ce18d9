------------------------------- MODULE PeInfo -------------------------------
(***************************************************************************)
(* pal_pe_create_info_table of platform/pal_uefi_dt/src/pal_pe.c: the PE   *)
(* info table built from the MADT, or from the device tree when no MADT    *)
(* is present, with the PMU and maintenance-interrupt readers the DT path  *)
(* calls and PalAllocateSecondaryStack.  The whole call is one step.       *)
(*                                                                         *)
(* An MPIDR is the tuple of its bytes 0..4 (bits 0-39): Aff0, Aff1, Aff2,  *)
(* bits 24-31, Aff3; masking with 0xff, 0xff00, 0xff0000 or 0xff00000000   *)
(* selects one byte.  A DT "reg" cell is the tuple of its four bytes, low  *)
(* byte first.  PROPERTY_MASK_PE_AFF3 and PROPERTY_MASK_PE_AFF0_AFF2 are   *)
(* taken as 0xff and 0xffffff.  The MADT walk is taken over well-formed    *)
(* MADTs (GicInfoAcpi models the walk's length arithmetic), where it       *)
(* visits every sub-table.  A PMU or GIC node is a record of its           *)
(* compatible index, "interrupts" words (NONE when absent) and             *)
(* #interrupt-cells; a word read past the property yields JUNK.            *)
(***************************************************************************)
EXTENDS Integers, Sequences, SequencesExt

CONSTANTS
  Sources,          \* the MADTs and device trees the call may be given
  PmuCompatCount,   \* the entries of pmu_dt_arr (11)
  PPI_OFFSET,       \* GSIV of PPI 0
  SPI_OFFSET,       \* GSIV of SPI 0
  JUNK,             \* the word read past the end of a property
  NONE,             \* an absent property or node
  NULL              \* gSecondaryPeStack == NULL

VARIABLES src, peTable, numOfPe, gNumPe, gMpidrMax, stack, done

vars == <<src, peTable, numOfPe, gNumPe, gMpidrMax, stack, done>>

NOTFOUND == -1          \* -FDT_ERR_NOTFOUND; offset 0 stands for -1
UNSET == -1             \* a gsiv field the call never writes
ZeroMpidr == <<0, 0, 0, 0, 0>>
AffBytes == {1, 2, 3, 5}   \* the bytes the four affinity masks select

Entry(m, n, pmu) == [mpidr |-> m, pe_num |-> n, pmu_gsiv |-> pmu,
                     gmain_gsiv |-> UNSET]

\* UPDATE_AFF_MAX for each of the four masks, OR-ed into gMpidrMax.
MpidrMaxOf(ms) ==
  [b \in 1..5 |-> IF b \in AffBytes
                  THEN FoldLeft(LAMBDA acc, m : IF m[b] > acc THEN m[b] ELSE acc,
                                0, ms)
                  ELSE 0]

Mpidrs(t) == [k \in DOMAIN t |-> t[k].mpidr]

(***************************************************************************)
(* PalAllocateSecondaryStack: the number of SIZE_STACK_SECONDARY_PE (256)  *)
(* byte slots requested, NumPe * 0x100 in UINT32: the product of the four  *)
(* Aff+1 modulo 2^24, computed in 16-bit limbs so that TLC's integers      *)
(* never overflow.                                                         *)
(***************************************************************************)
StackSlotsNoPlusOne(m) ==
  LET p3 == m[5] * m[3] * m[2]
  IN  ((((p3 \div 65536) * m[1]) % 256) * 65536 + (p3 % 65536) * m[1]) % 16777216

StackSlots(m) ==
  LET p3 == (m[5] + 1) * (m[3] + 1) * (m[2] + 1)
      a0 == m[1] + 1
  IN  ((((p3 \div 65536) * a0) % 256) * 65536 + (p3 % 65536) * a0) % 16777216

\* The allocation happens only while gSecondaryPeStack is NULL.
AllocateSecondaryStack(m, st, allocOk) ==
  IF st = NULL /\ allocOk THEN StackSlots(m) ELSE st

-----------------------------------------------------------------------------
(* The MADT path: one entry per GICC sub-table, in MADT order.             *)

\* Mutant: pe_num taken as num_of_pe - 1.
CreateInfoTableAcpiPeNumLag(madt) ==
  LET gicc == SelectSeq(madt, LAMBDA e : e.type = "GICC")
  IN  [k \in DOMAIN gicc |-> Entry(gicc[k].mpidr, k - 2, gicc[k].pmu)]

CreateInfoTableAcpi(madt) ==
  LET gicc == SelectSeq(madt, LAMBDA e : e.type = "GICC")
  IN  [k \in DOMAIN gicc |-> Entry(gicc[k].mpidr, k - 1, gicc[k].pmu)]

-----------------------------------------------------------------------------
(* The DT path.                                                            *)

\* reg_val[0] & AFF3 << 32 | reg_val[1] & AFF0_AFF2, or reg_val[0] & AFF0_AFF2.
RegToMpidr(reg, ac) ==
  IF ac = 2 THEN <<reg[2][1], reg[2][2], reg[2][3], 0, reg[1][1]>>
            ELSE <<reg[1][1], reg[1][2], reg[1][3], 0, 0>>

\* The cpu nodes the while loop decodes before one without "reg" stops it.
DecodedCpus(d) ==
  LET bad == SelectInSeq(d.cpus, LAMBDA c : c.reg = NONE)
  IN  SubSeq(d.cpus, 1, IF bad = 0 THEN Len(d.cpus) ELSE bad - 1)

CpuTable(d) ==
  LET cs == DecodedCpus(d)
  IN  [k \in DOMAIN cs |-> Entry(RegToMpidr(cs[k].reg, d.ac), k - 1, UNSET)]

\* The loop reaches the end of the cpu nodes: no early return.
CpuLoopCompletes(d) ==
  d.cpus # <<>> /\ d.sc = 0 /\ d.ac \in 1..2
  /\ \A k \in DOMAIN d.cpus : d.cpus[k].reg # NONE

\* Pintr[j], 0-based.
Pintr(n, j) == IF j + 1 \in DOMAIN n.intr THEN n.intr[j + 1] ELSE JUNK

FrameCount(n) == Len(n.intr) \div n.cells

\* The gsiv of a lone frame: PPI/SPI type word then number, or the number.
SingleGsiv(n) ==
  IF n.cells = 3
  THEN Pintr(n, 1) + (IF Pintr(n, 0) # 0 THEN PPI_OFFSET ELSE SPI_OFFSET)
  ELSE Pintr(n, 0)

\* fdt_node_offset_by_compatible(dt, off, pmu_dt_arr[c]).
NextCompat(pmus, off, c) ==
  LET ks == {k \in off + 1..Len(pmus) : pmus[k].compat = c}
  IN  IF ks = {} THEN NOTFOUND ELSE CHOOSE k \in ks : \A j \in ks : k <= j

SetPmu(t, p, v) == IF p \in DOMAIN t THEN [t EXCEPT ![p].pmu_gsiv = v] ELSE t

(***************************************************************************)
(* The loop over the frames of a node with several, from i = 0: it reads   *)
(* Pintr[index++] on, with index never reset between nodes, and moves Ptr  *)
(* one entry per frame.  Writes past the table are dropped.                *)
(***************************************************************************)
RECURSIVE MultiFrames(_, _, _)
MultiFrames(n, s, k) ==
  IF k = 0 THEN s
  ELSE LET ix == s.index
           v  == CASE n.cells = 3 -> Pintr(n, ix + 1) +
                          (IF Pintr(n, ix) # 0 THEN PPI_OFFSET ELSE SPI_OFFSET)
                   [] OTHER -> Pintr(n, ix)
       IN  MultiFrames(n, [s EXCEPT !.tbl = SetPmu(@, s.ptr, v),
                                    !.ptr = @ + 1, !.index = @ + n.cells],
                       k - 1)

(***************************************************************************)
(* while (offset != -FDT_ERR_NOTFOUND): the early returns, the lone frame  *)
(* written to every PE (then return), or the frames of the node followed   *)
(* by the search for pmu_dt_arr[i] with i left at the frame count.         *)
(***************************************************************************)
RECURSIVE PmuWhile(_, _, _)
PmuWhile(d, s, numPe) ==
  IF s.off = NOTFOUND THEN s
  ELSE LET n == d.pmus[s.off] IN
       CASE n.intr = NONE \/ n.cells \notin 1..3 \/ FrameCount(n) = 0 ->
              [s EXCEPT !.ret = TRUE]
         [] FrameCount(n) = 1 ->
              [s EXCEPT !.tbl = [k \in DOMAIN @ |->
                                   IF k >= s.ptr /\ k < s.ptr + numPe
                                   THEN [@[k] EXCEPT !.pmu_gsiv = SingleGsiv(n)]
                                   ELSE @[k]],
                        !.ret = TRUE]
         [] OTHER ->
              LET m == MultiFrames(n, s, FrameCount(n))
                  i == FrameCount(n)
              IN  PmuWhile(d, [m EXCEPT !.i = i,
                                        !.off = NextCompat(d.pmus, s.off, i)],
                           numPe)

\* for (i = 0; i < 11; i++): search pmu_dt_arr[i] from the start.
RECURSIVE PmuFor(_, _, _)
PmuFor(d, s, numPe) ==
  IF s.i >= PmuCompatCount THEN s
  ELSE LET off == NextCompat(d.pmus, 0, s.i)
           w   == PmuWhile(d, [s EXCEPT !.off = off], numPe)
       IN  IF off = NOTFOUND THEN PmuFor(d, [s EXCEPT !.i = @ + 1], numPe)
           ELSE IF w.ret THEN w
           ELSE PmuFor(d, [w EXCEPT !.i = @ + 1], numPe)

\* pal_pe_info_table_pmu_gsiv_dt.
PmuGsivDt(d, t) ==
  PmuFor(d, [i |-> 0, off |-> NOTFOUND, index |-> 0, ptr |-> 1, tbl |-> t,
             ret |-> FALSE], Len(t)).tbl

\* pal_pe_info_table_gmaint_gsiv_dt: one PPI for every PE.
GmaintGsivDt(d, t) ==
  LET g == d.gic
  IN  IF g = NONE \/ g.intr = NONE \/ g.cells \notin 1..3 THEN t
      ELSE [k \in DOMAIN t |->
              CASE g.cells = 3 /\ Pintr(g, 0) = 0 -> t[k]
                [] g.cells = 3 -> [t[k] EXCEPT !.gmain_gsiv = Pintr(g, 1) + PPI_OFFSET]
                [] OTHER       -> [t[k] EXCEPT !.gmain_gsiv = Pintr(g, 0) + PPI_OFFSET]]

-----------------------------------------------------------------------------
(***************************************************************************)
(* pal_pe_create_info_table: the MADT path, or pal_pe_create_info_table_dt *)
(* when there is no MADT.  The DT path returns early on a bad cpu parent   *)
(* or a cpu node without "reg", leaving g_num_pe, gMpidrMax, the gsivs     *)
(* and the stack as they were.                                             *)
(***************************************************************************)
Init ==
  /\ src \in Sources
  /\ peTable = <<>>
  /\ numOfPe = 0
  /\ gNumPe = 0
  /\ gMpidrMax = ZeroMpidr
  /\ stack = NULL
  /\ done = FALSE

Publish(t, allocOk) ==
  /\ peTable' = t
  /\ gMpidrMax' = MpidrMaxOf(Mpidrs(t))
  /\ gNumPe' = Len(t)
  /\ stack' = AllocateSecondaryStack(MpidrMaxOf(Mpidrs(t)), stack, allocOk)

CreateInfoTable ==
  /\ ~done
  /\ \E allocOk \in BOOLEAN :
       IF src.madt # NONE
       THEN Publish(CreateInfoTableAcpi(src.madt), allocOk)
       ELSE LET d == src.dt IN
            IF CpuLoopCompletes(d)
            THEN Publish(GmaintGsivDt(d, PmuGsivDt(d, CpuTable(d))), allocOk)
            ELSE /\ peTable' = IF d.sc = 0 /\ d.ac \in 1..2 THEN CpuTable(d)
                                                          ELSE <<>>
                 /\ UNCHANGED <<gMpidrMax, gNumPe, stack>>
  /\ numOfPe' = Len(peTable')
  /\ done' = TRUE
  /\ UNCHANGED src

Next == CreateInfoTable

Spec == Init /\ [][Next]_vars

-----------------------------------------------------------------------------
(***************************************************************************)
(* Properties.                                                             *)
(***************************************************************************)

IsMpidr(m) == DOMAIN m = 1..5 /\ \A b \in 1..5 : m[b] \in 0..255

TypeOK ==
  /\ \A k \in DOMAIN peTable :
       /\ IsMpidr(peTable[k].mpidr) /\ peTable[k].pe_num \in Nat
       /\ {peTable[k].pmu_gsiv, peTable[k].gmain_gsiv} \subseteq Int
  /\ numOfPe \in Nat /\ gNumPe \in Nat
  /\ IsMpidr(gMpidrMax)
  /\ stack = NULL \/ stack \in 0..16777215
  /\ done \in BOOLEAN

(***************************************************************************)
(* The linear index of affinity a inside the box of gMpidrMax.             *)
(***************************************************************************)
LinearIndex(a, mx) ==
  ((a[5] * (mx[3] + 1) + a[3]) * (mx[2] + 1) + a[2]) * (mx[1] + 1) + a[1]

(***************************************************************************)
(* PalAllocateSecondaryStack reserves a 256-byte stack for every PE: each  *)
(* PE's affinity lies inside the box gMpidrMax bounds, and its index in    *)
(* that box is below the slots allocated.                                  *)
(***************************************************************************)
StackCoversEveryPe ==
  stack # NULL =>
    \A k \in DOMAIN peTable :
      /\ \A b \in AffBytes : peTable[k].mpidr[b] <= gMpidrMax[b]
      /\ LinearIndex(peTable[k].mpidr, gMpidrMax) < stack

(***************************************************************************)
(* The PMU gsivs follow the cpu nodes (the comment at pal_pe.c:429): the  *)
(* frames of the PMU nodes, node after node in the order the compatible    *)
(* search finds them, go to the PEs in table order; a node with one frame  *)
(* gives its interrupt to every PE.  Nodes are well-formed: "interrupts"  *)
(* present with 1 to 3 cells per frame and at least one frame.            *)
(***************************************************************************)
FoundOrder(d) ==
  FlattenSeq([c \in 1..PmuCompatCount |->
                SelectSeq([k \in DOMAIN d.pmus |-> k],
                          LAMBDA k : d.pmus[k].compat = c - 1)])

NodeGsivs(n) ==
  [f \in 1..FrameCount(n) |->
     IF n.cells = 3
     THEN Pintr(n, 3 * (f - 1) + 1) +
          (IF Pintr(n, 3 * (f - 1)) # 0 THEN PPI_OFFSET ELSE SPI_OFFSET)
     ELSE Pintr(n, n.cells * (f - 1))]

WellFormedPmu(n) == n.intr # NONE /\ n.cells \in 1..3 /\ FrameCount(n) > 0

PmuGsivInCpuOrder ==
  LET d  == src.dt
      ns == FoundOrder(d)
      gs == IF ns # <<>> /\ FrameCount(d.pmus[ns[1]]) = 1
            THEN [k \in DOMAIN peTable |-> SingleGsiv(d.pmus[ns[1]])]
            ELSE FlattenSeq([j \in DOMAIN ns |-> NodeGsivs(d.pmus[ns[j]])])
  IN  (/\ done /\ src.madt = NONE /\ CpuLoopCompletes(d)
       /\ \A j \in DOMAIN d.pmus : WellFormedPmu(d.pmus[j]))
      => \A k \in DOMAIN peTable \cap DOMAIN gs : peTable[k].pmu_gsiv = gs[k]
====
