----------------------------- MODULE GicInfoDt -----------------------------
(***************************************************************************)
(* pal_gic_create_info_table_dt of platform/pal_uefi_dt: the GIC info      *)
(* table built from the device tree when no MADT is present.               *)
(*                                                                         *)
(* The blob is abstracted to the facts the function looks up: whether the  *)
(* blob exists, which GIC node the compatible search finds, the parent's   *)
(* #address-cells/#size-cells (negative = libfdt error), the node's "reg"  *)
(* property given as the (base, length) pairs it encodes, the             *)
(* "redistributor-regions" property, the v2m frame nodes with their        *)
(* parent's cells, the number of ITS nodes, and pal_pe_get_num().          *)
(* "reg" is encoded big-endian high word first in the parent's cell        *)
(* widths and decoded the way the code decodes it; a word read past the    *)
(* property yields JUNK.  The whole function is one step.                  *)
(***************************************************************************)
EXTENDS Integers, Sequences, SequencesExt

CONSTANTS
  Dts,        \* the device trees the function may be given
  UninitRd,   \* values the uninitialised num_of_rd may hold on GICv2
  WordBase,   \* 2^32: the value of one 32-bit cell, scaled down
  JUNK        \* the word read past the end of a property

ASSUME /\ WordBase \in Nat \ {0}
       /\ JUNK \in 0..WordBase - 1
       /\ UninitRd \subseteq Nat
       \* each num_of_rd the stack may hold is below 2^31
       /\ \A r \in UninitRd : r < 2147483647

VARIABLES dt, entries, hdr, ended, done

vars == <<dt, entries, hdr, ended, done>>

ZeroHeader ==
  [gic_version |-> 0, num_gicrd |-> 0, num_gicd |-> 0, num_its |-> 0,
   num_msi_frame |-> 0]

DtEntry(t, r, sb, sc) ==
  [type |-> t, base |-> r.base, length |-> r.length, spiBase |-> sb,
   spiCount |-> sc]

(***************************************************************************)
(* The words of a property holding the pairs ps in ac address and sc size  *)
(* cells: each value big-endian, high word first; values are below one     *)
(* word, so the high words are 0.                                          *)
(***************************************************************************)
CellWords(v, c) == [k \in 1..c |-> IF k = c THEN v ELSE 0]

RegWords(ps, ac, sc) ==
  FlattenSeq([k \in DOMAIN ps |-> CellWords(ps[k].base, ac)
                                   \o CellWords(ps[k].length, sc)])

\* Preg_val[Index]: fdt32_to_cpu of the Index-th word (0-based).
Word(ws, i) == IF i + 1 \in DOMAIN ws THEN ws[i + 1] ELSE JUNK

(***************************************************************************)
(* One cell group read at Preg_val[Index]: two words joined as             *)
(* (hi << 32) | lo when the width is 2, one word for any other width.      *)
(***************************************************************************)
ReadCells(ws, i, c) ==
  IF c = 2 THEN [val |-> Word(ws, i) * WordBase + Word(ws, i + 1), next |-> i + 2]
           ELSE [val |-> Word(ws, i), next |-> i + 1]

\* Mutant: the length is read with the address-cell width.
ReadRegionSizeAsAddr(ws, i, ac, sc) ==
  LET a == ReadCells(ws, i, ac)
      l == ReadCells(ws, a.next, ac)
  IN  [base |-> a.val, length |-> l.val, next |-> l.next]

\* A base then a length, as every entry of the function reads them.
ReadRegion(ws, i, ac, sc) ==
  LET a == ReadCells(ws, i, ac)
      l == ReadCells(ws, a.next, sc)
  IN  [base |-> a.val, length |-> l.val, next |-> l.next]

\* The while (i--) loop over the redistributor regions, from word i.
RECURSIVE ReadRegions(_, _, _, _, _)
ReadRegions(ws, i, ac, sc, k) ==
  IF k = 0 THEN <<>>
  ELSE LET r == ReadRegion(ws, i, ac, sc)
       IN  <<r>> \o ReadRegions(ws, r.next, ac, sc, k - 1)

(***************************************************************************)
(* (num_gic_interfaces - num_of_rd) > 1 with num_of_rd a UINT32: the       *)
(* difference is taken modulo 2^32.  When rd > n it wraps to              *)
(* 2^32 - (rd - n), which exceeds 1 for every rd below 2^31 (ASSUME).      *)
(***************************************************************************)
UnsignedDiffAbove1(n, rd) == IF n >= rd THEN n - rd > 1 ELSE TRUE

\* Mutant: an absent arm,msi-base-spi leaves prop_len in spi_base.
FrameEntrySpiError(f, ws, fac, fsc) ==
  DtEntry("GIC_MSI_FRAME", ReadRegion(ws, 0, fac, fsc),
          f.spiBase,
          IF f.numSpis < 0 THEN 0 ELSE f.numSpis)

\* A v2m frame entry decoded from its reg words ws in the cells fac, fsc;
\* an absent SPI property gives 0.
FrameEntry(f, ws, fac, fsc) ==
  DtEntry("GIC_MSI_FRAME", ReadRegion(ws, 0, fac, fsc),
          IF f.spiBase < 0 THEN 0 ELSE f.spiBase,
          IF f.numSpis < 0 THEN 0 ELSE f.numSpis)

\* The reg words of a frame node, written in its parent's cells.
FrameWords(d, f) == RegWords(<<f.pair>>, d.fac, d.fsc)

\* Result of the function: the entries, the header, and whether the
\* end-of-data entry follows them.
Result(es, h, end) == [es |-> es, hdr |-> h, ended |-> end]

(***************************************************************************)
(* The GICv2 v2m-frame search (lines 732-807), after the entries in es:    *)
(* no frame node ends the table; a bad frame parent cell count or a frame  *)
(* without "reg" returns before the end-of-data entry is written.          *)
(***************************************************************************)
\* Mutant: the frames are decoded with the GIC node's cells.
V2mFramesNodeCells(d, es, h) ==
  LET bad == {k \in DOMAIN d.frames : ~d.frames[k].hasReg}
      good == IF bad = {} THEN d.frames
              ELSE SubSeq(d.frames, 1, Min(bad) - 1)
      fes == [k \in DOMAIN good |-> FrameEntry(good[k], FrameWords(d, good[k]), d.ac, d.sc)]
  IN  IF d.frames = <<>> THEN Result(es, h, TRUE)
      ELSE IF d.fsc < 0 \/ d.fac < 0 THEN Result(es, h, FALSE)
      ELSE Result(es \o fes, [h EXCEPT !.num_msi_frame = Len(good)], bad = {})

\* Mutant: num_msi_frame is incremented before "reg" is read.
V2mFramesCountFirst(d, es, h) ==
  LET bad == {k \in DOMAIN d.frames : ~d.frames[k].hasReg}
      good == IF bad = {} THEN d.frames
              ELSE SubSeq(d.frames, 1, Min(bad) - 1)
      fes == [k \in DOMAIN good |-> FrameEntry(good[k], FrameWords(d, good[k]), d.fac, d.fsc)]
      counted == IF bad = {} THEN Len(good) ELSE Len(good) + 1
  IN  IF d.frames = <<>> THEN Result(es, h, TRUE)
      ELSE IF d.fsc < 0 \/ d.fac < 0 THEN Result(es, h, FALSE)
      ELSE Result(es \o fes, [h EXCEPT !.num_msi_frame = counted], bad = {})

V2mFrames(d, es, h) ==
  LET bad == {k \in DOMAIN d.frames : ~d.frames[k].hasReg}
      good == IF bad = {} THEN d.frames
              ELSE SubSeq(d.frames, 1, Min(bad) - 1)
      fes == [k \in DOMAIN good |-> FrameEntry(good[k], FrameWords(d, good[k]), d.fac, d.fsc)]
  IN  IF d.frames = <<>> THEN Result(es, h, TRUE)
      ELSE IF d.fsc < 0 \/ d.fac < 0 THEN Result(es, h, FALSE)
      ELSE Result(es \o fes, [h EXCEPT !.num_msi_frame = Len(good)], bad = {})

\* Mutant: while (--num_of_pe), one CPU interface short.
CpuIfEntriesPreDecrement(cpu, pes) ==
  [k \in 1..pes - 1 |-> DtEntry("CPUIF", cpu, 0, 0)]

\* num_of_pe = pal_pe_get_num(); while (num_of_pe--): one entry per PE.
CpuIfEntries(cpu, pes) == [k \in 1..pes |-> DtEntry("CPUIF", cpu, 0, 0)]

(***************************************************************************)
(* Lines 631-823 once a GIC node with valid cells and "reg" is found:      *)
(* the distributor, the redistributor regions (GICv3), the CPU interface   *)
(* replicated once per PE when a pair is left, the GICH (GICv2) when       *)
(* another is left, then the v2m frames (GICv2) or the ITS count (GICv3).  *)
(* rdv is the value num_of_rd holds when the GICv3 branch does not set it. *)
(***************************************************************************)
DecodeNode(d, rdv) ==
  LET ws   == RegWords(d.pairs, d.ac, d.sc)
      n    == Len(ws) \div (d.ac + d.sc)
      v3   == d.gic = "v3"
      gicd == ReadRegion(ws, 0, d.ac, d.sc)
      rd   == IF ~v3 THEN rdv ELSE IF d.rdRegions < 0 THEN 1 ELSE d.rdRegions
      rds  == IF v3 THEN ReadRegions(ws, gicd.next, d.ac, d.sc, rd) ELSE <<>>
      i1   == IF rds = <<>> THEN gicd.next ELSE Last(rds).next
      cpu  == ReadRegion(ws, i1, d.ac, d.sc)
      hasCpu == UnsignedDiffAbove1(n, rd)
      i2   == IF hasCpu THEN cpu.next ELSE i1
      hasGich == ~v3 /\ (n - 1) - rd > 1
      es   == <<DtEntry("GICD", gicd, 0, 0)>>
              \o [k \in DOMAIN rds |-> DtEntry("GICR_GICRD", rds[k], 0, 0)]
              \o (IF hasCpu THEN CpuIfEntries(cpu, d.pes) ELSE <<>>)
              \o (IF hasGich THEN <<DtEntry("GICH", ReadRegion(ws, i2, d.ac, d.sc), 0, 0)>>
                             ELSE <<>>)
      h    == [ZeroHeader EXCEPT !.gic_version = IF v3 THEN 3 ELSE 2,
                                 !.num_gicd = 1, !.num_gicrd = Len(rds)]
  IN  IF ~v3 THEN V2mFrames(d, es, h)
      ELSE Result(es, [h EXCEPT !.num_its = d.nIts], TRUE)

\* pal_gic_create_info_table_dt, with its early returns.
CreateInfoTableDt(d, rdv) ==
  CASE ~d.present -> Result(<<>>, ZeroHeader, FALSE)
    [] d.gic = "none" -> Result(<<>>, ZeroHeader, TRUE)
    [] d.sc < 0 \/ d.ac < 0 \/ ~d.regPresent ->
         Result(<<>>, [ZeroHeader EXCEPT !.gic_version =
                                       IF d.gic = "v3" THEN 3 ELSE 2], TRUE)
    [] OTHER -> DecodeNode(d, rdv)

(***************************************************************************)
(* pal_gic_create_info_table has reset the header and found no MADT.       *)
(***************************************************************************)
Init ==
  /\ dt \in Dts
  /\ entries = <<>>
  /\ hdr = ZeroHeader
  /\ ended = FALSE
  /\ done = FALSE

Build ==
  /\ ~done
  /\ \E rdv \in UninitRd :
       LET r == CreateInfoTableDt(dt, rdv) IN
       /\ entries' = r.es
       /\ hdr' = r.hdr
       /\ ended' = r.ended
  /\ done' = TRUE
  /\ UNCHANGED dt

Next == Build

Spec == Init /\ [][Next]_vars

-----------------------------------------------------------------------------
(***************************************************************************)
(* Properties.                                                             *)
(***************************************************************************)

EntryTypes ==
  {"CPUIF", "GICR_GICRD", "GICD", "GICH", "GIC_MSI_FRAME"}

TypeOK ==
  /\ \A i \in DOMAIN entries :
       /\ entries[i].type \in EntryTypes
       /\ entries[i].base \in Nat /\ entries[i].length \in Nat
       /\ entries[i].spiBase \in Nat /\ entries[i].spiCount \in Nat
  /\ hdr \in [DOMAIN ZeroHeader -> Nat]
  /\ ended \in BOOLEAN /\ done \in BOOLEAN

\* The (base, length) an entry records.
RegionOf(e) == [base |-> e.base, length |-> e.length]

\* The entries decoded from the GIC node's "reg": all but the v2m frames,
\* with the CPU interface counted once, not once per PE.
NodeRegions ==
  LET keep(i) == /\ entries[i].type # "GIC_MSI_FRAME"
                 /\ ~(entries[i].type = "CPUIF" /\ i > 1
                      /\ entries[i - 1].type = "CPUIF")
      idx == SelectSeq([i \in DOMAIN entries |-> i], keep)
  IN  [k \in DOMAIN idx |-> RegionOf(entries[idx[k]])]

(***************************************************************************)
(* Index threading through lines 636-706 on a GICv3 node: the distributor,*)
(* redistributor and CPU-interface entries record, in order, the first    *)
(* pairs the node's "reg" property holds, each decoded in the parent's     *)
(* address and size cell widths (spec §4.2, §6: "multi-cell values are    *)
(* big-endian 32-bit words concatenated high-word-first").  On GICv2 the   *)
(* CPU-interface decision reads the uninitialised num_of_rd; the run of    *)
(* CpuInterfacesPerPe is about that case.                                  *)
(***************************************************************************)
DecodedPrefixOfReg ==
  (done /\ dt.gic = "v3") => IsPrefix(NodeRegions, dt.pairs)

(***************************************************************************)
(* The summary header counts what the table holds: one distributor, one   *)
(* count per redistributor entry and per v2m frame entry, whichever       *)
(* return the function leaves by (spec §3).  num_its counts ITS nodes,    *)
(* which the DT reader does not turn into entries (spec §4.2).            *)
(***************************************************************************)
CountOfType(t) == Len(SelectSeq(entries, LAMBDA e : e.type = t))

HeaderCountsEntries ==
  done =>
    /\ hdr.num_gicd = CountOfType("GICD")
    /\ hdr.num_gicrd = CountOfType("GICR_GICRD")
    /\ hdr.num_msi_frame = CountOfType("GIC_MSI_FRAME")

(***************************************************************************)
(* The k-th v2m frame entry records the k-th frame node in search order:  *)
(* its "reg" pair in the frame parent's cells, and its arm,msi-base-spi   *)
(* and arm,msi-num-spis with 0 for an absent property (spec §4.2).        *)
(***************************************************************************)
MsiFramesAsWritten ==
  done =>
    LET fs == SelectSeq(entries, LAMBDA e : e.type = "GIC_MSI_FRAME") IN
    \A k \in DOMAIN fs :
      LET f == dt.frames[k] IN
      /\ RegionOf(fs[k]) = f.pair
      /\ fs[k].spiBase = IF f.spiBase < 0 THEN 0 ELSE f.spiBase
      /\ fs[k].spiCount = IF f.numSpis < 0 THEN 0 ELSE f.numSpis

(***************************************************************************)
(* A node whose "reg" holds a pair past the distributor and redistributor *)
(* regions gets one CPU-interface entry per PE (spec §4.2); on GICv2 that  *)
(* decision reads num_of_rd, which the code never sets.                   *)
(***************************************************************************)
CpuInterfacesPerPe ==
  (done /\ dt.present /\ dt.gic = "v2" /\ dt.regPresent
        /\ dt.ac >= 0 /\ dt.sc >= 0 /\ Len(dt.pairs) >= 2)
    => CountOfType("CPUIF") = dt.pes

(***************************************************************************)
(* A well-formed GICv3 node describing N PEs with a single redistributor  *)
(* region gets exactly N redistributor-region entries (spec §8).  The     *)
(* GICv3 branch emits one entry per region that redistributor-regions     *)
(* declares (one when the property is absent), whatever pal_pe_get_num()  *)
(* answers.                                                                *)
(***************************************************************************)
RedistributorPerPe ==
  (done /\ dt.present /\ dt.gic = "v3" /\ dt.regPresent
        /\ dt.ac > 0 /\ dt.sc > 0 /\ dt.rdRegions \in {-1, 1}
        /\ Len(dt.pairs) >= 2)
    => CountOfType("GICR_GICRD") = dt.pes

(***************************************************************************)
(* The table always ends with the end-of-data entry, however many entries *)
(* were emitted (spec §4.2, §7: a malformed sub-tree leaves "a partial,   *)
(* still sentinel-terminated table").                                     *)
(***************************************************************************)
EndOfDataWritten == done => ended
====
