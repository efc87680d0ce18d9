----------------------------- MODULE GicTable -----------------------------
(***************************************************************************)
(* What the spec promises of the topology table built from an ACPI MADT    *)
(* (spec §3 and §4.1), stated without any loop: the table is built in one  *)
(* step, from the sub-tables that lie wholly inside the declared length.   *)
(*                                                                         *)
(*  - a GICC sub-table yields a CPU interface, a redistributor and a       *)
(*    hypervisor interface, each only if its base is non-zero;             *)
(*  - a distributor, redistributor-region, translator or message-frame     *)
(*    sub-table yields exactly one entry;                                  *)
(*  - the header counts the entries of each kind and carries the           *)
(*    distributor's generation.                                            *)
(***************************************************************************)
EXTENDS Naturals, Sequences, SequencesExt, FiniteSets

CONSTANT HeaderSize

VARIABLES madt, table, counts, built

SpecEntry(t, b, l, i) == [type |-> t, base |-> b, length |-> l, id |-> i]

\* The entries one sub-table stands for in the topology table.
Describe(rec) ==
  CASE rec.type = "GICC" ->
         (IF rec.base # 0 THEN <<SpecEntry("CPUIF", rec.base, 0, 0)>> ELSE <<>>)
      \o (IF rec.gicr # 0 THEN <<SpecEntry("GICC_GICRD", rec.gicr, 0, 0)>> ELSE <<>>)
      \o (IF rec.gich # 0 THEN <<SpecEntry("GICH", rec.gich, 0, 0)>> ELSE <<>>)
    [] rec.type = "GICD" -> <<SpecEntry("GICD", rec.base, 0, 0)>>
    [] rec.type = "GICR" -> <<SpecEntry("GICR_GICRD", rec.base, rec.range, 0)>>
    [] rec.type = "ITS"  -> <<SpecEntry("GICITS", rec.base, 0, rec.id)>>
    [] rec.type = "MSI_FRAME" -> <<SpecEntry("GIC_MSI_FRAME", rec.base, 0, rec.id)>>
    [] OTHER -> <<>>

RECURSIVE Describes(_)
Describes(rs) == IF rs = <<>> THEN <<>> ELSE Describe(Head(rs)) \o Describes(Tail(rs))

\* Offset just past the first j sub-tables.
EndOf(rs, j) == HeaderSize + FoldLeft(LAMBDA acc, r : acc + r.length, 0, SubSeq(rs, 1, j))

\* The longest prefix of the chain lying wholly inside the declared length.
Inside(m) ==
  SubSeq(m.records, 1,
         Max({j \in 0..Len(m.records) : EndOf(m.records, j) <= m.length}))

CountOf(es, kinds) == Cardinality({i \in 1..Len(es) : es[i].type \in kinds})

\* The generation is the one the (last) distributor sub-table declares.
Generation(rs) ==
  LET d == SelectLastInSeq(rs, LAMBDA r : r.type = "GICD")
  IN  IF d = 0 THEN 0 ELSE rs[d].ver

Summary(rs) ==
  LET es == Describes(rs)
  IN  [gic_version   |-> Generation(rs),
       num_gicrd     |-> CountOf(es, {"GICC_GICRD", "GICR_GICRD"}),
       num_gicd      |-> CountOf(es, {"GICD"}),
       num_its       |-> CountOf(es, {"GICITS"}),
       num_msi_frame |-> CountOf(es, {"GIC_MSI_FRAME"})]

\* The MADT is whatever the firmware published; it never changes.
Init ==
  /\ table = <<>>
  /\ counts = [gic_version |-> 0, num_gicrd |-> 0, num_gicd |-> 0,
               num_its |-> 0, num_msi_frame |-> 0]
  /\ built = FALSE

Build ==
  /\ ~built
  /\ table' = Describes(Inside(madt))
  /\ counts' = Summary(Inside(madt))
  /\ built' = TRUE
  /\ UNCHANGED madt

Spec == Init /\ [][Build]_<<madt, table, counts, built>>
=============================================================================
