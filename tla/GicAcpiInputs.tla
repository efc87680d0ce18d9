--------------------------- MODULE GicAcpiInputs ---------------------------
(***************************************************************************)
(* MADT images for GicInfoAcpi.  A sub-table carries the ACPI 6.1 Length   *)
(* of its type; addresses are small distinct naturals so that every entry  *)
(* can be told apart; chains have 1..MaxSubTables sub-tables.              *)
(***************************************************************************)
EXTENDS Naturals, Sequences, SequencesExt

MadtHeaderSize == 44

MaxSubTables == 3

Rec(t, len, b, r, h, i, v, rng) ==
  [type |-> t, length |-> len, base |-> b, gicr |-> r, gich |-> h,
   id |-> i, ver |-> v, range |-> rng]

\* ACPI 6.1 sub-table lengths: GICC 80, GICD 24, MSI frame 24, GICR 16,
\* ITS 20; "OTHER" stands for any sub-table type the walk does not decode.
SubTables ==
     { Rec("GICC", 80, b, r, h, 0, 0, 0) : b \in {0, 1}, r \in {0, 2}, h \in {0, 3} }
  \cup { Rec("GICD", 24, 4, 0, 0, 0, v, 0) : v \in {2, 3} }
  \cup { Rec("GICR", 16, 5, 0, 0, 0, 0, 6) }
  \cup { Rec("ITS", 20, 7, 0, 0, i, 0, 0) : i \in {0, 1} }
  \cup { Rec("MSI_FRAME", 24, 8, 0, 0, 0, 0, 0) }
  \cup { Rec("OTHER", 12, 0, 0, 0, 0, 0, 0) }

\* A read past the chain finds an unknown 12-byte sub-table.
MCGarbage == { Rec("OTHER", 12, 0, 0, 0, 0, 0, 0) }

Chains == SeqOf(SubTables, MaxSubTables) \ {<<>>}

TotalLength(rs) ==
  MadtHeaderSize + FoldLeft(LAMBDA acc, r : acc + r.length, 0, rs)

Madt(rs) == [records |-> rs, length |-> TotalLength(rs)]

\* Well-formed MADTs: the declared length is the length of the chain.
WellFormedMadts == { Madt(rs) : rs \in Chains }

\* MADTs whose declared length stops 4 bytes into one of the sub-tables,
\* and the MADT with no sub-table at all (Header.Length = the header size).
TruncatedMadts ==
  UNION { { [records |-> rs, length |-> TotalLength(SubSeq(rs, 1, j)) + 4] :
              j \in 0..Len(rs) - 1 } : rs \in Chains }
  \cup { [records |-> <<>>, length |-> MadtHeaderSize] }

\* Four-sub-table MADTs with a distributor, a redistributor and two ITS
\* blocks, which may share an ID at different bases (7 and 11).
ItsBlocks == { Rec("ITS", 20, 7, 0, 0, i, 0, 0) : i \in {0, 1} }
               \cup { Rec("ITS", 20, 11, 0, 0, 0, 0, 0) }

TwoItsMadts ==
  { Madt(<<d, r, i, j>>) :
      d \in { Rec("GICD", 24, 4, 0, 0, 0, 3, 0) },
      r \in { Rec("GICR", 16, 5, 0, 0, 0, 0, 6), Rec("GICC", 80, 1, 2, 0, 0, 0, 0) },
      i \in ItsBlocks, j \in ItsBlocks }
=============================================================================
