---------------------------- MODULE GicInfoAcpi ----------------------------
(***************************************************************************)
(* The ACPI path of pal_gic_create_info_table: the do-while loop that      *)
(* walks the MADT sub-tables one at a time and appends GIC_INFO_ENTRYs to  *)
(* the caller's GIC info table, counting them in its header, and finally   *)
(* writes the 0xFF end-of-data entry.                                      *)
(*                                                                         *)
(* Two copies of the function exist: platform/pal_uefi (Platform =         *)
(* "uefi") and platform/pal_uefi_dt (Platform = "uefi_dt"); the latter     *)
(* does not emit GICH entries and ignores GIC MSI frame sub-tables.        *)
(*                                                                         *)
(* Data is abstracted: a sub-table is a record with its type, its Length   *)
(* field and the few fields the function copies; addresses are small      *)
(* naturals with 0 meaning "absent".                                       *)
(***************************************************************************)
EXTENDS Naturals, Sequences, SequencesExt

CONSTANTS
  Platform,   \* "uefi" or "uefi_dt": which copy of the function runs
  Madts,      \* the MADT images the firmware may publish: [records, length]
  Garbage     \* the sub-tables a read past the end of the chain may find

ASSUME Platform \in {"uefi", "uefi_dt"}

\* sizeof (EFI_ACPI_6_1_MULTIPLE_APIC_DESCRIPTION_TABLE_HEADER)
HeaderSize == 44

VARIABLES
  madt,      \* the MADT being walked (read-only)
  cursor,    \* Length: bytes of the MADT consumed so far
  next,      \* index of the sub-table Entry points at
  entries,   \* the GIC_INFO_ENTRYs written so far, in order
  hdr,       \* GicTable->header
  pc         \* "walk" inside the do-while, "done" once 0xFF is written

vars == <<madt, cursor, next, entries, hdr, pc>>

ZeroHeader ==
  [gic_version |-> 0, num_gicrd |-> 0, num_gicd |-> 0,
   num_its |-> 0, num_msi_frame |-> 0]

GicEntry(t, b, l, i) == [type |-> t, base |-> b, length |-> l, id |-> i]

(***************************************************************************)
(* Entry points: the header counters are reset, the MADT is located and    *)
(* Entry/Length point just past its header.                                *)
(***************************************************************************)
Init ==
  /\ madt \in Madts
  /\ hdr = ZeroHeader
  /\ entries = <<>>
  /\ cursor = HeaderSize
  /\ next = 1
  /\ pc = "walk"

(***************************************************************************)
(* The entries one GICC sub-table contributes: a CPU interface if its      *)
(* PhysicalBaseAddress is non-zero, a per-PE redistributor if its          *)
(* GICRBaseAddress is non-zero and (pal_uefi only) a GICH if GICH is       *)
(* non-zero.                                                               *)
(***************************************************************************)
GiccEntries(rec) ==
  LET cpuif == IF rec.base # 0 THEN <<GicEntry("CPUIF", rec.base, 0, 0)>>
                               ELSE <<>>
      rd    == IF rec.gicr # 0 THEN <<GicEntry("GICC_GICRD", rec.gicr, 0, 0)>>
                               ELSE <<>>
      gich  == IF Platform = "uefi" /\ rec.gich # 0
                 THEN <<GicEntry("GICH", rec.gich, 0, 0)>> ELSE <<>>
  IN  cpuif \o rd \o gich

\* The entries one sub-table of any type contributes.
Emit(rec) ==
  CASE rec.type = "GICC" -> GiccEntries(rec)
    [] rec.type = "GICD" -> <<GicEntry("GICD", rec.base, 0, 0)>>
    [] rec.type = "GICR" -> <<GicEntry("GICR_GICRD", rec.base, rec.range, 0)>>
    [] rec.type = "ITS"  -> <<GicEntry("GICITS", rec.base, 0, rec.id)>>
    [] rec.type = "MSI_FRAME" /\ Platform = "uefi" ->
                            <<GicEntry("GIC_MSI_FRAME", rec.base, 0, rec.id)>>
    [] OTHER             -> <<>>

\* Mutant: a GICC redistributor is emitted but not counted in num_gicrd.
UpdateHeaderNoGiccCount(h, rec) ==
  CASE rec.type = "GICD" -> [h EXCEPT !.num_gicd = @ + 1,
                                      !.gic_version = rec.ver]
    [] rec.type = "GICR" -> [h EXCEPT !.num_gicrd = @ + 1]
    [] rec.type = "ITS"  -> [h EXCEPT !.num_its = @ + 1]
    [] rec.type = "MSI_FRAME" /\ Platform = "uefi" ->
                            [h EXCEPT !.num_msi_frame = @ + 1]
    [] OTHER             -> h

\* Mutant: an ITS sub-table is decoded but not counted in num_its.
UpdateHeaderNoItsCount(h, rec) ==
  CASE rec.type = "GICC" /\ rec.gicr # 0 -> [h EXCEPT !.num_gicrd = @ + 1]
    [] rec.type = "GICD" -> [h EXCEPT !.num_gicd = @ + 1,
                                      !.gic_version = rec.ver]
    [] rec.type = "GICR" -> [h EXCEPT !.num_gicrd = @ + 1]
    [] rec.type = "MSI_FRAME" /\ Platform = "uefi" ->
                            [h EXCEPT !.num_msi_frame = @ + 1]
    [] OTHER             -> h

\* The header counters one sub-table increments.
UpdateHeader(h, rec) ==
  CASE rec.type = "GICC" /\ rec.gicr # 0 -> [h EXCEPT !.num_gicrd = @ + 1]
    [] rec.type = "GICD" -> [h EXCEPT !.num_gicd = @ + 1,
                                      !.gic_version = rec.ver]
    [] rec.type = "GICR" -> [h EXCEPT !.num_gicrd = @ + 1]
    [] rec.type = "ITS"  -> [h EXCEPT !.num_its = @ + 1]
    [] rec.type = "MSI_FRAME" /\ Platform = "uefi" ->
                            [h EXCEPT !.num_msi_frame = @ + 1]
    [] OTHER             -> h

\* What Entry points at: the next sub-table of the chain, or, once the
\* chain is exhausted, whatever lies past it (an out-of-bounds read).
RecordsAt(m, n) ==
  IF n <= Len(m.records) THEN {m.records[n]} ELSE Garbage

\* Mutant: the loop runs while Length <= TableLength.
StepLoopsOnEqual ==
  /\ pc = "walk"
  /\ \E rec \in RecordsAt(madt, next) :
       /\ entries' = entries \o Emit(rec)
       /\ hdr' = UpdateHeader(hdr, rec)
       /\ cursor' = cursor + rec.length
       /\ next' = next + 1
       /\ pc' = IF cursor + rec.length <= madt.length THEN "walk" ELSE "done"
  /\ UNCHANGED madt

\* Mutant: Length and Entry only advance past sub-tables the loop decodes.
StepSkipsOnlyKnown ==
  /\ pc = "walk"
  /\ \E rec \in RecordsAt(madt, next) :
       LET len == IF rec.type = "OTHER" THEN 0 ELSE rec.length IN
       /\ entries' = entries \o Emit(rec)
       /\ hdr' = UpdateHeader(hdr, rec)
       /\ cursor' = cursor + len
       /\ next' = IF len = 0 THEN next ELSE next + 1
       /\ pc' = IF cursor + len < madt.length THEN "walk" ELSE "done"
  /\ UNCHANGED madt

\* Mutant: the end-of-data entry is written inside the loop.
StepMarksEndEachTime ==
  /\ pc = "walk"
  /\ \E rec \in RecordsAt(madt, next) :
       /\ entries' = entries \o Emit(rec) \o <<GicEntry("END", 0, 0, 0)>>
       /\ hdr' = UpdateHeader(hdr, rec)
       /\ cursor' = cursor + rec.length
       /\ next' = next + 1
       /\ pc' = IF cursor + rec.length < madt.length THEN "walk" ELSE "done"
  /\ UNCHANGED madt

(***************************************************************************)
(* One iteration of the do-while: the sub-table at Entry is decoded, Length *)
(* advances by its Length field and the loop repeats while Length is below *)
(* the MADT's declared length; on exit the 0xFF entry is written.           *)
(***************************************************************************)
Step ==
  /\ pc = "walk"
  /\ \E rec \in RecordsAt(madt, next) :
       /\ entries' = entries \o Emit(rec)
       /\ hdr' = UpdateHeader(hdr, rec)
       /\ cursor' = cursor + rec.length
       /\ next' = next + 1
       /\ pc' = IF cursor + rec.length < madt.length THEN "walk" ELSE "done"
  /\ UNCHANGED madt

Next == Step

Spec == Init /\ [][Next]_vars /\ WF_vars(Step)

-----------------------------------------------------------------------------
(***************************************************************************)
(* Properties.                                                             *)
(***************************************************************************)

EntryTypes ==
  {"CPUIF", "GICC_GICRD", "GICR_GICRD", "GICD", "GICH", "GICITS",
   "GIC_MSI_FRAME"}

TypeOK ==
  /\ cursor \in Nat /\ next \in Nat \ {0}
  /\ \A i \in 1..Len(entries) : entries[i].type \in EntryTypes
  /\ hdr \in [{"gic_version", "num_gicrd", "num_gicd", "num_its",
               "num_msi_frame"} -> Nat]
  /\ pc \in {"walk", "done"}

(***************************************************************************)
(* The walk never consumes a byte beyond the MADT's declared length: every *)
(* sub-table the loop decodes lies wholly inside Header.Length (spec §8:   *)
(* "the reader stops exactly at the declared length, producing entries    *)
(* only from records fully inside that length").                          *)
(***************************************************************************)
WalkWithinDeclaredLength == cursor <= madt.length

(***************************************************************************)
(* The walk terminates: the loop reaches the 0xFF end-of-data entry.       *)
(***************************************************************************)
Termination == <>(pc = "done")

(***************************************************************************)
(* The finished table is the one the spec (§4.1, §3) describes for the     *)
(* sub-tables inside the declared length: one entry per present unit, in   *)
(* MADT order, and header counters equal to the entries of each kind.      *)
(***************************************************************************)
Abstract == INSTANCE GicTable
  WITH table  <- IF pc = "done" THEN entries ELSE <<>>,
       counts <- IF pc = "done" THEN hdr ELSE ZeroHeader,
       built  <- pc = "done"

Refines == Abstract!Spec
=============================================================================
