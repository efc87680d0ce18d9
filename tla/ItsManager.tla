---------------------------- MODULE ItsManager ----------------------------
(***************************************************************************)
(* The ITS/LPI manager of the PAL: pal_gic_its_configure, getItsIndex,     *)
(* pal_gic_request_msi and pal_gic_free_msi over a GIC info table that     *)
(* pal_gic_create_info_table has already built.                            *)
(*                                                                         *)
(* State kept by the code:                                                 *)
(*   g_gic_its_info  the ITS index, re-allocated by every configure call;  *)
(*   g_gic_entry     the global cursor into the GIC info table; the        *)
(*                   pal_uefi copy scans with a local copy of it, the      *)
(*                   pal_uefi_dt copy advances the global itself.          *)
(* The translator library (ArmGicIts*, ArmGIC*SupportsLPIs,                *)
(* GetCurrentCpuRDBase) is outside src/; it is modelled from the spec: it  *)
(* answers whether LPIs are supported, configures the ITS (which may       *)
(* fail), and keeps the set of device/LPI mappings.                        *)
(***************************************************************************)
EXTENDS Naturals, Sequences, SequencesExt

CONSTANTS
  Platform,      \* "uefi" or "uefi_dt": which copy of the functions runs
  Tables,        \* GIC info tables the builder may have produced
  ItsIds,        \* ITS IDs the callers pass
  DevIds,        \* device IDs the callers pass
  IntIds,        \* LPI IDs the callers pass
  MaxConfigure,  \* bound on the number of pal_gic_its_configure calls
  NOT_FOUND,     \* 0xFFFFFFFF, getItsIndex's "no such ITS"
  NULL

ASSUME Platform \in {"uefi", "uefi_dt"}
ASSUME MaxConfigure \in Nat \ {0}
\* NOT_FOUND is only compared with ITS counts: any value above the largest
\* count (GIC_ITS_INFO lives in 1024 bytes) behaves as 0xFFFFFFFF does.
ASSUME NOT_FOUND \in Nat /\ \A t \in Tables : NOT_FOUND > Len(t)

GITS_TRANSLATER == 65600     \* 0x10040, offset of the translater register

VARIABLES
  table,       \* the GIC info table (entries before the 0xFF sentinel)
  gEntry,      \* g_gic_entry, as an index into table
  itsInfo,     \* g_gic_its_info: NULL or [numIts, rdBase, dBase, its]
  curRd,       \* index of the RD entry holding this PE's redistributor
  lpiD, lpiR,  \* whether the GICD and this PE's GICR support LPIs
  itsHw,       \* "on" once ArmGicItsConfiguration has succeeded
  lpiMap,      \* device/LPI mappings installed: <<itsIndex, dev, int>>
  configures,  \* pal_gic_its_configure calls made so far
  lastCfg,     \* result of the last configure: "none", "ok" or "fail"
  lastMsi      \* out-parameters of the last successful request, or NULL

vars == <<table, gEntry, itsInfo, curRd, lpiD, lpiR, itsHw, lpiMap,
          configures, lastCfg, lastMsi>>

RdTypes == {"GICR_GICRD", "GICC_GICRD"}

(***************************************************************************)
(* GetCurrentCpuRDBase(base, length): the redistributor frame of the       *)
(* running PE if the region at entry i holds it, else 0.                   *)
(***************************************************************************)
CurrentCpuRDBase(i) == IF i = curRd THEN table[i].base ELSE 0

\* Mutant: the ITS block is recorded but GicNumIts is not incremented.
ScanEntryNoCount(acc, i) ==
  LET e == table[i] IN
  CASE e.type = "GICD" -> [acc EXCEPT !.dBase = e.base]
    [] e.type \in RdTypes /\ acc.rdBase = 0 ->
         [acc EXCEPT !.rdBase = CurrentCpuRDBase(i)]
    [] e.type = "GICITS" ->
         [acc EXCEPT !.its = Append(@, [base |-> e.base, id |-> e.id])]
    [] OTHER -> acc

(***************************************************************************)
(* The while loop of pal_gic_its_configure from entry `from` to the        *)
(* sentinel: the last GICD base, the first non-zero redistributor frame    *)
(* of this PE, and every ITS block in table order.                         *)
(***************************************************************************)
ScanEntry(acc, i) ==
  LET e == table[i] IN
  CASE e.type = "GICD" -> [acc EXCEPT !.dBase = e.base]
    [] e.type \in RdTypes /\ acc.rdBase = 0 ->
         [acc EXCEPT !.rdBase = CurrentCpuRDBase(i)]
    [] e.type = "GICITS" ->
         [acc EXCEPT !.its = Append(@, [base |-> e.base, id |-> e.id]),
                     !.numIts = @ + 1]
    [] OTHER -> acc

Scan(from) ==
  FoldLeft(ScanEntry, [numIts |-> 0, rdBase |-> 0, dBase |-> 0, its |-> <<>>],
           [k \in 1..(Len(table) + 1 - from) |-> from + k - 1])

\* Mutant: the global cursor is advanced on every platform.
CursorAlwaysAdvanced == Len(table) + 1

\* Where g_gic_entry is left once configure has scanned the table.
CursorAfterScan == IF Platform = "uefi_dt" THEN Len(table) + 1 ELSE gEntry

\* Mutant: the last ITS block with the ID wins.
GetItsIndexLast(id) ==
  LET k == SelectLastInSeq(itsInfo.its, LAMBDA b : b.id = id)
  IN  IF k = 0 THEN NOT_FOUND ELSE k - 1

\* Mutant: an unknown ID yields the loop index, GicNumIts.
GetItsIndexFallsThrough(id) ==
  LET k == SelectInSeq(itsInfo.its, LAMBDA b : b.id = id)
  IN  IF k = 0 THEN itsInfo.numIts ELSE k - 1

\* getItsIndex: 0-based index of the first ITS block with this ID.
GetItsIndex(id) ==
  LET k == SelectInSeq(itsInfo.its, LAMBDA b : b.id = id)
  IN  IF k = 0 THEN NOT_FOUND ELSE k - 1

\* ArmGicItsGetGITSTranslatorAddress(index); an index past the list reads
\* an unset ITS base, taken as 0.
TranslatorAddress(idx) ==
  IF idx + 1 \in DOMAIN itsInfo.its
  THEN itsInfo.its[idx + 1].base + GITS_TRANSLATER
  ELSE GITS_TRANSLATER

\* The guards pal_gic_request_msi and pal_gic_free_msi share.
ItsUsable(id) ==
  /\ itsInfo # NULL
  /\ itsInfo.numIts # 0
  /\ ~(GetItsIndex(id) > itsInfo.numIts)
  /\ itsInfo.rdBase # 0
  /\ itsInfo.dBase # 0

Init ==
  /\ table \in Tables
  /\ gEntry = 1
  /\ itsInfo = NULL
  /\ curRd \in {0} \cup {i \in 1..Len(table) : table[i].type \in RdTypes}
  /\ lpiD \in BOOLEAN
  /\ lpiR \in BOOLEAN
  /\ itsHw = "off"
  /\ lpiMap = {}
  /\ configures = 0
  /\ lastCfg = "none"
  /\ lastMsi = NULL

(***************************************************************************)
(* pal_gic_its_configure.  pal_mem_alloc may fail (g_gic_its_info becomes  *)
(* NULL); otherwise the table is scanned into the new ITS index, then the  *)
(* ITS count, the two bases and LPI support are checked in that order and  *)
(* ArmGicItsConfiguration runs, which may itself fail.                     *)
(***************************************************************************)
AllocFails ==
  /\ itsInfo' = NULL
  /\ lastCfg' = "fail"
  /\ UNCHANGED <<gEntry, itsHw>>

ScanAndCheck ==
  LET info == Scan(gEntry) IN
  /\ itsInfo' = info
  /\ gEntry' = CursorAfterScan
  /\ IF info.numIts = 0 \/ info.rdBase = 0 \/ info.dBase = 0
        \/ ~(lpiD /\ lpiR)
     THEN lastCfg' = "fail" /\ UNCHANGED itsHw
     ELSE \E ok \in BOOLEAN :
            /\ itsHw' = IF ok THEN "on" ELSE itsHw
            /\ lastCfg' = IF ok THEN "ok" ELSE "fail"

Configure ==
  /\ configures < MaxConfigure
  /\ configures' = configures + 1
  /\ AllocFails \/ ScanAndCheck
  /\ UNCHANGED <<table, curRd, lpiD, lpiR, lpiMap, lastMsi>>

(***************************************************************************)
(* pal_gic_request_msi: maps (DevID, IntID) on the ITS with ID ItsID at    *)
(* LPI_PRIORITY1 and returns the translater address and IntID as the MSI   *)
(* address/data.  A failing guard returns 0xFFFFFFFF and changes nothing.  *)
(***************************************************************************)
RequestMsi(id, dev, int) ==
  /\ ItsUsable(id)
  /\ LET idx == GetItsIndex(id) IN
     /\ lpiMap' = lpiMap \cup {<<idx, dev, int>>}
     /\ lastMsi' = [its |-> id, addr |-> TranslatorAddress(idx), data |-> int]
  /\ UNCHANGED <<table, gEntry, itsInfo, curRd, lpiD, lpiR, itsHw,
                 configures, lastCfg>>

\* pal_gic_free_msi: the same guards, then ArmGicItsClearLpiMappings.
FreeMsi(id, dev, int) ==
  /\ ItsUsable(id)
  /\ lpiMap' = lpiMap \ {<<GetItsIndex(id), dev, int>>}
  /\ UNCHANGED <<table, gEntry, itsInfo, curRd, lpiD, lpiR, itsHw,
                 configures, lastCfg, lastMsi>>

Next ==
  \/ Configure
  \/ \E id \in ItsIds, dev \in DevIds, int \in IntIds :
       RequestMsi(id, dev, int) \/ FreeMsi(id, dev, int)

Spec == Init /\ [][Next]_vars

-----------------------------------------------------------------------------
(***************************************************************************)
(* Properties.                                                             *)
(***************************************************************************)

TypeOK ==
  /\ gEntry \in 1..Len(table) + 1
  /\ itsInfo = NULL \/ itsInfo.numIts = Len(itsInfo.its)
  /\ itsHw \in {"off", "on"}
  /\ lpiMap \subseteq (Nat \X DevIds \X IntIds)
  /\ configures \in 0..MaxConfigure
  /\ lastCfg \in {"none", "ok", "fail"}

\* ITS blocks the table lists, in table order.
TableIts == SelectSeq(table, LAMBDA e : e.type = "GICITS")

(***************************************************************************)
(* The MSI address a successful request hands back is the translater of    *)
(* the first ITS block the GIC table lists under the requested ID, and the *)
(* MSI data is the LPI ID (spec §4.4 and §8 scenario).                     *)
(***************************************************************************)
MsiTargetsRequestedIts ==
  lastMsi # NULL =>
    LET k == SelectInSeq(TableIts, LAMBDA e : e.id = lastMsi.its) IN
    /\ k # 0
    /\ lastMsi.addr = TableIts[k].base + GITS_TRANSLATER

(***************************************************************************)
(* Every LPI mapping installed is on an ITS block the GIC table lists:     *)
(* getItsIndex's 0xFFFFFFFF and the caller's "index > GicNumIts" test must *)
(* together reject every unknown ITS ID.                                   *)
(***************************************************************************)
MappedLpisOnListedIts ==
  \A m \in lpiMap : m[1] < Len(TableIts)

(***************************************************************************)
(* A configure call made after one that succeeded, and whose allocation   *)
(* succeeds, finds the same ITS blocks: configuring again does not lose   *)
(* the translators a configured ITS manager had (spec §4.4                *)
(* "idempotent-intent", §8 idempotence boundary).                         *)
(***************************************************************************)
ReconfigureKeepsTranslators ==
  [][ (Configure /\ lastCfg = "ok" /\ itsInfo' # NULL)
        => itsInfo'.its = itsInfo.its ]_vars

(***************************************************************************)
(* An LPI is only mapped through an ITS that ArmGicItsConfiguration has    *)
(* configured: every create_mapping requires Configured (spec §4.4).       *)
(***************************************************************************)
MsiOnlyWhenConfigured ==
  [][ lpiMap' # lpiMap => itsHw = "on" ]_vars
=============================================================================
