---------------------------- MODULE AcpiPlatform ----------------------------
(***************************************************************************)
(* The GIC side of the PAL on an ACPI platform, as the two components      *)
(* interact: pal_gic_create_info_table walks the MADT and builds the GIC   *)
(* info table (GicInfoAcpi); pal_gic_its_configure, pal_gic_request_msi    *)
(* and pal_gic_free_msi (ItsManager) then read that same table, so the     *)
(* ITS manager's table is the walk's entries, not an independent input.    *)
(* The ITS calls come after the table is built, the order in which the     *)
(* validation layer initialises the GIC before any MSI test.               *)
(***************************************************************************)
EXTENDS Naturals, Sequences, SequencesExt

CONSTANTS
  Platform, Madts, Garbage,                                   \* GicInfoAcpi's
  ItsIds, DevIds, IntIds, MaxConfigure, NOT_FOUND, NULL       \* ItsManager's

VARIABLES
  madt, cursor, next, entries, hdr, pc,                       \* GicInfoAcpi
  gEntry, itsInfo, curRd, lpiD, lpiR, itsHw, lpiMap,          \* ItsManager
  configures, lastCfg, lastMsi

walkVars == <<madt, cursor, next, entries, hdr, pc>>
itsVars == <<gEntry, itsInfo, curRd, lpiD, lpiR, itsHw, lpiMap,
             configures, lastCfg, lastMsi>>
vars == <<walkVars, itsVars>>

Walk == INSTANCE GicInfoAcpi

\* The table the walk leaves for a well-formed MADT: every sub-table's
\* entries, in MADT order.
BuiltTable(m) == FoldLeft(LAMBDA es, r : es \o Walk!Emit(r), <<>>, m.records)

Its == INSTANCE ItsManager
         WITH table <- entries, Tables <- { BuiltTable(m) : m \in Madts }

(***************************************************************************)
(* The firmware publishes the MADT; which redistributor region holds the   *)
(* running PE's frame (what GetCurrentCpuRDBase finds) is a fact of the    *)
(* same hardware: one of the table's redistributor entries, or none.       *)
(***************************************************************************)
Init ==
  /\ Walk!Init
  /\ gEntry = 1
  /\ itsInfo = NULL
  /\ curRd \in {0} \cup { i \in DOMAIN BuiltTable(madt) :
                            BuiltTable(madt)[i].type \in Its!RdTypes }
  /\ lpiD \in BOOLEAN
  /\ lpiR \in BOOLEAN
  /\ itsHw = "off"
  /\ lpiMap = {}
  /\ configures = 0
  /\ lastCfg = "none"
  /\ lastMsi = NULL

\* One iteration of the MADT walk.
WalkStep == Walk!Step /\ UNCHANGED itsVars

\* A call of the ITS manager once the GIC info table is complete.
ItsStep == pc = "done" /\ Its!Next /\ UNCHANGED <<madt, cursor, next, hdr, pc>>

Next == WalkStep \/ ItsStep

\* The walk is a loop of the running thread: it keeps taking steps.
Spec == Init /\ [][Next]_vars /\ WF_vars(WalkStep)

-----------------------------------------------------------------------------
(***************************************************************************)
(* Properties: each component's own, over the table the walk built, and    *)
(* what the ITS index must say of the GIC header.                          *)
(***************************************************************************)

TypeOK == Walk!TypeOK /\ Its!TypeOK

\* The walk never reads past the MADT's declared length (GicInfoAcpi).
WalkWithinDeclaredLength == Walk!WalkWithinDeclaredLength

\* The walk reaches the 0xFF end-of-data entry (GicInfoAcpi).
Termination == Walk!Termination

\* The built table is the one GicTable describes (GicInfoAcpi).
Refines == Walk!Refines

\* An MSI address is the translater of the first ITS block with the
\* requested ID (ItsManager).
MsiTargetsRequestedIts == Its!MsiTargetsRequestedIts

\* Every LPI mapping is on an ITS block the table lists (ItsManager).
MappedLpisOnListedIts == Its!MappedLpisOnListedIts

\* A later configure finds the same ITS blocks (ItsManager).
ReconfigureKeepsTranslators == Its!ReconfigureKeepsTranslators

(***************************************************************************)
(* Once pal_gic_its_configure has succeeded, its ITS index holds exactly   *)
(* the translators the MADT walk counted in the GIC header (num_its), in   *)
(* the walk's order: the MSI tests address every ITS the firmware          *)
(* declares, and no other.                                                 *)
(***************************************************************************)
ItsIndexMatchesHeader ==
  lastCfg = "ok" =>
    /\ itsInfo.numIts = hdr.num_its
    /\ itsInfo.its = [k \in DOMAIN Its!TableIts |->
                        [base |-> Its!TableIts[k].base, id |-> Its!TableIts[k].id]]
=============================================================================
