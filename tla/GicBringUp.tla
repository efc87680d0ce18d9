----------------------------- MODULE GicBringUp -----------------------------
(***************************************************************************)
(* The GIC bring-up of either PAL build, from the firmware description to  *)
(* the MSI calls of the tests.                                             *)
(*                                                                         *)
(*  - platform/pal_uefi: pal_gic_create_info_table walks the MADT, then    *)
(*    the ITS manager runs on the table it built (AcpiPlatform with        *)
(*    Platform = "uefi").                                                  *)
(*  - platform/pal_uefi_dt: pal_pe_create_info_table builds the PE table,  *)
(*    then pal_gic_create_info_table walks the MADT if the firmware has    *)
(*    one (the uefi_dt copy of the walk, lines 196-257) and otherwise      *)
(*    runs pal_gic_create_info_table_dt (DtPlatform), then the uefi_dt     *)
(*    copy of the ITS manager runs on whichever table was built.           *)
(*                                                                         *)
(* The build is fixed for a behaviour.  The variables of the part a build  *)
(* does not run keep their initial values.  A platform is a record         *)
(* [pe, gic, madt]: the PE reader's input, the GIC node of the tree, and   *)
(* the MADT the GIC walk reads when the PE input has one.                  *)
(***************************************************************************)
EXTENDS Integers, Sequences, SequencesExt

CONSTANTS
  Builds,           \* the PAL builds: a subset of {"uefi", "uefi_dt"}
  UefiMadts,        \* the MADTs of pal_uefi platforms
  Platforms,        \* the pal_uefi_dt platforms: [pe, gic, madt]
  Garbage, ItsIds, DevIds, IntIds, MaxConfigure, NOT_FOUND, NULL,
  PmuCompatCount, PPI_OFFSET, SPI_OFFSET, PeJunk, NONE,
  UninitRd, WordBase, GicJunk

VARIABLES
  build,
  madt, cursor, next, entries, hdr, pc,
  gEntry, itsInfo, curRd, lpiD, lpiR, itsHw, lpiMap,
  configures, lastCfg, lastMsi,
  src, peTable, numOfPe, gNumPe, gMpidrMax, stack, peDone,
  gicDt, ended, gicDone

walkOnly == <<madt, cursor, next, pc>>
itsVars == <<gEntry, itsInfo, curRd, lpiD, lpiR, itsHw, lpiMap,
             configures, lastCfg, lastMsi>>
itsRest == <<gEntry, itsInfo, lpiD, lpiR, itsHw, lpiMap,
             configures, lastCfg, lastMsi>>
dtVars == <<build, src, peTable, numOfPe, gNumPe, gMpidrMax, stack, peDone,
            gicDt, ended, gicDone>>
vars == <<walkOnly, entries, hdr, itsVars, dtVars>>

AcpiU == INSTANCE AcpiPlatform WITH Platform <- "uefi", Madts <- UefiMadts

\* The MADTs of pal_uefi_dt platforms.
DtMadts == {p.madt : p \in Platforms}

AcpiD == INSTANCE AcpiPlatform WITH Platform <- "uefi_dt", Madts <- DtMadts

\* The PE readers' and the GIC reader's inputs.
PeSources == {p.pe : p \in Platforms}
GicInputs == {p.gic : p \in Platforms}

\* The GIC node as pal_gic_create_info_table_dt sees it: pal_pe_get_num()
\* returns g_num_pe (pal_pe.c:80-84).
GicView == [gicDt EXCEPT !.pes = gNumPe]

Pe == INSTANCE PeInfo
        WITH Sources <- PeSources, JUNK <- PeJunk, done <- peDone

Gic == INSTANCE GicInfoDt
         WITH Dts <- GicInputs, JUNK <- GicJunk, dt <- GicView, done <- gicDone

\* The PE and DT state a pal_uefi behaviour carries and never changes.
Idle == CHOOSE p \in Platforms : TRUE

(***************************************************************************)
(* The globals of both files at their initial values, and the firmware's   *)
(* description of the platform: AcpiPlatform's Init for the GIC walk and   *)
(* the ITS manager, PeInfo's for the PE reader, and pal_gic_create_info_   *)
(* table's header reset before the DT reader.                              *)
(***************************************************************************)
Init ==
  /\ build \in Builds
  /\ IF build = "uefi"
       THEN /\ src = Idle.pe /\ gicDt = Idle.gic
            /\ AcpiU!Init
       ELSE /\ \E p \in Platforms : src = p.pe /\ gicDt = p.gic /\ madt = p.madt
            /\ AcpiD!Init
  /\ peTable = <<>> /\ numOfPe = 0 /\ gNumPe = 0
  /\ gMpidrMax = Pe!ZeroMpidr /\ stack = NULL /\ peDone = FALSE
  /\ ended = FALSE /\ gicDone = FALSE

\* pal_uefi: one iteration of the MADT walk, then the ITS calls.
UefiWalk == build = "uefi" /\ AcpiU!WalkStep /\ UNCHANGED dtVars

UefiIts == build = "uefi" /\ AcpiU!ItsStep /\ UNCHANGED dtVars

\* pal_uefi_dt: pal_pe_create_info_table, first.  The order of the two
\* table builders is the application's, which is not part of src/.
PeStep ==
  /\ build = "uefi_dt"
  /\ Pe!CreateInfoTable
  /\ UNCHANGED <<walkOnly, entries, hdr, itsVars, build, gicDt, ended, gicDone>>

\* pal_uefi_dt's pal_gic_create_info_table with an MADT: one iteration of
\* its do-while.  The walk reads no PE state, so it is not ordered after
\* the PE reader.
MadtWalk ==
  /\ build = "uefi_dt" /\ src.madt # NONE
  /\ AcpiD!WalkStep
  /\ UNCHANGED dtVars

(***************************************************************************)
(* pal_uefi_dt's pal_gic_create_info_table without an MADT: the DT reader. *)
(* Which redistributor region holds the running PE's frame is a fact of    *)
(* the hardware; it becomes visible once the table lists the regions.      *)
(***************************************************************************)
DtBuild ==
  /\ build = "uefi_dt" /\ peDone /\ src.madt = NONE /\ ~gicDone
  /\ \E rdv \in UninitRd :
       LET r == Gic!CreateInfoTableDt(GicView, rdv) IN
       /\ entries' = r.es
       /\ hdr' = r.hdr
       /\ ended' = r.ended
  /\ gicDone' = TRUE
  /\ curRd' \in {0} \cup {i \in DOMAIN entries' :
                            entries'[i].type \in AcpiD!Its!RdTypes}
  /\ UNCHANGED <<walkOnly, itsRest, build, gicDt, src, peTable, numOfPe,
                 gNumPe, gMpidrMax, stack, peDone>>

(***************************************************************************)
(* pal_uefi_dt's ITS calls, once a table ending in 0xFF is built.  On the   *)
(* DT paths that return without the end-of-data entry the scan would read  *)
(* past the table; those paths are not followed further.                   *)
(***************************************************************************)
DtIts ==
  /\ build = "uefi_dt"
  /\ pc = "done" \/ (gicDone /\ ended)
  /\ AcpiD!Its!Next
  /\ UNCHANGED <<madt, cursor, next, hdr, pc>>
  /\ UNCHANGED dtVars

Next == UefiWalk \/ UefiIts \/ PeStep \/ MadtWalk \/ DtBuild \/ DtIts

\* An iteration of either copy of the MADT walk; at most one is enabled.
WalkStep == UefiWalk \/ MadtWalk

\* The walk is a loop of the running thread: it keeps taking steps.
Spec == Init /\ [][Next]_vars /\ WF_vars(WalkStep)
-----------------------------------------------------------------------------
(***************************************************************************)
(* Properties: those of the two compositions, each over the build it is    *)
(* about, and what the ITS manager must find of the table either reader    *)
(* built.                                                                  *)
(***************************************************************************)

\* The MADT path's entries have no SPI fields, the DT path's no ITS IDs.
TypeOK ==
  /\ build \in {"uefi", "uefi_dt"}
  /\ AcpiU!Its!TypeOK /\ Pe!TypeOK
  /\ IF gicDone THEN Gic!TypeOK ELSE AcpiU!Walk!TypeOK

\* The walk never reads past the MADT's declared length (GicInfoAcpi).
WalkWithinDeclaredLength == AcpiU!WalkWithinDeclaredLength

\* Where the firmware has an MADT, the walk of either build reaches the
\* 0xFF end-of-data entry (GicInfoAcpi).
Termination == (build = "uefi" \/ src.madt # NONE) => <>(pc = "done")

(***************************************************************************)
(* pal_uefi's finished table is the one GicTable describes for the MADT    *)
(* (GicInfoAcpi's Refines); the uefi_dt copy drops GICH and MSI-frame      *)
(* entries, and the DT reader's table is another format, so the mapping    *)
(* shows nothing built on those paths.                                     *)
(***************************************************************************)
UefiBuilt == build = "uefi" /\ pc = "done"

Abstract == INSTANCE GicTable
  WITH HeaderSize <- AcpiU!Walk!HeaderSize,
       table  <- IF UefiBuilt THEN entries ELSE <<>>,
       counts <- IF UefiBuilt THEN hdr ELSE AcpiU!Walk!ZeroHeader,
       built  <- UefiBuilt

Refines == Abstract!Spec

\* An MSI address is the translater of the first ITS block with the
\* requested ID (ItsManager).
MsiTargetsRequestedIts == AcpiU!MsiTargetsRequestedIts

\* Every LPI mapping is on an ITS block the table lists (ItsManager).
MappedLpisOnListedIts == AcpiU!MappedLpisOnListedIts

\* A successful configure indexes the translators num_its counts
\* (AcpiPlatform).
ItsIndexMatchesHeader == AcpiU!ItsIndexMatchesHeader

\* On pal_uefi a configure after a successful one finds the same ITS blocks
\* (ItsManager); the uefi_dt copy does not, as the its_reconfigure_dt run
\* shows.
ReconfigureKeepsTranslators ==
  [][ (build = "uefi" /\ AcpiU!Its!Configure /\ lastCfg = "ok" /\ itsInfo' # NULL)
        => itsInfo'.its = itsInfo.its ]_vars

\* PalAllocateSecondaryStack reserves a stack slot for every PE (PeInfo).
StackCoversEveryPe == Pe!StackCoversEveryPe

\* The GICv3 entries record the first pairs of "reg" (GicInfoDt).
DecodedPrefixOfReg == Gic!DecodedPrefixOfReg

\* The DT header counts the entries of each kind (GicInfoDt).
HeaderCountsEntries == Gic!HeaderCountsEntries

\* The v2m frame entries record the frame nodes in order (GicInfoDt).
MsiFramesAsWritten == Gic!MsiFramesAsWritten

(***************************************************************************)
(* Each PE has its CPU interface (spec §3: "each PE contributes exactly    *)
(* one CPU-interface or redistributor-region entry"; §4.2: one CPU-        *)
(* interface entry per discovered processor): once both tables are built  *)
(* from a tree whose cpu nodes all decoded, a GICv3 node whose "reg" holds *)
(* a pair past its redistributor regions gives exactly as many CPU-        *)
(* interface entries as the PE table has PEs, all with that pair.          *)
(***************************************************************************)
CpuInterfacePerPe ==
  LET rd == IF gicDt.rdRegions < 0 THEN 1 ELSE gicDt.rdRegions
      cpuifs == SelectSeq(entries, LAMBDA e : e.type = "CPUIF")
  IN  (/\ gicDone /\ Pe!CpuLoopCompletes(src.dt)
       /\ gicDt.present /\ gicDt.gic = "v3" /\ gicDt.regPresent
       /\ gicDt.ac > 0 /\ gicDt.sc > 0 /\ Len(gicDt.pairs) >= rd + 2)
      => /\ Len(cpuifs) = numOfPe
         /\ \A k \in DOMAIN cpuifs :
              Gic!RegionOf(cpuifs[k]) = gicDt.pairs[rd + 2]

(***************************************************************************)
(* The first pal_gic_its_configure call that gets its ITS index collects   *)
(* every translator the builder counted in num_its, whichever reader built *)
(* the table: spec §4.4, configure "scans the Topology Table once,         *)
(* collecting ... the full translator list", and §4.2, the DT reader's     *)
(* translators have their base "resolved later, per translator, by the     *)
(* ITS/LPI Manager".                                                       *)
(***************************************************************************)
TranslatorsFoundAsCounted ==
  [][ (configures = 0 /\ configures' = 1 /\ itsInfo' # NULL)
        => itsInfo'.numIts = hdr.num_its ]_vars
====
