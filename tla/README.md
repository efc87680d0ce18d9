# TLA+ models of the BSA ACS GIC, ITS, PE, exerciser, peripheral and PCIe test code

This directory holds TLA+ models of the parts of the BSA ACS sources under
`src/` that TLC can check. It also holds the TLC configurations that check
them. `PROJECT.json` lists the components, runs, mutants, the source lines
behind every definition ("map"), the findings and the hazards.

## The system

The sources build the tables that the architecture-compliance tests read,
and they run a few of those tests.

| Part | Source | State | Operations |
|---|---|---|---|
| GIC info table, ACPI | `platform/pal_uefi/src/pal_gic.c` 52-164, `platform/pal_uefi_dt/src/pal_gic.c` 165-257 | the `GIC_INFO_TABLE` (header counters, entry array, `0xFF` end-of-data entry) | `pal_gic_create_info_table`: a do-while walk of the MADT sub-tables |
| GIC info table, device tree | `pal_uefi_dt/src/pal_gic.c` 551-827 | same table | `pal_gic_create_info_table_dt`: decodes the GIC node's `reg` cells, redistributor regions, v2m frames, ITS nodes |
| ITS manager | both `pal_gic.c`, 284-452 / 377-543 | `g_gic_its_info` (ITS list, RD and D bases), `g_gic_entry`, LPI mappings in the ITS | `pal_gic_its_configure`, `getItsIndex`, `pal_gic_request_msi`, `pal_gic_free_msi` |
| Interrupt facade | both `pal_gic.c` | handler registrations in the firmware protocol | `pal_gic_install_isr`, `pal_gic_end_of_interrupt`, `pal_gic_set_intr_trigger` |
| PE info table | `pal_uefi_dt/src/pal_pe.c` | `PE_INFO_TABLE`, `g_num_pe`, secondary stacks | `pal_pe_create_info_table`, `pal_pe_create_info_table_dt`, PMU and maintenance GSIV readers, `PalAllocateSecondaryStack` |
| Exerciser table | `val/src/acs_exerciser.c` | `g_exercier_info_table` (`num_exerciser`, `e_info[]` with `initialized`) | create, init, get info, test dispatch |
| Peripheral info | `val/src/acs_peripherals.c` | `g_peripheral_info_table`, pointing at the caller's buffer | create, `val_peripheral_get_entry_index`, `val_peripheral_get_info`, free, test dispatch |
| Tests | `test_pool/...` | the test's locals, `irq_pending` shared with the handler | e004 (MSI delivery), p050, p060, c005, c012 |

How the parts interact:

* **Table builder.** The builder fills the GIC table from the MADT. On `pal_uefi_dt`, when no MADT is present, it falls back to the device tree.
* **PE count.** The device-tree reader replicates the CPU interface once per PE. It takes that count from `g_num_pe`, which the PE table builder sets.
* **ITS manager.** The ITS manager scans the GIC table that the builder produced for ITS, redistributor and distributor entries.
* **Exerciser test.** Test e004 asks the ITS manager for an MSI, installs a handler through the facade, and triggers the MSI through an exerciser found by the exerciser table. It then polls a flag that the handler clears.
* **Independent suites.** The peripheral view and the PE tests share no state with the GIC code or with each other. The PE tests run their payload on every PE and collect one status per PE.

Hard behaviours:

* **Length checks.** The MADT walk checks the length only after decoding a sub-table.
* **Shared cursor.** On `pal_uefi_dt` the ITS scan moves a global cursor.
* **Failed configure.** A failed configure leaves its state in place, and the MSI calls trust it.
* **Device-tree decoding.** The reader trusts the cell widths and reads an uninitialised `num_of_rd` on GICv2.
* **PMU loop variables.** The PMU reader of the PE table clobbers its loop variables.
* **Unterminated tables.** Some error paths return before the end-of-data entry is written.
* **e004 handshake.** The MSI test races its handler against a countdown.

## Modules

### `GicTable` (abstract)

This is the abstract specification of the GIC table built from an MADT (spec §3, §4.1).

* `Build` produces, in one step, the table the spec describes: `Describes` over the sub-tables that lie wholly inside the declared length (`Inside`), with the header counters of `Summary`.
* `Describes` is RECURSIVE.
* It has no code of its own and is not in "map".

### `GicInfoAcpi`

This module models `pal_gic_create_info_table`, the MADT walk.

* **State.**
  * `cursor` is the code's `Length`.
  * `next` is the index of the sub-table `Entry` points at.
  * `entries` and `hdr` are the table.
  * `pc` is `walk` until the loop exits.
* **Step.** One `Step` is one iteration of the do-while, with its trailing test. It emits the entries of one sub-table (`Emit`, `GiccEntries`), bumps the header counters (`UpdateHeader`), and advances `Length` and `Entry`.
* **Reading past the chain.** The walk reads past the last sub-table when the declared length asks it to. That read is undefined, and is modelled as a choice from the constant set `Garbage`.
* **Platforms.** `Platform` selects the `pal_uefi` or the `pal_uefi_dt` variant: the latter has no GICH entries and no MSI frame branch.
* **Refinement.** `GicTable` is instantiated with `table <- entries`, `counts <- hdr` and `built <- pc = "done"`, the first two shown only once the walk is done. The abstract `Spec` is checked as a property (`Refines`).
* **Fairness.** The walk is straight-line single-threaded code, so `WF_vars(Step)` is justified. `Termination` uses it.

### `ItsManager`

This module models the ITS manager.

* **State.**
  * `table` is the GIC table, an input.
  * `gEntry` is the global `g_gic_entry` cursor.
  * `itsInfo` is `g_gic_its_info`: `NULL`, or the scan result with `numIts`, `its`, `rdBase` and `dBase`.
  * `lpiD`/`lpiR` are the LPI-support answers of the hardware.
  * `itsHw` says whether `ArmGicItsConfiguration` succeeded.
  * `lpiMap` holds the (ITS index, device, interrupt) mappings in the ITS.
  * `lastMsi` is the address and data last returned.
* **Actions.** `Configure` is the whole of `pal_gic_its_configure`: either the allocation fails (`AllocFails`), or the scan runs, followed by the checks in order (`ScanAndCheck`). `RequestMsi` and `FreeMsi` are the two MSI calls with their guards.
* **Scan start.** The scan starts at `g_gic_entry` on both platforms. On `pal_uefi_dt` it leaves the global at the end (`CursorAfterScan`).
* **Abstracted firmware.** `GetCurrentCpuRDBase` and the translater address come from the ITS driver, which is not under `src/`, and are modelled from the spec.
* **No fairness.** The calls are made by tests in any order, so the module has none.

### `GicInfoDt`

This module models `pal_gic_create_info_table_dt` (`pal_uefi_dt/src/pal_gic.c` 552-826) as one step, `Build`, over an abstract GIC node.

* **Input.** A node records:
  * whether the blob exists, and which compatible the search finds (v3, v2 or none);
  * the parent's `#address-cells`/`#size-cells` (negative for a libfdt error);
  * the `reg` pairs, encoded into words in those widths (`RegWords`);
  * `redistributor-regions`;
  * the v2m frame nodes and their parent's cells;
  * the number of ITS nodes;
  * `pal_pe_get_num()`.
* **Decoding.** `ReadCells`/`ReadRegion` decode the words the way the code does, threading `Index`. A word read past the property is the constant `JUNK`.
* **Uninitialised read.** On GICv2 `num_of_rd` is never set. Its value is a choice from `UninitRd`, and the unsigned test `(n - rd) > 1` is kept exact (`UnsignedDiffAbove1`).
* **Early returns.** Every early return of the function is a case of `CreateInfoTableDt`.

### `MsiTest`

This module models test e004 (`test_os_e004.c`) on one PE, with `val_exerciser_init` and `pal_gic_install_isr`.

* **Payload.** The payload loop is one action per statement group: `Loop`, `ExerciserInit`, `RequestMsi`, `InstallIsr`, `SetPending`, `Trigger`, `Poll` and `Check`, sequenced by `pc`.
* **Environment.** `MsiArrives` delivers an exerciser's MSI write to the ITS. It is dropped when no mapping exists.
* **Handler.** `IntrHandler` is the GIC running `intr_handler` between any two payload steps.
* **Shared state.** `irq_pending` is the shared variable.
* **Fairness.** `WF_vars(Payload)`: the payload runs whenever no interrupt preempts it. The exerciser and the GIC get no fairness, because nothing in the code obliges them to deliver.

### `PeInfo`

This module models `pal_pe_create_info_table` (`pal_uefi_dt/src/pal_pe.c`) as one step, `CreateInfoTable`.

* **MADT path.** With an MADT it builds one entry per GICC sub-table (`CreateInfoTableAcpi`).
* **DT path.** Otherwise it runs `pal_pe_create_info_table_dt`:
  * the parent-cell checks (`CpuLoopCompletes`);
  * the cpu-node loop with the affinity masks (`RegToMpidr`, `CpuTable`);
  * then the PMU reader (`PmuFor`/`PmuWhile`/`MultiFrames`, RECURSIVE);
  * the maintenance-interrupt reader of `pal_gic.c` (`GmaintGsivDt`);
  * and `PalAllocateSecondaryStack` (`AllocateSecondaryStack`).
* **MPIDR and reg representation.** An MPIDR is the tuple of its bytes 0-4, so each mask selects a byte. A DT cell is the tuple of its four bytes.
* **PMU reader.** It is translated with its loop variables as the code has them: `i` is reused as the frame counter, and `index` is never reset.
* **Stack size.** The UINT32 product in `PalAllocateSecondaryStack` is computed exactly, modulo 2^24 slots, in 16-bit limbs (`StackSlots`).
* **Allocation failure.** `AllocatePool` may fail, which is a choice in the step.
* **MADT lengths.** The MADT walk is taken over well-formed MADTs; `GicInfoAcpi` covers its length arithmetic.

### `AcpiPlatform` (composition)

This module composes `GicInfoAcpi` and `ItsManager` as they run on an ACPI
platform: the MADT walk builds the GIC table, and the ITS calls then read
that same table.

* **Instances.** `Walk == INSTANCE GicInfoAcpi`. `Its == INSTANCE ItsManager WITH table <- entries`, so the ITS manager's table is the walk's output, not an independent input.
* **Order.** `WalkStep` is one iteration of the walk. `ItsStep` is any ITS call, enabled once the walk has written its end-of-data entry (`pc = "done"`). That is the order in which the validation layer initialises the GIC before any MSI test.
* **Current PE.** Which redistributor region holds the running PE's frame is a fact of the hardware. `Init` chooses it among the redistributor entries of the table the MADT describes (`BuiltTable`), or none.
* **Fairness.** `WF_vars(WalkStep)`, as in `GicInfoAcpi`. The ITS calls get none.
* **Use.** `GicBringUp` instantiates it once per build (`Platform` = `"uefi"` and `"uefi_dt"`).

### `GicBringUp` (composition of both builds)

This module is the GIC bring-up of either PAL build, from the firmware
description to the MSI calls. It is the module that the pass run checks
for all of the GIC, ITS and PE components.

* **Build.** `build` is `"uefi"` or `"uefi_dt"`, chosen at `Init` and fixed. The variables of the part a build does not run keep their initial values.
* **pal_uefi.** `UefiWalk` and `UefiIts` are `AcpiPlatform`'s steps with `Platform = "uefi"` (`AcpiU`).
* **pal_uefi_dt.**
  * `PeStep` is `pal_pe_create_info_table` (`PeInfo`).
  * With an MADT, `MadtWalk` is one iteration of the uefi_dt copy of the walk (`AcpiD`, lines 196-257): no GICH and no MSI-frame entries. The walk reads no PE state, so it is not ordered after `PeStep`.
  * Without an MADT, `DtBuild` runs `pal_gic_create_info_table_dt` (`GicInfoDt`) once the PE table is built. It sees `pal_pe_get_num()` as the `g_num_pe` that `PeStep` left (`GicView`). Which redistributor region holds the running PE is chosen among the regions the new table lists.
  * `DtIts` is the uefi_dt copy of the ITS calls (lines 378-543), including its global cursor. It is enabled once a table ending in `0xFF` exists. On the DT paths that return without the end-of-data entry, the scan would read past the table, so those paths stop there (finding 5 is about them).
* **Platforms.** A pal_uefi_dt platform is a record `[pe, gic, madt]`: the PE reader's input, the GIC node of the tree, and the MADT the GIC walk reads when the PE input has one. The PE reader's and the GIC walk's views of one MADT are separate inputs, and no property relates them.
* **Fairness.** `WF_vars(WalkStep)` over the two walks, as in `GicInfoAcpi`. The one-step readers and the ITS calls get none.
* **Properties.** The properties of `GicInfoAcpi`, `ItsManager`, `PeInfo` and `GicInfoDt`, restated over the composite. `Refines` and `ReconfigureKeepsTranslators` are stated for the pal_uefi build: the uefi_dt copies fail them, as the hazards and finding 2 record. `CpuInterfacePerPe` and `TranslatorsFoundAsCounted` relate the tables of two components.

### `ExerciserTable`

This module models `val_exerciser_execute_tests` up to the test dispatch, and the reverse walk of `val_exerciser_create_info_table` (`val/src/acs_exerciser.c`).

* **State.** `bdfTable` is the BDF table, an input. `numBdf` is the walk's index. `eInfo` is `e_info[0 .. num_exerciser-1]`. `ready` is the set of BDFs whose exerciser reports `EXERCISER_ON`.
* **Actions.**
  * `ExecuteTests` covers the user skip, the BDF-table failure and the empty table.
  * `Scan` is one test of `while (num_bdf-- != 0)`. An unmapped device ends the walk.
  * `Count` is the `NUM_CARDS` and `G_SW_OS` decision.
* **Composition.** `MsiTest` extends this module: e004 runs on the cards the walk found.

### `PeripheralInfo`

This module models the peripheral view (`val/src/acs_peripherals.c`).

* **State.** `ptr` is `g_peripheral_info_table`: `null`, `live` or `freed`. `info` is the buffer the PAL filled; the PAL filler is not in this repository, so that buffer is an input. `lastQuery`/`lastAnswer` record the last `get_info` call.
* **Actions.**
  * `CreateInfoTable` points the global at the buffer and has it filled.
  * `Query` is `val_peripheral_get_info` for every `info_type` and small instances. The NULL check answers 0. A read through a freed pointer returns the stale table or reused bytes (`Garbage`).
  * `FreeInfoTable` releases the buffer and leaves the global as it was, as the code does.
  * `ExecuteTests` is the skip and `G_SW_OS` dispatch. The d00x tests are outside this repository, so their status is a choice.
* **Lookup.** `val_peripheral_get_entry_index` is the RECURSIVE `EntryIndexFrom`. `GetInfo` is the switch: a header counter (`CountInfo`), or a field of the entry found (`LookupInfo`). Every field has a distinct non-zero value, so that an answer names its entry.

### `PeFeatureTests`

This module models tests c005 and c012 (`test_pool/pe/operating_system/test_os_c005.c`, `test_os_c012.c`).

* **State.** `regs` holds each PE's `ID_AA64PFR0_EL1`, `ID_MMFR0_EL1` and `ID_AA64DFR0_EL1`, fixed for the run. `verdict[t][p]` is the status slot that PE `p`'s payload writes for test `t`.
* **Actions.**
  * `Initialize` is the entry's `val_initialize_test`, which may answer SKIP so that no payload runs.
  * `RunPayload(p)` is the payload on PE `p`. The PEs run in any order.
  * `Check` is `val_check_for_error` and the return. After it, the next entry starts.
* **Payloads.** `C005Payload` is c005's payload and `C012Payload` is c012's, with the masks and shifts of the code. `A32Support` is c005's `a32_support`.
* **Reference.** `Expected` reads the same fields by position (`Field`) and states what each test is meant to decide.
* **Outside the repository.** The dispatcher and the status store (`val_run_test_payload`, `val_check_for_error`) are not in `src/`, so each is modelled only as the slot a payload writes.

### `ValSuites` (composition of the val-layer suites)

This module composes three suites that share no state: the exerciser suite (`MsiTest`, with `ExerciserTable`), the peripheral view (`PeripheralInfo`, whose `status` is renamed `perStatus`) and the PE tests (`PeFeatureTests`).

* **Choice of suite.** `suite` picks one of them at the start, and only that suite's actions are enabled.
* **Idle suites.** The other two stay in one initial state, so their states are not multiplied in.
* **Fairness.** `WF_vars(ExerPayload)`, the fairness of `MsiTest`. The other two suites need none, because they have no liveness property.

### `OutOfRangeProbe`

This module models test p060 (`test_os_p060.c`).

* **Input.** A platform is its ECAM regions, in MCFG order, and the set of functions present. The BDF table lists those functions as the enumeration does: region by region, bus and function ascending (`BdfTable`). The 32 x 8 functions of a bus are scaled to `Fns`, and bus 255 to `MaxBus`.
* **Actions.**
  * `EcamLoop` is the head of the ECAM loop. It resets the status to SKIP 01 and computes `bus_index` from `get_max_bdf` (`GetMaxBdf`: the segment's last BDF in table order) and the region's end bus. Past `MaxBus` it returns.
  * `Probe` is one iteration of the device/function loop: FAIL 01 on a zero base, FAIL 02 on a read that is not all 1's, PASS 01 otherwise.
* **Config reads.** `Answers` says what a read at the region's base answers: a present function, if some region mapped at that base decodes the bus; all 1's otherwise.

### Input modules

`GicAcpiInputs`, `GicDtInputs`, `PeInfoInputs` and `ExerciserInputs` define the MADTs, GIC
nodes and PE sources that the MC modules give as constants. They have no
variables, so one MC module can use another's inputs through `INSTANCE`.

## Runs

| Run | Config | Expect | What it shows |
|---|---|---|---|
| gic_bringup | `MCGicBringUp.cfg` | pass | On both builds, the MADT walk stays inside `Header.Length` and terminates. On `pal_uefi` it refines `GicTable`. Then, on the table the walk or the DT reader built, across two configures and any requests and frees:<br>• every MSI address is the translater of the first ITS with the requested ID;<br>• every mapping is on a listed ITS;<br>• a successful configure indexes exactly the ITS blocks the header counts (`ItsIndexMatchesHeader`);<br>• on `pal_uefi` a configure after a successful one keeps the ITS list.<br>On `pal_uefi_dt`, the secondary stack covers every PE. The GICv3 entries decode the `reg` pairs in order, the header counts the entries, and the v2m frames are recorded as written. Once both tables are built, there is one CPU interface per PE (`CpuInterfacePerPe`). |
| madt_walk_truncated | `MCGicInfoAcpiTruncated.cfg` | violation | A sub-table straddling the declared length is still consumed (finding 1), as is whatever follows the header of an MADT with no sub-table (finding 8). |
| its_reconfigure_dt | `MCItsManagerReconfigureDt.cfg` | violation | On `pal_uefi_dt` a configure made after a successful one finds no ITS and fails (finding 2). |
| its_request_unconfigured | `MCItsManagerUnconfigured.cfg` | violation | A request after a failed configure still maps an LPI (finding 3). |
| dt_its_uncounted | `MCGicBringUpDtIts.cfg` | violation | On `pal_uefi_dt` with a device tree, the first configure finds no translator although `num_its` counts two (finding 10). |
| dt_v2_cpuif | `MCGicInfoDtCpuIf.cfg` | violation | On GICv2 the uninitialised `num_of_rd` drops or invents the CPU-interface entries (finding 4). |
| dt_unterminated | `MCGicInfoDtUnterminated.cfg` | violation | The v2m error returns leave the table without its end-of-data entry (finding 5). |
| dt_rd_per_pe | `MCGicInfoDtRdPerPe.cfg` | violation | A GICv3 node for two PEs with one redistributor region gets one redistributor entry, not one per PE (finding 11). |
| val_suites | `MCValSuites.cfg` | pass | Exerciser suite: the walk lists the exercisers it reached, in reverse table order (`ExerciserTableOfScan`). With any timing of MSI arrival and handler:<br>• a PASS of e004 means the MSI of every ready exerciser found was serviced;<br>• mappings are freed on every return but FAIL 02, which keeps its mapping (see the hazards);<br>• the test returns.<br>Peripheral view: through a live table, every lookup answers the field of the (instance+1)-th entry of its type, or 0 (`GetInfoAnswersTable`).<br>PE tests: every verdict c005 or c012 records is the one its PE's ID registers call for (`VerdictsMatchRegisters`). |
| msi_false_timeout | `MCMsiTestFalseTimeout.cfg` | violation | A serviced MSI is reported as FAIL 03 (finding 6). |
| pe_pmu_order | `MCPeInfoPmuOrder.cfg` | violation | With two multi-frame PMU nodes, PEs past the first node get no PMU GSIV or a junk one (finding 7). |
| p060_adjacent_region | `MCOutOfRangeProbe.cfg` | violation | With a segment split over two ECAM regions, p060 probes a bus that holds functions (finding 9). |

Every run is a single model check, and each violation run checks exactly one property. `PROJECT.json` lists one mutant per property of every passing run: a plausible bug in a mapped definition that TLC then shows violating it.

### Bounds

* **MADT inputs (`GicAcpiInputs`).** Every chain of up to three sub-tables is used, with one of each kind and the decoding fields varied:
  * GICC with and without CPU-interface, GICR and GICH bases;
  * GICD of version 2 or 3;
  * GICR;
  * ITS of two IDs;
  * MSI frame;
  * unknown type.

  Three sub-tables let every pair of kinds appear in both orders, and let a straddling sub-table follow a decoded one. The truncated inputs declare a length 4 bytes past each proper prefix, and include the MADT with no sub-table.
* **pal_uefi (`MCGicBringUp`).** The chains above are joined by four-sub-table MADTs: a distributor, a redistributor (GICR or GICC), and two ITS blocks, which may share ID 0 at different bases. So the ITS manager meets duplicate IDs, a missing ID (ID 2 is requested), and tables with no distributor or no redistributor. Two configure calls exercise a reconfigure.
* **ITS violation runs (`MCItsManager`).** Every table of up to four entries over GICD, GICR, GICC redistributor, CPU interface and three ITS entries.
* **pal_uefi_dt (`MCGicBringUp`).** Every tree PE source is paired with one GICv3 node that has a CPU-interface pair. Trees of one and two cpu nodes are paired with every GIC node, which has 0 or 2 ITS nodes on GICv3. Every MADT PE source is paired with one GICv3 MADT holding an ITS, and one of them with each two-ITS MADT. These sums, rather than the products, keep the run at 435,000 states and 45 s.
  * `reg` holds up to four pairs with distinct words, so a misaligned or junk read shows as a region the node does not hold.
  * Cells are 1 or 2, plus a libfdt error.
  * There are 0-2 v2m frames, one of them without `reg`.
  * Both uninitialised values that decide the GICv2 branch are in `UninitRd`: one small and one near 2^31.
  * A 32-bit word is scaled to base 16, which keeps the hi/lo composition injective.
  * Affinity bytes are 0-2, and one cell sets bits 24-31, so a missing mask is seen. PMU inputs: none, one node with one or two frames of 1-3 cells, or two multi-frame nodes.
* **e004 (`MCValSuites`, and `MCMsiTest` for the violation run).**
  * BDF tables have up to three devices (`MaxDevices`), mapped or not, with at most two exercisers (`MaxCards`, the scaled `MAX_EXERCISER_CARDS`).
  * The countdown is 3.

  That is enough for an unmapped device to hide an exerciser, for a second card to pass on a stale `irq_pending`, and for the handler to run on the last poll iteration.
* **PE tests (`MCValSuites`).** There are two PEs, each with any triple of the register values below, so the two payloads meet PEs that decide differently.
  * `ID_AA64PFR0_EL1`: AArch32 at no level, at EL0 only, at EL0 and EL1, at every level, and at EL3 only. A test of the wrong field therefore changes some verdict.
  * `ID_MMFR0_EL1`: InnerShr and ShareLvl both 1, or either one 0. The other fields are set, as on a Cortex-A core.
  * `ID_AA64DFR0_EL1`: WRPs 1, 2, 3 and 15, which covers both sides of the bound and the largest value. CTX_CMPs is set above it, so an unmasked field is seen.
* **Peripheral view.** Every table of up to three entries of the three types is used, with instances 0-3, so every count boundary (instance = count) is reached. There is one create call; a second only replaces the pointer.
* **p060.** Segment 0 has buses 0-3 and two function slots per bus. The ECAM layouts are:
  * one region for the whole segment, at base 0 or not;
  * the two halves of the segment, in either MCFG order, at one base or two.

  Any set of decoded functions may be present.

## Findings

1. **Straddling sub-table.** `pal_uefi/src/pal_gic.c:160`: a sub-table straddling `Header.Length` is decoded, although spec §8 says it is not processed.
2. **Second configure.** `pal_uefi_dt/src/pal_gic.c:420`: `pal_gic_its_configure` advances the global `g_gic_entry`, so a configure made after a successful one finds no ITS and fails. The `pal_uefi` copy scans from a local cursor and keeps the ITS list, as `gic_bringup` checks.
3. **Request after failed configure.** `pal_uefi/src/pal_gic.c:403`: `pal_gic_request_msi` maps LPIs after a failed configure (spec §4.4).
4. **Uninitialised `num_of_rd`.** `pal_uefi_dt/src/pal_gic.c:685`: on GICv2 `num_of_rd` is read uninitialised, so the CPU-interface entry may be missing or decoded from junk.
5. **No end-of-data entry.** `pal_uefi_dt/src/pal_gic.c:747`: the v2m error returns, and the `dt_ptr == 0` return, leave no end-of-data entry (spec §4.2, §7).
6. **False FAIL 03.** `test_os_e004.c:108`: the test decides failure on `timeout == 0` rather than on `irq_pending`, so an interrupt serviced after the last poll is reported as FAIL 03.
7. **PMU node order.** `pal_uefi_dt/src/pal_pe.c:447`: the PMU reader reuses `i` and never resets `index`. A second PMU node is therefore skipped, or read from the wrong words.

8. **Empty MADT.** `pal_uefi/src/pal_gic.c:87`: on an MADT with no sub-table the do-while still decodes what follows the header, and `Length` passes the declared length. The run's inputs include this MADT. The trace TLC reports for the run is the straddling one of finding 1; restricted to the empty MADT, the trace is one step from offset 44 to 56.
9. **p060 adjacent region.** `test_os_p060.c:82`: `bus_index` is capped at the region's end bus plus one. For a segment split over two ECAM regions, that is the first bus of the next region, which can hold functions. The comment at lines 96-100 says the probed BDF matches no existing one. When the regions share a base, the read answers that function and the test reports FAIL 02 on a platform whose functions are all enumerated (`NoFail02OnConformingPlatform`).

10. **DT translators.** `pal_uefi_dt/src/pal_gic.c:818`: the DT reader counts the GICv3 node's ITS nodes in `num_its` but writes no ITS entry. `pal_gic_its_configure` collects only ITS entries, so on a device tree it always fails with "No ITS Found in the MADT", and no MSI can be requested. Spec §4.2 says the DT translators' bases are resolved later by the ITS/LPI manager; §4.4 says configure collects the full translator list.

11. **One redistributor entry for all PEs.** `pal_uefi_dt/src/pal_gic.c:658`: without `redistributor-regions`, the GICv3 branch sets `num_of_rd = 1` and emits exactly that many redistributor entries, whatever the PE count. Spec §8 says a well-formed tree for N processors with a single-region redistributor layout yields N redistributor-region entries, each of one processor's slice. With two PEs the table has one entry and `num_gicrd` is 1.

The hazards in `PROJECT.json` also record results that have no run of their own:

* **Leaked mapping (e004).** The FAIL 02 path at `test_os_e004.c:94` leaves the MSI mapping in place. `MappingsReleased` excludes that return. Without the interrupt protocol, the unrestricted form is violated.
* **ACPI path of `pal_uefi_dt`.** It emits no GICH or MSI-frame entries, so it does not refine `GicTable`.
* **Early return in the PE table.** A cpu node without `reg` leaves `g_num_pe` at 0 and allocates no stack.

## Not modelled

* **Reason text.** The `bsa_print`/`val_print` output and message wording are not modelled.
* **Firmware and hardware.** The UEFI protocols, libfdt, the ITS driver, the PAL peripheral filler and PCIe enumeration are modelled only as the results the code branches on.
* **`pal_pe.c` wrappers.** The exception, SMC, ELR/ESR/FAR and cache functions are single firmware or register calls, with no state of their own.
* **Exerciser getters and setters.** These copy PAL answers, with no interleaving. The same holds for `val_peripheral_is_pcie`.
* **p050.** It reads registers in one sequential loop and compares them.
* **pal_uefi without an MADT.** That build has no DT fallback. It returns before writing the end-of-data entry, and the ITS scan then reads the caller's uninitialised buffer, for which the model has no value. Every pal_uefi platform is therefore given an MADT.
* **Use after free.** The freed peripheral pointer is read by no code of this repository, so no property is stated of it (see the hazards).
