--------------------------- MODULE MCItsManager ---------------------------
(***************************************************************************)
(* Model-checking instance of ItsManager: GIC info tables of up to         *)
(* MaxEntries entries drawn from one distributor, both kinds of            *)
(* redistributor entry, a CPU interface, and ITS blocks with IDs 0 and 1   *)
(* (two blocks may share an ID).                                           *)
(***************************************************************************)
EXTENDS ItsManager

MaxEntries == 4

E(t, b, l, i) == [type |-> t, base |-> b, length |-> l, id |-> i]

EntryKinds ==
  { E("GICD", 4, 0, 0), E("GICR_GICRD", 5, 6, 0), E("GICC_GICRD", 2, 0, 0),
    E("CPUIF", 1, 0, 0), E("GICITS", 7, 0, 0), E("GICITS", 9, 0, 1),
    E("GICITS", 11, 0, 0) }

MCTables == SeqOf(EntryKinds, MaxEntries)
=============================================================================
