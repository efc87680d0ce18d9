--------------------------- MODULE ExerciserTable ---------------------------
(***************************************************************************)
(* val_exerciser_execute_tests and val_exerciser_create_info_table         *)
(* (val/src/acs_exerciser.c) up to the dispatch of the operating-system    *)
(* exerciser tests: the user skip list, the PCIe BDF table, the reverse    *)
(* walk that fills g_exercier_info_table and the count that decides        *)
(* whether any test runs.                                                  *)
(*                                                                         *)
(* The BDF table val_pcie_create_device_bdf_table builds is an input: a    *)
(* sequence of functions, each with its BDF, whether its config read       *)
(* answers (val_pcie_read_cfg # PCIE_NO_MAPPING) and whether               *)
(* pal_is_bdf_exerciser accepts it.  e_info is the sequence of the         *)
(* EXERCISER_INFO_BLOCKs written so far, so num_exerciser is its length.   *)
(***************************************************************************)
EXTENDS Integers, Sequences, SequencesExt

CONSTANTS
  BdfTables,   \* the device tables val_pcie_create_device_bdf_table may build
  Bdfs         \* the BDFs those tables name

VARIABLES
  pc,          \* where val_exerciser_execute_tests is
  bdfTable,    \* the pcie_device_bdf_table (empty until it is created)
  numBdf,      \* num_bdf of the reverse walk
  eInfo,       \* g_exercier_info_table.e_info[0 .. num_exerciser - 1]
  ready,       \* BDFs whose pal_exerciser_get_state reports EXERCISER_ON
  result       \* the status val_exerciser_execute_tests has decided on

tableVars == <<pc, bdfTable, numBdf, eInfo, ready, result>>

\* The global table is zero-initialised: num_exerciser = 0.
TableInit ==
  /\ pc = "start"
  /\ bdfTable = <<>>
  /\ numBdf = 0
  /\ eInfo = <<>>
  /\ ready \in SUBSET Bdfs
  /\ result = "none"

(***************************************************************************)
(* execute_tests: a user override of ACS_EXERCISER_TEST_NUM_BASE, or a     *)
(* failure to create the BDF table, returns ACS_STATUS_SKIP; otherwise the *)
(* BDF table exists and create_info_table starts: it returns at once on    *)
(* an empty table, and otherwise starts the walk at num_bdf = num_entries. *)
(***************************************************************************)
ExecuteTests ==
  /\ pc = "start"
  /\ \E skipAll \in BOOLEAN, createFails \in BOOLEAN, t \in BdfTables :
       IF skipAll \/ createFails
       THEN pc' = "done" /\ result' = "skip" /\ UNCHANGED <<bdfTable, numBdf>>
       ELSE /\ bdfTable' = t
            /\ numBdf' = Len(t)
            /\ pc' = IF Len(t) = 0 THEN "count" ELSE "scan"
            /\ UNCHANGED result
  /\ UNCHANGED <<eInfo, ready>>

\* Mutant: while (--num_bdf != 0), the first device never probed.
ScanPreDecrement ==
  /\ pc = "scan"
  /\ IF numBdf <= 1
     THEN pc' = "count" /\ UNCHANGED <<numBdf, eInfo>>
     ELSE LET d == bdfTable[numBdf] IN
          /\ numBdf' = numBdf - 1
          /\ IF ~d.mapped
             THEN pc' = "count" /\ UNCHANGED eInfo
             ELSE /\ eInfo' = IF d.exerciser
                              THEN Append(eInfo, [bdf |-> d.bdf, initialized |-> FALSE])
                              ELSE eInfo
                  /\ UNCHANGED pc
  /\ UNCHANGED <<bdfTable, ready, result>>

\* Mutant: a device without a mapping is skipped instead of ending the walk.
ScanSkipsUnmapped ==
  /\ pc = "scan"
  /\ IF numBdf = 0
     THEN pc' = "count" /\ UNCHANGED <<numBdf, eInfo>>
     ELSE LET d == bdfTable[numBdf] IN
          /\ numBdf' = numBdf - 1
          /\ eInfo' = IF d.exerciser /\ d.mapped
                      THEN Append(eInfo, [bdf |-> d.bdf, initialized |-> FALSE])
                      ELSE eInfo
          /\ UNCHANGED pc
  /\ UNCHANGED <<bdfTable, ready, result>>

(***************************************************************************)
(* One test of while (num_bdf-- != 0): device[num_bdf] (1-based numBdf) is *)
(* probed; a PCIE_NO_MAPPING answer returns from create_info_table with   *)
(* the exercisers found so far, and an exerciser is appended to e_info     *)
(* with initialized = 0.                                                   *)
(***************************************************************************)
Scan ==
  /\ pc = "scan"
  /\ IF numBdf = 0
     THEN pc' = "count" /\ UNCHANGED <<numBdf, eInfo>>
     ELSE LET d == bdfTable[numBdf] IN
          /\ numBdf' = numBdf - 1
          /\ IF ~d.mapped
             THEN pc' = "count" /\ UNCHANGED eInfo
             ELSE /\ eInfo' = IF d.exerciser
                              THEN Append(eInfo, [bdf |-> d.bdf, initialized |-> FALSE])
                              ELSE eInfo
                  /\ UNCHANGED pc
  /\ UNCHANGED <<bdfTable, ready, result>>

\* val_exerciser_get_info(EXERCISER_NUM_CARDS, 0)
NumCards == Len(eInfo)

(***************************************************************************)
(* num_instances = get_info(EXERCISER_NUM_CARDS): none skips the tests;   *)
(* otherwise the operating-system tests run only if g_sw_view[G_SW_OS] is *)
(* set, and the function returns ACS_STATUS_PASS without running any when *)
(* it is not.                                                              *)
(***************************************************************************)
Count ==
  /\ pc = "count"
  /\ \E swOs \in BOOLEAN :
       CASE NumCards = 0 -> pc' = "done" /\ result' = "skip"
         [] ~swOs        -> pc' = "done" /\ result' = "pass"
         [] OTHER        -> pc' = "tests" /\ result' = "run"
  /\ UNCHANGED <<bdfTable, numBdf, eInfo, ready>>

-----------------------------------------------------------------------------
(***************************************************************************)
(* Reference definitions of what the walk finds, without the loop.        *)
(***************************************************************************)

\* 1-based index of the last device whose config read has no mapping, or 0.
LastUnmapped(t) == SelectLastInSeq(t, LAMBDA d : ~d.mapped)

\* The devices the reverse walk reaches before it meets an unmapped one.
Reached(t) == SubSeq(t, LastUnmapped(t) + 1, Len(t))

\* The BDFs of the exercisers among them.
ScannedExercisers ==
  { d.bdf : d \in ToSet(SelectSeq(Reached(bdfTable), LAMBDA d : d.exerciser)) }

(***************************************************************************)
(* Once create_info_table has returned, e_info lists the exercisers the    *)
(* walk reached, each once, in reverse BDF-table order, all uninitialised: *)
(* instance i of every exerciser test is the (i+1)-th exerciser from the   *)
(* end of the BDF table, and nothing before an unmapped device is listed.  *)
(***************************************************************************)
ExerciserTableOfScan ==
  pc \in {"count", "tests"} =>
    LET found == SelectSeq(Reached(bdfTable), LAMBDA d : d.exerciser)
    IN  eInfo = Reverse([i \in DOMAIN found |->
                           [bdf |-> found[i].bdf, initialized |-> FALSE]])
====
