------------------------------ MODULE MsiTest ------------------------------
(***************************************************************************)
(* Test os_e004 (test_pool/exerciser/operating_system/test_os_e004.c) on  *)
(* one PE, with the calls it makes into val_exerciser_init                 *)
(* (val/src/acs_exerciser.c) and pal_gic_install_isr                       *)
(* (platform/pal_uefi/src/pal_gic.c), against its interrupt handler.       *)
(*                                                                         *)
(* Two actors share irq_pending: the payload loop over the exerciser cards *)
(* and intr_handler, which the GIC runs between any two steps of the loop  *)
(* once an LPI is pending and a handler is registered for it.  The MSI    *)
(* write the exerciser emits reaches the GIC some time after GENERATE_MSI. *)
(* val_gic_request_msi and the exerciser's readiness are external and     *)
(* nondeterministic.                                                       *)
(*                                                                         *)
(* The test runs inside val_exerciser_execute_tests (module               *)
(* ExerciserTable): its cards are the entries of g_exercier_info_table     *)
(* that the BDF walk appended, and os_e001_entry, which runs first, may    *)
(* already have initialised some of them.                                  *)
(***************************************************************************)
EXTENDS ExerciserTable, FiniteSets

CONSTANTS
  TimeoutLarge,      \* TIMEOUT_LARGE, scaled down
  ProtocolPresent,   \* LocateProtocol(gHardwareInterruptProtocolGuid) succeeds
  RegisterMayFail    \* RegisterInterruptSource may fail for a free source

ASSUME /\ TimeoutLarge \in Nat \ {0}
       /\ ProtocolPresent \in BOOLEAN /\ RegisterMayFail \in BOOLEAN

Cards == 0..NumCards - 1

\* e_info[instance].initialized and e_info[instance].bdf
Initialized(c) == eInfo[c + 1].initialized
BdfOf(c) == eInfo[c + 1].bdf

VARIABLES
  instance,     \* the loop's card index
  timeout,      \* the poll countdown
  irqPending,   \* irq_pending, shared with intr_handler
  status,       \* the result val_set_status recorded
  mapped,       \* cards with an LPI mapping from val_gic_request_msi
  handler,      \* intr_handler is registered for lpi_int_id
  inFlight,     \* cards whose MSI write has not reached the GIC yet
  pending,      \* cards whose MSI is pending as lpi_int_id in the GIC
  delivered     \* cards whose MSI intr_handler has serviced

testVars == <<instance, timeout, irqPending, status, mapped, handler,
              inFlight, pending, delivered>>

vars == <<tableVars, testVars>>

\* The table's state other than pc, left alone by the test's own steps.
tableData == <<bdfTable, numBdf, eInfo, ready, result>>

Init ==
  /\ TableInit
  /\ instance = 0
  /\ timeout = 0
  /\ irqPending = 0
  /\ status = "none"
  /\ mapped = {}
  /\ handler = FALSE
  /\ inFlight = {}
  /\ pending = {}
  /\ delivered = {}

(***************************************************************************)
(* execute_tests dispatches the operating-system tests: os_e001_entry,     *)
(* not in this repository, runs first and may have called                 *)
(* val_exerciser_init on any card, which marks initialised the ones that   *)
(* were ready; then the payload of os_e004 starts with num_cards = the     *)
(* table's num_exerciser.                                                  *)
(***************************************************************************)
RunTests ==
  /\ pc = "tests"
  /\ \E e001 \in SUBSET {c \in Cards : BdfOf(c) \in ready} :
       eInfo' = [i \in 1..NumCards |->
                   IF i - 1 \in e001 THEN [eInfo[i] EXCEPT !.initialized = TRUE]
                                     ELSE eInfo[i]]
  /\ pc' = "loop"
  /\ UNCHANGED <<bdfTable, numBdf, ready, result, testVars>>

\* for (instance = 0; instance < num_cards; instance++): test or pass.
Loop ==
  /\ pc = "loop"
  /\ IF instance < NumCards
     THEN pc' = "init" /\ UNCHANGED status
     ELSE pc' = "done" /\ status' = "pass"
  /\ UNCHANGED <<instance, timeout, irqPending, tableData, mapped,
                 handler, inFlight, pending, delivered>>

(***************************************************************************)
(* val_exerciser_init: a card not yet initialised must report EXERCISER_ON *)
(* (else it returns 1 and the payload moves to the next card); the        *)
(* command-register write then marks it initialised.                       *)
(***************************************************************************)
ExerciserInit ==
  /\ pc = "init"
  /\ IF Initialized(instance) \/ BdfOf(instance) \in ready
     THEN /\ eInfo' = [eInfo EXCEPT ![instance + 1].initialized = TRUE]
          /\ pc' = "request" /\ UNCHANGED instance
     ELSE /\ pc' = "loop" /\ instance' = instance + 1
          /\ UNCHANGED eInfo
  /\ UNCHANGED <<bdfTable, numBdf, ready, result, timeout, irqPending, status,
                 mapped, handler, inFlight, pending, delivered>>

\* val_gic_request_msi(e_bdf, lpi_int_id, msi_index): a failure ends the test.
RequestMsi ==
  /\ pc = "request"
  /\ \/ /\ mapped' = mapped \cup {instance}
        /\ pc' = "install" /\ UNCHANGED status
     \/ /\ pc' = "done" /\ status' = "fail01"
        /\ UNCHANGED mapped
  /\ UNCHANGED <<instance, timeout, irqPending, tableData, handler,
                 inFlight, pending, delivered>>

(***************************************************************************)
(* pal_gic_install_isr: without the protocol it returns 0xFFFFFFFF.       *)
(* Otherwise it disables the source and registers intr_handler, which     *)
(* fails while a handler is registered; on failure it deregisters and     *)
(* registers again, and returns 0 whatever the retry gives.               *)
(***************************************************************************)
Register(free) == IF RegisterMayFail THEN {FALSE, free} ELSE {free}

InstallIsr ==
  /\ pc = "install"
  /\ IF ~ProtocolPresent
     THEN pc' = "done" /\ status' = "fail02" /\ UNCHANGED handler
     ELSE /\ \E first \in Register(~handler), retry \in Register(TRUE) :
               handler' = (first \/ retry)
          /\ pc' = "arm" /\ UNCHANGED status
  /\ UNCHANGED <<instance, timeout, irqPending, tableData, mapped,
                 inFlight, pending, delivered>>

\* Mutant: irq_pending is set once, before the first card only.
SetPendingOnce ==
  /\ pc = "arm"
  /\ irqPending' = IF instance = 0 THEN 1 ELSE irqPending
  /\ pc' = "trigger"
  /\ UNCHANGED <<instance, timeout, status, tableData, mapped,
                 handler, inFlight, pending, delivered>>

\* irq_pending = 1, then GENERATE_MSI, then timeout = TIMEOUT_LARGE.
SetPending ==
  /\ pc = "arm"
  /\ irqPending' = 1
  /\ pc' = "trigger"
  /\ UNCHANGED <<instance, timeout, status, tableData, mapped,
                 handler, inFlight, pending, delivered>>

Trigger ==
  /\ pc = "trigger"
  /\ inFlight' = inFlight \cup {instance}
  /\ timeout' = TimeoutLarge
  /\ pc' = "poll"
  /\ UNCHANGED <<instance, irqPending, status, tableData, mapped,
                 handler, pending, delivered>>

\* Mutant: while ((timeout-- > 0) && irq_pending).
PollPostDecrement ==
  /\ pc = "poll"
  /\ timeout' = timeout - 1
  /\ pc' = IF timeout > 0 /\ irqPending = 1 THEN "poll" ELSE "check"
  /\ UNCHANGED <<instance, irqPending, status, tableData, mapped,
                 handler, inFlight, pending, delivered>>

\* Mutant: while ((timeout > 0) && irq_pending), the countdown forgotten.
PollNoCountdown ==
  /\ pc = "poll"
  /\ pc' = IF timeout > 0 /\ irqPending = 1 THEN "poll" ELSE "check"
  /\ UNCHANGED <<instance, timeout, irqPending, status, tableData,
                 mapped, handler, inFlight, pending, delivered>>

\* One test of while ((--timeout > 0) && irq_pending).
Poll ==
  /\ pc = "poll"
  /\ timeout' = timeout - 1
  /\ pc' = IF timeout - 1 > 0 /\ irqPending = 1 THEN "poll" ELSE "check"
  /\ UNCHANGED <<instance, irqPending, status, tableData, mapped,
                 handler, inFlight, pending, delivered>>

\* Mutant: the failing path returns without val_gic_free_msi.
CheckNoFreeOnFail ==
  /\ pc = "check"
  /\ mapped' = IF timeout = 0 THEN mapped ELSE mapped \ {instance}
  /\ IF timeout = 0
     THEN pc' = "done" /\ status' = "fail03" /\ UNCHANGED instance
     ELSE pc' = "loop" /\ instance' = instance + 1 /\ UNCHANGED status
  /\ UNCHANGED <<timeout, irqPending, tableData, handler, inFlight,
                 pending, delivered>>

\* if (timeout == 0) fail and free; else free and take the next card.
Check ==
  /\ pc = "check"
  /\ mapped' = mapped \ {instance}
  /\ IF timeout = 0
     THEN pc' = "done" /\ status' = "fail03" /\ UNCHANGED instance
     ELSE pc' = "loop" /\ instance' = instance + 1 /\ UNCHANGED status
  /\ UNCHANGED <<timeout, irqPending, tableData, handler, inFlight,
                 pending, delivered>>

(***************************************************************************)
(* The exerciser's MSI write reaches the ITS: with a mapping it makes      *)
(* lpi_int_id pending, without one it is dropped.                          *)
(***************************************************************************)
MsiArrives(c) ==
  /\ c \in inFlight
  /\ inFlight' = inFlight \ {c}
  /\ pending' = IF c \in mapped THEN pending \cup {c} ELSE pending
  /\ UNCHANGED <<pc, instance, timeout, irqPending, status, tableData,
                 mapped, handler, delivered>>

(***************************************************************************)
(* intr_handler, run by the GIC between two steps of the payload: it       *)
(* clears irq_pending and sends the end of interrupt for lpi_int_id.       *)
(***************************************************************************)
IntrHandler ==
  /\ handler
  /\ pending # {}
  /\ irqPending' = 0
  /\ delivered' = delivered \cup pending
  /\ pending' = {}
  /\ UNCHANGED <<pc, instance, timeout, status, tableData, mapped,
                 handler, inFlight>>

\* The steps of val_exerciser_execute_tests before any test runs.
TableStep == (ExecuteTests \/ Scan \/ Count) /\ UNCHANGED testVars

Payload ==
  \/ TableStep \/ RunTests
  \/ Loop \/ ExerciserInit \/ RequestMsi \/ InstallIsr \/ SetPending
  \/ Trigger \/ Poll \/ Check

Next ==
  \/ Payload
  \/ \E c \in Cards : MsiArrives(c)
  \/ IntrHandler

(***************************************************************************)
(* The payload runs on the PE whenever no interrupt preempts it; the       *)
(* exerciser and the GIC are not assumed to deliver anything.             *)
(***************************************************************************)
Spec == Init /\ [][Next]_vars /\ WF_vars(Payload)

-----------------------------------------------------------------------------
(***************************************************************************)
(* Properties.                                                             *)
(***************************************************************************)

TypeOK ==
  /\ pc \in {"start", "scan", "count", "tests", "loop", "init", "request", "install", "arm", "trigger", "poll",
             "check", "done"}
  /\ instance \in 0..NumCards
  /\ timeout \in 0..TimeoutLarge
  /\ irqPending \in {0, 1}
  /\ status \in {"none", "pass", "fail01", "fail02", "fail03"}
  /\ numBdf \in 0..Len(bdfTable)
  /\ \A i \in 1..Len(eInfo) : eInfo[i].bdf \in Bdfs /\ eInfo[i].initialized \in BOOLEAN
  /\ result \in {"none", "skip", "pass", "run"}
  /\ mapped \cup inFlight \cup pending \cup delivered \subseteq Cards

(***************************************************************************)
(* A PASS of os_e004 means the handler serviced an MSI from every ready    *)
(* exerciser the BDF walk reached: the walk must have listed each of them, *)
(* and irq_pending, set anew for each card, must have been cleared by that *)
(* card's interrupt and not by a stale one.  The walk reaches only the     *)
(* devices after the last one without a config mapping, so exercisers     *)
(* before it are silently left untested.                                   *)
(***************************************************************************)
PassMeansDelivered ==
  status = "pass" =>
    \A b \in ScannedExercisers \cap ready :
      \E c \in delivered : BdfOf(c) = b

(***************************************************************************)
(* Every return of the test other than FAIL 02 leaves no LPI mapping in   *)
(* place (spec §3: mappings are created and destroyed per test case): the *)
(* PASS path frees each card's mapping before it takes the next card,     *)
(* FAIL 03 frees before it returns, and FAIL 01 made none.  The FAIL 02   *)
(* return (lines 88-94) skips val_gic_free_msi and keeps its mapping; it  *)
(* is excluded here and recorded as a hazard.                             *)
(***************************************************************************)
MappingsReleased == (pc = "done" /\ status # "fail02") => mapped = {}

\* The payload returns: the poll loop's countdown bounds every wait.
Termination == <>(pc = "done")

(***************************************************************************)
(* FAIL 03 ("Interrupt trigger failed") is decided only for a card whose  *)
(* MSI the handler has not serviced by the time the poll loop gives up.    *)
(***************************************************************************)
NoFalseTimeout ==
  [][(pc = "check" /\ status' = "fail03") => instance \notin delivered]_vars
====
