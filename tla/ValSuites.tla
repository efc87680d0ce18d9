------------------------------ MODULE ValSuites ------------------------------
(***************************************************************************)
(* Three of the test suites the application dispatches, each run on its   *)
(* own: the exerciser suite (val_exerciser_execute_tests and os_e004,      *)
(* MsiTest), the peripheral view (PeripheralInfo), and the PE tests        *)
(* os_c005 and os_c012 (PeFeatureTests).  They share no state: each        *)
(* behaviour runs one of them, chosen at the start, and the variables of   *)
(* the other two stay at one initial state.                                *)
(***************************************************************************)
EXTENDS Integers, Sequences

CONSTANTS
  BdfTables, Bdfs, TimeoutLarge, ProtocolPresent, RegisterMayFail,
  Infos, Instances, Garbage, MaxCreates, NULL,
  Pes, Pfr0Values, Mmfr0Values, Dfr0Values

VARIABLES
  suite,
  \* ExerciserTable and MsiTest
  pc, bdfTable, numBdf, eInfo, ready, result,
  instance, timeout, irqPending, status, mapped, handler, inFlight, pending,
  delivered,
  \* PeripheralInfo; its "status" is perStatus here
  ptr, info, creates, lastQuery, lastAnswer, perStatus,
  \* PeFeatureTests
  regs, testNo, phase, ran, verdict

Exer == INSTANCE MsiTest
Per == INSTANCE PeripheralInfo WITH status <- perStatus
Pe == INSTANCE PeFeatureTests

exerVars == <<pc, bdfTable, numBdf, eInfo, ready, result, instance, timeout,
              irqPending, status, mapped, handler, inFlight, pending, delivered>>
perVars == <<ptr, info, creates, lastQuery, lastAnswer, perStatus>>
peVars == <<regs, testNo, phase, ran, verdict>>
vars == <<suite, exerVars, perVars, peVars>>

Suites == {"exerciser", "peripheral", "pe"}

\* The one state a suite that does not run is left in.
ExerIdle == Exer!Init /\ ready = {}
PeIdle == Pe!Init /\ regs = [p \in Pes |-> CHOOSE r \in Pe!Regs : TRUE]

Init ==
  /\ suite \in Suites
  /\ IF suite = "exerciser" THEN Exer!Init ELSE ExerIdle
  /\ Per!Init
  /\ IF suite = "pe" THEN Pe!Init ELSE PeIdle

ExerPayload == suite = "exerciser" /\ Exer!Payload /\ UNCHANGED <<suite, perVars, peVars>>

ExerInterrupt ==
  /\ suite = "exerciser"
  /\ (\E c \in Exer!Cards : Exer!MsiArrives(c)) \/ Exer!IntrHandler
  /\ UNCHANGED <<suite, perVars, peVars>>

PerStep == suite = "peripheral" /\ Per!Next /\ UNCHANGED <<suite, exerVars, peVars>>

PeStep == suite = "pe" /\ Pe!Next /\ UNCHANGED <<suite, exerVars, perVars>>

Next == ExerPayload \/ ExerInterrupt \/ PerStep \/ PeStep

\* The exerciser payload runs whenever no interrupt preempts it (MsiTest).
Spec == Init /\ [][Next]_vars /\ WF_vars(ExerPayload)

-----------------------------------------------------------------------------
TypeOK ==
  /\ suite \in Suites
  /\ Exer!TypeOK
  /\ Pe!TypeOK

(***************************************************************************)
(* The properties of the three suites; see their modules for what each     *)
(* says of the code.                                                       *)
(***************************************************************************)

\* A PASS of os_e004 means every ready exerciser the walk reached had its
\* MSI serviced by the handler.
PassMeansDelivered == Exer!PassMeansDelivered

\* os_e004 frees every LPI mapping it made before a return other than
\* FAIL 02.
MappingsReleased == Exer!MappingsReleased

\* Once the BDF walk ends, instance i of the exerciser table is the
\* (i+1)-th exerciser from the end of the part of the BDF table it reached.
ExerciserTableOfScan == Exer!ExerciserTableOfScan

\* The exerciser suite returns: os_e004's poll loop bounds every wait.
Termination == <>(suite # "exerciser" \/ pc = "done")

\* Through a live table, a get_info lookup answers the field of the
\* (instance+1)-th entry of its type, or 0 when there is none.
GetInfoAnswersTable == Per!GetInfoAnswersTable

\* Each PE records for os_c005 and os_c012 the verdict its ID registers
\* call for.
VerdictsMatchRegisters == Pe!VerdictsMatchRegisters
=============================================================================
