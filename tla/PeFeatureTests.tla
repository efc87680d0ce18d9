--------------------------- MODULE PeFeatureTests ---------------------------
(***************************************************************************)
(* The PE tests of this repository (test_pool/pe/operating_system):       *)
(* os_c005 "Check HW Coherence support" and os_c012 "Check Synchronous     *)
(* Watchpoints".  Each entry asks val_initialize_test whether to run,      *)
(* has val_run_test_payload run the payload on every PE, and then collects *)
(* the PEs' results with val_check_for_error.  The payload reads the ID    *)
(* registers of the PE it runs on and records PASS, FAIL or SKIP in that   *)
(* PE's status slot.                                                       *)
(*                                                                         *)
(* The dispatcher, the status store and val_check_for_error are outside    *)
(* this repository: the model keeps the slot each payload writes, and      *)
(* lets the payloads of the PEs run in any order.  The ID registers of a   *)
(* PE are an input, fixed for the run.                                     *)
(***************************************************************************)
EXTENDS Integers, Sequences, Bitwise

CONSTANTS
  Pes,          \* the PE indices val_pe_get_index_mpid answers, 0 .. num_pe - 1
  Pfr0Values,   \* ID_AA64PFR0_EL1 values a PE may read
  Mmfr0Values,  \* ID_MMFR0_EL1 values
  Dfr0Values    \* ID_AA64DFR0_EL1 values

Tests == <<"c005", "c012">>

\* The register triple one PE reads.
Regs == [pfr0 : Pfr0Values, mmfr0 : Mmfr0Values, dfr0 : Dfr0Values]

VARIABLES
  regs,      \* each PE's ID registers
  testNo,    \* the entry running: 1 for os_c005_entry, 2 for os_c012_entry
  phase,     \* "init", "payload", "check", or "done" once both returned
  ran,       \* PEs whose payload has run for the current test
  verdict    \* verdict[t][p]: the status PE p recorded for test t

vars == <<regs, testNo, phase, ran, verdict>>

\* Mutant: the EL0 field compared with 0x20, as the EL1 field is.
A32SupportEl0Shifted(pfr0) ==
  \/ (pfr0 & 61440) = 8192
  \/ (pfr0 & 3840) = 512
  \/ (pfr0 & 240) = 32
  \/ (pfr0 & 15) = 32

(***************************************************************************)
(* os_c005's payload, lines 32-46.  a32_support tests the EL3, EL2, EL1 and *)
(* EL0 fields of ID_AA64PFR0_EL1 in that order for 0x2; without it the PE   *)
(* skips, else bits 31:28 and 15:12 of ID_MMFR0_EL1 must both be 1.         *)
(***************************************************************************)
A32Support(pfr0) ==
  \/ (pfr0 & 61440) = 8192    \* (pfr0 & 0xf000) == 0x2000
  \/ (pfr0 & 3840) = 512      \* (pfr0 & 0xf00) == 0x200
  \/ (pfr0 & 240) = 32        \* (pfr0 & 0xf0) == 0x20
  \/ (pfr0 & 15) = 2          \* (pfr0 & 0xf) == 0x2

C005Payload(r) ==
  IF ~A32Support(r.pfr0) THEN "skip"
  ELSE IF (shiftR(r.mmfr0, 28) & 15) = 1 /\ (shiftR(r.mmfr0, 12) & 15) = 1
       THEN "pass" ELSE "fail"

\* Mutant: the field of bits 23:20 taken unmasked.
C012PayloadUnmasked(r) ==
  IF shiftR(r.dfr0, 20) > 2 THEN "pass" ELSE "fail"

(***************************************************************************)
(* os_c012's payload, lines 29-37: bits 23:20 of ID_AA64DFR0_EL1 hold the  *)
(* number of watchpoints minus one and must exceed 2.                      *)
(***************************************************************************)
C012Payload(r) ==
  IF (shiftR(r.dfr0, 20) & 15) > 2 THEN "pass" ELSE "fail"

Payload(t, r) == IF t = 1 THEN C005Payload(r) ELSE C012Payload(r)

Init ==
  /\ regs \in [Pes -> Regs]
  /\ testNo = 1
  /\ phase = "init"
  /\ ran = {}
  /\ verdict = [t \in 1..Len(Tests) |-> [p \in Pes |-> "none"]]

(***************************************************************************)
(* The entries, c005 lines 58-60 and c012 lines 49-52: val_initialize_test *)
(* answers ACS_STATUS_SKIP when the test is to be skipped, and then no     *)
(* payload runs.                                                           *)
(***************************************************************************)
Initialize ==
  /\ phase = "init"
  /\ phase' \in {"payload", "check"}
  /\ UNCHANGED <<regs, testNo, ran, verdict>>

\* The payload on PE p, which records its own slot.
RunPayload(p) ==
  /\ phase = "payload"
  /\ p \notin ran
  /\ verdict' = [verdict EXCEPT ![testNo][p] = Payload(testNo, regs[p])]
  /\ ran' = ran \cup {p}
  /\ phase' = IF ran' = Pes THEN "check" ELSE "payload"
  /\ UNCHANGED <<regs, testNo>>

\* val_check_for_error and the return (c005 62-67, c012 54-58); the next
\* entry starts.
Check ==
  /\ phase = "check"
  /\ testNo' = IF testNo < Len(Tests) THEN testNo + 1 ELSE testNo
  /\ phase' = IF testNo < Len(Tests) THEN "init" ELSE "done"
  /\ ran' = {}
  /\ UNCHANGED <<regs, verdict>>

Next == Initialize \/ (\E p \in Pes : RunPayload(p)) \/ Check

Spec == Init /\ [][Next]_vars

-----------------------------------------------------------------------------
(***************************************************************************)
(* Reference reading of the ID registers, by field position: Field(v, l)   *)
(* is the 4-bit field whose lowest bit is l.                               *)
(***************************************************************************)
Field(v, l) == (v \div 2^l) % 16

\* AArch32 is implemented at some exception level (field value 0b0010).
ImplementsAArch32(pfr0) == \E el \in 0..3 : Field(pfr0, 4 * el) = 2

\* ID_MMFR0_EL1.InnerShr and .ShareLvl both report hardware coherency.
HwCoherent(mmfr0) == Field(mmfr0, 28) = 1 /\ Field(mmfr0, 12) = 1

\* ID_AA64DFR0_EL1.WRPs + 1 watchpoints, at least four of them.
FourWatchpoints(dfr0) == Field(dfr0, 20) + 1 >= 4

Expected(t, r) ==
  IF t = 1
  THEN IF ~ImplementsAArch32(r.pfr0) THEN "skip"
       ELSE IF HwCoherent(r.mmfr0) THEN "pass" ELSE "fail"
  ELSE IF FourWatchpoints(r.dfr0) THEN "pass" ELSE "fail"

TypeOK ==
  /\ regs \in [Pes -> Regs]
  /\ testNo \in 1..Len(Tests)
  /\ phase \in {"init", "payload", "check", "done"}
  /\ ran \subseteq Pes
  /\ verdict \in [1..Len(Tests) -> [Pes -> {"none", "pass", "fail", "skip"}]]

(***************************************************************************)
(* Every status a PE records is the verdict its own ID registers call for: *)
(* c005 skips exactly the PEs without AArch32 at any level and passes the *)
(* coherent ones, c012 passes exactly the PEs with four watchpoints or     *)
(* more; the masks and shifts of both payloads must pick the right field   *)
(* out of registers whose other fields are set.                            *)
(***************************************************************************)
VerdictsMatchRegisters ==
  \A t \in 1..Len(Tests), p \in Pes :
    verdict[t][p] # "none" => verdict[t][p] = Expected(t, regs[p])
====
