-------------------------- MODULE OutOfRangeProbe --------------------------
(***************************************************************************)
(* Test os_p060 (test_pool/pcie/operating_system/test_os_p060.c): for each *)
(* ECAM region it takes the highest BDF of the region's segment from the   *)
(* BDF table, probes every device/function of the bus one past it (capped  *)
(* by the region's end bus) through the region's ECAM base, and expects    *)
(* every read to answer all 1's.                                           *)
(*                                                                         *)
(* The PCIe info table, the BDF table and the config space are inputs.  A  *)
(* platform is its ECAM regions [segment, base, startBus, endBus], in      *)
(* MCFG order, and the set of functions present as <<segment, bus, fn>>.   *)
(* The BDF table lists those functions as val_pcie_create_device_bdf_table *)
(* enumerates them: region by region, bus and function ascending.  The     *)
(* 32 x 8 functions of a bus are scaled to Fns; bus 255 to MaxBus.         *)
(***************************************************************************)
EXTENDS Integers, Sequences, SequencesExt, FiniteSets

CONSTANTS
  Platforms,   \* [ecams, present] pairs
  Fns,         \* function slots of a bus: 0 .. NumFns - 1
  MaxBus       \* the largest bus number (255)

NumFns == Cardinality(Fns)

VARIABLES
  plat,        \* the platform the test runs on
  pc,          \* "ecam" at the head of the ECAM loop, "probe" in the
               \* device/function loop, "done" once payload returned
  ecamIndex,   \* ecam_index
  segment,     \* segment of the current region
  busIndex,    \* bus_index
  fn,          \* dev_index * PCIE_MAX_FUNC + func_index
  status       \* the PE's test status: "none", "skip01", "pass01",
               \* "fail01" or "fail02"

vars == <<plat, pc, ecamIndex, segment, busIndex, fn, status>>

\* The BDF table as the enumeration builds it.
BdfTable(p) ==
  LET Slots(e) == [k \in 1..(e.endBus - e.startBus + 1) * NumFns |->
                     <<e.segment, e.startBus + (k - 1) \div NumFns, (k - 1) % NumFns>>]
      RegionFns(e) == SelectSeq(Slots(e), LAMBDA x : x \in p.present)
  IN  FoldLeft(LAMBDA acc, e : acc \o RegionFns(e), <<>>, p.ecams)

NumEcam == Len(plat.ecams)

(***************************************************************************)
(* get_max_bdf: the last BDF of the segment in table order, or BDF 0 when  *)
(* the segment has none.                                                   *)
(***************************************************************************)
GetMaxBdf(seg) ==
  LET t == BdfTable(plat)
      k == SelectLastInSeq(t, LAMBDA x : x[1] = seg)
  IN  IF k = 0 THEN <<0, 0, 0>> ELSE t[k]

\* What a read of ECAM base + bus_index, fn answers: the function if some
\* region mapped at that base decodes that bus and it is present, all 1's
\* otherwise.
Answers(base, bus, f) ==
  \E e \in ToSet(plat.ecams) :
    /\ e.base = base /\ bus \in e.startBus..e.endBus
    /\ <<e.segment, bus, f>> \in plat.present

Init ==
  /\ plat \in Platforms
  /\ pc = "ecam"
  /\ ecamIndex = 0
  /\ segment = 0
  /\ busIndex = 0
  /\ fn = 0
  /\ status = "none"

(***************************************************************************)
(* Head of the ECAM loop: the status is reset to SKIP 01, bus_index is the *)
(* least of the highest BDF's bus and the region's end bus, plus one; past *)
(* bus 255 the payload returns.                                            *)
(***************************************************************************)
EcamLoop ==
  /\ pc = "ecam"
  /\ IF ecamIndex = NumEcam
     THEN pc' = "done" /\ UNCHANGED <<segment, busIndex, status>>
     ELSE LET e   == plat.ecams[ecamIndex + 1]
              max == GetMaxBdf(e.segment)[2]
              bus == (IF max < e.endBus THEN max ELSE e.endBus) + 1
          IN  /\ segment' = e.segment
              /\ status' = "skip01"
              /\ busIndex' = bus
              /\ pc' = IF bus > MaxBus THEN "done" ELSE "probe"
  /\ fn' = 0
  /\ UNCHANGED <<plat, ecamIndex>>

(***************************************************************************)
(* One iteration of the device/function loop: a zero ECAM base fails with  *)
(* FAIL 01, a read that is not all 1's fails with FAIL 02, and otherwise   *)
(* the status becomes PASS 01; after the last function the next region.    *)
(***************************************************************************)
Probe ==
  /\ pc = "probe"
  /\ LET base == plat.ecams[ecamIndex + 1].base IN
     IF fn = NumFns
     THEN pc' = "ecam" /\ ecamIndex' = ecamIndex + 1 /\ UNCHANGED <<fn, status>>
     ELSE CASE base = 0 -> status' = "fail01" /\ pc' = "done" /\ UNCHANGED <<fn, ecamIndex>>
            [] Answers(base, busIndex, fn) ->
                          status' = "fail02" /\ pc' = "done" /\ UNCHANGED <<fn, ecamIndex>>
            [] OTHER   -> status' = "pass01" /\ fn' = fn + 1 /\ UNCHANGED <<pc, ecamIndex>>
  /\ UNCHANGED <<plat, segment, busIndex>>

Next == EcamLoop \/ Probe

Spec == Init /\ [][Next]_vars

-----------------------------------------------------------------------------
(***************************************************************************)
(* The comment of the device/function loop (test_os_p060.c:96-100): the   *)
(* BDF formed from bus_index "does not fall into the secondary and         *)
(* subordinate bus of any of the rootports because the bus value is one    *)
(* greater than the highest bus value.  This BDF also doesn't match any of *)
(* the existing BDF."  Every read of the loop then answers all 1's, and on *)
(* a platform whose functions are all enumerated, as every platform here   *)
(* is, the test never reports FAIL 02.                                     *)
(***************************************************************************)
NoFail02OnConformingPlatform == status # "fail02"
=============================================================================
