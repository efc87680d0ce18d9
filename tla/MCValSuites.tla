----------------------------- MODULE MCValSuites -----------------------------
(***************************************************************************)
(* Model-checking instance of ValSuites.  The exerciser suite runs over    *)
(* the BDF tables of ExerciserInputs; the peripheral view over every info  *)
(* table of up to three entries of the three types, with the header the    *)
(* PAL writes for it (one counter per type and the total); the PE tests    *)
(* over two PEs whose ID registers are drawn from the values below.        *)
(***************************************************************************)
EXTENDS ValSuites, ExerciserInputs

MaxEntries == 3

\* PeripheralInfo's Types and TYPE_NONE, written out: a definition through
\* Per! would depend on the Infos it is used to define.
PerTypes == {"USB", "SATA", "UART"}
PerTypeNone == "NONE"

\* Entry i of a table; its number is its position.
Entries == UNION { { [i \in 1..n |-> [type |-> ts[i], id |-> i]] :
                       ts \in [1..n -> PerTypes] } : n \in 0..MaxEntries }

Header(es) ==
  [t \in PerTypes \cup {PerTypeNone} |->
     Len(SelectSeq(es, LAMBDA e : t = PerTypeNone \/ e.type = t))]

MCInfos == { [entries |-> es, header |-> Header(es)] : es \in Entries }

(***************************************************************************)
(* ID register values.  ID_AA64PFR0_EL1: EL0-EL3 fields with AArch32 at   *)
(* no level, at EL0 only, at EL0 and EL1, at every level, and at EL3 only. *)
(* ID_MMFR0_EL1: InnerShr and ShareLvl both 1, InnerShr 0, ShareLvl 0, the *)
(* other fields as a Cortex-A core reports them (AuxReg 2, OuterShr 1,     *)
(* VMSA 5).  ID_AA64DFR0_EL1: WRPs 1, 2, 3 and 15, with CTX_CMPs 1,      *)
(* BRPs 5, PMUVer 1 and DebugVer 6.                                        *)
(***************************************************************************)
MCPfr0 == {17, 18, 4386, 8738, 8465}     \* 0x0011 0x0012 0x1122 0x2222 0x2111
MCMmfr0 == {270536965, 2101509, 270532869}
                                  \* 0x10201105 0x00201105 0x10200105
MCDfr0 == {269504774, 270553350, 271601926, 284184838}
                                  \* 0x10105106 0x10205106 0x10305106 0x10F05106
=============================================================================
