--------------------------- MODULE PeripheralInfo ---------------------------
(***************************************************************************)
(* The peripheral info view of the validation layer (val/src/             *)
(* acs_peripherals.c): g_peripheral_info_table, which                     *)
(* val_peripheral_create_info_table points at the caller's buffer and has  *)
(* the PAL fill, the lookups val_peripheral_get_info and                   *)
(* val_peripheral_get_entry_index, val_peripheral_free_info_table and the  *)
(* test dispatch val_peripheral_execute_tests.                             *)
(*                                                                         *)
(* The PAL filler is not part of this repository: the tables it may write  *)
(* are an input.  An entry is its peripheral type and a number telling it  *)
(* apart; a field read from it is a distinct non-zero value.  The 0xFF     *)
(* end-of-data entry is the end of the sequence.                           *)
(***************************************************************************)
EXTENDS Integers, Sequences, SequencesExt

CONSTANTS
  Infos,         \* the info tables pal_peripheral_create_info_table may write
  Instances,     \* the instance numbers the callers pass
  Garbage,       \* what a read of released memory may return
  MaxCreates,    \* bound on the create calls
  NULL

\* Peripheral types; PERIPHERAL_TYPE_NONE matches every entry.
Types == {"USB", "SATA", "UART"}
TYPE_NONE == "NONE"

\* val_peripheral_get_entry_index's "no such entry".
NOT_FOUND == 65535

\* The fields one info entry holds.
Fields == {"base0", "base1", "flags", "irq", "bdf", "max_pasids"}

FieldNo == [base0 |-> 1, base1 |-> 2, flags |-> 3, irq |-> 4, bdf |-> 5,
            max_pasids |-> 6]

\* info[i].field of an entry: a non-zero value proper to the entry.
FieldOf(e, f) == 10 * e.id + FieldNo[f]

\* The header counters of the PERIPHERAL_INFO_TABLE.
CountInfo == [NUM_USB |-> "USB", NUM_SATA |-> "SATA", NUM_UART |-> "UART",
              NUM_ALL |-> TYPE_NONE]

\* The cases of get_info that look an entry up: the type it asks
\* get_entry_index for and the field it returns.
LookupInfo ==
  [USB_BASE0  |-> <<"USB", "base0">>,  USB_FLAGS  |-> <<"USB", "flags">>,
   USB_GSIV   |-> <<"USB", "irq">>,    USB_BDF    |-> <<"USB", "bdf">>,
   SATA_BASE0 |-> <<"SATA", "base0">>, SATA_BASE1 |-> <<"SATA", "base1">>,
   SATA_FLAGS |-> <<"SATA", "flags">>, SATA_BDF   |-> <<"SATA", "bdf">>,
   SATA_GSIV  |-> <<"SATA", "irq">>,   UART_BASE0 |-> <<"UART", "base0">>,
   UART_GSIV  |-> <<"UART", "irq">>,   UART_FLAGS |-> <<"UART", "flags">>,
   ANY_FLAGS  |-> <<TYPE_NONE, "flags">>, ANY_GSIV |-> <<TYPE_NONE, "irq">>,
   ANY_BDF    |-> <<TYPE_NONE, "bdf">>,
   MAX_PASIDS |-> <<TYPE_NONE, "max_pasids">>]

\* An info_type no case names: the default branch.
InfoTypes == DOMAIN CountInfo \cup DOMAIN LookupInfo \cup {"OTHER"}

VARIABLES
  ptr,        \* g_peripheral_info_table: "null", "live" or "freed"
  info,       \* the buffer it points at: [entries, header]
  creates,    \* create calls made
  lastQuery,  \* the last get_info call: [type, inst, from, tbl], or NULL
  lastAnswer, \* what it returned
  status      \* what the last execute_tests returned, or NULL

vars == <<ptr, info, creates, lastQuery, lastAnswer, status>>

\* Mutant: PERIPHERAL_TYPE_NONE is compared like any other type.
RECURSIVE EntryIndexFromTyped(_, _, _, _)
EntryIndexFromTyped(es, type, inst, i) ==
  IF i > Len(es) THEN NOT_FOUND
  ELSE IF es[i].type = type
       THEN IF inst = 0 THEN i ELSE EntryIndexFromTyped(es, type, inst - 1, i + 1)
       ELSE EntryIndexFromTyped(es, type, inst, i + 1)

\* Mutant: instance numbers taken as 1-based.
RECURSIVE EntryIndexFromOneBased(_, _, _, _)
EntryIndexFromOneBased(es, type, inst, i) ==
  IF i > Len(es) THEN NOT_FOUND
  ELSE IF type = TYPE_NONE \/ es[i].type = type
       THEN IF inst <= 1 THEN i ELSE EntryIndexFromOneBased(es, type, inst - 1, i + 1)
       ELSE EntryIndexFromOneBased(es, type, inst, i + 1)

(***************************************************************************)
(* The while loop of get_entry_index from entry i (1-based) to the 0xFF    *)
(* entry: every entry of the type (every entry for TYPE_NONE) counts the   *)
(* instance down, and the entry met with the count at 0 is the answer.     *)
(***************************************************************************)
RECURSIVE EntryIndexFrom(_, _, _, _)
EntryIndexFrom(es, type, inst, i) ==
  IF i > Len(es) THEN NOT_FOUND
  ELSE IF type = TYPE_NONE \/ es[i].type = type
       THEN IF inst = 0 THEN i ELSE EntryIndexFrom(es, type, inst - 1, i + 1)
       ELSE EntryIndexFrom(es, type, inst, i + 1)

GetEntryIndex(es, type, inst) == EntryIndexFrom(es, type, inst, 1)

(***************************************************************************)
(* get_info on a table: a header counter, or the field of the entry        *)
(* get_entry_index finds, or 0 when it finds none or the type is unknown.  *)
(***************************************************************************)
GetInfo(tbl, it, inst) ==
  CASE it \in DOMAIN CountInfo -> tbl.header[CountInfo[it]]
    [] it \in DOMAIN LookupInfo ->
         LET i == GetEntryIndex(tbl.entries, LookupInfo[it][1], inst)
         IN  IF i # NOT_FOUND THEN FieldOf(tbl.entries[i], LookupInfo[it][2])
                              ELSE 0
    [] OTHER -> 0

Init ==
  /\ ptr = "null"
  /\ info = NULL
  /\ creates = 0
  /\ lastQuery = NULL
  /\ lastAnswer = 0
  /\ status = NULL

\* val_peripheral_create_info_table: the global points at the caller's
\* buffer and the PAL fills it; the three counts it then prints are reads.
CreateInfoTable ==
  /\ creates < MaxCreates
  /\ \E t \in Infos : info' = t
  /\ ptr' = "live"
  /\ creates' = creates + 1
  /\ UNCHANGED <<lastQuery, lastAnswer, status>>

(***************************************************************************)
(* val_peripheral_get_info: 0 through a NULL pointer; through a live one   *)
(* the answer of GetInfo; through a released one, whatever the freed       *)
(* memory now holds: still the table, or reused bytes.                     *)
(***************************************************************************)
Query(it, inst) ==
  /\ lastQuery' = [type |-> it, inst |-> inst, from |-> ptr, tbl |-> info]
  /\ CASE ptr = "null" -> lastAnswer' = 0
       [] ptr = "live" -> lastAnswer' = GetInfo(info, it, inst)
       [] OTHER        -> lastAnswer' \in {GetInfo(info, it, inst)} \cup Garbage
  /\ UNCHANGED <<ptr, info, creates, status>>

\* val_peripheral_free_info_table: the buffer is released; the global
\* keeps its value.
FreeInfoTable ==
  /\ ptr = "live"
  /\ ptr' = "freed"
  /\ UNCHANGED <<info, creates, lastQuery, lastAnswer, status>>

(***************************************************************************)
(* val_peripheral_execute_tests: a user skip of ACS_PER_TEST_NUM_BASE      *)
(* returns ACS_STATUS_SKIP; otherwise the operating-system tests (outside  *)
(* this repository, any status) run only if g_sw_view[G_SW_OS] is set,     *)
(* and their statuses are OR-ed into ACS_STATUS_PASS.                      *)
(***************************************************************************)
ExecuteTests ==
  /\ \E skip \in BOOLEAN, swOs \in BOOLEAN, failed \in BOOLEAN :
       status' = CASE skip          -> "skip"
                   [] swOs /\ failed -> "fail"
                   [] OTHER         -> "pass"
  /\ UNCHANGED <<ptr, info, creates, lastQuery, lastAnswer>>

Next ==
  \/ CreateInfoTable
  \/ \E it \in InfoTypes, inst \in Instances : Query(it, inst)
  \/ FreeInfoTable
  \/ ExecuteTests

Spec == Init /\ [][Next]_vars

-----------------------------------------------------------------------------
(***************************************************************************)
(* Reference definitions, without the loop.                                *)
(***************************************************************************)

\* Positions of the entries a type selects, in table order.
Positions(es, type) ==
  SelectSeq([i \in DOMAIN es |-> i],
            LAMBDA i : type = TYPE_NONE \/ es[i].type = type)

\* The (inst+1)-th of them, or NOT_FOUND.
RefIndex(es, type, inst) ==
  LET p == Positions(es, type)
  IN  IF inst < Len(p) THEN p[inst + 1] ELSE NOT_FOUND

(***************************************************************************)
(* Through a live table, a lookup answers with the field of the entry      *)
(* that is the (instance+1)-th of its type in table order (instance is     *)
(* 0-based, and the ANY_ and MAX_PASIDS cases count every entry), and 0    *)
(* when there is no such entry.                                            *)
(***************************************************************************)
GetInfoAnswersTable ==
  (lastQuery # NULL /\ lastQuery.from = "live"
     /\ lastQuery.type \in DOMAIN LookupInfo)
    => LET q == LookupInfo[lastQuery.type]
           es == lastQuery.tbl.entries
           i == RefIndex(es, q[1], lastQuery.inst)
       IN  lastAnswer = IF i = NOT_FOUND THEN 0 ELSE FieldOf(es[i], q[2])
=============================================================================
