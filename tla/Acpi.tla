-------------------------------- MODULE Acpi --------------------------------
(***************************************************************************)
(* The ACPI tables, kernel/src/acpi/table.c: every table that the root     *)
(* table lists is copied into a block of the kernel heap, before the pages *)
(* that hold the tables are given to the PMM.                              *)
(*                                                                         *)
(* A root table is a sequence of 32-bit units: an RSDT has one per table,  *)
(* an XSDT two.  A unit is the low half of a table's address (the table's  *)
(* name), or "zero"; addresses are below 4 GB, so high halves are zero.    *)
(***************************************************************************)
EXTENDS Integers, Sequences

CONSTANTS
  Tables,  \* names of tables
  Blocks   \* addresses of heap blocks

ASSUME NamesAssumption ==
  Tables \cap {"zero", "driver"} = {} /\ "null" \notin Blocks

VARIABLES
  firmware,     \* [revision, checksum, units, behind, empty]
  page,         \* what the page of each table holds
  table_count,  \* s_tables.table_count
  tables,       \* s_tables.tables[i]: a block, or "null"
  array,        \* the block of s_tables.tables itself, or "null"
  heap,         \* who uses each block: "none", "acpi" or "driver"
  content,      \* what each block holds
  phase         \* of acpi_init: "sdp", "clone", "output", "reclaim"; then "done"
                \* and, if acpi_cleanup has been called, "cleaned"

acpiVars == <<firmware, page, table_count, tables, array, heap, content, phase>>

AcpiInit(f) ==
  /\ firmware = f
  /\ page = [t \in Tables |-> "table"]
  /\ table_count = 0 /\ tables = << >> /\ array = "null"
  /\ heap = [b \in Blocks |-> "none"]
  /\ content = [b \in Blocks |-> <<"none", "old">>]
  /\ phase = "sdp"

(* What the model expects of a firmware: whole entries, none of them null. *)
RootTable(fw) ==
  LET n == Len(fw.units)
  IN  /\ fw.revision \in Nat /\ fw.checksum \in BOOLEAN /\ fw.empty \subseteq Tables
      /\ fw.units \in Seq(Tables \cup {"zero"})
      /\ fw.revision < 2 => \A k \in 1..n : fw.units[k] \in Tables
      /\ fw.revision >= 2 =>
           /\ n % 2 = 0
           /\ \A k \in 1..n \div 2 :
                fw.units[2 * k - 1] \in Tables /\ fw.units[2 * k] = "zero"

IsXsdp == firmware.revision >= 2

(* The memory from the first entry on; what lies behind the root table is  *)
(* the firmware's.                                                         *)
Unit(n) ==
  IF n <= Len(firmware.units) THEN firmware.units[n] ELSE firmware.behind
-----------------------------------------------------------------------------
(* Variants with one plausible mistake each, never used below. *)
EntryAddress_BySize(k) ==
  IF IsXsdp THEN <<Unit(2 * k - 1), Unit(2 * k)>> ELSE <<Unit(k), "zero">>
ClonedTo_TheOriginal(b, t) == t
Freed_NotTheArray == {b \in Blocks : \E k \in DOMAIN tables : tables[k] = b}
-----------------------------------------------------------------------------
Entries == Len(firmware.units) \div (IF IsXsdp THEN 2 ELSE 1)

(* tablePtrs[k - 1]: the entries are read as 64-bit ones in both cases. *)
EntryAddress(k) == <<Unit(2 * k - 1), Unit(2 * k)>>

(* The direct map has the tables; other addresses, in which the high half  *)
(* comes from another entry, are not mapped or not canonical.              *)
Mapped(address) == address[1] \in Tables /\ address[2] = "zero"

(* kzalloc returns a block that nobody uses; which of them plays no role,  *)
(* so that one choice stands for all.  There always is one: if not even a  *)
(* new page has room for it, the kernel stops.                             *)
FreeBlock == CHOOSE b \in Blocks : heap[b] = "none"

kzalloc(user) ==
  /\ \E b \in Blocks : heap[b] = "none"
  /\ heap' = [heap EXCEPT ![FreeBlock] = user]

(* acpi_validate_checksum fails: the assertion stops the kernel. *)
ChecksumBad == phase = "sdp" /\ ~firmware.checksum

NoEntries ==
  /\ phase = "sdp" /\ firmware.checksum /\ Entries = 0
  /\ phase' = "output"
  /\ UNCHANGED <<firmware, page, table_count, tables, array, heap, content>>

handle_sdp ==
  /\ phase = "sdp" /\ firmware.checksum /\ Entries > 0
  /\ kzalloc("acpi")
  /\ array' = FreeBlock
  /\ table_count' = Entries
  /\ tables' = << >>
  /\ phase' = "clone"
  /\ UNCHANGED <<firmware, page, content>>

(* The table to clone in the next round of the loop. *)
Round == Len(tables) + 1
Cloning == phase = "clone" /\ Round <= table_count
Table == EntryAddress(Round)[1]

(* Reading table->length faults. *)
EntryFaults == Cloning /\ ~Mapped(EntryAddress(Round))

(* acpi_clone_table returns the block, which memcpy has filled. *)
ClonedTo(b, t) == b

acpi_clone_table ==
  /\ Cloning /\ Mapped(EntryAddress(Round)) /\ Table \notin firmware.empty
  /\ kzalloc("acpi")
  /\ content' = [content EXCEPT ![FreeBlock] = <<Table, page[Table]>>]
  /\ tables' = Append(tables, ClonedTo(FreeBlock, Table))
  /\ UNCHANGED <<firmware, page, table_count, array, phase>>

(* kzalloc(0) returns NULL, which is taken for lack of memory and stored. *)
CloneEmpty ==
  /\ Cloning /\ Mapped(EntryAddress(Round)) /\ Table \in firmware.empty
  /\ tables' = Append(tables, "null")
  /\ UNCHANGED <<firmware, page, table_count, array, heap, content, phase>>

CloningEnds ==
  /\ phase = "clone" /\ Round > table_count
  /\ phase' = "output"
  /\ UNCHANGED <<firmware, page, table_count, tables, array, heap, content>>

(* output_tables reads the signature of every clone, missing ones too. *)
OutputFaults == phase = "output" /\ \E k \in DOMAIN tables : tables[k] = "null"

output_tables ==
  /\ phase = "output" /\ ~OutputFaults
  /\ phase' = "reclaim"
  /\ UNCHANGED <<firmware, page, table_count, tables, array, heap, content>>

(* The free list's links overwrite the beginning of every page. *)
PagesReclaimed ==
  /\ phase = "reclaim"
  /\ page' = [t \in Tables |-> "link"]
  /\ phase' = "done"
  /\ UNCHANGED <<firmware, table_count, tables, array, heap, content>>

(* acpi_cleanup frees the clones and the array, but forgets neither, so    *)
(* that a second call would free them again; nothing calls it twice.       *)
Freed == {b \in Blocks : b = array \/ \E k \in DOMAIN tables : tables[k] = b}

acpi_cleanup ==
  /\ phase = "done" /\ phase' = "cleaned"
  /\ heap' = [b \in Blocks |-> IF b \in Freed THEN "none" ELSE heap[b]]
  /\ UNCHANGED <<firmware, page, table_count, tables, array, content>>
-----------------------------------------------------------------------------
(* The k-th table that the firmware lists. *)
Listed(k) == firmware.units[IF IsXsdp THEN 2 * k - 1 ELSE k]

Pointee(p) == IF p \in Blocks THEN content[p] ELSE <<p, page[p]>>

(* acpi_cleanup leaves no block of the tables behind, the array included,  *)
(* and frees no block of another user.                                     *)
CleanupFreesAll ==
  phase = "cleaned" =>
    \A b \in Blocks : /\ heap[b] # "acpi"
                     /\ content[b][1] = "driver" => heap[b] = "driver"

(* Every clone is and stays what the firmware's table was, in a block of   *)
(* its own, also when the firmware's pages have been reclaimed, linked     *)
(* into the free list and handed to drivers, until acpi_cleanup frees the  *)
(* blocks of the tables, all of them and no others.                        *)
ClonesIntact ==
  /\ CleanupFreesAll
  /\ phase # "cleaned" =>
       /\ \A k \in DOMAIN tables :
            tables[k] # "null" => Pointee(tables[k]) = <<Listed(k), "table">>
       /\ \A j, k \in DOMAIN tables : j # k /\ tables[j] # "null" => tables[j] # tables[k]
       /\ phase \in {"output", "reclaim", "done"} => Len(tables) = table_count
=============================================================================
