----------------------------- MODULE AcpiTables -----------------------------
(***************************************************************************)
(* How the generic platform learns which cores there are: parse_acpi scans *)
(* for a root pointer, walks the root table and reads the MADT twice, once *)
(* to size the per-core data and once to fill in the APIC ids.             *)
(*                                                                         *)
(* A root pointer, a root table and the header of a table are records with *)
(* the result of their signature and checksum; the entries of a MADT are   *)
(* the bytes the traversal reads, which may contain entries of length 0    *)
(* and a last entry that goes past the end of the table.                   *)
(***************************************************************************)
EXTENDS Integers, Sequences, SequencesExt, FiniteSets

CONSTANTS
  Pointers,      \* root pointers that a position of the scan may hold
  Roots,         \* root tables that firmware may have
  Madts,         \* MADTs that firmware may have: [sum, local_apic_address, entries, cut]
  MaxCoreCount   \* MAX_CORE_COUNT

VARIABLES
  firmware,  \* [pointers, rsdt, xsdt, madt]: what is in memory, never written
  pc,        \* the function that runs
  position,  \* candidate_location
  root,      \* the root table that is walked
  index,     \* entry_index
  table,     \* the MADT that is parsed
  offset,    \* of traverse_logical_processors
  cores,     \* num_cores of the first traversal, core_id of the second
  per_core,  \* PerCoreData::per_core_data with its num_cores
  local_apic_mapping

vars == <<firmware, pc, position, root, index, table, offset, cores, per_core,
          local_apic_mapping>>

None == [none |-> TRUE]
LOGICAL_PROCESSOR_TYPE == 0
LogicalProcessorSize == 8

\* A MADT entry as it lies in memory: type, length, and for a logical
\* processor the ACPI id, the APIC id and the flags.
Bytes(e) == <<e.type, e.length>> \o e.data

\* The memory from the first entry on, and the part of it that the length in
\* the table's header covers: the last m.cut bytes lie behind the table.
Memory(m) == FlattenSeq([i \in DOMAIN m.entries |-> Bytes(m.entries[i])])
madt_entries_array(m) == SubSeq(Memory(m), 1, Len(Memory(m)) - m.cut)

Init ==
  /\ firmware \in [pointers : UNION {[1..n -> Pointers] : n \in 0..2},
                   rsdt : Roots, xsdt : Roots, madt : [{1, 2} -> Madts]]
  /\ pc = "parse_acpi" /\ position = 1 /\ root = None /\ index = 1
  /\ table = None /\ offset = 0 /\ cores = 0 /\ per_core = <<>>
  /\ local_apic_mapping = 0

kabort == pc' = "abort"

\* The scan: a candidate without the signature or with a bad checksum is
\* passed over, the first good one decides which root table is used, and
\* when the scan ends without one nothing is set up.
UseRoot(p) ==
  IF p.revision = 0 THEN root' = firmware.rsdt /\ pc' = "parse_rsdt"
                    ELSE root' = firmware.xsdt /\ pc' = "parse_xsdt"

parse_acpi ==
  /\ pc = "parse_acpi"
  /\ IF position > Len(firmware.pointers) THEN pc' = "done" /\ UNCHANGED <<position, root>>
     ELSE LET p == firmware.pointers[position] IN
       IF p.signature /\ p.sum
       THEN UseRoot(p) /\ UNCHANGED position
       ELSE position' = position + 1 /\ UNCHANGED <<pc, root>>
  /\ UNCHANGED <<firmware, index, table, offset, cores, per_core,
                 local_apic_mapping>>

\* The signature and the checksum of the root table.
parse_root(name, signature) ==
  /\ pc = name
  /\ IF root.signature = signature /\ root.sum THEN pc' = "parse_entry" ELSE kabort
  /\ index' = 1
  /\ UNCHANGED <<firmware, position, root, table, offset, cores, per_core,
                 local_apic_mapping>>
parse_rsdt == parse_root("parse_rsdt", "RSDT")
parse_xsdt == parse_root("parse_xsdt", "XSDT")

\* One entry of the root table: null pointers and other tables are skipped,
\* a MADT is parsed, and after the last entry parse_acpi is over.
parse_entry ==
  /\ pc = "parse_entry"
  /\ IF index > Len(root.entries) THEN pc' = "done" /\ UNCHANGED <<index, table>>
     ELSE /\ index' = index + 1
          /\ IF root.entries[index] \in DOMAIN firmware.madt
             THEN table' = firmware.madt[root.entries[index]] /\ pc' = "parse_madt"
             ELSE UNCHANGED <<pc, table>>
  /\ UNCHANGED <<firmware, position, root, offset, cores, per_core,
                 local_apic_mapping>>

parse_madt ==
  /\ pc = "parse_madt"
  /\ IF table.sum THEN pc' = "count" ELSE kabort
  /\ local_apic_mapping' = IF table.sum THEN table.local_apic_address ELSE local_apic_mapping
  /\ offset' = 0 /\ cores' = 0
  /\ UNCHANGED <<firmware, position, root, index, table, per_core>>

\* The reads through the entry's pointer are not bounded by the table.
EntryType == Memory(table)[offset + 1]
EntryLength == Memory(table)[offset + 2]
\* Mutant: the ACPI id of the processor is taken for its APIC id.
EntryApicId_AcpiId == Memory(table)[offset + 3]
EntryApicId == Memory(table)[offset + 4]
IsLogicalProcessor ==
  EntryType = LOGICAL_PROCESSOR_TYPE /\ EntryLength >= LogicalProcessorSize

\* One iteration of traverse_logical_processors; op has the primed per_core.
\* An entry of length 0 leaves the offset where it is.
Advance == offset' = offset + EntryLength
traverse_logical_processors(name, op) ==
  /\ pc = name /\ offset < Len(madt_entries_array(table))
  /\ IF IsLogicalProcessor THEN op /\ cores' = cores + 1 ELSE UNCHANGED <<cores, per_core>>
  /\ Advance
  /\ UNCHANGED <<firmware, pc, position, root, index, table, local_apic_mapping>>

CountProcessor == traverse_logical_processors("count", UNCHANGED per_core)

\* PerCoreData::initialize, then the second traversal starts.
initialize ==
  /\ pc = "count" /\ offset >= Len(madt_entries_array(table))
  /\ IF cores = 0 \/ cores > MaxCoreCount
     THEN kabort /\ UNCHANGED per_core
     ELSE /\ pc' = "fill"
          /\ per_core' = [i \in 1..cores |-> [core_id |-> i - 1, apic_id |-> 0]]
  /\ offset' = 0 /\ cores' = 0
  /\ UNCHANGED <<firmware, position, root, index, table, local_apic_mapping>>

\* PerCoreData::get(core_id)->apic_id = ...; get aborts on an invalid id,
\* which the first traversal rules out.
FillProcessor ==
  traverse_logical_processors("fill",
    cores < Len(per_core) /\ per_core' = [per_core EXCEPT ![cores + 1].apic_id = EntryApicId])

Filled ==
  /\ pc = "fill" /\ offset >= Len(madt_entries_array(table))
  /\ pc' = "parse_entry"
  /\ UNCHANGED <<firmware, position, root, index, table, offset, cores, per_core,
                 local_apic_mapping>>

\* setup_cores_generic has returned, or the core is in kabort.
Finished == pc \in {"done", "abort"} /\ UNCHANGED vars

Next ==
  \/ parse_acpi \/ parse_rsdt \/ parse_xsdt \/ parse_entry \/ parse_madt
  \/ CountProcessor \/ initialize \/ FillProcessor \/ Filled \/ Finished

Spec == Init /\ [][Next]_vars /\ WF_vars(Next)

-----------------------------------------------------------------------------
(* What the tables say, read off the entries rather than the bytes. *)

Good == {i \in DOMAIN firmware.pointers : firmware.pointers[i].signature /\ firmware.pointers[i].sum}
FirstGood == CHOOSE i \in Good : \A j \in Good : i <= j
IsXsdt == firmware.pointers[FirstGood].revision # 0
RootTable == IF IsXsdt THEN firmware.xsdt ELSE firmware.rsdt
ListedMadts == SelectSeq(RootTable.entries, LAMBDA t : t \in DOMAIN firmware.madt)
Processors(m) == SelectSeq(m.entries,
                           LAMBDA e : e.type = LOGICAL_PROCESSOR_TYPE /\ e.length >= LogicalProcessorSize)
Usable(m) == m.sum /\ Len(Processors(m)) \in 1..MaxCoreCount
\* A traversal that reaches an entry of length 0 does not get past it.
HasEmptyEntry(m) == \E i \in DOMAIN m.entries : m.entries[i].length = 0

\* When parse_acpi returns, there is one core for every logical processor of
\* the MADT that the first valid root pointer leads to, in the order of the
\* table and with the processor's APIC id, next to the local APIC of the same
\* MADT: the two byte-wise traversals of
\* parse_madt agree with each other and step over entries of every other
\* type and length, also over a last one that the table cuts off (the last
\* MADT counts when there are several).
CoresMatchFirmware ==
  pc = "done" =>
    IF Good = {} \/ ListedMadts = <<>> THEN per_core = <<>>
    ELSE LET m == firmware.madt[Last(ListedMadts)]
             ps == Processors(m)
         IN /\ per_core = [i \in 1..Len(ps) |-> [core_id |-> i - 1, apic_id |-> ps[i].data[2]]]
            /\ local_apic_mapping = m.local_apic_address

\* The boot is aborted only when the tables that are used are damaged: a bad
\* root pointer alone makes parse_acpi "try next position", and never stops
\* a machine that has a good one.
AbortsOnlyOnDamage ==
  pc = "abort" =>
    /\ Good # {}
    /\ \/ RootTable.signature # (IF IsXsdt THEN "XSDT" ELSE "RSDT")
       \/ ~RootTable.sum
       \/ \E i \in DOMAIN ListedMadts : ~Usable(firmware.madt[ListedMadts[i]])

\* parse_acpi does not come back exactly for the tables with an entry of
\* length 0 that it gets to: a sound MADT with such an entry is listed, and
\* every MADT listed before it is usable.  `offset += entry->length` then
\* stays where it is.
Reaches(i) ==
  /\ RootTable.signature = (IF IsXsdt THEN "XSDT" ELSE "RSDT") /\ RootTable.sum
  /\ \A j \in 1..i - 1 : LET m == firmware.madt[ListedMadts[j]] IN Usable(m) /\ ~HasEmptyEntry(m)
Endless ==
  /\ Good # {}
  /\ \E i \in DOMAIN ListedMadts :
       LET m == firmware.madt[ListedMadts[i]] IN Reaches(i) /\ m.sum /\ HasEmptyEntry(m)
=============================================================================
