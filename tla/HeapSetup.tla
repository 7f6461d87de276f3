------------------------------ MODULE HeapSetup ------------------------------
(***************************************************************************)
(* How the heap is found at boot.  setup_heap_sev reads the memory map of  *)
(* the loader, which it must not trust, splits it at the virtual top of    *)
(* memory (vtom) and accepts the private part; setup_heap_generic reads    *)
(* the E820 table of the firmware.  One step per entry of the map; an      *)
(* entry may hold any number that fits 64 bits.                            *)
(***************************************************************************)
EXTENDS HeapRanges, FiniteSets

CONSTANTS
    HeapStart, UnloadedStart,  \* symbols of the linker script
    Top,                       \* 2^48
    MapLength,                 \* entries of memory_map
    Raw,                       \* numbers an entry is made of
    Vtoms                      \* virtual tops of memory; 0 is none

HeapSetupAssumption ==
    /\ HeapStart \in Nat /\ UnloadedStart \in 0..HeapStart /\ Top \in Nat /\ Top < W
    /\ MapLength \in Nat /\ Raw \subseteq Nat /\ Vtoms \subseteq 0..W

VARIABLES
    phase,       \* "init", "loop", "done" or "kabort"
    vtom,        \* vmsa_settings->virtual_top_of_memory
    heap,
    above_vtom_memory_range,
    first_entry, first_vtom_entry, last_entry_end_address,
    accepted,    \* pages accepted with pvalidate
    entries      \* history: the entries read so far, as ranges

vars == <<phase, vtom, heap, above_vtom_memory_range, first_entry, first_vtom_entry,
          last_entry_end_address, accepted, entries>>
flags == <<first_entry, first_vtom_entry, last_entry_end_address>>

Init ==
    /\ phase = "init" /\ vtom \in Vtoms
    /\ heap = EmptyHeap /\ above_vtom_memory_range = Span(0, 0)
    /\ first_entry = TRUE /\ first_vtom_entry = TRUE /\ last_entry_end_address = 0
    /\ accepted = {} /\ entries = <<>>

kabort ==
    /\ phase' = "kabort"
    /\ UNCHANGED <<vtom, heap, above_vtom_memory_range, flags, accepted, entries>>

accept_private_memory(range) == accepted' = accepted \cup Addresses(range)

\* The end of init_hyperv_sev and the start of setup_heap_sev.
init_hyperv_sev ==
    /\ phase = "init"
    /\ IF vtom # 0 /\ (HeapStart >= vtom \/ vtom % PAGE_SIZE # 0)
         THEN kabort
         ELSE /\ phase' = "loop"
              /\ accept_private_memory(align_up_end(AddressRange(UnloadedStart, HeapStart), PAGE_SIZE))
              /\ UNCHANGED <<vtom, heap, above_vtom_memory_range, flags, entries>>

\* Mutant: the end of the entry is not moved down to vtom.
AddEntry_KeepsEnd(address, length, end) ==
    LET carve == vtom # 0 /\ end > vtom /\ first_vtom_entry
        heap2 == IF first_entry THEN set_first(heap, Span(HeapStart, end - HeapStart))
                 ELSE add(heap, Span(address, length))
    IN  IF heap2 = Failed
          THEN kabort
          ELSE /\ heap' = heap2
               /\ above_vtom_memory_range' = IF carve THEN Span(vtom, end - vtom) ELSE above_vtom_memory_range
               /\ first_vtom_entry' = (first_vtom_entry /\ ~carve)
               /\ first_entry' = FALSE
               /\ last_entry_end_address' = end
               /\ entries' = Append(entries, AddressRange(address, end))
               /\ UNCHANGED <<phase, vtom, accepted>>

\* What is left of setup_heap_sev's loop body once an entry has been validated:
\* the part above vtom is cut off, the rest is added to the heap.
AddEntry(address, length, end) ==
    LET carve  == vtom # 0 /\ end > vtom /\ first_vtom_entry
        above  == (end - vtom) % W
        end2   == IF carve THEN vtom ELSE end
        rest   == IF carve THEN (length - above) % W ELSE length
        heap2  == IF rest = 0 THEN heap
                  ELSE IF first_entry THEN set_first(heap, Span(HeapStart, end2 - HeapStart))
                  ELSE add(heap, Span(address, rest))
    IN  IF heap2 = Failed
          THEN kabort
          ELSE /\ heap' = heap2
               /\ above_vtom_memory_range' = IF carve THEN Span(vtom, above) ELSE above_vtom_memory_range
               /\ first_vtom_entry' = (first_vtom_entry /\ ~carve)
               /\ first_entry' = (first_entry /\ rest = 0)
               /\ last_entry_end_address' = end
               /\ entries' = Append(entries, AddressRange(address, end))
               /\ UNCHANGED <<phase, vtom, accepted>>

\* An entry that is not null: gpa_page_offset and page_count, in pages.
setup_heap_sev(offset, count) ==
    LET address == offset % W
        length  == count % W
        end     == (address + length) % W
    IN  /\ phase = "loop" /\ Len(entries) < MapLength
        /\ IF \/ length = 0
              \/ end < address \/ end > Top
              \/ address < last_entry_end_address
              \/ first_entry /\ (HeapStart < address \/ HeapStart >= end)
             THEN kabort
             ELSE IF vtom # 0 /\ end > vtom /\ ~first_vtom_entry
               THEN /\ last_entry_end_address' = end
                    /\ entries' = Append(entries, AddressRange(address, end))
                    /\ UNCHANGED <<phase, vtom, heap, above_vtom_memory_range, first_entry,
                                   first_vtom_entry, accepted>>
               ELSE AddEntry(address, length, end)

\* A null entry or the end of the map; then startcc, which needs a first range.
Finish ==
    /\ phase = "loop"
    /\ IF vtom # 0 /\ empty(above_vtom_memory_range)
         THEN kabort
         ELSE /\ phase' = IF empty(heap.first) THEN "kabort" ELSE "done"
              /\ accept_private_memory(align_up_start(
                    AddressRange(HeapStart, (largest_valid_address(heap) + 1) % W), PAGE_SIZE))
              /\ UNCHANGED <<vtom, heap, above_vtom_memory_range, flags, entries>>

SevNext ==
    \/ init_hyperv_sev
    \/ \E offset \in Raw, count \in Raw : setup_heap_sev(offset, count)
    \/ Finish
    \/ phase \in {"done", "kabort"} /\ UNCHANGED vars

SevSpec == Init /\ [][SevNext]_vars

-----------------------------------------------------------------------------
(* The E820 table.  The firmware reports ranges that are disjoint, in order  *)
(* and below the top, and the loader has put the image into the first one    *)
(* that does not start at 0.                                                 *)

InOrder(r) == /\ r.start < r.end /\ r.end <= Top
              /\ \A i \in 1..Len(entries) : entries[i].end <= r.start
              /\ first_entry /\ r.start # 0 => r.start <= HeapStart

setup_heap_generic(r, ram) ==
    LET heap2 == IF ~first_entry THEN add(heap, r)
                 ELSE IF HeapStart > r.end THEN Failed
                 ELSE set_first(heap, Span(HeapStart, r.end - HeapStart))
    IN  /\ phase = "loop" /\ Len(entries) < MapLength /\ InOrder(r)
        /\ IF r.start # 0 /\ ram
             THEN IF heap2 = Failed
                    THEN kabort
                    ELSE /\ heap' = heap2
                         /\ first_entry' = FALSE
                         /\ entries' = Append(entries, r)
                         /\ UNCHANGED <<phase, vtom, above_vtom_memory_range, first_vtom_entry,
                                        last_entry_end_address, accepted>>
             ELSE UNCHANGED vars

\* The end of the table, and the test of startcc.
FinishGeneric ==
    /\ phase = "loop"
    /\ phase' = IF empty(heap.first) THEN "kabort" ELSE "done"
    /\ UNCHANGED <<vtom, heap, above_vtom_memory_range, flags, accepted, entries>>

GenericInit == Init /\ vtom = 0

GenericNext ==
    \/ phase = "init" /\ phase' = "loop" /\ UNCHANGED <<vtom, heap, above_vtom_memory_range, flags, accepted, entries>>
    \/ \E s \in Raw, e \in Raw, ram \in BOOLEAN : setup_heap_generic([start |-> s, end |-> e], ram)
    \/ FinishGeneric
    \/ phase \in {"done", "kabort"} /\ UNCHANGED vars

GenericSpec == GenericInit /\ [][GenericNext]_vars

-----------------------------------------------------------------------------
(* Properties. *)

HeapPages == {a \in 0..W - 1 : is_heap_address(heap, a)}
Block(a)  == {x \in 0..W - 1 : x \div PAGE_SIZE = a \div PAGE_SIZE /\ x >= HeapStart}
Private(a) == vtom = 0 \/ a < vtom

TypeOK ==
    /\ phase \in {"init", "loop", "done", "kabort"} /\ vtom \in Vtoms
    /\ heap.first \in [start : 0..W - 1, end : 0..W - 1]
    /\ heap.additional \in Seq([start : 0..W - 1, end : 0..W - 1])
    /\ Len(heap.additional) <= MAX_RANGE_COUNT
    /\ accepted \subseteq 0..W - 1

\* Whatever numbers the map holds, the heap is exactly the private memory that
\* one entry describes, in whole pages from the heap start on: setup_heap never
\* puts an address in the heap that the map does not back, and loses no page.
HeapIsTheMemory ==
    phase = "done" =>
        HeapPages = {a \in HeapStart..W - 1 :
            /\ \A x \in Block(a) : Private(x)
            /\ \E i \in 1..Len(entries) : Block(a) \subseteq Addresses(entries[i])}

\* largest_valid_address looks only at the range added last, and size() at the
\* two ends of the heap: both are right, so the page map snmalloc sizes with
\* them covers every heap address.
LargestIsLargest ==
    phase = "done" =>
        /\ \A a \in HeapPages : a <= largest_valid_address(heap)
        /\ largest_valid_address(heap) \in HeapPages
        /\ \A a \in HeapPages : a - heap.first.start < heap_size(heap)

\* Every page of the heap has been accepted before snmalloc touches it, and no
\* page above vtom, which is shared with the host, has been accepted as private.
HeapIsAccepted ==
    phase = "done" => HeapPages \subseteq accepted /\ \A a \in accepted : Private(a)

\* The memory that allocate_visible hands out starts at vtom and is described
\* by the map, although setup_heap_sev computes its size from the end of the
\* first entry that ends above vtom, wherever that entry starts.
VisibleIsMemory ==
    phase = "done" /\ vtom # 0 =>
        /\ ~empty(above_vtom_memory_range)
        /\ \A a \in Addresses(above_vtom_memory_range) :
               a >= vtom /\ \E i \in 1..Len(entries) : a \in Addresses(entries[i])


=============================================================================
