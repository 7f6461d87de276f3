------------------------------- MODULE MCSev -------------------------------
(***************************************************************************)
(* The exchanges of a confidential guest, the memory map and the page      *)
(* tables.  The value of part says which of them a behaviour is about; the *)
(* variables of the others keep an initial value.                          *)
(***************************************************************************)
EXTENDS Confidential

CONSTANT Layout

VARIABLES
    \* HeapSetup
    phase, vtom, heap, above_vtom_memory_range, first_entry, first_vtom_entry,
    last_entry_end_address, accepted, entries,
    \* PageTable
    memory, root, table_aborted, created, owned

\* Entries that begin and end on and off the bounds of pages, vtom and the
\* address space, in maps with more ranges than there is room for.
Heap == INSTANCE HeapSetup WITH
    W <- 16, PAGE_SIZE <- 2, MAX_RANGE_COUNT <- 2, HeapStart <- 3, UnloadedStart <- 2, Top <- 12,
    MapLength <- 4, Raw <- (0..12) \cup {14, 19}, Vtoms <- {0, 2, 5, 6, 8}

\* For PageTable: three levels of two entries, pages of two units.  The heap
\* starts inside page 2; page 3 holds the interrupt stacks, pages 4 and 5 are
\* given to compartments, alone or together; the local APIC is in page 6 and
\* the range shared with the host in page 7.
MCLayout ==
    [elf_start |-> 2, elf_writable_start |-> 4, heap_start |-> 5,
     first |-> [start |-> 5, end |-> 8], additional |-> <<[start |-> 8, end |-> 12]>>,
     stacks |-> 6, cores |-> 2, stack_size |-> 1,
     local_apic_mapping |-> 12, shared |-> [start |-> 14, end |-> 16],
     given |-> {[base |-> 8, length |-> 2], [base |-> 10, length |-> 2],
                [base |-> 8, length |-> 4]},
     unaligned |-> {[base |-> 9, length |-> 2], [base |-> 8, length |-> 1]}]

Tables == INSTANCE PageTable WITH
    Compartments <- {"c1", "c2"}, EntryCount <- 2, PML4_LEVEL <- 2, PAGE_SIZE <- 2,
    MaxTables <- 2, aborted <- table_aborted

ASSUME MCSevAssumptions == Heap!HeapSetupAssumption /\ Heap!HeapRangesAssumption

visible_vars == <<visible_pc, want, frame, original, visible_lock, offset, available, host, msr,
                  ghcb, registered, blocks>>
ghcb_vars == <<call_pc, op, logs, after, call_ghcb, reply, processed, count>>
heap_vars == <<phase, vtom, heap, above_vtom_memory_range, first_entry, first_vtom_entry,
               last_entry_end_address, accepted, entries>>
table_vars == <<memory, root, table_aborted, created, owned>>
mc_vars == <<part, vars, visible_vars, ghcb_vars, heap_vars, table_vars>>

MCInit ==
    /\ part \in {"overlap", "serial", "visible", "ghcb", "heap_sev", "heap_generic", "tables"}
    /\ Init /\ Visible!Init /\ Ghcb!Init /\ Tables!Init
    /\ Heap!Init /\ (part # "heap_sev" => vtom = 0)

ExchangeNext == RequestNext /\ UNCHANGED <<visible_vars, ghcb_vars, heap_vars, table_vars>>
VisibleNext ==
    part = "visible" /\ Visible!Next /\ UNCHANGED <<part, vars, ghcb_vars, heap_vars, table_vars>>
GhcbNext ==
    part = "ghcb" /\ Ghcb!Next /\ UNCHANGED <<part, vars, visible_vars, heap_vars, table_vars>>
HeapSevNext ==
    part = "heap_sev" /\ Heap!SevNext /\ UNCHANGED <<part, vars, visible_vars, ghcb_vars, table_vars>>
HeapGenericNext ==
    part = "heap_generic" /\ Heap!GenericNext /\ UNCHANGED <<part, vars, visible_vars, ghcb_vars, table_vars>>
TablesNext ==
    part = "tables" /\ Tables!Next /\ UNCHANGED <<part, vars, visible_vars, ghcb_vars, heap_vars>>

\* All blocks are allocated, all calls made.
Stopped == part \in {"visible", "ghcb"} /\ UNCHANGED mc_vars

MCNext == ExchangeNext \/ VisibleNext \/ GhcbNext \/ HeapSevNext \/ HeapGenericNext
          \/ TablesNext \/ Stopped

MCSpec == MCInit /\ [][MCNext]_mc_vars

-----------------------------------------------------------------------------
(* Properties of the instances, as stated in their modules.                  *)

\* The heap is exactly the private memory of the map, in whole pages and within
\* the room for ranges; largest_valid_address and size() cover it; its pages
\* are accepted before use, and memory for allocate_visible is described by the
\* map and not accepted.
HeapIsUsable ==
    /\ Heap!TypeOK /\ Heap!HeapIsTheMemory /\ Heap!LargestIsLargest /\ Heap!VisibleIsMemory
    /\ part = "heap_sev" => Heap!HeapIsAccepted

\* User code can write exactly the pages its compartment owns at the time; what
\* a page table lets anyone access is mapped to itself, and the nodes it reaches
\* are allocated and its own.
PagesAreProtected ==
    part = "tables" => Tables!CoreIsProtected /\ Tables!IdentityMapped /\ Tables!TablesAreTheirOwn

\* The page tables implement the flat maps of AddressSpace.
ImplementsAddressSpace == Tables!ImplementsAddressSpace

=============================================================================
