----------------------------- MODULE PageTable -----------------------------
(***************************************************************************)
(* The page tables: radix trees of nodes that are allocated from the heap. *)
(* The core has one, set up at boot from the layout of the image and the   *)
(* heap; each compartment has its own, made of the predefined map, of the  *)
(* pages its allocator owns and of those the page fault handler maps.      *)
(* Levels run from PML4_LEVEL down to 0, the level *)
(* of the leaves; addresses count in units of which a page has PAGE_SIZE.  *)
(***************************************************************************)
EXTENDS Integers, Sequences, FiniteSets, FiniteSetsExt

CONSTANTS
    Compartments,
    EntryCount,     \* pagetable_entry_count()
    PML4_LEVEL,
    PAGE_SIZE,
    Layout,         \* symbols of the image and ranges of the heap, see MCSev
    MaxTables       \* bound: page tables created

Kernel == "kernel"
Null == 0

VARIABLES
    memory,   \* [allocated nodes -> [entries]]
    root,     \* [Compartments \cup {Kernel} -> node or Null]
    aborted,  \* kabort() has been called
    created,  \* page tables created so far
    owned     \* [Compartments -> pages it owns], the owners kept by snmalloc

vars == <<memory, root, aborted, created, owned>>

-----------------------------------------------------------------------------
(* Entries.  PTE flags are the sets of "P" (present), "W" (writable) and "U" *)
(* (user); global marks a persistent entry.                                  *)

pagetable_intermediate_permissions(kernel) == IF kernel THEN {"P", "W"} ELSE {"P", "W", "U"}

\* Mutant: the core's memory is writable in the tables of compartments too.
pagetable_leaf_permissions_Writable(kernel, perm) ==
    CASE perm = "PT_NO_ACCESS"          -> {}
      [] perm = "PT_KERNEL_WRITE"       -> IF kernel THEN {"P", "W"} ELSE {"P", "W", "U"}
      [] perm = "PT_KERNEL_READ"        -> IF kernel THEN {"P"} ELSE {"P", "U"}
      [] perm = "PT_FORCE_KERNEL_WRITE" -> {"P", "W"}
      [] perm = "PT_COMPARTMENT_WRITE"  -> {"P", "W", "U"}
      [] perm = "PT_COMPARTMENT_READ"   -> {"P", "U"}
pagetable_leaf_permissions(kernel, perm) ==
    CASE perm = "PT_NO_ACCESS"          -> {}
      [] perm = "PT_KERNEL_WRITE"       -> IF kernel THEN {"P", "W"} ELSE {"P", "U"}
      [] perm = "PT_KERNEL_READ"        -> IF kernel THEN {"P"} ELSE {"P", "U"}
      [] perm = "PT_FORCE_KERNEL_WRITE" -> {"P", "W"}
      [] perm = "PT_COMPARTMENT_WRITE"  -> {"P", "W", "U"}
      [] perm = "PT_COMPARTMENT_READ"   -> {"P", "U"}

ZeroEntry == [next |-> Null, flags |-> {}, global |-> FALSE]
set_next_level(kernel, node, type) ==
    [next |-> node, flags |-> pagetable_intermediate_permissions(kernel), global |-> type = "PERSISTENT_TYPE"]
set_leaf(kernel, addr, type, perm) ==
    [next |-> addr, flags |-> pagetable_leaf_permissions(kernel, perm), global |-> type = "PERSISTENT_TYPE"]

pagetable_entry_coverage(level) == PAGE_SIZE * EntryCount ^ level

\* Mutant: the address after this one, aligned up twice.
pagetable_next_entry_base_Skips(addr, level) ==
    LET c == pagetable_entry_coverage(level) IN ((addr + c + c) \div c) * c
pagetable_next_entry_base(addr, level) ==
    LET c == pagetable_entry_coverage(level) IN ((addr + 1 + c - 1) \div c) * c
pagetable_index(addr, level) == (addr \div pagetable_entry_coverage(level)) % EntryCount

EmptyNode == [i \in 0..EntryCount - 1 |-> ZeroEntry]
NewNode(mem) == Min({n \in 1..Cardinality(DOMAIN mem) + 1 : n \notin DOMAIN mem})
alloc_pagetable_node(mem) == [n \in DOMAIN mem \cup {NewNode(mem)} |->
                                 IF n \in DOMAIN mem THEN mem[n] ELSE EmptyNode]

-----------------------------------------------------------------------------
(* The recursive walks; each gives the memory it leaves.                     *)

RECURSIVE add_to_pagetable(_, _, _, _, _, _, _, _)
add_to_pagetable(mem, kernel, level, node, addr, end, perm, type) ==
    LET i     == pagetable_index(addr, level)
        next  == pagetable_next_entry_base(addr, level)
        fresh == mem[node][i].next = Null
        child == IF fresh THEN NewNode(mem) ELSE mem[node][i].next
        grown == IF fresh
                   THEN [alloc_pagetable_node(mem) EXCEPT ![node][i] = set_next_level(kernel, child, type)]
                   ELSE mem
        done  == IF level > 0
                   THEN add_to_pagetable(grown, kernel, level - 1, child, addr, Min({end, next}),
                                         perm, "NORMAL_TYPE")
                   ELSE [mem EXCEPT ![node][i] = set_leaf(kernel, addr, type, perm)]
    IN  IF addr >= end THEN mem
        ELSE add_to_pagetable(done, kernel, level, node, next, end, perm, type)

RECURSIVE remove_from_pagetable(_, _, _, _, _)
remove_from_pagetable(mem, level, node, addr, end) ==
    LET i    == pagetable_index(addr, level)
        next == pagetable_next_entry_base(addr, level)
        done == IF level = 0 THEN [mem EXCEPT ![node][i] = ZeroEntry]
                ELSE IF mem[node][i].next = Null THEN mem
                ELSE remove_from_pagetable(mem, level - 1, mem[node][i].next, addr, Min({end, next}))
    IN  IF addr >= end THEN mem
        ELSE remove_from_pagetable(done, level, node, next, end)

\* The nodes deallocate_pagetable gives to free().
RECURSIVE deallocate_pagetable(_, _, _)
deallocate_pagetable(mem, level, node) ==
    {node} \cup
    IF level = 0 THEN {}
    ELSE UNION {deallocate_pagetable(mem, level - 1, mem[node][i].next) :
                    i \in {j \in 0..EntryCount - 1 : ~mem[node][j].global /\ mem[node][j].next # Null}}

RECURSIVE get_pagetable_entry(_, _, _, _)
get_pagetable_entry(mem, node, level, addr) ==
    IF node = Null THEN ZeroEntry
    ELSE LET entry == mem[node][pagetable_index(addr, level)]
         IN  IF level = 0 THEN entry ELSE get_pagetable_entry(mem, entry.next, level - 1, addr)

-----------------------------------------------------------------------------
(* Boot.  A map is a sequence of ranges [start, end, perm].                  *)

PageUp(a)  == ((a + PAGE_SIZE - 1) \div PAGE_SIZE) * PAGE_SIZE
Aligned(r) == r.start % PAGE_SIZE = 0 /\ (r.end - r.start) % PAGE_SIZE = 0
Entry(s, e, perm) == [start |-> s, end |-> e, perm |-> perm]

predefined_map ==
    << Entry(0, Layout.elf_start, "PT_NO_ACCESS"),
       Entry(Layout.elf_start, Layout.elf_writable_start, "PT_KERNEL_READ"),
       Entry(Layout.elf_writable_start, PageUp(Layout.heap_start), "PT_KERNEL_WRITE") >>

interrupt_stack_map ==
    << Entry(Layout.stacks, Layout.stacks + PageUp(Layout.cores * Layout.stack_size), "PT_FORCE_KERNEL_WRITE") >>

\* create_kernel_page_table: the ranges in the order in which they are added.
KernelMap ==
    LET first == Entry(PageUp(Layout.first.start), Layout.first.end, "PT_KERNEL_WRITE")
    IN  predefined_map
        \o (IF Layout.local_apic_mapping # Null
              THEN <<Entry(Layout.local_apic_mapping, Layout.local_apic_mapping + PAGE_SIZE, "PT_KERNEL_WRITE")>>
              ELSE <<>>)
        \o <<Entry(Layout.shared.start, Layout.shared.end, "PT_KERNEL_WRITE")>>
        \o (IF first.start < first.end THEN <<first>> ELSE <<>>)
        \o [i \in 1..Len(Layout.additional) |->
               Entry(Layout.additional[i].start, Layout.additional[i].end, "PT_KERNEL_WRITE")]
        \o interrupt_stack_map

RECURSIVE AddMap(_, _, _, _, _)
AddMap(mem, kernel, node, map, type) ==
    IF map = <<>> THEN mem
    ELSE AddMap(add_to_pagetable(mem, kernel, PML4_LEVEL, node, Head(map).start, Head(map).end,
                                 Head(map).perm, type),
                kernel, node, Tail(map), type)

\* kernel_initializer_from_map: each range must be aligned.
create_kernel_page_table ==
    /\ root[Kernel] = Null /\ ~aborted
    /\ root' = [root EXCEPT ![Kernel] = NewNode(memory)]
    /\ memory' = AddMap(alloc_pagetable_node(memory), TRUE, NewNode(memory), KernelMap, "NORMAL_TYPE")
    /\ aborted' = \E i \in 1..Len(KernelMap) : ~Aligned(KernelMap[i])
    /\ UNCHANGED <<created, owned>>

-----------------------------------------------------------------------------
(* The tables of the compartments.                                           *)

Running == root[Kernel] # Null /\ ~aborted

create_compartment_pagetable(c) ==
    /\ Running /\ root[c] = Null /\ created < MaxTables
    /\ root' = [root EXCEPT ![c] = NewNode(memory)]
    /\ memory' = AddMap(alloc_pagetable_node(memory), FALSE, NewNode(memory),
                        predefined_map \o interrupt_stack_map, "PERSISTENT_TYPE")
    /\ created' = created + 1
    /\ UNCHANGED <<aborted, owned>>

kabort == aborted' = TRUE /\ UNCHANGED <<memory, root, created>>

add_to_compartment_pagetable(c, base, length, perm) ==
    /\ Running /\ root[c] # Null
    /\ IF base % PAGE_SIZE # 0 \/ length % PAGE_SIZE # 0
         THEN kabort
         ELSE /\ memory' = add_to_pagetable(memory, FALSE, PML4_LEVEL, root[c], base, base + length,
                                            perm, "NORMAL_TYPE")
              /\ UNCHANGED <<root, aborted, created>>

remove_from_compartment_pagetable(c, base, length) ==
    /\ Running /\ root[c] # Null
    /\ IF base % PAGE_SIZE # 0 \/ length % PAGE_SIZE # 0 \/ c = Kernel
         THEN kabort
         ELSE /\ memory' = remove_from_pagetable(memory, PML4_LEVEL, root[c], base, base + length)
              /\ UNCHANGED <<root, aborted, created>>

\* The destructor calls it after dealloc_all.
deallocate_compartment_pagetable(c) ==
    /\ Running /\ root[c] # Null /\ owned[c] = {}
    /\ memory' = [n \in DOMAIN memory \ deallocate_pagetable(memory, PML4_LEVEL, root[c]) |-> memory[n]]
    /\ root' = [root EXCEPT ![c] = Null]
    /\ UNCHANGED <<aborted, created, owned>>

-----------------------------------------------------------------------------
(* The callers: the allocator of a compartment, which Ownership models, and  *)
(* the page fault handler.                                                   *)

Pages == 0..EntryCount ^ (PML4_LEVEL + 1) - 1
PagesOf(r) == {p \in Pages : r.base <= p * PAGE_SIZE /\ (p + 1) * PAGE_SIZE <= r.base + r.length}
Free(p) == \A c \in Compartments : p \notin owned[c]

alloc_range(c, r) ==
    /\ \A p \in PagesOf(r) : Free(p)
    /\ owned' = [owned EXCEPT ![c] = @ \cup PagesOf(r)]
    /\ add_to_compartment_pagetable(c, r.base, r.length, "PT_COMPARTMENT_WRITE")

dealloc_range(c, r) ==
    /\ PagesOf(r) \subseteq owned[c]
    /\ owned' = [owned EXCEPT ![c] = @ \ PagesOf(r)]
    /\ remove_from_compartment_pagetable(c, r.base, r.length)

\* The rights the processor finds: every entry on the way must grant them.
RECURSIVE Walk(_, _, _)
Walk(node, level, addr) ==
    LET entry == memory[node][pagetable_index(addr, level)]
    IN  IF "P" \notin entry.flags THEN {}
        ELSE IF level = 0 THEN entry.flags
        ELSE entry.flags \cap Walk(entry.next, level - 1, addr)

Access(s, p) == IF root[s] = Null THEN {} ELSE Walk(root[s], PML4_LEVEL, p * PAGE_SIZE)

is_heap_address(a) ==
    \/ Layout.first.start <= a /\ a < Layout.first.end
    \/ \E i \in 1..Len(Layout.additional) : Layout.additional[i].start <= a /\ a < Layout.additional[i].end

\* User code of c has touched address a without having the right.  Memory that
\* no compartment owns, that of the core included, has the null owner.
page_fault_handler(c, a, is_write) ==
    LET p == a \div PAGE_SIZE
        Map(perm) == add_to_compartment_pagetable(c, p * PAGE_SIZE, PAGE_SIZE, perm)
    IN  /\ Running /\ root[c] # Null
        /\ ~({"U"} \cup (IF is_write THEN {"W"} ELSE {}) \subseteq Access(c, p))
        /\ IF ~is_heap_address(a)              THEN kabort
           ELSE IF p \in owned[c]              THEN Map("PT_COMPARTMENT_WRITE")
           ELSE IF ~is_write /\ Free(p)        THEN Map("PT_COMPARTMENT_READ")
           ELSE kabort
        /\ UNCHANGED owned

\* Calls of which the allocator makes none: off the bounds of pages, or with the
\* core's table.
Refused ==
    /\ \/ \E c \in Compartments, r \in Layout.unaligned :
              \/ add_to_compartment_pagetable(c, r.base, r.length, "PT_COMPARTMENT_READ")
              \/ remove_from_compartment_pagetable(c, r.base, r.length)
       \/ \E r \in Layout.given : remove_from_compartment_pagetable(Kernel, r.base, r.length)
    /\ UNCHANGED owned

Init ==
    /\ memory = <<>> /\ root = [c \in Compartments \cup {Kernel} |-> Null]
    /\ aborted = FALSE /\ created = 0 /\ owned = [c \in Compartments |-> {}]

Next ==
    \/ create_kernel_page_table
    \/ \E c \in Compartments :
        \/ create_compartment_pagetable(c)
        \/ deallocate_compartment_pagetable(c)
        \/ \E r \in Layout.given : alloc_range(c, r) \/ dealloc_range(c, r)
        \/ \E p \in Pages, w \in BOOLEAN : page_fault_handler(c, (p + 1) * PAGE_SIZE - 1, w)
    \/ Refused
    \/ aborted /\ UNCHANGED vars

Spec == Init /\ [][Next]_vars

-----------------------------------------------------------------------------
(* Properties. *)

Spaces == Compartments \cup {Kernel}

RECURSIVE Nodes(_, _)
Nodes(node, level) ==
    IF node \notin DOMAIN memory \/ level = 0 THEN {node}
    ELSE {node} \cup UNION {Nodes(memory[node][i].next, level - 1) :
                               i \in {j \in 0..EntryCount - 1 : memory[node][j].next # Null}}
Tree(s) == IF root[s] = Null THEN {} ELSE Nodes(root[s], PML4_LEVEL)

\* Code and data use one address in every space: wherever a page is mapped, it
\* is mapped to itself, however many ranges of one or several pages the loops
\* over levels and entries have written.
IdentityMapped ==
    \A s \in Spaces, p \in Pages :
        Access(s, p) # {} => get_pagetable_entry(memory, root[s], PML4_LEVEL, p * PAGE_SIZE).next = p * PAGE_SIZE

\* Every node a table reaches is allocated and belongs to that table alone, so
\* no walk meets memory that deallocate_pagetable has freed and the allocator
\* has used for something else.
TablesAreTheirOwn ==
    \A s \in Spaces :
        /\ Tree(s) \subseteq DOMAIN memory
        /\ \A t \in Spaces \ {s} : Tree(s) \cap Tree(t) = {}

Covers(r, p) == r.start < (p + 1) * PAGE_SIZE /\ p * PAGE_SIZE < r.end

\* User code can write exactly the pages that its compartment owns at the time,
\* whatever was given to it or to the other, taken back, mapped after a fault or
\* left by a table destroyed before.  The interrupt stacks are writable for the
\* core while a compartment's table is in use ("writeable by kernel and not
\* accesible by user mode", setup_gdt), unless its code has read there: the
\* handler takes them for free memory and maps them like it, for reading.
CoreIsProtected ==
    Running => \A c \in Compartments : root[c] # Null =>
        /\ {p \in Pages : {"W", "U"} \subseteq Access(c, p)} = owned[c]
        /\ \A p \in Pages : Covers(interrupt_stack_map[1], p) => Access(c, p) \in {{"P", "W"}, {"P", "U"}}

\* The rights a table starts with, read off the map: of the ranges that cover
\* a page the last one counts.
InitialRights(s) ==
    LET map == IF s = Kernel THEN KernelMap ELSE predefined_map \o interrupt_stack_map
        of(p) == {i \in 1..Len(map) : Covers(map[i], p)}
    IN  [p \in Pages |-> IF of(p) = {} THEN {}
                         ELSE pagetable_leaf_permissions(s = Kernel, map[Max(of(p))].perm)]

AS == INSTANCE AddressSpace WITH
          Rights <- {{}, {"P", "U"}, {"P", "W", "U"}}, NoAccess <- {},
          Ranges <- {PagesOf(r) : r \in Layout.given} \cup {{p} : p \in Pages},
          Initial <- [s \in Spaces |-> InitialRights(s)],
          live <- {s \in Spaces : root[s] # Null},
          access <- [s \in Spaces |-> [p \in Pages |-> Access(s, p)]]

\* The radix trees implement the flat map of AddressSpace: each call changes the
\* rights of exactly the pages of its range, in one table.
ImplementsAddressSpace == AS!Spec

=============================================================================
