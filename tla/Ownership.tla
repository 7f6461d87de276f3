----------------------------- MODULE Ownership -----------------------------
(***************************************************************************)
(* Who owns which chunk of the heap.  A MonzaRange sits between the global *)
(* range, which all cores share under a lock, and the allocator of one     *)
(* compartment (or of a thread of the core, whose owner is null).  It      *)
(* records the owner of each chunk in a page map, links the entries of one *)
(* owner into a cyclic list and maps the chunks into the page table of the *)
(* compartment.  A call is cut where another core can see or change what   *)
(* it works on: around the calls into the global range, and between the    *)
(* chunks of a block.                                                      *)
(***************************************************************************)
EXTENDS Integers

CONSTANTS
    Cores, Compartments,
    Null,                \* null pointer, and the owner of the core's memory
    ChunkCount,
    Sizes,               \* of the blocks that the global range gives, in chunks
    MIN_OWNERSHIP_SIZE,  \* addresses in a chunk
    StackChunk           \* holds the interrupt stacks, allocated at boot

Chunks == 0..ChunkCount - 1
Free == "free"

\* Compartments are addresses of objects that are not entries of the page map.
OwnershipAssumption ==
    /\ ChunkCount \in Nat /\ Sizes \subseteq Nat \ {0} /\ MIN_OWNERSHIP_SIZE \in Nat \ {0}
    /\ Null \notin Compartments /\ Free \notin Compartments \cup {Null}
    /\ \A a \in Chunks : a \notin Compartments \cup {Null}

ASSUME OwnershipConstants == OwnershipAssumption

VARIABLES
    serial,  \* whether a core calls only when no other is in a call
    holder,  \* of each chunk: Free in the global range, else whom it was given to
    owner,   \* List::Entry::owner of each chunk
    next, prev,  \* the links of entries (chunks) and heads (compartments)
    mapped,  \* rights in the page tables: [Compartments -> [Chunks -> ...]]
    live,    \* compartments whose LocalState exists
    call,    \* the call each core is in
    fatal    \* why the system has stopped: a check in MonzaRange, or memory or
             \* access that was "refused"; or "no"

own_vars == <<serial, holder, owner, next, prev, mapped, live, call, fatal>>
links == <<next, prev>>

\* A call for c works on the chunks of block, of which those of left are still
\* to be added or removed; curr and then are the entries at which forall is.
In(at, c, block, left, curr, then) ==
    [at |-> at, c |-> c, block |-> block, left |-> left, curr |-> curr, then |-> then]
Idle == In("idle", Null, {}, {}, Null, Null)

\* A LocalState is used by one core at a time; a thread of the core has its own.
Quiet(c) == \A k \in Cores : call[k].at # "idle" => call[k].c # c
CanCall(k, c) ==
    /\ fatal = "no" /\ call[k].at = "idle" /\ (c # Null => c \in live /\ Quiet(c))
    /\ serial => \A j \in Cores : call[j].at = "idle"

\* The buddy allocator of the global range aligns blocks to their size.
Blocks(size) == {b \in SUBSET Chunks : \E a \in Chunks : a % size = 0 /\ b = a..a + size - 1}

OwnInit ==
    /\ serial \in BOOLEAN
    /\ holder = [a \in Chunks |-> IF a = StackChunk THEN Null ELSE Free]
    /\ owner = [a \in Chunks |-> Null]
    /\ next = [x \in Chunks \cup Compartments |-> Null] /\ prev = next
    /\ mapped = [c \in Compartments |-> [a \in Chunks |-> "none"]]
    /\ live = {} /\ call = [k \in Cores |-> Idle] /\ fatal = "no"

error(why) == fatal' = why /\ UNCHANGED <<serial, holder, owner, links, mapped, live, call>>

-----------------------------------------------------------------------------
(* The list: Links is the pair of functions that next and prev are.          *)

Links == [next |-> next, prev |-> prev]
SetLinks(l) == next' = l.next /\ prev' = l.prev

lazy_init(l, head) ==
    IF l.next[head] # Null THEN l
    ELSE [next |-> [l.next EXCEPT ![head] = head], prev |-> [l.prev EXCEPT ![head] = head]]

\* Mutant: the neighbour is not told.
list_add_Half(l, head, e) ==
    LET i == lazy_init(l, head)
    IN  [next |-> [i.next EXCEPT ![e] = i.next[head], ![head] = e],
         prev |-> [i.prev EXCEPT ![e] = head]]

list_add(l, head, e) ==
    LET i == lazy_init(l, head)
    IN  [next |-> [i.next EXCEPT ![e] = i.next[head], ![head] = e],
         prev |-> [i.prev EXCEPT ![e] = head, ![i.next[head]] = e]]

list_remove(l, e) ==
    IF l.next[e] = Null THEN l
    ELSE [next |-> [l.next EXCEPT ![l.prev[e]] = l.next[e]],
          prev |-> [l.prev EXCEPT ![l.next[e]] = l.prev[e]]]

MapBlock(c, block, right) ==
    mapped' = [mapped EXCEPT ![c] = [a \in Chunks |-> IF a \in block THEN right ELSE @[a]]]

-----------------------------------------------------------------------------
(* The rounds of add_monza_owner and remove_monza_owner, from the first      *)
(* chunk of a block to the last.                                             *)

First(a, left) == a \in left /\ \A b \in left : a <= b

add_monza_owner(k) ==
    /\ fatal = "no" /\ call[k].at = "alloc"
    /\ \E a \in Chunks :
        /\ First(a, call[k].left)
        /\ IF owner[a] # Null
             THEN error("already owned")
             ELSE /\ owner' = [owner EXCEPT ![a] = call[k].c]
                  /\ SetLinks(list_add(Links, call[k].c, a))
                  /\ call' = [call EXCEPT ![k].left = @ \ {a}]
                  /\ UNCHANGED <<serial, holder, mapped, live, fatal>>

\* Mutant: the owner stays in the page map.
remove_monza_owner_KeepsOwner(k) ==
    /\ fatal = "no" /\ call[k].at = "remove"
    /\ \E a \in Chunks :
        /\ First(a, call[k].left)
        /\ SetLinks(list_remove(Links, a))
        /\ call' = [call EXCEPT ![k].left = @ \ {a}]
        /\ UNCHANGED <<serial, holder, owner, mapped, live, fatal>>

remove_monza_owner(k) ==
    /\ fatal = "no" /\ call[k].at = "remove"
    /\ \E a \in Chunks :
        /\ First(a, call[k].left)
        /\ IF owner[a] # call[k].c
             THEN error("wrong owner")
             ELSE /\ owner' = [owner EXCEPT ![a] = Null]
                  /\ SetLinks(list_remove(Links, a))
                  /\ call' = [call EXCEPT ![k].left = @ \ {a}]
                  /\ UNCHANGED <<serial, holder, mapped, live, fatal>>

-----------------------------------------------------------------------------
(* MonzaRange.                                                               *)

\* LocalState(owner, root) with a new page table, which maps the stacks.  The
\* check for a null root looks at the owner so far, which is null in a new
\* LocalState: it never fails.
set_owner(c) ==
    /\ fatal = "no" /\ c \notin live /\ Quiet(c)
    /\ live' = live \cup {c}
    /\ MapBlock(c, {StackChunk}, "kernel")
    /\ next' = [next EXCEPT ![c] = Null] /\ prev' = [prev EXCEPT ![c] = Null]
    /\ UNCHANGED <<serial, holder, owner, call, fatal>>

Available(size) == {b \in Blocks(size) : \A a \in b : holder[a] = Free}

\* Backend::alloc_chunk reports that no memory is left.
OutOfMemory == error("refused")

\* alloc_range, up to and including parent.alloc_range; a caller that gets null
\* reports it.
alloc_range(k, c, size) ==
    /\ CanCall(k, c)
    /\ IF Available(size) = {}
         THEN OutOfMemory
         ELSE \E b \in Available(size) :
                /\ holder' = [a \in Chunks |-> IF a \in b THEN c ELSE holder[a]]
                /\ call' = [call EXCEPT ![k] = IF c = Null THEN Idle ELSE In("alloc", c, b, b, Null, Null)]
                /\ UNCHANGED <<serial, owner, links, mapped, live, fatal>>

AllocFinish(k) ==
    /\ fatal = "no" /\ call[k].at = "alloc" /\ call[k].left = {}
    /\ MapBlock(call[k].c, call[k].block, "write")
    /\ call' = [call EXCEPT ![k] = Idle]
    /\ UNCHANGED <<serial, holder, owner, links, live, fatal>>

\* dealloc_range before the rounds of remove_monza_owner, called by the
\* allocator or, for the entry curr, by dealloc_all.
BeginDealloc(k, c, b, curr, then) ==
    /\ MapBlock(c, b, "none")
    /\ call' = [call EXCEPT ![k] = In("remove", c, b, b, curr, then)]
    /\ UNCHANGED <<serial, holder, owner, links, live, fatal>>

Return(b) == holder' = [a \in Chunks |-> IF a \in b THEN Free ELSE holder[a]]

dealloc_range(k, c, b) ==
    /\ CanCall(k, c) /\ StackChunk \notin b /\ \A a \in b : holder[a] = c
    /\ IF c = Null
         THEN Return(b) /\ UNCHANGED <<serial, owner, links, mapped, live, call, fatal>>
         ELSE BeginDealloc(k, c, b, Null, Null)

\* parent.dealloc_range.
DeallocFinish(k) ==
    /\ fatal = "no" /\ call[k].at = "remove" /\ call[k].left = {}
    /\ Return(call[k].block)
    /\ call' = [call EXCEPT ![k] = IF @.curr = Null THEN Idle
                                   ELSE In("clear", @.c, {}, {}, @.curr, @.then)]
    /\ UNCHANGED <<serial, owner, links, mapped, live, fatal>>

\* ~Type: dealloc_all starts at the first entry of the list.
dealloc_all(k, c) ==
    LET l == lazy_init(Links, c)
    IN  /\ c # Null /\ CanCall(k, c)
        /\ SetLinks(l)
        /\ call' = [call EXCEPT ![k] = In("forall", c, {}, {}, l.next[c], Null)]
        /\ UNCHANGED <<serial, holder, owner, mapped, live, fatal>>

\* One round of forall: the successor is read, the chunk is given back, ...
ForallDealloc(k) ==
    LET e == call[k].curr
    IN  /\ fatal = "no" /\ call[k].at = "forall" /\ e # call[k].c
        /\ BeginDealloc(k, call[k].c, {e}, e, next[e])

\* Mutant: the successor is read after the entry was given back.
ForallClear_ReadsLate(k) ==
    /\ fatal = "no" /\ call[k].at = "clear"
    /\ owner' = [owner EXCEPT ![call[k].curr] = Null]
    /\ call' = [call EXCEPT ![k] = In("forall", @.c, {}, {}, next[@.curr], Null)]
    /\ UNCHANGED <<serial, holder, links, mapped, live, fatal>>

\* ... and its owner is cleared once more.
ForallClear(k) ==
    /\ fatal = "no" /\ call[k].at = "clear"
    /\ owner' = [owner EXCEPT ![call[k].curr] = Null]
    /\ call' = [call EXCEPT ![k] = In("forall", @.c, {}, {}, @.then, Null)]
    /\ UNCHANGED <<serial, holder, links, mapped, live, fatal>>

\* The end of ~Type: the page table is deallocated.
ForallEnd(k) ==
    LET c == call[k].c
    IN  /\ fatal = "no" /\ call[k].at = "forall" /\ call[k].curr = c
        /\ live' = live \ {c}
        /\ MapBlock(c, Chunks, "none")
        /\ call' = [call EXCEPT ![k] = Idle]
        /\ UNCHANGED <<serial, holder, owner, links, fatal>>

-----------------------------------------------------------------------------
(* page_fault_handler: user code of c, running on core k, has touched chunk a *)
(* without having the right; a = ChunkCount stands for an address that is not *)
(* in the heap.  is_active_stack is always false, so the branch that leaves   *)
(* the mapping to the compartment is not there.                               *)

page_fault_handler(k, c, a, is_write) ==
    /\ c # Null /\ CanCall(k, c)
    /\ a \in Chunks => mapped[c][a] \in {"none", "kernel"} \cup IF is_write THEN {"read"} ELSE {}
    /\ IF a \notin Chunks
         THEN error("refused")
         ELSE IF owner[a] = c \/ (~is_write /\ owner[a] = Null)
         THEN /\ MapBlock(c, {a}, IF owner[a] = c THEN "write" ELSE "read")
              /\ UNCHANGED <<serial, holder, owner, links, live, call, fatal>>
         ELSE error("refused")

Step(k) ==
    \/ add_monza_owner(k) \/ AllocFinish(k)
    \/ remove_monza_owner(k) \/ DeallocFinish(k)
    \/ ForallDealloc(k) \/ ForallClear(k) \/ ForallEnd(k)

OwnNext ==
    \/ \E c \in Compartments : set_owner(c)
    \/ \E k \in Cores, c \in Compartments \cup {Null} :
        \/ \E size \in Sizes : alloc_range(k, c, size) \/ \E b \in Blocks(size) : dealloc_range(k, c, b)
        \/ dealloc_all(k, c)
        \/ \E a \in 0..ChunkCount, w \in BOOLEAN : page_fault_handler(k, c, a, w)
    \/ \E k \in Cores : Step(k)
    \/ fatal # "no" /\ UNCHANGED own_vars

\* The code of the core is not preempted: a call that has begun goes on.
OwnSpec == OwnInit /\ [][OwnNext]_own_vars /\ \A k \in Cores : WF_own_vars(Step(k))

-----------------------------------------------------------------------------
(* validate_owner_range, on addresses: it looks at the owner of p, of p plus *)
(* the size of a chunk, and so on.                                           *)

HeapAddresses == 0..ChunkCount * MIN_OWNERSHIP_SIZE - 1
ChunkOf(x) == x \div MIN_OWNERSHIP_SIZE
OwnerAt(x) == owner[ChunkOf(x)]

validate_owner_range(c, p, size) ==
    \A i \in 0..size : i * MIN_OWNERSHIP_SIZE < size => OwnerAt(p + i * MIN_OWNERSHIP_SIZE) = c

-----------------------------------------------------------------------------
(* Properties. *)

Held(c) == {a \in Chunks : holder[a] = c}

\* The page map names c only for chunks that the global range has given to c,
\* whatever calls overlap; between calls that do not, it names c for all of them:
\* "It uses MonzaRange to track compartment ownership of the appropriate ranges of
\* memory."  With overlapping calls the clearing in dealloc_all, after the chunk
\* went back, may lose the owner that another core has just set.
HolderIsOwner ==
    \A c \in Compartments :
        /\ {a \in Chunks : owner[a] = c} \subseteq Held(c)
        /\ serial /\ fatal = "no" /\ Quiet(c) => Held(c) \subseteq {a \in Chunks : owner[a] = c}

\* Between calls the list of c is a cycle through its head and exactly its
\* chunks, and prev is the inverse of next: the stale links that
\* remove() leaves in an entry are never followed.
ListIsHeldChunks ==
    fatal = "no" => \A c \in live : Quiet(c) =>
        \/ next[c] = Null /\ Held(c) = {}
        \/ /\ \A x \in Held(c) \cup {c} : next[x] \in Held(c) \cup {c} /\ prev[next[x]] = x
           /\ \A S \in SUBSET (Held(c) \cup {c}) :
                  c \in S /\ (\A x \in S : next[x] \in S) => S = Held(c) \cup {c}

\* User code of c can write exactly what c holds, and during a call no more.
WritableIsHeld ==
    \A c \in Compartments :
        /\ {a \in Chunks : mapped[c][a] = "write"} \subseteq Held(c)
        /\ fatal = "no" /\ Quiet(c) => {a \in Chunks : mapped[c][a] = "write"} = Held(c)

\* "The MonzaRange collects all memory associated with a compartment when its
\* destructor is called."
CollectsAll ==
    fatal = "no" => \A c \in Compartments \ live : Held(c) = {} /\ \A a \in Chunks : owner[a] # c

\* The check in add_monza_owner never fails, and as long as calls do not overlap
\* that in remove_monza_owner does not.
ChecksHold == fatal # "already owned" /\ (serial => fatal # "wrong owner")

\* The destructor comes to its end, unless another core stops the system.
DestructorReturns ==
    \A k \in Cores, c \in Compartments :
        (call[k].at = "forall" /\ call[k].c = c) ~> (c \notin live \/ (~serial /\ fatal # "no"))

\* "Check that an address range is fully owned by the specified compartment" is
\* more than the check does, and its callers pass addresses that user code chose:
\* of an accepted range every address is owned by c, unless the range starts
\* inside a chunk; then the last chunk may be one that the check did not look at.
ValidatesRange ==
    \A c \in Compartments, p \in HeapAddresses, size \in 1..ChunkCount * MIN_OWNERSHIP_SIZE :
        p + size <= ChunkCount * MIN_OWNERSHIP_SIZE /\ validate_owner_range(c, p, size) =>
            \A x \in p..p + size - 1 :
                \/ OwnerAt(x) = c
                \/ p % MIN_OWNERSHIP_SIZE # 0 /\ ChunkOf(p) < ChunkOf(x) /\ ChunkOf(x) = ChunkOf(p + size - 1)

\* The page map never names a compartment for a chunk that it was not given, and
\* as long as calls do not overlap it names the holder of every chunk, so that the
\* checks in add_monza_owner and remove_monza_owner do not fail; a range that
\* validate_owner_range accepts is owned but for the last chunk of an unaligned one.
OwnershipIsTracked == HolderIsOwner /\ ChecksHold /\ ValidatesRange

\* Between calls the list of a compartment is a cycle through its chunks, user
\* code can write exactly those, and after its destructor a compartment holds
\* and owns nothing, also when cores work for several compartments.
ListsAreExact == ListIsHeldChunks /\ WritableIsHeld /\ CollectsAll

=============================================================================
