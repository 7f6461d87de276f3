----------------------------- MODULE HeapRanges -----------------------------
(***************************************************************************)
(* AddressRange and HeapRanges: half-open ranges of addresses, their       *)
(* alignment, and the ranges the heap is made of.  Addresses wrap at W     *)
(* (2^64 in the code); one unit is the smallest page of the hypervisor     *)
(* (HV_PAGE_SIZE), PAGE_SIZE is a multiple of it.                          *)
(***************************************************************************)
EXTENDS Integers, Sequences

CONSTANTS
    W,               \* addresses are computed modulo W
    PAGE_SIZE,
    MAX_RANGE_COUNT  \* capacity of additional_ranges

HeapRangesAssumption ==
    /\ W \in Nat \ {0} /\ PAGE_SIZE \in Nat \ {0} /\ MAX_RANGE_COUNT \in Nat
    /\ W % PAGE_SIZE = 0

\* The constructors: from a span, and from two addresses.
Span(data, size)   == [start |-> data, end |-> (data + size) % W]
AddressRange(s, e) == [start |-> s, end |-> IF e > s THEN e ELSE s]

empty(r)       == r.start = r.end
size(r)        == (r.end - r.start) % W
overlaps(r, a) == r.start <= a /\ a < r.end
Addresses(r)   == {a \in 0..W - 1 : overlaps(r, a)}

align_up(a, n)   == (((a + n - 1) \div n) * n) % W
align_down(a, n) == (a \div n) * n

align_up_start(r, n) ==
    LET s == align_up(r.start, n)
    IN  IF s >= r.end THEN AddressRange(s, s) ELSE AddressRange(s, r.end)

align_up_end(r, n) == AddressRange(r.start, align_up(r.end, n))

align_down_end(r, n) ==
    LET e == align_down(r.end, n)
    IN  IF e <= r.start THEN AddressRange(e, e) ELSE AddressRange(r.start, e)

align_restrict(r, n) ==
    LET s == align_up(r.start, n)
        e == align_down(r.end, n)
    IN  IF e <= s THEN AddressRange(s, s) ELSE AddressRange(s, e)

-----------------------------------------------------------------------------
(* HeapRanges.  A heap is its first range, which may start anywhere, and the *)
(* sequence of additional ranges; Failed is a call that ends in kabort().    *)

EmptyHeap == [first |-> Span(0, 0), additional |-> <<>>]
Failed    == [first |-> Span(0, 0), additional |-> <<Span(0, 0)>>]

set_first(heap, range) ==
    LET r == align_down_end(range, PAGE_SIZE)
    IN  IF empty(r) THEN Failed ELSE [heap EXCEPT !.first = Span(range.start, r.end - r.start)]

add(heap, range) ==
    LET r == align_restrict(range, PAGE_SIZE)
    IN  IF Len(heap.additional) = MAX_RANGE_COUNT \/ empty(r)
          THEN Failed
          ELSE [heap EXCEPT !.additional = Append(@, Span(r.start, r.end - r.start))]

largest_valid_address(heap) ==
    IF heap.additional = <<>>
      THEN (heap.first.end - 1) % W
      ELSE (heap.additional[Len(heap.additional)].end - 1) % W

\* HeapRanges::size()
heap_size(heap) == (largest_valid_address(heap) - heap.first.start + 1) % W

is_heap_address(heap, a) ==
    \/ overlaps(heap.first, a)
    \/ \E i \in 1..Len(heap.additional) : overlaps(heap.additional[i], a)

=============================================================================
