------------------------------ MODULE StaticTls ------------------------------
(***************************************************************************)
(* Static thread-local storage.  The linker lays out one template: .tdata  *)
(* with initial values, then .tbss from the next TBSS_ALIGNMENT boundary.  *)
(* Compiled code addresses a variable by a fixed negative distance from    *)
(* the TLS base register; initialize_tls has to build every block so that  *)
(* these distances lead to the variable.                                   *)
(***************************************************************************)
EXTENDS Integers

CONSTANTS
  TBSS_ALIGNMENT,
  TdataAlignment,         \* alignment of .tdata in linker.ld
  MaxTdata, MaxTbss,      \* bounds: bytes of each section
  TcbSize,                \* sizeof(TCB)
  Addresses,              \* where blocks are allocated
  Threads, Compartments   \* what has a block

TlsAssumption ==
  /\ TBSS_ALIGNMENT \in Nat \ {0} /\ TdataAlignment \in Nat \ {0}
  /\ MaxTdata \in Nat /\ MaxTbss \in Nat /\ TcbSize \in Nat
  /\ Addresses \subseteq Nat \ {0}   \* 0 is the null pointer

VARIABLES
  tdata_start, tdata_size, tbss_size,  \* the template; never written
  memory,   \* bytes: [kind, n]: "tdata" and "tcb" with their offset, "zero", "stale"
  base,     \* of each context: the TLS base register, 0 if it has no block
  fresh     \* contexts that have not run on their block yet

vars == <<tdata_start, tdata_size, tbss_size, memory, base, fresh>>

Contexts == Threads \cup Compartments

align_up(n) == ((n + TBSS_ALIGNMENT - 1) \div TBSS_ALIGNMENT) * TBSS_ALIGNMENT
tdata_end == tdata_start + tdata_size

get_uninitialized_tls_offset == align_up(tdata_end) - tdata_start
get_tls_size == align_up(tbss_size) + get_uninitialized_tls_offset
get_tls_alloc_size == get_tls_size + TcbSize

\* Distance of the template below the TLS base in code linked by lld: the end
\* of the template is rounded up to the alignment of its segment.
TemplateBelow == align_up(align_up(tdata_end) + tbss_size) - tdata_start

Top == 2 * (MaxTdata + MaxTbss + 3 * TBSS_ALIGNMENT + TcbSize) + 2
Stale == [kind |-> "stale", n |-> 0]
Zero == [kind |-> "zero", n |-> 0]
Block(a) == a..a + get_tls_alloc_size - 1
Used == UNION {Block(base[x] - get_tls_size) : x \in {y \in Contexts : base[y] # 0}}

Init ==
  /\ tdata_start \in {n * TdataAlignment : n \in 0..TBSS_ALIGNMENT \div TdataAlignment}
  /\ tdata_size \in 0..MaxTdata /\ tbss_size \in 0..MaxTbss
  /\ memory = [a \in 0..Top |-> Stale]
  /\ base = [x \in Contexts |-> 0] /\ fresh = {}

Free(a) == Block(a) \subseteq 0..Top /\ Block(a) \cap Used = {}

\* The block of x at a; m is the memory it finds.
initialize_tls(x, a, m) ==
  /\ memory' = [b \in 0..Top |->
       CASE b \in a..a + tdata_size - 1 -> [kind |-> "tdata", n |-> b - a]
         [] b \in a + get_uninitialized_tls_offset..a + get_uninitialized_tls_offset + tbss_size - 1 ->
              Zero
         [] b \in a + get_tls_size..a + get_tls_size + TcbSize - 1 -> [kind |-> "tcb", n |-> b - a - get_tls_size]
         [] OTHER -> m[b]]
  /\ base' = [base EXCEPT ![x] = a + get_tls_size]

\* A thread of the core: the allocation is zeroed.  With no room, the
\* program ends in kabort, which takes no step here.
create_tls(x) ==
  /\ x \in Threads /\ base[x] = 0
  /\ \E a \in Addresses :
       Free(a) /\ initialize_tls(x, a, [b \in 0..Top |-> IF b \in Block(a) THEN Zero ELSE memory[b]])
  /\ fresh' = fresh \cup {x}
  /\ UNCHANGED <<tdata_start, tdata_size, tbss_size>>

\* A compartment: memory of its own, as an earlier owner left it.
CompartmentTls(x) ==
  /\ x \in Compartments /\ base[x] = 0
  /\ \E a \in Addresses : Free(a) /\ initialize_tls(x, a, memory)
  /\ fresh' = fresh \cup {x}
  /\ UNCHANGED <<tdata_start, tdata_size, tbss_size>>

\* The code of x changes its variables.
Run(x) ==
  /\ x \in fresh
  /\ fresh' = fresh \ {x}
  /\ memory' = [b \in 0..Top |-> IF b \in base[x] - TemplateBelow..base[x] - 1 THEN Stale ELSE memory[b]]
  /\ UNCHANGED <<tdata_start, tdata_size, tbss_size, base>>

\* What free is given is the start of the block; a compartment's memory is
\* given back in the same way by its destructor.
free_tls(x) ==
  /\ base[x] # 0 /\ x \notin fresh
  /\ memory' = [b \in 0..Top |-> IF b \in Block(base[x] - get_tls_size) THEN Stale ELSE memory[b]]
  /\ base' = [base EXCEPT ![x] = 0]
  /\ UNCHANGED <<tdata_start, tdata_size, tbss_size, fresh>>

Next == \E x \in Contexts : create_tls(x) \/ CompartmentTls(x) \/ Run(x) \/ free_tls(x)

Spec == Init /\ [][Next]_vars

-----------------------------------------------------------------------------

\* A context that starts finds every thread-local variable with its initial
\* value at the place that compiled code computes from the TLS base, whatever
\* the sizes and the placement of the sections and whatever other contexts have
\* done with their variables.
VariablesStartInitialized ==
  \A x \in fresh :
    LET template == base[x] - TemplateBelow
        tbss == align_up(tdata_end) - tdata_start
    IN /\ \A o \in 0..tdata_size - 1 : memory[template + o] = [kind |-> "tdata", n |-> o]
       /\ \A o \in 0..tbss_size - 1 : memory[template + tbss + o] = Zero

\* No context ever writes to the control block of another, which lies just
\* above the variables of its owner.
ControlBlocksAreKept ==
  \A x \in Contexts : base[x] # 0 =>
    \A o \in 0..TcbSize - 1 : memory[base[x] + o] = [kind |-> "tcb", n |-> o]

=============================================================================
