---------------------------- MODULE Compartment ----------------------------
(***************************************************************************)
(* A thread of the core that invokes compartments.  compartment_enter      *)
(* saves the state of the core on its stack, links it to the state saved   *)
(* last and drops to user mode; a system call finds its way back through   *)
(* that link.  Callbacks run core code on top, which may invoke any        *)
(* compartment again, also the one that called.  Objects are named by      *)
(* their address, which a later object may have again.                     *)
(***************************************************************************)
EXTENDS Naturals, FiniteSets, Sequences

CONSTANTS
    Addresses,     \* of Compartment objects; get_owner() is the address
    Kernel,        \* page table and TLS of the core
    MaxCallbacks,  \* bound: callbacks registered with a compartment
    MaxDepth,      \* bound: nested invocations
    MaxInstances   \* bound: compartments created

CompartmentAssumption ==
    /\ MaxCallbacks \in Nat \ {0} /\ MaxDepth \in Nat /\ MaxInstances \in Nat
    /\ Kernel \notin Addresses /\ IsFiniteSet(Addresses)

VARIABLES
    instance,  \* at each address: number of the Compartment that lives there, or 0
    is_valid,
    callbacks, \* how many are registered; the first writes to the standard output
    stack_of_stacks, is_initial_stack_used,
    limits,    \* stack_limit_low and _high in the TCB: the stack they enclose
    kstack,    \* what this code keeps on the stack of the core
    last_sp,   \* thread_execution_context.last_stack_ptr, a depth of kstack
    cr3, tls,  \* registers
    sp,        \* user stack in use, or 0 in the core
    result,    \* what the last invoke to end has returned
    calls,     \* history: the invocations that have not ended, outermost first
    created    \* history: number of compartments created

object == <<instance, is_valid, callbacks>>
stacks == <<stack_of_stacks, is_initial_stack_used, limits>>
cpu == <<kstack, last_sp, cr3, tls, sp>>
vars == <<object, stacks, cpu, result, calls, created>>

InCore == sp = 0
\* Core code that may do anything: not the writer of the standard output.
CoreCode == InCore /\ (kstack # <<>> => kstack[Len(kstack)].index # 0)
Top(s) == s[Len(s)]
Pop(s) == SubSeq(s, 1, Len(s) - 1)

Init ==
    /\ instance = [a \in Addresses |-> 0] /\ is_valid = [a \in Addresses |-> FALSE]
    /\ callbacks = [a \in Addresses |-> 0]
    /\ stack_of_stacks = [a \in Addresses |-> <<>>]
    /\ is_initial_stack_used = [a \in Addresses |-> FALSE]
    /\ limits = [a \in Addresses |-> 0]
    /\ kstack = <<>> /\ last_sp = 0 /\ cr3 = Kernel /\ tls = Kernel /\ sp = 0
    /\ result = "none" /\ calls = <<>> /\ created = 0

\* An address for a new stack: none that is in use.
NewStack == CHOOSE n \in 1..(MaxDepth + 1) * Cardinality(Addresses) + 1 :
                \A a \in Addresses, i \in 1..MaxDepth + 1 :
                    i <= Len(stack_of_stacks[a]) => stack_of_stacks[a][i] # n

-----------------------------------------------------------------------------
(* Creation and destruction, by core code.                                   *)

Active(a) == \E i \in 1..Len(calls) : calls[i].c = a

\* ~ArchitecturalCompartmentBase: the allocator lives on in the CompartmentMemory
\* objects that share it.
Destruct(a) ==
    /\ CoreCode /\ instance[a] # 0 /\ ~Active(a)
    /\ instance' = [instance EXCEPT ![a] = 0]
    /\ stack_of_stacks' = [stack_of_stacks EXCEPT ![a] = <<>>]
    /\ callbacks' = [callbacks EXCEPT ![a] = 0]
    /\ UNCHANGED <<is_valid, is_initial_stack_used, limits, cpu, result, calls, created>>

register_callback(a) ==
    /\ CoreCode /\ instance[a] # 0 /\ callbacks[a] < MaxCallbacks
    /\ callbacks' = [callbacks EXCEPT ![a] = @ + 1]
    /\ UNCHANGED <<instance, is_valid, stacks, cpu, result, calls, created>>

-----------------------------------------------------------------------------
(* Invocation.                                                               *)

\* get_stack(): the stack it returns; GetStack is what it does.
get_stack(a) ==
    IF Len(stack_of_stacks[a]) = 1 /\ ~is_initial_stack_used[a]
      THEN stack_of_stacks[a][1]
      ELSE NewStack

GetStack(a) ==
    /\ IF get_stack(a) = stack_of_stacks[a][1]
         THEN /\ is_initial_stack_used' = [is_initial_stack_used EXCEPT ![a] = TRUE]
              /\ UNCHANGED stack_of_stacks
         ELSE /\ stack_of_stacks' = [stack_of_stacks EXCEPT ![a] = Append(@, get_stack(a))]
              /\ UNCHANGED is_initial_stack_used
    /\ limits' = [limits EXCEPT ![a] = get_stack(a)]

\* Mutant: the link to the state saved before is lost.
compartment_enter_NoLink(a, stack) ==
    /\ kstack' = Append(kstack, [kind |-> "state", c |-> a, last_sp |-> 0, sp |-> 0, index |-> 0])
    /\ last_sp' = Len(kstack) + 1
    /\ cr3' = a /\ tls' = a /\ sp' = stack

compartment_enter(a, stack) ==
    /\ kstack' = Append(kstack, [kind |-> "state", c |-> a, last_sp |-> last_sp, sp |-> 0, index |-> 0])
    /\ last_sp' = Len(kstack) + 1
    /\ cr3' = a /\ tls' = a /\ sp' = stack

invoke_typed(a) ==
    /\ CoreCode /\ instance[a] # 0 /\ Len(calls) < MaxDepth
    /\ IF ~is_valid[a]
         THEN result' = "error" /\ UNCHANGED <<object, stacks, cpu, calls, created>>
         ELSE /\ GetStack(a)
              /\ compartment_enter(a, get_stack(a))
              /\ calls' = Append(calls, [c |-> a, stack |-> get_stack(a)])
              /\ UNCHANGED <<object, result, created>>

\* Compartment(): page table, allocator, TLS, first stack and the callback for
\* the standard output, then an invocation that initialises the run time.
Construct(a) ==
    /\ CoreCode /\ instance[a] = 0 /\ created < MaxInstances /\ Len(calls) < MaxDepth
    /\ created' = created + 1
    /\ instance' = [instance EXCEPT ![a] = created + 1]
    /\ is_valid' = [is_valid EXCEPT ![a] = TRUE]
    /\ callbacks' = [callbacks EXCEPT ![a] = 1]
    /\ stack_of_stacks' = [stack_of_stacks EXCEPT ![a] = <<NewStack>>]
    /\ is_initial_stack_used' = [is_initial_stack_used EXCEPT ![a] = TRUE]
    /\ limits' = [limits EXCEPT ![a] = NewStack]
    /\ compartment_enter(a, NewStack)
    /\ calls' = Append(calls, [c |-> a, stack |-> NewStack])
    /\ UNCHANGED result

release_stack(a) ==
    /\ IF Len(stack_of_stacks[a]) = 1
         THEN /\ is_initial_stack_used' = [is_initial_stack_used EXCEPT ![a] = FALSE]
              /\ UNCHANGED stack_of_stacks
         ELSE /\ stack_of_stacks' = [stack_of_stacks EXCEPT ![a] = Pop(@)]
              /\ UNCHANGED is_initial_stack_used
    /\ UNCHANGED limits

\* Return from compartment_enter with the state at last_sp, and the rest of
\* invoke_typed.
LeaveCompartment(success) ==
    LET state == kstack[last_sp]
    IN  /\ kstack' = SubSeq(kstack, 1, last_sp - 1)
        /\ last_sp' = state.last_sp
        /\ cr3' = Kernel /\ tls' = Kernel /\ sp' = 0
        /\ release_stack(state.c)
        /\ result' = IF success THEN "value" ELSE "error"
        /\ calls' = Pop(calls)
        /\ UNCHANGED <<instance, callbacks, created>>

-----------------------------------------------------------------------------
(* System calls: kernel_enter, on the stack of the core from last_sp on.     *)

compartment_return ==
    /\ ~InCore
    /\ LeaveCompartment(TRUE) /\ UNCHANGED is_valid

\* compartment_forward_exit
Invalidate == is_valid' = [is_valid EXCEPT ![kstack[last_sp].c] = FALSE]

compartment_exit == ~InCore /\ LeaveCompartment(FALSE) /\ Invalidate

\* The core stops working for the compartment as if that had exited.
abort_kernel_callback == LeaveCompartment(FALSE) /\ Invalidate

compartment_resume(stack) ==
    /\ cr3' = kstack[last_sp].c /\ tls' = kstack[last_sp].c /\ sp' = stack

\* A call for memory: the core works for the compartment that made it, then
\* resumes it; arguments that do not pass the checks abort.
MemoryCall(checked) ==
    /\ ~InCore
    /\ IF ~checked THEN abort_kernel_callback
       ELSE /\ compartment_resume(sp)
            /\ UNCHANGED <<object, stacks, kstack, last_sp, result, calls, created>>

\* The metadata given names a remote allocator and a size class.
compartment_alloc_chunk ==
    \E remote \in {"null", "own", "other"}, size_agrees \in BOOLEAN :
        MemoryCall(remote # "other" /\ size_agrees)

compartment_alloc_meta_data == MemoryCall(TRUE)

compartment_dealloc_chunk ==
    \E owned, size_agrees, aligned \in BOOLEAN : MemoryCall(owned /\ size_agrees /\ aligned)

\* compartment_forward_callback: the function runs in the core, above the frame
\* that holds the user stack pointer.
compartment_callback(index, owns_data, owns_ret) ==
    /\ ~InCore
    /\ IF index >= callbacks[kstack[last_sp].c] \/ ~owns_data \/ ~owns_ret THEN abort_kernel_callback
       ELSE /\ kstack' = Append(SubSeq(kstack, 1, last_sp),
                                [kind |-> "frame", c |-> Kernel, last_sp |-> 0, sp |-> sp,
                                 index |-> index])
            /\ cr3' = Kernel /\ tls' = Kernel /\ sp' = 0
            /\ UNCHANGED <<object, stacks, last_sp, result, calls, created>>

\* The function has returned: pop the frame and resume.
CallbackReturn ==
    /\ InCore /\ kstack # <<>>
    /\ kstack' = Pop(kstack)
    /\ compartment_resume(Top(kstack).sp)
    /\ UNCHANGED <<object, stacks, last_sp, result, calls, created>>

\* kwritev_stdout_protected finds that it may not read what it is to write, and
\* gives up the callback that it runs in.
AbortCallback ==
    /\ InCore /\ kstack # <<>> /\ Top(kstack).index = 0
    /\ abort_kernel_callback

Next ==
    \/ \E a \in Addresses : Construct(a) \/ Destruct(a)
                          \/ register_callback(a) \/ invoke_typed(a)
    \/ compartment_return \/ compartment_exit
    \/ compartment_alloc_chunk \/ compartment_alloc_meta_data \/ compartment_dealloc_chunk
    \/ \E index \in 0..MaxCallbacks, owns_data, owns_ret \in BOOLEAN :
           compartment_callback(index, owns_data, owns_ret)
    \/ CallbackReturn \/ AbortCallback

Spec == Init /\ [][Next]_vars

-----------------------------------------------------------------------------
(* Properties. *)

\* User code runs with the page table, TLS and stack of the invocation it
\* belongs to, on a stack that is still allocated, whatever invocations, exits
\* and aborted callbacks came and went on top of it.
RunsInItsCompartment ==
    ~InCore => LET call == Top(calls)
               IN  /\ cr3 = call.c /\ tls = call.c /\ sp = call.stack
                   /\ \E i \in 1..Len(stack_of_stacks[call.c]) : stack_of_stacks[call.c][i] = sp

\* The stack of the core holds a saved state for each invocation that has not
\* ended, innermost last, and on it the frame of its callback: each is linked to
\* the one before and last_sp names the last, so that each system call acts for
\* the compartment that made it, each return ends its own invocation and each
\* callback resumes on the stack it came from.
Linked(i) ==
    LET state == kstack[2 * i - 1]
        frame == kstack[2 * i]
    IN  /\ state.kind = "state" /\ state.c = calls[i].c
        /\ state.last_sp = IF i = 1 THEN 0 ELSE 2 * i - 3
        /\ 2 * i <= Len(kstack) => frame.kind = "frame" /\ frame.sp = calls[i].stack

LinksFollowInvocations ==
    /\ Len(kstack) = IF InCore THEN 2 * Len(calls) ELSE 2 * Len(calls) - 1
    /\ last_sp = IF Len(calls) = 0 THEN 0 ELSE 2 * Len(calls) - 1
    /\ \A i \in 1..Len(calls) : Linked(i)

\* Re-entrant invocations never share a stack, and a compartment keeps no more
\* stacks than it has invocations, besides the preallocated one.
StackPerInvocation ==
    \A a \in Addresses : instance[a] # 0 =>
        LET mine == {i \in 1..Len(calls) : calls[i].c = a}
        IN  /\ \A i, j \in mine : i # j => calls[i].stack # calls[j].stack
            /\ Len(stack_of_stacks[a]) = IF mine = {} THEN 1 ELSE Cardinality(mine)
            /\ is_initial_stack_used[a] = (mine # {})

=============================================================================
