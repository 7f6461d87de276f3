-------------------------------- MODULE Traps --------------------------------
(***************************************************************************)
(* One core that goes in and out of a compartment, with the exceptions and *)
(* interrupts that it takes on the way.  Every gate uses the same entry of *)
(* the interrupt stack table, so each of them starts at the same top of    *)
(* the same stack.  Exception gates leave interrupts enabled.              *)
(*                                                                         *)
(* GS stays out: no code of the repository writes it in a compartment, and *)
(* DescriptorTables checks what reset_per_core_pointer computes.           *)
(***************************************************************************)
EXTENDS Integers

CONSTANTS Kernel, Comp   \* page table and TLS block of the core, of the compartment

VARIABLES
  cpu,        \* [rip, ring, cr3, tls, rbx, rbp]; rip is [in, at]
  frame,      \* top of the interrupt stack: [rip, ring, err]
  saved,      \* below it, what save_regs stores: [rbx, rbp]
  was,        \* history: the registers of the task when a gate was taken
  overlapped  \* history: an interrupt arrived while an exception was handled

vars == <<cpu, frame, saved, was, overlapped>>

Task(p) == [in |-> "task", at |-> p]
In(g) == cpu.rip.in = g
At(g, p) == cpu.rip = [in |-> g, at |-> p]
Zero == "0"

\* swap_kernel_cr3 tells by a zero that there is no page table to restore: that
\* of a compartment is never at address 0.
TrapAssumption == Comp # Zero

Init ==
  /\ cpu = [rip |-> Task("kernel"), ring |-> 0, cr3 |-> Kernel, tls |-> Kernel, rbx |-> "own", rbp |-> "own"]
  /\ frame = [rip |-> Task("kernel"), ring |-> 0, err |-> "none"]
  /\ saved = [rbx |-> Zero, rbp |-> Zero] /\ was = cpu /\ overlapped = FALSE

-----------------------------------------------------------------------------
(* The task: waiting for a semaphore, compartment_enter and kernel_enter,    *)
(* which change one register after the other with interrupts enabled.        *)

Step(from, to, r) ==
  /\ At("task", from)
  /\ cpu' = [r EXCEPT !.rip = Task(to)]
  /\ UNCHANGED <<frame, saved, was, overlapped>>

acquire_semaphore ==
  \/ Step("kernel", "loop_suspend", cpu)
  \/ Step("loop_suspend", "checked", cpu)     \* the semaphore has been read
  \/ Step("checked", "kernel", cpu)           \* it was free, or hlt has returned
compartment_enter ==
  \/ Step("kernel", "enter_tls", [cpu EXCEPT !.tls = Comp])
  \/ Step("enter_tls", "enter_cr3", [cpu EXCEPT !.cr3 = Comp])
  \/ Step("enter_cr3", "compartment", [cpu EXCEPT !.ring = 3])
kernel_enter ==
  \/ Step("compartment", "syscall", [cpu EXCEPT !.ring = 0])
  \/ Step("syscall", "syscall_cr3", [cpu EXCEPT !.cr3 = Kernel])
  \/ Step("syscall_cr3", "kernel", [cpu EXCEPT !.tls = Kernel])

-----------------------------------------------------------------------------
(* Exceptions *)

Handling == In("breakpoint") \/ In("pagefault") \/ In("fatal")

\* The processor pushes where it was and goes to the gate; err stands for the
\* word below, the error code or the zero that stands in for it.
Enter(g, err) ==
  /\ frame' = [rip |-> cpu.rip, ring |-> cpu.ring, err |-> err]
  /\ cpu' = [cpu EXCEPT !.rip = [in |-> g, at |-> "gate"], !.ring = 0]
  /\ was' = IF In("task") THEN cpu ELSE was
  /\ UNCHANGED saved

\* int3 and faults come from the code of the core and of the compartment, not
\* from the few instructions between them.
Exception(g) ==
  /\ At("task", "kernel") \/ At("task", "compartment")
  /\ Enter(g, IF g = "pagefault" THEN (IF cpu.ring = 0 THEN "kernel" ELSE "user") ELSE "none")
  /\ UNCHANGED overlapped

Move(p, r) == cpu' = [r EXCEPT !.rip = [@ EXCEPT !.at = p]]
Keep == UNCHANGED <<was, overlapped>>

\* interrupt_prelude: save_regs, swap_kernel_cr3, and the TLS pointer.
save_regs(g) ==
  /\ At(g, "gate") /\ saved' = [rbx |-> cpu.rbx, rbp |-> cpu.rbp]
  /\ Move("saved", cpu) /\ UNCHANGED frame /\ Keep
swap_kernel_cr3(g) ==
  /\ At(g, "saved")
  /\ Move("swapped", IF frame.ring = 0 THEN [cpu EXCEPT !.rbx = Zero]
                     ELSE [cpu EXCEPT !.rbx = cpu.cr3, !.cr3 = Kernel])
  /\ UNCHANGED <<frame, saved>> /\ Keep
swap_tls(g) ==
  /\ At(g, "swapped") /\ Move("handler", [cpu EXCEPT !.rbp = cpu.tls, !.tls = Kernel])
  /\ UNCHANGED <<frame, saved>> /\ Keep

\* print_exception returns; page_fault_handler stops the machine for a fault
\* of the core, and maps the page or stops the machine for the compartment.
print_exception ==
  /\ At("breakpoint", "handler") /\ Move("done", cpu) /\ UNCHANGED <<frame, saved>> /\ Keep
page_fault_handler ==
  /\ At("pagefault", "handler")
  /\ \/ frame.err = "user" /\ Move("done", cpu)
     \/ Move("kabort", cpu)
  /\ UNCHANGED <<frame, saved>> /\ Keep

\* interrupt_conclusion: restore_swapped_cr3, the TLS pointer,
\* reset_suspend_check with restore_regs, and iretq.
restore_cr3(g) ==
  /\ At(g, "done") /\ Move("cr3 back", [cpu EXCEPT !.cr3 = IF cpu.rbx # Zero THEN cpu.rbx ELSE @])
  /\ UNCHANGED <<frame, saved>> /\ Keep
\* Mutant: the TLS pointer of the core is kept.
restore_tls_Kept(g) ==
  /\ At(g, "cr3 back") /\ Move("tls back", cpu)
  /\ UNCHANGED <<frame, saved>> /\ Keep
restore_tls(g) ==
  /\ At(g, "cr3 back") /\ Move("tls back", [cpu EXCEPT !.tls = cpu.rbp])
  /\ UNCHANGED <<frame, saved>> /\ Keep
reset_suspend_check(rip) == IF rip = Task("checked") THEN Task("loop_suspend") ELSE rip
restore_regs(g) ==
  /\ At(g, "tls back")
  /\ frame' = [frame EXCEPT !.rip = reset_suspend_check(@)]
  /\ Move("iretq", [cpu EXCEPT !.rbx = saved.rbx, !.rbp = saved.rbp])
  /\ UNCHANGED saved /\ Keep
iretq(g) ==
  /\ At(g, "iretq")
  /\ cpu' = [cpu EXCEPT !.rip = frame.rip, !.ring = frame.ring]
  /\ UNCHANGED <<frame, saved>> /\ Keep

\* print_and_halt; the last jump goes to where the pointer to the shutdown
\* function is stored, and not to that function: nothing is known beyond it.
print_and_halt ==
  /\ \/ At("fatal", "gate") /\ Move("handler", IF frame.ring = 0 THEN cpu ELSE [cpu EXCEPT !.cr3 = Kernel])
     \/ At("fatal", "handler") /\ Move("jmp shutdown", cpu)
  /\ UNCHANGED <<frame, saved>> /\ Keep

-----------------------------------------------------------------------------
(* Interrupts.  Their gates disable interrupts, so that each is one step for  *)
(* this core; wakeup_handler pushes rdi onto the word of the error code.     *)

Stopped == cpu.rip.at \in {"kabort", "jmp shutdown"}
Interrupt(g) ==
  /\ ~Stopped /\ ~In("wakeup") /\ ~In("nop")
  /\ \E err \in {"none", "user", "kernel"} : (In("task") => err = "none") /\ Enter(g, err)
  /\ overlapped' = (overlapped \/ Handling)

wakeup_handler ==
  /\ In("wakeup")
  /\ LET rip == reset_suspend_check(frame.rip)
     IN frame' = [frame EXCEPT !.rip = rip] /\ cpu' = [cpu EXCEPT !.rip = rip, !.ring = frame.ring]
  /\ UNCHANGED saved /\ Keep
nop_interrupt_gate ==
  /\ In("nop")
  /\ cpu' = [cpu EXCEPT !.rip = frame.rip, !.ring = frame.ring]
  /\ UNCHANGED <<frame, saved>> /\ Keep

Halted == Stopped /\ UNCHANGED vars

Next ==
  \/ acquire_semaphore \/ compartment_enter \/ kernel_enter
  \/ \E g \in {"breakpoint", "pagefault", "fatal"} : Exception(g)
  \/ \E g \in {"breakpoint", "pagefault"} :
       save_regs(g) \/ swap_kernel_cr3(g) \/ swap_tls(g) \/ restore_cr3(g) \/ restore_tls(g)
         \/ restore_regs(g) \/ iretq(g)
  \/ print_exception \/ page_fault_handler \/ print_and_halt
  \/ \E g \in {"wakeup", "nop"} : Interrupt(g)
  \/ wakeup_handler \/ nop_interrupt_gate \/ Halted

Spec == Init /\ [][Next]_vars

-----------------------------------------------------------------------------

HandlerRunsInTheCore ==
  Handling /\ cpu.rip.at = "handler" => cpu.cr3 = Kernel /\ (~In("fatal") => cpu.tls = Kernel)

\* Whatever was interrupted goes on where it was, with its privilege level, page
\* table, TLS pointer and registers, also in the middle of a change between
\* core and compartment; only a semaphore check that was not yet followed by
\* hlt starts again.  The C code of a handler runs on the page table of the core
\* whatever it has interrupted, and with the thread-local data of the core where
\* it returns.  This is for traps that do not overlap.
ResumesInterrupted ==
  [][~overlapped =>
       /\ HandlerRunsInTheCore
       /\ ~In("task") /\ cpu'.rip.in = "task" =>
            cpu' = [was EXCEPT !.rip = IF In("nop") THEN @ ELSE reset_suspend_check(@)]]_vars

\* The test of compartment interrupts expects that a compartment goes on after
\* int3: the frame with which a handler returns is that of the code which
\* raised the exception.
FrameIsKept ==
  \A g \in {"breakpoint", "pagefault"} :
    At(g, "iretq") => frame.rip = reset_suspend_check(was.rip) /\ frame.ring = was.ring
=============================================================================
