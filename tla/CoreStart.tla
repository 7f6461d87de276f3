------------------------------ MODULE CoreStart ------------------------------
(***************************************************************************)
(* initialize_threads starts the other cores one after the other.  On the  *)
(* generic platform the boot loader has parked them; the primary core      *)
(* leaves its control registers and the new core's per-core data in        *)
(* globals, sends an IPI and waits until the new core has picked them up.  *)
(* On Hyper-V it describes the core to the hypervisor, which starts it.    *)
(* The hypercalls may fail; the program then only logs.                    *)
(***************************************************************************)
EXTENDS Integers, FiniteSets

CONSTANT N   \* number of cores besides the primary core

CoreAssumption == N \in Nat \ {0}

VARIABLES
  platform,   \* "generic" or "hyperv": which init_cpu and ap_init are installed
  pc,         \* the primary core
  i,          \* the core that it starts or waits for
  context,    \* thread_execution_context of each core: [ready, code, done]
  current,    \* current_cr0, current_cr4 as cr, current_cr3 and current_gs
  finished_with_current,
  destination,\* register 0x310 of the primary core's local APIC
  ipi,        \* cores to which the reset IPI is on its way
  input,      \* StartVPInputParams of init_cpu_hyperv
  ap,         \* where each core is: "parked" until it is reset
  regs,       \* the registers of each core
  input_page, \* cores with a hypervisor_input_page
  reported    \* a failed hypercall has been logged

primary == <<pc, i>>
waker == <<current, finished_with_current, destination, input>>
vars == <<platform, primary, context, waker, ipi, ap, regs, input_page, reported>>

Cores == 1..N
NoCore == 0

\* Registers that the boot loader left, and those of the primary core; the
\* stack, the TLS base, gs and the task register are named by their core.
BootRegs == [cr |-> "boot", cr3 |-> "boot", gs |-> NoCore, tls |-> NoCore, stack |-> NoCore, tr |-> NoCore]
PrimaryRegs == [BootRegs EXCEPT !.cr = "kernel", !.cr3 = "kernel"]
ZeroRegs == [BootRegs EXCEPT !.cr = "zero", !.cr3 = "zero"]

Init ==
  /\ platform \in {"generic", "hyperv"}
  /\ pc = "prepare" /\ i = 1
  /\ context = [c \in Cores |-> [ready |-> FALSE, code |-> FALSE, done |-> FALSE]]
  /\ current = [cr |-> "zero", cr3 |-> "zero", gs |-> NoCore] /\ finished_with_current = FALSE
  /\ destination = NoCore /\ input = ZeroRegs
  /\ ipi = {} /\ ap = [c \in Cores |-> "parked"] /\ regs = [c \in Cores |-> BootRegs]
  /\ input_page = {} /\ reported = FALSE

-----------------------------------------------------------------------------
(* initialize_threads on the primary core *)

\* Stack, TLS block and core_initializer of core i, then reset_core.
Prepare ==
  /\ pc = "prepare"
  /\ context' = [context EXCEPT ![i] = [@ EXCEPT !.ready = TRUE, !.code = TRUE]]
  /\ pc' = IF platform = "generic" THEN "store" ELSE "clone"
  /\ UNCHANGED <<platform, i, waker, ipi, ap, regs, input_page, reported>>

NextCore ==
  IF i = N THEN pc' = "wait" /\ i' = 1 ELSE pc' = "prepare" /\ i' = i + 1

\* init_cpu_generic up to the IPI.
StoreControl ==
  /\ pc = "store"
  /\ current' = [current EXCEPT !.cr = PrimaryRegs.cr, !.cr3 = PrimaryRegs.cr3]
  /\ pc' = "store_gs"
  /\ UNCHANGED <<platform, i, context, finished_with_current, destination, input, ipi, ap, regs,
                 input_page, reported>>
StoreGs ==
  /\ pc = "store_gs"
  /\ current' = [current EXCEPT !.gs = i]
  /\ pc' = "clear"
  /\ UNCHANGED <<platform, i, context, finished_with_current, destination, input, ipi, ap, regs,
                 input_page, reported>>
\* Mutant: the answer of the core before is left.
ClearFinished_Never ==
  /\ pc = "clear"
  /\ finished_with_current' = finished_with_current
  /\ pc' = "destination"
  /\ UNCHANGED <<platform, i, context, current, destination, input, ipi, ap, regs, input_page, reported>>
ClearFinished ==
  /\ pc = "clear"
  /\ finished_with_current' = FALSE
  /\ pc' = "destination"
  /\ UNCHANGED <<platform, i, context, current, destination, input, ipi, ap, regs, input_page, reported>>

\* trigger_ipi_generic: the destination first, since the second register
\* triggers the interrupt; the pending flag clears when it is delivered.
SetDestination ==
  /\ pc = "destination"
  /\ destination' = i
  /\ pc' = "trigger"
  /\ UNCHANGED <<platform, i, context, current, finished_with_current, input, ipi, ap, regs,
                 input_page, reported>>
TriggerIpi ==
  /\ pc = "trigger"
  /\ ipi' = ipi \cup {destination}
  /\ pc' = "pending"
  /\ UNCHANGED <<platform, i, context, waker, ap, regs, input_page, reported>>
\* Mutant: the answer is cleared after the IPI was sent.
Delivered_Clears ==
  /\ pc = "pending" /\ ipi = {}
  /\ pc' = "finished"
  /\ finished_with_current' = FALSE
  /\ UNCHANGED <<platform, i, context, current, destination, input, ipi, ap, regs, input_page, reported>>
Delivered ==
  /\ pc = "pending" /\ ipi = {}
  /\ pc' = "finished"
  /\ UNCHANGED <<platform, i, context, waker, ipi, ap, regs, input_page, reported>>
WaitFinished ==
  /\ pc = "finished" /\ finished_with_current
  /\ NextCore
  /\ UNCHANGED <<platform, context, waker, ipi, ap, regs, input_page, reported>>

\* init_cpu_hyperv: get_local_registers leaves zeros when its hypercall
\* fails; the fields of the new core are set in any case.
OwnFields(r, c) == [r EXCEPT !.gs = c, !.tls = c, !.stack = c, !.tr = c]
clone_initial_context ==
  /\ pc = "clone"
  /\ \E ok \in BOOLEAN :
       /\ input' = OwnFields(IF ok THEN PrimaryRegs ELSE ZeroRegs, i)
       /\ reported' = (reported \/ ~ok)
  /\ pc' = "start"
  /\ UNCHANGED <<platform, i, context, current, finished_with_current, destination, ipi, ap, regs,
                 input_page>>
init_cpu_hyperv ==
  /\ pc = "start"
  /\ \E ok \in BOOLEAN :
       /\ ap' = IF ok THEN [ap EXCEPT ![i] = "ap_init"] ELSE ap
       /\ regs' = IF ok THEN [regs EXCEPT ![i] = input] ELSE regs
       /\ reported' = (reported \/ ~ok)
  /\ NextCore
  /\ UNCHANGED <<platform, context, waker, ipi, input_page>>

\* The second loop of initialize_threads.
WaitDone ==
  /\ pc = "wait" /\ context[i].done
  /\ IF i = N THEN pc' = "ready" /\ UNCHANGED i ELSE i' = i + 1 /\ UNCHANGED pc
  /\ UNCHANGED <<platform, context, waker, ipi, ap, regs, input_page, reported>>

-----------------------------------------------------------------------------
(* A new core *)

ApStep(c, from, to) == ap[c] = from /\ ap' = [ap EXCEPT ![c] = to]

\* The IPI is delivered and ap_reset_handler starts.
TakeIpi(c) ==
  /\ c \in ipi /\ ApStep(c, "parked", "load_cr")
  /\ ipi' = ipi \ {c}
  /\ UNCHANGED <<platform, primary, context, waker, regs, input_page, reported>>
LoadControl(c) ==
  /\ ApStep(c, "load_cr", "load_gs")
  /\ regs' = [regs EXCEPT ![c].cr = current.cr]
  /\ UNCHANGED <<platform, primary, context, waker, ipi, input_page, reported>>
LoadGs(c) ==
  /\ ApStep(c, "load_gs", "load_context")
  /\ regs' = [regs EXCEPT ![c].gs = current.gs]
  /\ UNCHANGED <<platform, primary, context, waker, ipi, input_page, reported>>
\* TLS base and stack come from the per-core data that gs points to, and
\* install_gdt loads the task register of the core it names.
LoadContext(c) ==
  /\ ApStep(c, "load_context", "load_cr3")
  /\ LET g == IF context[regs[c].gs].ready THEN regs[c].gs ELSE NoCore
     IN regs' = [regs EXCEPT ![c] = [@ EXCEPT !.tls = g, !.stack = g, !.tr = regs[c].gs]]
  /\ UNCHANGED <<platform, primary, context, waker, ipi, input_page, reported>>
LoadCr3(c) ==
  /\ ApStep(c, "load_cr3", "finish")
  /\ regs' = [regs EXCEPT ![c].cr3 = current.cr3]
  /\ UNCHANGED <<platform, primary, context, waker, ipi, input_page, reported>>
Finish(c) ==
  /\ ApStep(c, "finish", "ap_init")
  /\ finished_with_current' = TRUE
  /\ UNCHANGED <<platform, primary, context, current, destination, input, ipi, regs, input_page, reported>>

\* ap_reset: ap_init, which on Hyper-V allocates the input page of the core
\* that gs names, then the loop that runs core_initializer.
ApInit(c) ==
  /\ ApStep(c, "ap_init", "loop")
  /\ input_page' = IF platform = "hyperv" THEN input_page \cup {regs[c].gs} ELSE input_page
  /\ UNCHANGED <<platform, primary, context, waker, ipi, regs, reported>>
RunInitializer(c) ==
  /\ ApStep(c, "loop", "idle")
  /\ context[regs[c].gs].code
  /\ context' = [context EXCEPT ![regs[c].gs].code = FALSE, ![regs[c].gs].done = TRUE]
  /\ UNCHANGED <<platform, primary, waker, ipi, regs, input_page, reported>>

ApNext(c) ==
  \/ TakeIpi(c) \/ LoadControl(c) \/ LoadGs(c) \/ LoadContext(c) \/ LoadCr3(c) \/ Finish(c)
  \/ ApInit(c) \/ RunInitializer(c)

PrimaryNext ==
  \/ Prepare \/ StoreControl \/ StoreGs \/ ClearFinished \/ SetDestination \/ TriggerIpi
  \/ Delivered \/ WaitFinished \/ clone_initial_context \/ init_cpu_hyperv \/ WaitDone

Next == PrimaryNext \/ \E c \in Cores : ApNext(c)

Spec == Init /\ [][Next]_vars /\ WF_vars(PrimaryNext) /\ \A c \in Cores : WF_vars(ApNext(c))

-----------------------------------------------------------------------------

\* Once a core runs ap_reset it is on its own stack, TLS block, per-core data
\* and task state segment, and has the control registers of the core that
\* started it: the globals of init_cpu_generic are not overwritten for the
\* next core while this one still reads them.  On Hyper-V the control
\* registers may be missing, but only after a failed hypercall was logged.
OwnContext ==
  \A c \in Cores : ap[c] \in {"ap_init", "loop", "idle"} =>
    /\ regs[c].gs = c /\ regs[c].tls = c /\ regs[c].stack = c /\ regs[c].tr = c
    /\ ~reported => regs[c].cr = PrimaryRegs.cr /\ regs[c].cr3 = PrimaryRegs.cr3

\* No core starts another core's initializer and none is waited for twice:
\* when initialize_threads returns, every core has run the initializer that
\* was stored for it and is back in its loop.
AllInitialized == pc = "ready" => \A c \in Cores : ap[c] = "idle" /\ ~context[c].code
=============================================================================
