-------------------------------- MODULE Boot --------------------------------
(***************************************************************************)
(* The boot of the primary core: start (main64.asm) finds out the          *)
(* hypervisor on the early stack, before the BSS exists, and installs the  *)
(* functions and settings of that platform; it then clears the BSS, and    *)
(* startcc sets up one subsystem after the other through those functions.  *)
(***************************************************************************)
EXTENDS Integers, Sequences, FiniteSets

CONSTANTS
  BssContents  \* what the word of io_lock may hold before the BSS is cleared

VARIABLES
  machine,   \* what cpuid, the MSRs and the firmware say; never written
  pc,        \* where start is; "startcc" while it runs the stages
  stage,     \* number of the next stage of startcc
  fn,        \* the installed platform functions
  data,      \* globals that setup_hypervisor sets
  io_lock,   \* the lock of kwritev_stdout, an element of the BSS
  bss_clear, \* the BSS has been cleared
  have       \* what the stages so far have set up

vars == <<machine, pc, stage, fn, data, io_lock, bss_clear, have>>

Functions == {"setup_heap", "setup_cores", "setup_hypervisor_stage2", "setup_pagetable",
              "uartputc", "write_msr_virt", "shutdown", "init_cpu", "trigger_ipi", "ap_init",
              "allocate_visible", "generate_attestation_report"}
Generic == [f \in Functions |-> "generic"]
Unset == "unset"
Settings == {"hv_call_target", "sev_secret_page", "unmeasured_loader_data", "vmsa_settings",
             "is_environment_confidential", "tsc_freq"}

\* Settings without an initial value other than zero would be in the BSS;
\* these carry section(".data"), and tsc_freq has an initial value.
InData == Settings

Init ==
  /\ machine \in [sev : BOOLEAN, features : BOOLEAN, hypervisor : BOOLEAN,
                  signature : {"Microsoft Hv", "KVMKVMKVM", "other"}, maxleaf : {"low", "min", "timing"},
                  hypercalls : BOOLEAN, memory : BOOLEAN, acpi : BOOLEAN, debug : BOOLEAN]
  \* Machines that differ only in what is not looked at are one machine.
  /\ machine.sev => ~machine.hypervisor /\ machine.acpi
  /\ ~machine.sev => machine.features
  /\ ~machine.hypervisor => machine.signature = "other"
  /\ machine.signature = "other" => machine.maxleaf = "low"
  /\ machine.signature # "Microsoft Hv" => ~machine.hypercalls
  /\ pc = "setup_hypervisor" /\ stage = 1 /\ fn = Generic
  /\ data = [s \in Settings |-> IF s = "tsc_freq" THEN "default" ELSE Unset]
  /\ io_lock \in BssContents /\ bss_clear = FALSE /\ have = {}

-----------------------------------------------------------------------------
(* setup_hypervisor *)

\* A message goes through kwritev_stdout, which takes io_lock and gives it
\* back; with a lock that is not free it spins. LOG(INFO) exists in debug
\* builds only.
Log(next) == pc' = IF io_lock = 0 THEN next ELSE "spinning"
LogInfo(next) == IF machine.debug THEN Log(next) ELSE pc' = next

Step(p) == pc = p /\ UNCHANGED <<machine, io_lock, have>>
Early(p) == Step(p) /\ UNCHANGED <<stage, bss_clear>>

\* kabort logs its status and shuts down.
kabort == Log("stopped")

IsHyperv == machine.hypervisor /\ machine.signature = "Microsoft Hv" /\ machine.maxleaf # "low"
IsKvm == machine.hypervisor /\ machine.signature = "KVMKVMKVM"

\* SEV comes first, since cpuid is not trusted there; every other case ends
\* in LogInfo.
setup_hypervisor ==
  /\ Early("setup_hypervisor")
  /\ IF machine.sev THEN pc' = "init_hyperv_sev"
     ELSE LogInfo(CASE IsHyperv -> "init_hyperv" [] IsKvm -> "init_kvm" [] OTHER -> "clear_bss")
  /\ UNCHANGED <<fn, data>>

SevFunctions == [f \in Functions |-> "sev"]
init_hyperv_sev ==
  /\ Early("init_hyperv_sev")
  /\ IF ~machine.features THEN kabort /\ UNCHANGED <<fn, data>>
     ELSE /\ fn' = SevFunctions
          /\ data' = [data EXCEPT !.sev_secret_page = "page", !.unmeasured_loader_data = "page",
                                  !.vmsa_settings = "page", !.is_environment_confidential = "true",
                                  !.tsc_freq = "msr"]
          /\ pc' = "clear_bss"

\* The hypercall page of an earlier owner is reused when it is enabled.
init_hyperv ==
  /\ Early("init_hyperv")
  /\ fn' = [fn EXCEPT !["setup_hypervisor_stage2"] = "hyperv", !["init_cpu"] = "hyperv",
                      !["ap_init"] = "hyperv"]
  /\ data' = [data EXCEPT !.hv_call_target = IF machine.hypercalls THEN "firmware page" ELSE "own page",
                          !.tsc_freq = "msr"]
  /\ pc' = "clear_bss"

init_kvm ==
  /\ Early("init_kvm")
  /\ IF machine.maxleaf = "timing"
     THEN data' = [data EXCEPT !.tsc_freq = "cpuid"] /\ pc' = "clear_bss"
     ELSE Log("clear_bss") /\ UNCHANGED data
  /\ UNCHANGED fn

ClearBss ==
  /\ pc = "clear_bss"
  /\ bss_clear' = TRUE /\ io_lock' = 0
  /\ data' = [s \in Settings |-> IF s \in InData THEN data[s] ELSE Unset]
  /\ pc' = "startcc"
  /\ UNCHANGED <<machine, stage, fn, have>>

-----------------------------------------------------------------------------
(* startcc *)

\* Mutant: the page table is set up before the interrupt stacks exist.
Stages_PagetableFirst == <<"setup_heap", "allocator", "setup_cores", "ap_init", "setup_hypervisor_stage2",
             "setup_compartments", "setup_pagetable", "setup_gdt", "add_ranges", "setup_idt">>
Stages == <<"setup_heap", "allocator", "setup_cores", "ap_init", "setup_hypervisor_stage2",
            "setup_gdt", "setup_compartments", "setup_pagetable", "add_ranges", "setup_idt">>
Stage == Stages[stage]

\* What each stage reads of the earlier ones, with the functions installed.
Needs(s) ==
  CASE s = "setup_heap" -> {}
    [] s = "allocator" -> {"heap ranges"}
    [] s = "setup_cores" -> {"allocator"}
    [] s = "ap_init" -> [generic |-> {}, hyperv |-> {"allocator", "per-core data", "local APIC"},
                         sev |-> {"heap ranges", "per-core data"}][fn[s]]
    [] s = "setup_hypervisor_stage2" -> [generic |-> {}, hyperv |-> {"heap ranges"},
                                         sev |-> {"heap ranges", "GHCB"}][fn[s]]
    [] s = "setup_gdt" -> {"allocator", "per-core data"}
    [] s = "setup_compartments" -> {"gdt"}
    [] s = "setup_pagetable" -> {"allocator", "heap ranges", "io_shared_range", "interrupt stacks"}
    [] s = "add_ranges" -> {"heap ranges", "allocator", "pagetable"}
    [] s = "setup_idt" -> {"gdt"}

\* What each stage leaves behind: without ACPI tables parse_acpi sets nothing.
Gives(s) ==
  CASE s = "setup_heap" -> {"heap ranges"}
    [] s = "allocator" -> {"allocator"}
    [] s = "setup_cores" -> IF fn[s] = "sev" THEN {"per-core data"}
                            ELSE IF machine.acpi THEN {"per-core data", "local APIC"} ELSE {}
    [] s = "ap_init" -> IF fn[s] = "sev" THEN {"GHCB"} ELSE {}
    [] s = "setup_hypervisor_stage2" -> {"io_shared_range"}
    [] s = "setup_gdt" -> {"gdt", "interrupt stacks"}
    [] s = "setup_compartments" -> {"syscalls"}
    [] s = "setup_pagetable" -> {"pagetable"}
    [] s = "add_ranges" -> {"ranges"}
    [] s = "setup_idt" -> {"idt"}

\* A stage that finds its needs unmet works on a null pointer or a zero count.
startcc ==
  /\ pc = "startcc" /\ stage <= Len(Stages)
  /\ IF Stage = "allocator" /\ ~machine.memory
     THEN kabort /\ UNCHANGED <<stage, have>>
     ELSE /\ stage' = stage + 1 /\ have' = have \cup Gives(Stage)
          /\ UNCHANGED pc
  /\ UNCHANGED <<machine, fn, data, io_lock, bss_clear>>

MonzaMain ==
  /\ pc = "startcc" /\ stage > Len(Stages)
  /\ pc' = "monza_main"
  /\ UNCHANGED <<machine, stage, fn, data, io_lock, bss_clear, have>>

Halted == pc \in {"monza_main", "stopped", "spinning"} /\ UNCHANGED vars

Next ==
  \/ setup_hypervisor \/ init_hyperv_sev \/ init_hyperv \/ init_kvm \/ ClearBss
  \/ startcc \/ MonzaMain \/ Halted

Spec == Init /\ [][Next]_vars

-----------------------------------------------------------------------------

\* Whatever platform was found, every stage of startcc finds what the
\* platform's version of it reads already set up by earlier stages, given a
\* machine with ACPI tables: the per-core data and the local APIC exist when
\* ap_init uses them, the GHCB when stage 2 writes an MSR through it, and the
\* interrupt stacks when the page table maps them.
BootOrder ==
  pc = "startcc" /\ stage <= Len(Stages) /\ machine.acpi => Needs(Stage) \subseteq have

\* What setup_hypervisor found out is still there once the BSS has been
\* cleared: the functions installed for a platform never run without the
\* hypercall page, the loader pages or the confidentiality marker they use.
SettingsSurvive ==
  pc \in {"startcc", "monza_main"} =>
    /\ fn["init_cpu"] = "hyperv" => data.hv_call_target # Unset
    /\ fn["setup_heap"] = "sev" => /\ data.unmeasured_loader_data # Unset /\ data.vmsa_settings # Unset
                                   /\ data.is_environment_confidential = "true"
    /\ data.tsc_freq # Unset

=============================================================================
