----------------------------- MODULE GhcbCalls -----------------------------
(***************************************************************************)
(* The calls a core makes to the host through its GHCB: Hyper-V hypercalls *)
(* with their retry, writes of virtualised MSRs, guest requests,           *)
(* characters for the console, and the start of another core, which uses   *)
(* several of them.  The GHCB is one page with two formats, whose fields   *)
(* lie over the parameters of a hypercall; the word that holds a           *)
(* hypercall's input also receives its output.                             *)
(***************************************************************************)
EXTENDS Naturals

CONSTANTS
    Reps,        \* elements of work the host may split a hypercall into
    MaxCalls     \* bound: operations started

GhcbAssumption == Reps \in Nat \ {0} /\ MaxCalls \in Nat

VARIABLES
    pc,
    op,         \* the operation under way
    logs,       \* characters to write before going on
    after,      \* where the operation goes on when they are written, or
                \* after an exit in the base format
    ghcb,       \* the page
    reply,      \* local copy of hypercall_output
    processed,  \* history: elements the host has done for the current hypercall
    count       \* history: operations started

vars == <<pc, op, logs, after, ghcb, reply, processed, count>>

Fields == {"rax", "rcx", "rdx", "exit_code", "exit_info1", "exit_info2"}
NoWord == [kind |-> "none", code |-> "none", reps |-> 0]
Input(code, start) == [kind |-> "input", code |-> code, reps |-> start]
Output(s, done) == [kind |-> "output", code |-> s, reps |-> done]

Init ==
    /\ pc = "idle" /\ op = "none" /\ logs = 0 /\ after = "idle"
    /\ ghcb = [format |-> "none", word |-> NoWord, params |-> "none",
               exit_code |-> "none", valid |-> {}, written |-> {}]
    /\ reply = NoWord
    /\ processed = 0 /\ count = 0

Goto(label) == pc' = label

\* LOG writes its message through uartputc_sev, one exit for each character.
Log(label) == logs' = 1 /\ after' = label /\ Goto("log")

-----------------------------------------------------------------------------
(* Base format. *)

\* The bitmap starts from a local variable that is not initialised: any field
\* may be marked in it.
initial_guest(junk) == junk \cup {"exit_code", "exit_info1", "exit_info2"}

write_msr_valid(junk) == initial_guest(junk) \cup {"rcx", "rax", "rdx"}

uartputc_valid(junk) == initial_guest(junk) \cup {"rax"}

\* What an operation with the base format puts into the page, over whatever
\* parameters of a hypercall were there.
BasePage(exit_code, valid, fields) ==
    [ghcb EXCEPT !.format = "base", !.params = "none", !.exit_code = exit_code, !.valid = valid,
                 !.written = fields \cup {"exit_code", "exit_info1", "exit_info2"}]

write_msr_virt_sev ==
    /\ pc = "idle" /\ count < MaxCalls
    /\ count' = count + 1 /\ op' = "MSR"
    /\ \E junk \in SUBSET Fields :
           ghcb' = BasePage("MSR", write_msr_valid(junk), {"rcx", "rax", "rdx"})
    /\ Goto("exit") /\ after' = "idle"
    /\ UNCHANGED <<logs, reply, processed>>

\* The addresses of both pages are in exit_info1 and exit_info2.
sev_guest_request(operation, then) ==
    /\ pc = "idle" /\ count < MaxCalls
    /\ count' = count + 1 /\ op' = operation
    /\ \E junk \in SUBSET Fields : ghcb' = BasePage("GUEST_REQUEST", initial_guest(junk), {})
    /\ Goto("exit") /\ after' = then
    /\ UNCHANGED <<logs, reply, processed>>

generate_attestation_report_sev == sev_guest_request("GUEST_REQUEST", "idle")

uartputc_sev ==
    /\ pc = "log"
    /\ IF logs = 0
         THEN Goto(after) /\ op' = (IF after = "idle" THEN "none" ELSE op)
              /\ UNCHANGED <<logs, ghcb>>
         ELSE /\ logs' = logs - 1
              /\ \E junk \in SUBSET Fields :
                     ghcb' = BasePage("IOIO", uartputc_valid(junk), {"rax"})
              /\ Goto("exit_log") /\ UNCHANGED op
    /\ UNCHANGED <<after, reply, processed, count>>

\* The host has done as told, or reports a failure in exit_info1, for a guest
\* request in exit_info2.  That is logged before the core stops; when a log
\* message has failed, the core holds io_lock already and waits for it for ever.
VmgexitBase ==
    /\ \/ /\ pc = "exit" /\ Goto(after) /\ op' = (IF after = "idle" THEN "none" ELSE op)
          /\ UNCHANGED <<logs, after>>
       \/ pc = "exit" /\ Log("aborted") /\ UNCHANGED op
       \/ pc = "exit_log" /\ Goto("log") /\ UNCHANGED <<op, logs, after>>
       \/ pc = "exit_log" /\ Goto("io_lock") /\ UNCHANGED <<op, logs, after>>
    /\ UNCHANGED <<ghcb, reply, processed, count>>

-----------------------------------------------------------------------------
(* Hypercalls: call_hyperv_sev. *)

\* fill_start_vp_input, then the head of call_hyperv_sev.
BeginHypercall(code) ==
    /\ ghcb' = [ghcb EXCEPT !.params = code, !.format = "hypercall"]
    /\ reply' = Input(code, 0)
    /\ processed' = 0
    /\ Goto("input")

\* get_current_tsc_state_sev comes first.
init_cpu_sev == sev_guest_request("StartVirtualProcessor", "rmpadjust")

\* rmpadjust makes the page of the new core's state usable or fails.  vtl is 0,
\* so no call to HvCallEnableVpVtl comes first.
StartVp ==
    /\ pc = "rmpadjust"
    /\ \/ BeginHypercall(op) /\ UNCHANGED <<logs, after>>
       \/ Log("aborted") /\ UNCHANGED <<ghcb, reply, processed>>
    /\ UNCHANGED <<op, count>>

\* Mutant: the input is written only once, before the loop.
WriteInput_Once ==
    /\ pc = "input"
    /\ ghcb' = IF reply.reps = 0 THEN [ghcb EXCEPT !.word = reply] ELSE ghcb
    /\ Goto("hypercall")
    /\ UNCHANGED <<op, logs, after, reply, processed, count>>

WriteInput ==
    /\ pc = "input"
    /\ ghcb' = [ghcb EXCEPT !.word = reply]
    /\ Goto("hypercall")
    /\ UNCHANGED <<op, logs, after, reply, processed, count>>

\* The host works on the call from the element the input names, and gives up
\* for now or ends it.
VmgexitHypercall ==
    /\ pc = "hypercall"
    /\ \E done \in processed..Reps :
           /\ processed' = done
           /\ \/ /\ done < Reps
                 /\ ghcb' = [ghcb EXCEPT !.word = Output("TIMEOUT", done)]
              \/ \E s \in {"SUCCESS", "ACCESS_DENIED"} :
                     ghcb' = [ghcb EXCEPT !.word = Output(s, done)]
    /\ Goto("output")
    /\ UNCHANGED <<op, logs, after, reply, count>>

Again == Input(op, ghcb.word.reps)

\* A time-out is tried again; another status is returned, and init_cpu_sev
\* logs it.
ReadOutput ==
    /\ pc = "output"
    /\ IF ghcb.word.code = "TIMEOUT"
         THEN /\ reply' = Again
              /\ Goto("input") /\ UNCHANGED <<logs, after>>
         ELSE /\ Log(IF ghcb.word.code = "SUCCESS" THEN "idle" ELSE "aborted")
              /\ UNCHANGED reply
    /\ UNCHANGED <<op, ghcb, processed, count>>

Next ==
    \/ write_msr_virt_sev \/ generate_attestation_report_sev \/ init_cpu_sev \/ StartVp
    \/ uartputc_sev \/ VmgexitBase
    \/ WriteInput \/ VmgexitHypercall \/ ReadOutput

Spec == Init /\ [][Next]_vars

-----------------------------------------------------------------------------
(* Properties. *)

\* At each exit for a hypercall the host finds the call that is under way, with
\* its parameters and from the element it has stopped at, although its own
\* output was written over the input and log messages use the same page.
HostSeesTheCall ==
    pc = "hypercall" =>
        /\ ghcb.format = "hypercall" /\ ghcb.params = op
        /\ ghcb.word = Input(op, processed)

\* What the guest exits for.
ExitCode == IF pc = "exit_log" THEN "IOIO" ELSE IF op = "MSR" THEN "MSR" ELSE "GUEST_REQUEST"

\* At each exit in the base format, every field the operation has written is
\* marked valid.
WrittenIsValid ==
    pc \in {"exit", "exit_log"} =>
        /\ ghcb.format = "base" /\ ghcb.exit_code = ExitCode
        /\ ghcb.written \subseteq ghcb.valid

=============================================================================
