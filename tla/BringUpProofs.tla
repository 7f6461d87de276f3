---------------------------- MODULE BringUpProofs ----------------------------
(***************************************************************************)
(* For any number of cores: every core comes up on its own context, a      *)
(* flush reaches all cores, and whatever a trap interrupts goes on as it   *)
(* was.  Each part has an inductive invariant of its own (StartInv,        *)
(* PingInv, TrapInv) and one lemma for each of its actions.                *)
(***************************************************************************)
EXTENDS BringUp, TLAPS

(* Traps. *)

\* The registers of the core are a record.
Registers == {"rip", "ring", "cr3", "tls", "rbx", "rbp"}
Shaped(r) == DOMAIN r = Registers /\ r = [z \in Registers |-> r[z]]

\* What the registers hold, one by one.
Has(r, rip, ring, page, block, rbx, rbp) ==
  /\ Shaped(r) /\ r.rip = rip /\ r.ring = ring /\ r.cr3 = page /\ r.tls = block
  /\ r.rbx = rbx /\ r.rbp = rbp

\* The task between two instructions: privilege level, page table and TLS block
\* change one after the other.
Context(r, places, ring, page, block) ==
  r.rip \in {Trap!Task(p) : p \in places} /\ r.ring = ring /\ r.cr3 = page /\ r.tls = block
CodeState(r) ==
  /\ Shaped(r) /\ r.rbx = "own" /\ r.rbp = "own"
  /\ \/ Context(r, {"kernel"}, 0, Kernel, Kernel)
     \/ Context(r, {"compartment"}, 3, Comp, Comp)
TaskState(r) ==
  \/ CodeState(r)
  \/ /\ Shaped(r) /\ r.rbx = "own" /\ r.rbp = "own"
     /\ \/ Context(r, {"loop_suspend", "checked"}, 0, Kernel, Kernel)
        \/ Context(r, {"enter_tls", "syscall_cr3"}, 0, Kernel, Comp)
        \/ Context(r, {"enter_cr3", "syscall"}, 0, Comp, Comp)

\* A handler, by where it is: rbx keeps the page table of a compartment and rbp
\* the TLS pointer until they are restored.
Swapped == cpu.rbx = IF was.ring = 0 THEN Trap!Zero ELSE was.cr3
Untouched == cpu.cr3 = was.cr3 /\ cpu.tls = was.tls /\ cpu.rbx = was.rbx /\ cpu.rbp = was.rbp
Stage(p) ==
  /\ p \in {"gate", "saved", "iretq"} => Untouched
  /\ p = "swapped" => cpu.cr3 = Kernel /\ cpu.tls = was.tls /\ Swapped /\ cpu.rbp = was.rbp
  /\ p \in {"handler", "done", "kabort"} =>
       cpu.cr3 = Kernel /\ cpu.tls = Kernel /\ Swapped /\ cpu.rbp = was.tls
  /\ p = "cr3 back" => cpu.cr3 = was.cr3 /\ cpu.rbp = was.tls
  /\ p = "tls back" => cpu.cr3 = was.cr3 /\ cpu.tls = was.tls
  /\ p # "gate" => saved = [rbx |-> was.rbx, rbp |-> was.rbp]
FatalStage(p) ==
  /\ p = "gate" => cpu.cr3 = was.cr3
  /\ p # "gate" => cpu.cr3 = Kernel

Exceptions == {"breakpoint", "pagefault"}
Interrupts == {"wakeup", "nop"}
Places == {"gate", "saved", "swapped", "handler", "done", "kabort", "cr3 back", "tls back", "iretq"}

\* What the gates have of the task that they interrupted.
GateInv ==
  \/ \E g \in Exceptions, p \in Places :
       cpu.rip = [in |-> g, at |-> p] /\ CodeState(was) /\ Stage(p)
  \/ \E p \in {"gate", "handler", "jmp shutdown"} :
       cpu.rip = [in |-> "fatal", at |-> p] /\ CodeState(was) /\ FatalStage(p)
  \/ \E g \in Interrupts : cpu.rip = [in |-> g, at |-> "gate"] /\ TaskState(was) /\ Untouched

\* The words that the processor has pushed are those of the task.
Pushed == \E err : frame = [rip |-> was.rip, ring |-> was.ring, err |-> err]

TrapInv ==
  /\ overlapped \in BOOLEAN
  /\ ~overlapped => TaskState(cpu) \/ (Shaped(cpu) /\ cpu.ring = 0 /\ Pushed /\ GateInv)

\* The step clause of ResumesInterrupted.
Resumes ==
  ~Trap!In("task") /\ cpu'.rip.in = "task" =>
    cpu' = [was EXCEPT !.rip = IF Trap!In("nop") THEN @ ELSE Trap!reset_suspend_check(@)]

Sound == TrapInv' /\ Resumes

-----------------------------------------------------------------------------

\* Places of code are equal when both parts are.
LEMMA RipIs ==
  ASSUME NEW g, NEW p, NEW h, NEW q
  PROVE  /\ [in |-> g, at |-> p].in = g /\ [in |-> g, at |-> p].at = p
         /\ [in |-> g, at |-> p] = [in |-> h, at |-> q] <=> g = h /\ p = q
         /\ [[in |-> g, at |-> p] EXCEPT !.at = q] = [in |-> g, at |-> q]
<1>1. [in |-> g, at |-> p].in = g /\ [in |-> g, at |-> p].at = p
  BY Zenon
<1>2. [in |-> h, at |-> q].in = h /\ [in |-> h, at |-> q].at = q
  BY Zenon
<1>3. [[in |-> g, at |-> p] EXCEPT !.at = q] = [in |-> g, at |-> q]
  BY SMT
<1> QED BY Zenon, <1>1, <1>2, <1>3

\* A store into one or two registers leaves the others.
LEMMA Store ==
  ASSUME NEW r, Shaped(r), NEW v, NEW w
  PROVE  /\ Has([r EXCEPT !.rip = v], v, r.ring, r.cr3, r.tls, r.rbx, r.rbp)
         /\ Has([r EXCEPT !.ring = v], r.rip, v, r.cr3, r.tls, r.rbx, r.rbp)
         /\ Has([r EXCEPT !.cr3 = v], r.rip, r.ring, v, r.tls, r.rbx, r.rbp)
         /\ Has([r EXCEPT !.tls = v], r.rip, r.ring, r.cr3, v, r.rbx, r.rbp)
         /\ Has([r EXCEPT !.rbx = v], r.rip, r.ring, r.cr3, r.tls, v, r.rbp)
         /\ Has([r EXCEPT !.rip = v, !.ring = w], v, w, r.cr3, r.tls, r.rbx, r.rbp)
         /\ Has([r EXCEPT !.rbx = v, !.cr3 = w], r.rip, r.ring, w, r.tls, v, r.rbp)
         /\ Has([r EXCEPT !.rbp = v, !.tls = w], r.rip, r.ring, r.cr3, w, r.rbx, v)
         /\ Has([r EXCEPT !.rbx = v, !.rbp = w], r.rip, r.ring, r.cr3, r.tls, v, w)
  BY Zenon DEF Has, Shaped, Registers

\* Registers with the same contents are the same.
LEMMA SameRegisters ==
  ASSUME NEW r, Shaped(r), NEW s, Shaped(s), r.rip = s.rip, r.ring = s.ring, r.cr3 = s.cr3,
         r.tls = s.tls, r.rbx = s.rbx, r.rbp = s.rbp
  PROVE  r = s
  BY Zenon DEF Shaped, Registers


\* In which code the core is, while traps have not overlapped.
LEMMA Where ==
  ASSUME TrapInv, ~overlapped
  PROVE  /\ Trap!In("task") => TaskState(cpu)
         /\ ~Trap!In("task") => Shaped(cpu) /\ cpu.ring = 0 /\ Pushed /\ GateInv
<1>1. TaskState(cpu) => Trap!In("task")
  BY DEF TaskState, CodeState, Context, Trap!Task, Trap!In
<1>2. GateInv => ~Trap!In("task")
  <2>1. ASSUME NEW g \in Exceptions \cup {"fatal"} \cup Interrupts, NEW p, cpu.rip = [in |-> g, at |-> p]
        PROVE  ~Trap!In("task")
    BY <2>1 DEF Trap!In, Exceptions, Interrupts
  <2> QED BY Zenon, <2>1 DEF GateInv
<1> QED BY Zenon, <1>1, <1>2 DEF TrapInv

\* Where a handler is.
LEMMA HandlerAt ==
  ASSUME TrapInv, ~overlapped, NEW g \in Exceptions, NEW p, Trap!At(g, p)
  PROVE  /\ Shaped(cpu) /\ cpu.ring = 0 /\ Pushed /\ CodeState(was) /\ p \in Places /\ Stage(p)
         /\ cpu.rip = [in |-> g, at |-> p] /\ ~Trap!In("task") /\ ~Trap!In("nop")
<1>1. cpu.rip = [in |-> g, at |-> p] /\ ~Trap!In("task") /\ ~Trap!In("nop")
  BY DEF Trap!At, Trap!In, Exceptions
<1>2. GateInv /\ Shaped(cpu) /\ cpu.ring = 0 /\ Pushed
  BY Zenon, <1>1, Where
<1>3. g \notin Interrupts /\ g # "fatal"
  BY Zenon DEF Exceptions, Interrupts
<1>4. ASSUME NEW h, NEW q, cpu.rip = [in |-> h, at |-> q] PROVE h = g /\ q = p
  BY <1>1, <1>4
<1>5. PICK h \in Exceptions, q \in Places : cpu.rip = [in |-> h, at |-> q] /\ CodeState(was) /\ Stage(q)
  BY Zenon, <1>2, <1>3, <1>4 DEF GateInv
<1> QED BY Zenon, <1>1, <1>2, <1>4, <1>5

\* The words of the frame are those of the task, and the code of the task that
\* raises exceptions is not between a check and hlt.
LEMMA FrameIs ==
  ASSUME Pushed
  PROVE  /\ frame.rip = was.rip /\ frame.ring = was.ring
         /\ \E err : frame = [rip |-> was.rip, ring |-> was.ring, err |-> err]
<1>1. PICK err : frame = [rip |-> was.rip, ring |-> was.ring, err |-> err]
  BY Zenon DEF Pushed
<1>2. frame.rip = was.rip /\ frame.ring = was.ring
  BY SMT, <1>1
<1> QED BY Zenon, <1>1, <1>2
LEMMA CodeRip ==
  ASSUME NEW r, CodeState(r)
  PROVE  Trap!reset_suspend_check(r.rip) = r.rip
<1>1. PICK p \in {"kernel", "compartment"} : r.rip = Trap!Task(p)
  BY Zenon DEF CodeState, Context
<1>2. Trap!Task(p) # Trap!Task("checked")
  BY SMT DEF Trap!Task
<1> QED BY Zenon, <1>1, <1>2 DEF Trap!reset_suspend_check

\* A step within a handler.
LEMMA WithinHandler ==
  ASSUME NEW g \in Exceptions, NEW p \in Places, cpu'.rip = [in |-> g, at |-> p], Shaped(cpu)', cpu'.ring = 0,
         Pushed, CodeState(was), UNCHANGED <<was, overlapped>>, Pushed', Stage(p)', TrapInv
  PROVE  Sound
<1>1. cpu'.rip.in # "task"
  BY DEF Exceptions
<1>2. CodeState(was)'
  BY Zenon DEF CodeState, Context, Shaped
<1>3. GateInv'
  BY Zenon, <1>2 DEF GateInv
<1> QED BY Zenon, <1>1, <1>3 DEF Sound, Resumes, TrapInv

\* A handler goes on, with the registers r.
LEMMA MoveStep ==
  ASSUME NEW r, NEW g, NEW p, NEW q, Has(r, [in |-> g, at |-> p], 0, r.cr3, r.tls, r.rbx, r.rbp), Trap!Move(q, r)
  PROVE  Has(cpu', [in |-> g, at |-> q], 0, r.cr3, r.tls, r.rbx, r.rbp)
<1>1. Shaped(r) /\ r.rip = [in |-> g, at |-> p] /\ r.ring = 0
  BY Zenon DEF Has
<1>2. [r.rip EXCEPT !.at = q] = [in |-> g, at |-> q]
  BY SMT, <1>1
<1>3. cpu' = [r EXCEPT !.rip = [in |-> g, at |-> q]]
  BY Zenon, <1>2 DEF Trap!Move
<1> QED BY Zenon, <1>1, <1>3, Store

\* The registers of the task are saved.
LEMMA SaveRegs ==
  ASSUME TrapInv, ~overlapped, NEW g \in Exceptions, Trap!save_regs(g)
  PROVE  Sound
<1>1. /\ Shaped(cpu) /\ cpu.ring = 0 /\ Pushed /\ CodeState(was) /\ Stage("gate")
      /\ cpu.rip = [in |-> g, at |-> "gate"]
  BY Zenon, HandlerAt DEF Trap!save_regs
<1>2. Has(cpu', [in |-> g, at |-> "saved"], 0, cpu.cr3, cpu.tls, cpu.rbx, cpu.rbp)
  <2>1. Has(cpu, [in |-> g, at |-> "gate"], 0, cpu.cr3, cpu.tls, cpu.rbx, cpu.rbp)
    BY Zenon, <1>1 DEF Has
  <2>2. Trap!Move("saved", cpu)
    BY Zenon DEF Trap!save_regs
  <2> QED BY Zenon, <2>1, <2>2, MoveStep
<1>3. Pushed' /\ UNCHANGED <<was, overlapped>> /\ saved' = [rbx |-> was.rbx, rbp |-> was.rbp]
  BY Zenon, <1>1 DEF Trap!save_regs, Trap!Keep, Pushed, Stage, Untouched
<1>4. Stage("saved")'
  BY Zenon, <1>1, <1>2, <1>3 DEF Stage, Swapped, Untouched, Has
<1> QED BY Zenon, <1>1, <1>2, <1>3, <1>4, WithinHandler DEF Has, Places

\* The page table of the core is put in place of that of a compartment.
LEMMA SwapCr3 ==
  ASSUME TrapInv, ~overlapped, NEW g \in Exceptions, Trap!swap_kernel_cr3(g)
  PROVE  Sound
<1>1. /\ Shaped(cpu) /\ cpu.ring = 0 /\ Pushed /\ CodeState(was) /\ Stage("saved")
      /\ cpu.rip = [in |-> g, at |-> "saved"]
  BY Zenon, HandlerAt DEF Trap!swap_kernel_cr3
<1>2. frame.ring = was.ring
  BY Zenon, <1>1, FrameIs
<1>3. \E x : /\ Has(cpu', [in |-> g, at |-> "swapped"], 0, Kernel, cpu.tls, x, cpu.rbp)
            /\ x = IF was.ring = 0 THEN Trap!Zero ELSE was.cr3
  <2>1. CASE was.ring = 0
    <3>1. PICK r : r = [cpu EXCEPT !.rbx = Trap!Zero]
      BY Zenon
    <3>2. Has(r, cpu.rip, cpu.ring, cpu.cr3, cpu.tls, Trap!Zero, cpu.rbp)
      BY Zenon, <1>1, <3>1, Store
    <3>3. Has(r, [in |-> g, at |-> "saved"], 0, r.cr3, r.tls, r.rbx, r.rbp)
      BY Zenon, <1>1, <3>2 DEF Has
    <3>4. Trap!Move("swapped", r)
      BY Zenon, <1>2, <2>1, <3>1 DEF Trap!swap_kernel_cr3
    <3>5. Has(cpu', [in |-> g, at |-> "swapped"], 0, r.cr3, r.tls, r.rbx, r.rbp)
      BY Zenon, <3>3, <3>4, MoveStep
    <3>6. cpu.cr3 = Kernel
      BY <1>1, <2>1 DEF CodeState, Context, Stage, Untouched
    <3> QED BY Zenon, <2>1, <3>2, <3>5, <3>6 DEF Has
  <2>2. CASE was.ring # 0
    <3>1. PICK r : r = [cpu EXCEPT !.rbx = cpu.cr3, !.cr3 = Kernel]
      BY Zenon
    <3>2. Has(r, cpu.rip, cpu.ring, Kernel, cpu.tls, cpu.cr3, cpu.rbp)
      BY Zenon, <1>1, <3>1, Store
    <3>3. Has(r, [in |-> g, at |-> "saved"], 0, r.cr3, r.tls, r.rbx, r.rbp)
      BY Zenon, <1>1, <3>2 DEF Has
    <3>4. Trap!Move("swapped", r)
      BY Zenon, <1>2, <2>2, <3>1 DEF Trap!swap_kernel_cr3
    <3>5. Has(cpu', [in |-> g, at |-> "swapped"], 0, r.cr3, r.tls, r.rbx, r.rbp)
      BY Zenon, <3>3, <3>4, MoveStep
    <3>6. cpu.cr3 = was.cr3
      BY Zenon, <1>1 DEF Stage, Untouched
    <3> QED BY Zenon, <2>2, <3>2, <3>5, <3>6 DEF Has
  <2> QED BY Zenon, <2>1, <2>2
<1>4. Pushed' /\ UNCHANGED <<was, saved, overlapped>>
  BY Zenon, <1>1 DEF Trap!swap_kernel_cr3, Trap!Keep, Pushed
<1>5. Stage("swapped")'
  BY Zenon, <1>1, <1>3, <1>4 DEF Stage, Swapped, Untouched, Has
<1> QED BY Zenon, <1>1, <1>3, <1>4, <1>5, WithinHandler DEF Has, Places

\* The TLS pointer of the core is put in place of any other.
LEMMA SwapTls ==
  ASSUME TrapInv, ~overlapped, NEW g \in Exceptions, Trap!swap_tls(g)
  PROVE  Sound
<1>1. /\ Shaped(cpu) /\ cpu.ring = 0 /\ Pushed /\ CodeState(was) /\ Stage("swapped")
      /\ cpu.rip = [in |-> g, at |-> "swapped"]
  BY Zenon, HandlerAt DEF Trap!swap_tls
<1>2. Has(cpu', [in |-> g, at |-> "handler"], 0, cpu.cr3, Kernel, cpu.rbx, cpu.tls)
  <2>1. PICK r : r = [cpu EXCEPT !.rbp = cpu.tls, !.tls = Kernel]
    BY Zenon
  <2>2. Has(r, cpu.rip, cpu.ring, cpu.cr3, Kernel, cpu.rbx, cpu.tls)
    BY Zenon, <1>1, <2>1, Store
  <2>3. Has(r, [in |-> g, at |-> "swapped"], 0, r.cr3, r.tls, r.rbx, r.rbp)
    BY Zenon, <1>1, <2>2 DEF Has
  <2>4. Trap!Move("handler", r)
    BY Zenon, <2>1 DEF Trap!swap_tls
  <2>5. Has(cpu', [in |-> g, at |-> "handler"], 0, r.cr3, r.tls, r.rbx, r.rbp)
    BY Zenon, <2>3, <2>4, MoveStep
  <2> QED BY Zenon, <2>2, <2>5 DEF Has
<1>3. Pushed' /\ UNCHANGED <<was, saved, overlapped>>
  BY Zenon, <1>1 DEF Trap!swap_tls, Trap!Keep, Pushed
<1>4. Stage("handler")'
  BY Zenon, <1>1, <1>2, <1>3 DEF Stage, Swapped, Untouched, Has
<1> QED BY Zenon, <1>1, <1>2, <1>3, <1>4, WithinHandler DEF Has, Places

\* print_exception returns.
LEMMA PrintException ==
  ASSUME TrapInv, ~overlapped, Trap!print_exception
  PROVE  Sound
<1> DEFINE g == "breakpoint"
<1>0. g \in Exceptions
  BY Zenon DEF Exceptions
<1>1. /\ Shaped(cpu) /\ cpu.ring = 0 /\ Pushed /\ CodeState(was) /\ Stage("handler")
      /\ cpu.rip = [in |-> g, at |-> "handler"]
  BY Zenon, <1>0, HandlerAt DEF Trap!print_exception
<1>2. Has(cpu', [in |-> g, at |-> "done"], 0, cpu.cr3, cpu.tls, cpu.rbx, cpu.rbp)
  <2>1. Has(cpu, [in |-> g, at |-> "handler"], 0, cpu.cr3, cpu.tls, cpu.rbx, cpu.rbp)
    BY Zenon, <1>1 DEF Has
  <2>2. Trap!Move("done", cpu)
    BY Zenon DEF Trap!print_exception
  <2> QED BY Zenon, <2>1, <2>2, MoveStep
<1>3. Pushed' /\ UNCHANGED <<was, saved, overlapped>>
  BY Zenon, <1>1 DEF Trap!print_exception, Trap!Keep, Pushed
<1>4. Stage("done")'
  BY Zenon, <1>1, <1>2, <1>3 DEF Stage, Swapped, Untouched, Has
<1> QED BY Zenon, <1>0, <1>1, <1>2, <1>3, <1>4, WithinHandler DEF Has, Places

\* page_fault_handler returns or stops the machine.
LEMMA PageFault ==
  ASSUME TrapInv, ~overlapped, Trap!page_fault_handler
  PROVE  Sound
<1> DEFINE g == "pagefault"
<1>0. g \in Exceptions
  BY Zenon DEF Exceptions
<1>1. /\ Shaped(cpu) /\ cpu.ring = 0 /\ Pushed /\ CodeState(was) /\ Stage("handler")
      /\ cpu.rip = [in |-> g, at |-> "handler"]
  BY Zenon, <1>0, HandlerAt DEF Trap!page_fault_handler
<1>2. PICK q \in {"done", "kabort"} : Trap!Move(q, cpu)
  BY Zenon DEF Trap!page_fault_handler
<1>3. Has(cpu', [in |-> g, at |-> q], 0, cpu.cr3, cpu.tls, cpu.rbx, cpu.rbp)
  <2>1. Has(cpu, [in |-> g, at |-> "handler"], 0, cpu.cr3, cpu.tls, cpu.rbx, cpu.rbp)
    BY Zenon, <1>1 DEF Has
  <2> QED BY Zenon, <1>2, <2>1, MoveStep
<1>4. Pushed' /\ UNCHANGED <<was, saved, overlapped>>
  BY Zenon, <1>1 DEF Trap!page_fault_handler, Trap!Keep, Pushed
<1>5. Stage(q)'
  BY Zenon, <1>1, <1>2, <1>3, <1>4 DEF Stage, Swapped, Has
<1> QED BY Zenon, <1>0, <1>1, <1>2, <1>3, <1>4, <1>5, WithinHandler DEF Has, Places

\* The page table of the task is put back.
LEMMA RestoreCr3 ==
  ASSUME TrapInv, ~overlapped, Trap!TrapAssumption, NEW g \in Exceptions, Trap!restore_cr3(g)
  PROVE  Sound
<1>1. /\ Shaped(cpu) /\ cpu.ring = 0 /\ Pushed /\ CodeState(was) /\ Stage("done")
      /\ cpu.rip = [in |-> g, at |-> "done"]
  BY Zenon, HandlerAt DEF Trap!restore_cr3
<1>2. Has(cpu', [in |-> g, at |-> "cr3 back"], 0, (IF cpu.rbx # Trap!Zero THEN cpu.rbx ELSE cpu.cr3), cpu.tls, cpu.rbx, cpu.rbp)
  <2>1. PICK r : r = [cpu EXCEPT !.cr3 = IF cpu.rbx # Trap!Zero THEN cpu.rbx ELSE @]
    BY Zenon
  <2>2. Has(r, cpu.rip, cpu.ring, (IF cpu.rbx # Trap!Zero THEN cpu.rbx ELSE cpu.cr3), cpu.tls, cpu.rbx, cpu.rbp)
    BY Zenon, <1>1, <2>1, Store
  <2>3. Has(r, [in |-> g, at |-> "done"], 0, r.cr3, r.tls, r.rbx, r.rbp)
    BY Zenon, <1>1, <2>2 DEF Has
  <2>4. Trap!Move("cr3 back", r)
    BY Zenon, <2>1 DEF Trap!restore_cr3
  <2>5. Has(cpu', [in |-> g, at |-> "cr3 back"], 0, r.cr3, r.tls, r.rbx, r.rbp)
    BY Zenon, <2>3, <2>4, MoveStep
  <2> QED BY Zenon, <2>2, <2>5 DEF Has
<1>3. Pushed' /\ UNCHANGED <<was, saved, overlapped>>
  BY Zenon, <1>1 DEF Trap!restore_cr3, Trap!Keep, Pushed
<1>4. (IF cpu.rbx # Trap!Zero THEN cpu.rbx ELSE cpu.cr3) = was.cr3
  BY <1>1 DEF CodeState, Context, Stage, Swapped, Trap!TrapAssumption
<1>5. Stage("cr3 back")'
  BY Zenon, <1>1, <1>2, <1>3, <1>4 DEF Stage, Has
<1> QED BY Zenon, <1>1, <1>2, <1>3, <1>5, WithinHandler DEF Has, Places

\* The TLS pointer of the task is put back.
LEMMA RestoreTls ==
  ASSUME TrapInv, ~overlapped, NEW g \in Exceptions, Trap!restore_tls(g)
  PROVE  Sound
<1>1. /\ Shaped(cpu) /\ cpu.ring = 0 /\ Pushed /\ CodeState(was) /\ Stage("cr3 back")
      /\ cpu.rip = [in |-> g, at |-> "cr3 back"]
  BY Zenon, HandlerAt DEF Trap!restore_tls
<1>2. Has(cpu', [in |-> g, at |-> "tls back"], 0, cpu.cr3, cpu.rbp, cpu.rbx, cpu.rbp)
  <2>1. PICK r : r = [cpu EXCEPT !.tls = cpu.rbp]
    BY Zenon
  <2>2. Has(r, cpu.rip, cpu.ring, cpu.cr3, cpu.rbp, cpu.rbx, cpu.rbp)
    BY Zenon, <1>1, <2>1, Store
  <2>3. Has(r, [in |-> g, at |-> "cr3 back"], 0, r.cr3, r.tls, r.rbx, r.rbp)
    BY Zenon, <1>1, <2>2 DEF Has
  <2>4. Trap!Move("tls back", r)
    BY Zenon, <2>1 DEF Trap!restore_tls
  <2>5. Has(cpu', [in |-> g, at |-> "tls back"], 0, r.cr3, r.tls, r.rbx, r.rbp)
    BY Zenon, <2>3, <2>4, MoveStep
  <2> QED BY Zenon, <2>2, <2>5 DEF Has
<1>3. Pushed' /\ UNCHANGED <<was, saved, overlapped>>
  BY Zenon, <1>1 DEF Trap!restore_tls, Trap!Keep, Pushed
<1>4. Stage("tls back")'
  BY Zenon, <1>1, <1>2, <1>3 DEF Stage, Swapped, Untouched, Has
<1> QED BY Zenon, <1>1, <1>2, <1>3, <1>4, WithinHandler DEF Has, Places

\* The registers of the task are put back; it was at no semaphore check.
LEMMA RestoreRegs ==
  ASSUME TrapInv, ~overlapped, NEW g \in Exceptions, Trap!restore_regs(g)
  PROVE  Sound
<1>1. /\ Shaped(cpu) /\ cpu.ring = 0 /\ Pushed /\ CodeState(was) /\ Stage("tls back")
      /\ cpu.rip = [in |-> g, at |-> "tls back"]
  BY Zenon, HandlerAt DEF Trap!restore_regs
<1>2. Has(cpu', [in |-> g, at |-> "iretq"], 0, cpu.cr3, cpu.tls, saved.rbx, saved.rbp)
  <2>1. PICK r : r = [cpu EXCEPT !.rbx = saved.rbx, !.rbp = saved.rbp]
    BY Zenon
  <2>2. Has(r, cpu.rip, cpu.ring, cpu.cr3, cpu.tls, saved.rbx, saved.rbp)
    BY Zenon, <1>1, <2>1, Store
  <2>3. Has(r, [in |-> g, at |-> "tls back"], 0, r.cr3, r.tls, r.rbx, r.rbp)
    BY Zenon, <1>1, <2>2 DEF Has
  <2>4. Trap!Move("iretq", r)
    BY Zenon, <2>1 DEF Trap!restore_regs
  <2>5. Has(cpu', [in |-> g, at |-> "iretq"], 0, r.cr3, r.tls, r.rbx, r.rbp)
    BY Zenon, <2>3, <2>4, MoveStep
  <2> QED BY Zenon, <2>2, <2>5 DEF Has
<1>3. Pushed' /\ UNCHANGED <<was, saved, overlapped>>
  <2>1. Trap!reset_suspend_check(was.rip) = was.rip
    BY Zenon, <1>1, CodeRip
  <2>2. PICK err : frame = [rip |-> was.rip, ring |-> was.ring, err |-> err]
    BY Zenon, <1>1 DEF Pushed
  <2>3. frame' = [frame EXCEPT !.rip = was.rip]
    BY Zenon, <1>1, <2>1, FrameIs DEF Trap!restore_regs
  <2>4. frame' = [rip |-> was.rip, ring |-> was.ring, err |-> err]
    BY SMT, <2>2, <2>3
  <2> QED BY Zenon, <2>4 DEF Trap!restore_regs, Trap!Keep, Pushed
<1>4. saved.rbx = was.rbx /\ saved.rbp = was.rbp
  <2>1. saved = [rbx |-> was.rbx, rbp |-> was.rbp]
    BY Zenon, <1>1 DEF Stage
  <2> QED BY SMT, <2>1
<1>5. Stage("iretq")'
  BY Zenon, <1>1, <1>2, <1>3, <1>4 DEF Stage, Swapped, Untouched, Has
<1> QED BY Zenon, <1>1, <1>2, <1>3, <1>5, WithinHandler DEF Has, Places

\* The task goes on with the registers that it had.
LEMMA TaskStep ==
  ASSUME TrapInv, TaskState(was), UNCHANGED <<was, overlapped>>, NEW rip,
         rip = IF Trap!In("nop") THEN was.rip ELSE Trap!reset_suspend_check(was.rip),
         Has(cpu', rip, was.ring, was.cr3, was.tls, was.rbx, was.rbp)
  PROVE  Sound
<1>1. Shaped(was)
  BY Zenon DEF TaskState, CodeState
<1>2. PICK r : r = [was EXCEPT !.rip = rip]
  BY Zenon
<1>3. Has(r, rip, was.ring, was.cr3, was.tls, was.rbx, was.rbp)
  BY Zenon, <1>1, <1>2, Store
<1>4. cpu' = r
  BY Zenon, <1>3, SameRegisters DEF Has
<1>5. Resumes
  BY Zenon, <1>2, <1>4 DEF Resumes
<1>6. TaskState(cpu')
  <2>1. CASE rip = was.rip
    <3>1. cpu' = was
      BY Zenon, <1>1, <2>1, SameRegisters DEF Has
    <3> QED BY Zenon, <3>1
  <2>2. CASE rip # was.rip
    <3>1. was.rip = Trap!Task("checked") /\ rip = Trap!Task("loop_suspend")
      BY Zenon, <2>2 DEF Trap!reset_suspend_check
    <3>2. was.ring = 0 /\ was.cr3 = Kernel /\ was.tls = Kernel /\ was.rbx = "own" /\ was.rbp = "own"
      <4>1. ASSUME NEW p, p # "checked" PROVE was.rip # Trap!Task(p)
        BY SMT, <3>1, <4>1 DEF Trap!Task
      <4> QED BY Zenon, <4>1 DEF TaskState, CodeState, Context
    <3> QED BY Zenon, <3>1, <3>2 DEF Has, TaskState, Context
  <2> QED BY Zenon, <2>1, <2>2
<1> QED BY Zenon, <1>5, <1>6 DEF Sound, TrapInv

\* A handler returns.
LEMMA Iretq ==
  ASSUME TrapInv, ~overlapped, NEW g \in Exceptions, Trap!iretq(g)
  PROVE  Sound
<1>1. /\ Shaped(cpu) /\ Pushed /\ CodeState(was) /\ Stage("iretq") /\ ~Trap!In("nop")
  BY Zenon, HandlerAt DEF Trap!iretq
<1>2. cpu' = [cpu EXCEPT !.rip = frame.rip, !.ring = frame.ring] /\ UNCHANGED <<was, overlapped>>
  BY Zenon DEF Trap!iretq, Trap!Keep
<1>3. Has(cpu', was.rip, was.ring, cpu.cr3, cpu.tls, cpu.rbx, cpu.rbp)
  <2>1. frame.rip = was.rip /\ frame.ring = was.ring
    BY Zenon, <1>1, FrameIs
  <2>2. Has(cpu', frame.rip, frame.ring, cpu.cr3, cpu.tls, cpu.rbx, cpu.rbp)
    BY Zenon, <1>1, <1>2, Store
  <2> QED BY Zenon, <2>1, <2>2
<1>4. Has(cpu', was.rip, was.ring, was.cr3, was.tls, was.rbx, was.rbp)
  BY Zenon, <1>1, <1>3 DEF Stage, Untouched
<1>5. was.rip = IF Trap!In("nop") THEN was.rip ELSE Trap!reset_suspend_check(was.rip)
  BY Zenon, <1>1, CodeRip
<1> QED BY Zenon, <1>1, <1>2, <1>4, <1>5, TaskStep DEF TaskState

\* Where an interrupt is.
LEMMA InterruptAt ==
  ASSUME TrapInv, ~overlapped, NEW g \in Interrupts, Trap!In(g)
  PROVE  Shaped(cpu) /\ cpu.ring = 0 /\ Pushed /\ TaskState(was) /\ Untouched
<1>1. ~Trap!In("task")
  BY Zenon DEF Trap!In, Interrupts
<1>2. GateInv /\ Shaped(cpu) /\ cpu.ring = 0 /\ Pushed
  BY Zenon, <1>1, Where
<1>3. ASSUME NEW h, NEW q, cpu.rip = [in |-> h, at |-> q] PROVE h = g
  BY SMT, <1>3 DEF Trap!In
<1>4. g \notin Exceptions /\ g # "fatal"
  BY Zenon DEF Exceptions, Interrupts
<1> QED BY Zenon, <1>2, <1>3, <1>4 DEF GateInv

\* The two interrupts return.
LEMMA Wakeup ==
  ASSUME TrapInv, ~overlapped, Trap!wakeup_handler
  PROVE  Sound
<1>1. Shaped(cpu) /\ Pushed /\ TaskState(was) /\ Untouched /\ ~Trap!In("nop")
  <2>1. Trap!In("wakeup") /\ "wakeup" \in Interrupts
    BY Zenon DEF Trap!wakeup_handler, Interrupts
  <2>2. ~Trap!In("nop")
    BY Zenon, <2>1 DEF Trap!In
  <2> QED BY Zenon, <2>1, <2>2, InterruptAt
<1>2. /\ cpu' = [cpu EXCEPT !.rip = Trap!reset_suspend_check(frame.rip), !.ring = frame.ring]
      /\ UNCHANGED <<was, overlapped>>
  BY Zenon DEF Trap!wakeup_handler, Trap!Keep
<1>3. Has(cpu', Trap!reset_suspend_check(frame.rip), frame.ring, cpu.cr3, cpu.tls, cpu.rbx, cpu.rbp)
  BY Zenon, <1>1, <1>2, Store
<1>4. frame.rip = was.rip /\ frame.ring = was.ring
  BY Zenon, <1>1, FrameIs
<1>5. Has(cpu', Trap!reset_suspend_check(was.rip), was.ring, was.cr3, was.tls, was.rbx, was.rbp)
  BY Zenon, <1>1, <1>3, <1>4 DEF Untouched
<1> QED BY Zenon, <1>1, <1>2, <1>5, TaskStep
LEMMA Nop ==
  ASSUME TrapInv, ~overlapped, Trap!nop_interrupt_gate
  PROVE  Sound
<1>1. Shaped(cpu) /\ Pushed /\ TaskState(was) /\ Untouched /\ Trap!In("nop")
  <2>1. Trap!In("nop") /\ "nop" \in Interrupts
    BY Zenon DEF Trap!nop_interrupt_gate, Interrupts
  <2> QED BY Zenon, <2>1, InterruptAt
<1>2. /\ cpu' = [cpu EXCEPT !.rip = frame.rip, !.ring = frame.ring]
      /\ UNCHANGED <<was, overlapped>>
  BY Zenon DEF Trap!nop_interrupt_gate, Trap!Keep
<1>3. Has(cpu', frame.rip, frame.ring, cpu.cr3, cpu.tls, cpu.rbx, cpu.rbp)
  BY Zenon, <1>1, <1>2, Store
<1>4. frame.rip = was.rip /\ frame.ring = was.ring
  BY Zenon, <1>1, FrameIs
<1>5. Has(cpu', was.rip, was.ring, was.cr3, was.tls, was.rbx, was.rbp)
  BY Zenon, <1>1, <1>3, <1>4 DEF Untouched
<1> QED BY Zenon, <1>1, <1>2, <1>5, TaskStep

\* What the task has at a place of it.
Row(p, ring, page, block) ==
  \/ p \in {"kernel", "loop_suspend", "checked"} /\ ring = 0 /\ page = Kernel /\ block = Kernel
  \/ p \in {"enter_tls", "syscall_cr3"} /\ ring = 0 /\ page = Kernel /\ block = Comp
  \/ p \in {"enter_cr3", "syscall"} /\ ring = 0 /\ page = Comp /\ block = Comp
  \/ p = "compartment" /\ ring = 3 /\ page = Comp /\ block = Comp
LEMMA TaskAt ==
  ASSUME TrapInv, ~overlapped, NEW p, Trap!At("task", p)
  PROVE  /\ TaskState(cpu) /\ Shaped(cpu) /\ Trap!In("task") /\ cpu.rip = Trap!Task(p)
         /\ cpu.rbx = "own" /\ cpu.rbp = "own" /\ Row(p, cpu.ring, cpu.cr3, cpu.tls)
<1>1. cpu.rip = Trap!Task(p) /\ Trap!In("task")
  BY SMT DEF Trap!At, Trap!Task, Trap!In
<1>2. TaskState(cpu)
  BY Zenon, <1>1, Where
<1>3. ASSUME NEW q, cpu.rip = Trap!Task(q) PROVE p = q
  BY SMT, <1>1, <1>3 DEF Trap!Task
<1>4. Row(p, cpu.ring, cpu.cr3, cpu.tls)
  BY Zenon, <1>2, <1>3 DEF TaskState, CodeState, Context, Row
<1> QED BY Zenon, <1>1, <1>2, <1>4 DEF TaskState, CodeState

\* The task takes a step from one place to the next.
LEMMA Walk ==
  ASSUME TrapInv, Trap!In("task"), UNCHANGED overlapped, NEW p, NEW ring, NEW page, NEW block,
         Row(p, ring, page, block), Has(cpu', Trap!Task(p), ring, page, block, "own", "own")
  PROVE  Sound
<1>1. TaskState(cpu')
  BY Zenon DEF Has, Row, TaskState, CodeState, Context
<1> QED BY Zenon, <1>1 DEF Sound, Resumes, TrapInv
LEMMA Forward ==
  ASSUME TrapInv, ~overlapped, NEW p, NEW q, NEW r, Trap!Step(p, q, r),
         Has(r, cpu.rip, r.ring, r.cr3, r.tls, cpu.rbx, cpu.rbp), Row(q, r.ring, r.cr3, r.tls)
  PROVE  Sound
<1>1. Trap!At("task", p) /\ cpu' = [r EXCEPT !.rip = Trap!Task(q)] /\ UNCHANGED overlapped
  BY Zenon DEF Trap!Step
<1>2. Trap!In("task") /\ cpu.rbx = "own" /\ cpu.rbp = "own"
  BY Zenon, <1>1, TaskAt
<1>3. Shaped(r) /\ r.rbx = "own" /\ r.rbp = "own"
  BY Zenon, <1>2 DEF Has
<1>4. Has(cpu', Trap!Task(q), r.ring, r.cr3, r.tls, r.rbx, r.rbp)
  BY Zenon, <1>1, <1>3, Store
<1> QED BY Zenon, <1>1, <1>2, <1>3, <1>4, Walk

\* The task waits for a semaphore.
LEMMA Acquire ==
  ASSUME TrapInv, ~overlapped, Trap!acquire_semaphore
  PROVE  Sound
<1>1. CASE Trap!Step("kernel", "loop_suspend", cpu)
  <2>1. Shaped(cpu) /\ Row("kernel", cpu.ring, cpu.cr3, cpu.tls)
    BY Zenon, <1>1, TaskAt DEF Trap!Step
  <2>2. Has(cpu, cpu.rip, cpu.ring, cpu.cr3, cpu.tls, cpu.rbx, cpu.rbp)
    BY Zenon, <2>1 DEF Has
  <2>3. Row("loop_suspend", cpu.ring, cpu.cr3, cpu.tls)
    BY Zenon, <2>1 DEF Row
  <2> QED BY Zenon, <1>1, <2>2, <2>3, Forward
<1>2. CASE Trap!Step("loop_suspend", "checked", cpu)
  <2>1. Shaped(cpu) /\ Row("loop_suspend", cpu.ring, cpu.cr3, cpu.tls)
    BY Zenon, <1>2, TaskAt DEF Trap!Step
  <2>2. Has(cpu, cpu.rip, cpu.ring, cpu.cr3, cpu.tls, cpu.rbx, cpu.rbp)
    BY Zenon, <2>1 DEF Has
  <2>3. Row("checked", cpu.ring, cpu.cr3, cpu.tls)
    BY Zenon, <2>1 DEF Row
  <2> QED BY Zenon, <1>2, <2>2, <2>3, Forward
<1>3. CASE Trap!Step("checked", "kernel", cpu)
  <2>1. Shaped(cpu) /\ Row("checked", cpu.ring, cpu.cr3, cpu.tls)
    BY Zenon, <1>3, TaskAt DEF Trap!Step
  <2>2. Has(cpu, cpu.rip, cpu.ring, cpu.cr3, cpu.tls, cpu.rbx, cpu.rbp)
    BY Zenon, <2>1 DEF Has
  <2>3. Row("kernel", cpu.ring, cpu.cr3, cpu.tls)
    BY Zenon, <2>1 DEF Row
  <2> QED BY Zenon, <1>3, <2>2, <2>3, Forward
<1> QED BY Zenon, <1>1, <1>2, <1>3 DEF Trap!acquire_semaphore

\* The task enters the compartment.
LEMMA CompartmentEnter ==
  ASSUME TrapInv, ~overlapped, Trap!compartment_enter
  PROVE  Sound
<1>1. CASE Trap!Step("kernel", "enter_tls", [cpu EXCEPT !.tls = Comp])
  <2>1. Shaped(cpu) /\ Row("kernel", cpu.ring, cpu.cr3, cpu.tls)
    BY Zenon, <1>1, TaskAt DEF Trap!Step
  <2>2. PICK r : r = [cpu EXCEPT !.tls = Comp]
    BY Zenon
  <2>3. Has(r, cpu.rip, cpu.ring, cpu.cr3, Comp, cpu.rbx, cpu.rbp)
    BY Zenon, <2>1, <2>2, Store
  <2>4. Has(r, cpu.rip, r.ring, r.cr3, r.tls, cpu.rbx, cpu.rbp) /\ Row("enter_tls", r.ring, r.cr3, r.tls)
    BY Zenon, <2>1, <2>3 DEF Has, Row
  <2> QED BY Zenon, <1>1, <2>2, <2>4, Forward
<1>2. CASE Trap!Step("enter_tls", "enter_cr3", [cpu EXCEPT !.cr3 = Comp])
  <2>1. Shaped(cpu) /\ Row("enter_tls", cpu.ring, cpu.cr3, cpu.tls)
    BY Zenon, <1>2, TaskAt DEF Trap!Step
  <2>2. PICK r : r = [cpu EXCEPT !.cr3 = Comp]
    BY Zenon
  <2>3. Has(r, cpu.rip, cpu.ring, Comp, cpu.tls, cpu.rbx, cpu.rbp)
    BY Zenon, <2>1, <2>2, Store
  <2>4. Has(r, cpu.rip, r.ring, r.cr3, r.tls, cpu.rbx, cpu.rbp) /\ Row("enter_cr3", r.ring, r.cr3, r.tls)
    BY Zenon, <2>1, <2>3 DEF Has, Row
  <2> QED BY Zenon, <1>2, <2>2, <2>4, Forward
<1>3. CASE Trap!Step("enter_cr3", "compartment", [cpu EXCEPT !.ring = 3])
  <2>1. Shaped(cpu) /\ Row("enter_cr3", cpu.ring, cpu.cr3, cpu.tls)
    BY Zenon, <1>3, TaskAt DEF Trap!Step
  <2>2. PICK r : r = [cpu EXCEPT !.ring = 3]
    BY Zenon
  <2>3. Has(r, cpu.rip, 3, cpu.cr3, cpu.tls, cpu.rbx, cpu.rbp)
    BY Zenon, <2>1, <2>2, Store
  <2>4. Has(r, cpu.rip, r.ring, r.cr3, r.tls, cpu.rbx, cpu.rbp) /\ Row("compartment", r.ring, r.cr3, r.tls)
    BY Zenon, <2>1, <2>3 DEF Has, Row
  <2> QED BY Zenon, <1>3, <2>2, <2>4, Forward
<1> QED BY Zenon, <1>1, <1>2, <1>3 DEF Trap!compartment_enter

\* The task comes back from it.
LEMMA KernelEnter ==
  ASSUME TrapInv, ~overlapped, Trap!kernel_enter
  PROVE  Sound
<1>1. CASE Trap!Step("compartment", "syscall", [cpu EXCEPT !.ring = 0])
  <2>1. Shaped(cpu) /\ Row("compartment", cpu.ring, cpu.cr3, cpu.tls)
    BY Zenon, <1>1, TaskAt DEF Trap!Step
  <2>2. PICK r : r = [cpu EXCEPT !.ring = 0]
    BY Zenon
  <2>3. Has(r, cpu.rip, 0, cpu.cr3, cpu.tls, cpu.rbx, cpu.rbp)
    BY Zenon, <2>1, <2>2, Store
  <2>4. Has(r, cpu.rip, r.ring, r.cr3, r.tls, cpu.rbx, cpu.rbp) /\ Row("syscall", r.ring, r.cr3, r.tls)
    BY Zenon, <2>1, <2>3 DEF Has, Row
  <2> QED BY Zenon, <1>1, <2>2, <2>4, Forward
<1>2. CASE Trap!Step("syscall", "syscall_cr3", [cpu EXCEPT !.cr3 = Kernel])
  <2>1. Shaped(cpu) /\ Row("syscall", cpu.ring, cpu.cr3, cpu.tls)
    BY Zenon, <1>2, TaskAt DEF Trap!Step
  <2>2. PICK r : r = [cpu EXCEPT !.cr3 = Kernel]
    BY Zenon
  <2>3. Has(r, cpu.rip, cpu.ring, Kernel, cpu.tls, cpu.rbx, cpu.rbp)
    BY Zenon, <2>1, <2>2, Store
  <2>4. Has(r, cpu.rip, r.ring, r.cr3, r.tls, cpu.rbx, cpu.rbp) /\ Row("syscall_cr3", r.ring, r.cr3, r.tls)
    BY Zenon, <2>1, <2>3 DEF Has, Row
  <2> QED BY Zenon, <1>2, <2>2, <2>4, Forward
<1>3. CASE Trap!Step("syscall_cr3", "kernel", [cpu EXCEPT !.tls = Kernel])
  <2>1. Shaped(cpu) /\ Row("syscall_cr3", cpu.ring, cpu.cr3, cpu.tls)
    BY Zenon, <1>3, TaskAt DEF Trap!Step
  <2>2. PICK r : r = [cpu EXCEPT !.tls = Kernel]
    BY Zenon
  <2>3. Has(r, cpu.rip, cpu.ring, cpu.cr3, Kernel, cpu.rbx, cpu.rbp)
    BY Zenon, <2>1, <2>2, Store
  <2>4. Has(r, cpu.rip, r.ring, r.cr3, r.tls, cpu.rbx, cpu.rbp) /\ Row("kernel", r.ring, r.cr3, r.tls)
    BY Zenon, <2>1, <2>3 DEF Has, Row
  <2> QED BY Zenon, <1>3, <2>2, <2>4, Forward
<1> QED BY Zenon, <1>1, <1>2, <1>3 DEF Trap!kernel_enter

\* The processor enters a gate from the task.
LEMMA EnterStep ==
  ASSUME TrapInv, ~overlapped, Trap!In("task"), NEW g, NEW err, Trap!Enter(g, err)
  PROVE  /\ Has(cpu', [in |-> g, at |-> "gate"], 0, cpu.cr3, cpu.tls, cpu.rbx, cpu.rbp)
         /\ was' = cpu /\ Pushed' /\ Untouched' /\ TaskState(cpu)
<1>1. TaskState(cpu) /\ Shaped(cpu)
  BY Zenon, Where DEF TaskState, CodeState
<1>2. Has(cpu', [in |-> g, at |-> "gate"], 0, cpu.cr3, cpu.tls, cpu.rbx, cpu.rbp)
  BY Zenon, <1>1, Store DEF Trap!Enter
<1>3. was' = cpu /\ frame' = [rip |-> cpu.rip, ring |-> cpu.ring, err |-> err]
  BY Zenon DEF Trap!Enter
<1>4. Pushed' /\ Untouched'
  BY Zenon, <1>2, <1>3 DEF Pushed, Untouched, Has
<1> QED BY Zenon, <1>1, <1>2, <1>3, <1>4

\* An exception is raised.
LEMMA Raise ==
  ASSUME TrapInv, ~overlapped, NEW g \in Exceptions \cup {"fatal"}, Trap!Exception(g)
  PROVE  Sound
<1>1. PICK p \in {"kernel", "compartment"} : Trap!At("task", p)
  BY Zenon DEF Trap!Exception
<1>2. CodeState(cpu) /\ Trap!In("task")
  <2>1. Row(p, cpu.ring, cpu.cr3, cpu.tls) /\ TaskState(cpu) /\ cpu.rip = Trap!Task(p) /\ Trap!In("task")
    BY Zenon, <1>1, TaskAt
  <2> QED BY Zenon, <1>1, <2>1 DEF Row, TaskState, CodeState, Context
<1>3. UNCHANGED overlapped /\ \E err : Trap!Enter(g, err)
  BY Zenon DEF Trap!Exception
<1>4. /\ Has(cpu', [in |-> g, at |-> "gate"], 0, cpu.cr3, cpu.tls, cpu.rbx, cpu.rbp)
      /\ was' = cpu /\ Pushed' /\ Untouched'
  BY Zenon, <1>2, <1>3, EnterStep
<1>5. CodeState(was)' /\ Stage("gate")' /\ FatalStage("gate")'
  <2>1. CodeState(was')
    BY Zenon, <1>2, <1>4
  <2> QED BY Zenon, <1>4, <2>1 DEF CodeState, Context, Shaped, Stage, FatalStage, Untouched
<1>6. GateInv'
  BY Zenon, <1>4, <1>5 DEF GateInv, Has, Places
<1> QED BY Zenon, <1>2, <1>3, <1>4, <1>6 DEF Sound, Resumes, TrapInv, Has, Shaped

\* An interrupt arrives.
LEMMA Arrive ==
  ASSUME TrapInv, ~overlapped, NEW g \in Interrupts, Trap!Interrupt(g)
  PROVE  Sound
<1>1. PICK err : Trap!Enter(g, err)
  BY Zenon DEF Trap!Interrupt
<1>2. CASE Trap!In("task")
  <2>1. ~Trap!Handling
    BY Zenon, <1>2 DEF Trap!Handling, Trap!In
  <2>2. UNCHANGED overlapped
    BY Zenon, <2>1 DEF Trap!Interrupt, TrapInv
  <2>3. /\ Has(cpu', [in |-> g, at |-> "gate"], 0, cpu.cr3, cpu.tls, cpu.rbx, cpu.rbp)
        /\ was' = cpu /\ Pushed' /\ Untouched' /\ TaskState(cpu)
    BY Zenon, <1>1, <1>2, EnterStep
  <2>4. TaskState(was)'
    <3>1. TaskState(was')
      BY Zenon, <2>3
    <3> QED BY Zenon, <3>1 DEF TaskState, CodeState, Context, Shaped
  <2>5. GateInv'
    BY Zenon, <2>3, <2>4 DEF GateInv, Has
  <2> QED BY Zenon, <1>2, <2>2, <2>3, <2>5 DEF Sound, Resumes, TrapInv, Has, Shaped
<1>3. CASE ~Trap!In("task")
  <2>1. GateInv /\ Shaped(cpu)
    BY Zenon, <1>3, Where
  <2>2. Trap!Handling
    <3>1. ASSUME NEW h, NEW q, cpu.rip = [in |-> h, at |-> q] PROVE Trap!In(h)
      BY SMT, <3>1 DEF Trap!In
    <3>2. ~Trap!In("wakeup") /\ ~Trap!In("nop")
      BY Zenon DEF Trap!Interrupt
    <3> QED BY Zenon, <2>1, <3>1, <3>2 DEF GateInv, Trap!Handling, Exceptions, Interrupts
  <2>3. overlapped' = TRUE
    BY Zenon, <2>2 DEF Trap!Interrupt
  <2>4. cpu'.rip = [in |-> g, at |-> "gate"]
    <3>1. Has(cpu', [in |-> g, at |-> "gate"], 0, cpu.cr3, cpu.tls, cpu.rbx, cpu.rbp)
      BY Zenon, <1>1, <2>1, Store DEF Trap!Enter
    <3> QED BY Zenon, <3>1 DEF Has
  <2>5. cpu'.rip.in # "task"
    BY SMT, <2>4 DEF Interrupts
  <2> QED BY Zenon, <2>3, <2>5 DEF Sound, Resumes, TrapInv
<1> QED BY Zenon, <1>2, <1>3

\* The handler of the exceptions that do not return.
LEMMA FatalAt ==
  ASSUME TrapInv, ~overlapped, NEW p, Trap!At("fatal", p)
  PROVE  /\ Shaped(cpu) /\ cpu.ring = 0 /\ Pushed /\ CodeState(was) /\ FatalStage(p)
         /\ cpu.rip = [in |-> "fatal", at |-> p]
<1>1. cpu.rip = [in |-> "fatal", at |-> p]
  BY Zenon DEF Trap!At
<1>2. ~Trap!In("task")
  <2>1. [in |-> "fatal", at |-> p].in = "fatal"
    BY Zenon
  <2> QED BY Zenon, <1>1, <2>1 DEF Trap!In
<1>3. GateInv /\ Shaped(cpu) /\ cpu.ring = 0 /\ Pushed
  BY Zenon, <1>2, Where
<1>4. ASSUME NEW h, NEW q, cpu.rip = [in |-> h, at |-> q] PROVE h = "fatal" /\ q = p
  BY SMT, <1>1, <1>4
<1>5. "fatal" \notin Exceptions /\ "fatal" \notin Interrupts
  BY Zenon DEF Exceptions, Interrupts
<1> QED BY Zenon, <1>1, <1>3, <1>4, <1>5 DEF GateInv
LEMMA FatalStep ==
  ASSUME TrapInv, CodeState(was), UNCHANGED <<was, overlapped>>, Pushed',
         NEW p \in {"handler", "jmp shutdown"}, NEW block, NEW rbx, NEW rbp,
         Has(cpu', [in |-> "fatal", at |-> p], 0, Kernel, block, rbx, rbp)
  PROVE  Sound
<1>1. cpu'.rip = [in |-> "fatal", at |-> p] /\ Shaped(cpu)' /\ cpu'.ring = 0 /\ cpu'.cr3 = Kernel
  BY Zenon DEF Has, Shaped
<1>2. cpu'.rip.in # "task"
  <2>1. [in |-> "fatal", at |-> p].in = "fatal"
    BY Zenon
  <2> QED BY Zenon, <1>1, <2>1
<1>3. CodeState(was)'
  BY Zenon DEF CodeState, Context, Shaped
<1>4. FatalStage(p)'
  BY Zenon, <1>1 DEF FatalStage
<1>5. GateInv'
  BY Zenon, <1>1, <1>3, <1>4 DEF GateInv
<1> QED BY Zenon, <1>1, <1>2, <1>5 DEF Sound, Resumes, TrapInv
LEMMA Halting ==
  ASSUME TrapInv, ~overlapped, Trap!print_and_halt
  PROVE  Sound
<1>1. UNCHANGED <<frame, was, overlapped>>
  BY Zenon DEF Trap!print_and_halt, Trap!Keep
<1>2. CASE Trap!At("fatal", "gate") /\ Trap!Move("handler", IF frame.ring = 0 THEN cpu ELSE [cpu EXCEPT !.cr3 = Kernel])
  <2>1. /\ Shaped(cpu) /\ cpu.ring = 0 /\ Pushed /\ CodeState(was) /\ FatalStage("gate")
        /\ cpu.rip = [in |-> "fatal", at |-> "gate"]
    BY Zenon, <1>2, FatalAt
  <2>2. PICK r : r = IF frame.ring = 0 THEN cpu ELSE [cpu EXCEPT !.cr3 = Kernel]
    BY Zenon
  <2>3. Has(r, [in |-> "fatal", at |-> "gate"], 0, Kernel, r.tls, r.rbx, r.rbp)
    <3>1. CASE frame.ring = 0
      <4>1. was.ring = 0 /\ cpu.cr3 = was.cr3
        BY Zenon, <2>1, <3>1, FrameIs DEF FatalStage
      <4>2. cpu.cr3 = Kernel
        BY <2>1, <4>1 DEF CodeState, Context
      <4> QED BY Zenon, <2>1, <2>2, <3>1, <4>2 DEF Has
    <3>2. CASE frame.ring # 0
      <4>1. r = [cpu EXCEPT !.cr3 = Kernel]
        BY Zenon, <2>2, <3>2
      <4>2. Has(r, cpu.rip, cpu.ring, Kernel, cpu.tls, cpu.rbx, cpu.rbp)
        BY Zenon, <2>1, <4>1, Store
      <4> QED BY Zenon, <2>1, <4>2 DEF Has
    <3> QED BY Zenon, <3>1, <3>2
  <2>4. Has(r, [in |-> "fatal", at |-> "gate"], 0, r.cr3, r.tls, r.rbx, r.rbp) /\ r.cr3 = Kernel
    BY Zenon, <2>3 DEF Has
  <2>5. Trap!Move("handler", r)
    BY Zenon, <1>2, <2>2
  <2>6. Has(cpu', [in |-> "fatal", at |-> "handler"], 0, r.cr3, r.tls, r.rbx, r.rbp)
    BY Zenon, <2>4, <2>5, MoveStep
  <2>7. Pushed'
    BY Zenon, <1>1, <2>1 DEF Pushed
  <2> QED BY Zenon, <1>1, <2>1, <2>4, <2>6, <2>7, FatalStep
<1>3. CASE Trap!At("fatal", "handler") /\ Trap!Move("jmp shutdown", cpu)
  <2>1. /\ Shaped(cpu) /\ cpu.ring = 0 /\ Pushed /\ CodeState(was) /\ FatalStage("handler")
        /\ cpu.rip = [in |-> "fatal", at |-> "handler"]
    BY Zenon, <1>3, FatalAt
  <2>2. cpu.cr3 = Kernel
    BY Zenon, <2>1 DEF FatalStage
  <2>3. Has(cpu, [in |-> "fatal", at |-> "handler"], 0, cpu.cr3, cpu.tls, cpu.rbx, cpu.rbp)
    BY Zenon, <2>1 DEF Has
  <2>4. Has(cpu', [in |-> "fatal", at |-> "jmp shutdown"], 0, cpu.cr3, cpu.tls, cpu.rbx, cpu.rbp)
    BY Zenon, <1>3, <2>3, MoveStep
  <2>5. Pushed'
    BY Zenon, <1>1, <2>1 DEF Pushed
  <2> QED BY Zenon, <1>1, <2>1, <2>2, <2>4, <2>5, FatalStep
<1> QED BY Zenon, <1>2, <1>3 DEF Trap!print_and_halt

\* Once two traps have overlapped, nothing is said any more.
LEMMA StaysOverlapped ==
  ASSUME TrapInv, overlapped, Trap!Next
  PROVE  overlapped' = TRUE
<1>1. UNCHANGED overlapped \/ overlapped' = (overlapped \/ Trap!Handling)
  BY Zenon DEF Trap!Next, Trap!acquire_semaphore, Trap!compartment_enter, Trap!kernel_enter, Trap!Step, Trap!Exception, Trap!save_regs,
     Trap!swap_kernel_cr3, Trap!swap_tls, Trap!restore_cr3, Trap!restore_tls, Trap!restore_regs, Trap!iretq, Trap!print_exception,
     Trap!page_fault_handler, Trap!print_and_halt, Trap!Interrupt, Trap!wakeup_handler, Trap!nop_interrupt_gate, Trap!Halted, Trap!Keep, Trap!vars
<1> QED BY Zenon, <1>1 DEF TrapInv

\* The machine has stopped.
LEMMA Stutter ==
  ASSUME TrapInv, UNCHANGED Trap!vars
  PROVE  TrapInv'
<1>1. /\ TaskState(cpu) => TaskState(cpu)'
      /\ TaskState(was) => TaskState(was)'
      /\ CodeState(was) => CodeState(was)'
  BY Zenon DEF Trap!vars, TaskState, CodeState, Context, Shaped
<1>2. GateInv => GateInv'
  BY Zenon, <1>1 DEF GateInv, Stage, FatalStage, Swapped, Untouched, Trap!vars
<1>3. (Pushed => Pushed') /\ (Shaped(cpu) => Shaped(cpu)') /\ UNCHANGED <<cpu, overlapped>>
  BY Zenon DEF Trap!vars, Pushed, Shaped
<1> QED BY Zenon, <1>1, <1>2, <1>3 DEF TrapInv

\* Every step of the core keeps the invariant, and a step back to the task gives
\* it what it had.
LEMMA TrapNext ==
  ASSUME TrapInv, Trap!TrapAssumption, Trap!Next
  PROVE  TrapInv' /\ (~overlapped => Resumes)
<1>1. CASE overlapped
  BY Zenon, <1>1, StaysOverlapped DEF TrapInv
<1>2. CASE ~overlapped /\ (Trap!acquire_semaphore \/ Trap!compartment_enter \/ Trap!kernel_enter)
  BY Zenon, <1>2, Acquire, CompartmentEnter, KernelEnter DEF Sound
<1>3. ASSUME ~overlapped, NEW g \in {"breakpoint", "pagefault", "fatal"}, Trap!Exception(g)
      PROVE  Sound
  BY Zenon, <1>3, Raise DEF Exceptions
<1>4. ASSUME ~overlapped, NEW g \in Exceptions,
             Trap!save_regs(g) \/ Trap!swap_kernel_cr3(g) \/ Trap!swap_tls(g) \/ Trap!restore_cr3(g) \/ Trap!restore_tls(g)
               \/ Trap!restore_regs(g) \/ Trap!iretq(g)
      PROVE  Sound
  BY Zenon, <1>4, SaveRegs, SwapCr3, SwapTls, RestoreCr3, RestoreTls, RestoreRegs, Iretq
<1>5. CASE ~overlapped /\ (Trap!print_exception \/ Trap!page_fault_handler \/ Trap!print_and_halt)
  BY Zenon, <1>5, PrintException, PageFault, Halting DEF Sound
<1>6. ASSUME ~overlapped, NEW g \in {"wakeup", "nop"}, Trap!Interrupt(g)
      PROVE  Sound
  BY Zenon, <1>6, Arrive DEF Interrupts
<1>7. CASE ~overlapped /\ (Trap!wakeup_handler \/ Trap!nop_interrupt_gate)
  BY Zenon, <1>7, Wakeup, Nop DEF Sound
<1>8. CASE ~overlapped /\ Trap!Halted
  <2>1. UNCHANGED Trap!vars
    BY Zenon, <1>8 DEF Trap!Halted
  <2>2. Resumes
    BY Zenon, <2>1 DEF Resumes, Trap!In, Trap!vars
  <2> QED BY Zenon, <2>1, <2>2, Stutter
<1> QED BY Zenon, <1>1, <1>2, <1>3, <1>4, <1>5, <1>6, <1>7, <1>8 DEF Trap!Next, Sound, Exceptions

\* The core begins in its own code.
LEMMA TrapInit ==
  ASSUME Trap!Init
  PROVE  TrapInv
<1>1. Has(cpu, Trap!Task("kernel"), 0, Kernel, Kernel, "own", "own") /\ overlapped = FALSE
  BY Zenon DEF Trap!Init, Has, Shaped, Registers
<1>2. TaskState(cpu)
  BY Zenon, <1>1 DEF Has, TaskState, CodeState, Context
<1> QED BY Zenon, <1>1, <1>2 DEF TrapInv

\* The C code of a handler runs in the core.
LEMMA InTheCore ==
  ASSUME TrapInv, ~overlapped
  PROVE  Trap!HandlerRunsInTheCore
<1> SUFFICES ASSUME Trap!Handling, cpu.rip.at = "handler"
             PROVE  cpu.cr3 = Kernel /\ (~Trap!In("fatal") => cpu.tls = Kernel)
  BY Zenon DEF Trap!HandlerRunsInTheCore
<1>1. ~Trap!In("task") /\ ~Trap!In("wakeup") /\ ~Trap!In("nop")
  BY Zenon DEF Trap!Handling, Trap!In
<1>2. GateInv
  BY Zenon, <1>1, Where
<1>3. ASSUME NEW h, NEW q, cpu.rip = [in |-> h, at |-> q] PROVE Trap!In(h) /\ q = "handler"
  BY SMT, <1>3 DEF Trap!In
<1> QED BY Zenon, <1>1, <1>2, <1>3 DEF GateInv, Interrupts, Stage, FatalStage

\* Whatever was interrupted goes on where it was, with its privilege level, page
\* table, TLS pointer and registers, also in the middle of a change between core
\* and compartment, and handlers run in the core, as long as traps do not overlap.
THEOREM InterruptedResumes == Trap!Spec => ResumesInterrupted
<1> DEFINE P == /\ Trap!HandlerRunsInTheCore
                /\ Resumes
<1>1. Trap!Init => TrapInv
  BY Zenon, TrapInit
<1>2. TrapInv /\ [Trap!Next]_(Trap!vars) => TrapInv'
  BY Zenon, TrapNext, Stutter, BringUpAssumption
<1>3. TrapInv /\ [Trap!Next]_(Trap!vars) => [~overlapped => P]_(Trap!vars)
  BY Zenon, TrapNext, InTheCore, BringUpAssumption
<1>4. [~overlapped => P]_(Trap!vars) <=> [~overlapped =>
       /\ Trap!HandlerRunsInTheCore
       /\ ~Trap!In("task") /\ cpu'.rip.in = "task" =>
            cpu' = [was EXCEPT !.rip = IF Trap!In("nop") THEN @ ELSE Trap!reset_suspend_check(@)]]_(Trap!vars)
  BY Zenon DEF Resumes
<1>5. Trap!Spec => []TrapInv
  BY <1>1, <1>2, PTL DEF Trap!Spec
<1> QED BY <1>3, <1>4, <1>5, PTL DEF Trap!Spec, Trap!ResumesInterrupted, ResumesInterrupted
-----------------------------------------------------------------------------
(* Flushes. *)

PingTypes ==
  /\ ping_pc \in [Ping!Cores -> {"idle", "next", "read", "trigger", "compare", "flushed"}]
  /\ target \in [Ping!Cores -> Nat]
  /\ generation \in [Ping!Cores -> Nat] /\ notification_generation \in [Ping!Cores -> Nat]
  /\ irr \subseteq Ping!Cores /\ handled \in [Ping!Cores -> SUBSET Ping!Cores]

\* Where the loop of c is: at a target while it pings, at the end afterwards.
LoopInv(c) ==
  /\ target[c] <= PingedCores
  /\ ping_pc[c] \in {"read", "trigger", "compare"} => target[c] \in Ping!Cores
  /\ ping_pc[c] = "flushed" => target[c] = PingedCores

\* The loop leaves no core behind that has not run its handler.
BehindInv(c) ==
  ping_pc[c] # "idle" => \A d \in Ping!Cores : d # c /\ d < target[c] => d \in handled[c]

\* A generation other than the one c has read is due to a handler that ran
\* after c read it, and so after c began its flush.
GenerationInv(c) ==
  ping_pc[c] \in {"trigger", "compare"} =>
    LET now == notification_generation[target[c]]
    IN  generation[c] <= now /\ (generation[c] # now => target[c] \in handled[c])

PingInv == PingTypes /\ \A c \in Ping!Cores : LoopInv(c) /\ BehindInv(c) /\ GenerationInv(c)

-----------------------------------------------------------------------------

\* Cores are the natural numbers below N.
LEMMA CoresAreBelow ==
  ASSUME Ping!PingAssumption
  PROVE  PingedCores \in Nat /\ PingedCores > 0 /\ \A x : x \in Ping!Cores <=> x \in Nat /\ x < PingedCores
  BY DEF Ping!PingAssumption, Ping!Cores

\* The initial state satisfies the invariant.
LEMMA PingInitial == ASSUME Ping!PingAssumption, Ping!Init PROVE PingInv
  BY CoresAreBelow DEF Ping!Init, PingInv, PingTypes, LoopInv, BehindInv, GenerationInv

\* A flush begins at the first core, with no handler run.
LEMMA FlushStep ==
  ASSUME Ping!PingAssumption, PingInv, NEW c \in Ping!Cores, Ping!flush_process_write_buffers(c)
  PROVE  PingInv'
<1> USE CoresAreBelow DEF PingInv
<1>1. PingTypes'
  BY Zenon DEF Ping!flush_process_write_buffers, PingTypes
<1>2. ASSUME NEW b \in Ping!Cores PROVE LoopInv(b)'
  BY <1>2 DEF Ping!flush_process_write_buffers, PingTypes, LoopInv
<1>3. ASSUME NEW b \in Ping!Cores PROVE BehindInv(b)'
  BY <1>3 DEF Ping!flush_process_write_buffers, PingTypes, BehindInv
<1>4. ASSUME NEW b \in Ping!Cores PROVE GenerationInv(b)'
  BY Zenon, <1>4 DEF Ping!flush_process_write_buffers, PingTypes, LoopInv, GenerationInv
<1> QED BY Zenon, <1>1, <1>2, <1>3, <1>4

\* The loop ends, skips the core itself or goes on to ping.
LEMMA LoopStep ==
  ASSUME Ping!PingAssumption, PingInv, NEW c \in Ping!Cores, Ping!ping_all_cores_sync(c)
  PROVE  PingInv'
<1> USE CoresAreBelow DEF PingInv
<1>1. PingTypes'
  BY DEF Ping!ping_all_cores_sync, Ping!Skips, PingTypes
<1>2. ASSUME NEW b \in Ping!Cores PROVE LoopInv(b)'
  BY <1>2 DEF Ping!ping_all_cores_sync, Ping!Skips, PingTypes, LoopInv
<1>3. ASSUME NEW b \in Ping!Cores PROVE BehindInv(b)'
  BY <1>3 DEF Ping!ping_all_cores_sync, Ping!Skips, PingTypes, BehindInv
<1>4. ASSUME NEW b \in Ping!Cores PROVE GenerationInv(b)'
  BY Zenon, <1>4 DEF Ping!ping_all_cores_sync, Ping!Skips, PingTypes, LoopInv, GenerationInv
<1> QED BY Zenon, <1>1, <1>2, <1>3, <1>4

\* The generation that was read is the current one.
LEMMA ReadStep ==
  ASSUME Ping!PingAssumption, PingInv, NEW c \in Ping!Cores, Ping!ReadGeneration(c)
  PROVE  PingInv'
<1> USE CoresAreBelow DEF PingInv
<1>1. PingTypes'
  BY Zenon DEF Ping!ReadGeneration, PingTypes, LoopInv
<1>2. ASSUME NEW b \in Ping!Cores PROVE LoopInv(b)'
  BY Zenon, <1>2 DEF Ping!ReadGeneration, PingTypes, LoopInv
<1>3. ASSUME NEW b \in Ping!Cores PROVE BehindInv(b)'
  BY Zenon, <1>3 DEF Ping!ReadGeneration, PingTypes, BehindInv
<1>4. ASSUME NEW b \in Ping!Cores PROVE GenerationInv(b)'
  BY <1>4 DEF Ping!ReadGeneration, PingTypes, LoopInv, GenerationInv
<1> QED BY Zenon, <1>1, <1>2, <1>3, <1>4

\* An IPI changes no generation.
LEMMA TriggerStep ==
  ASSUME Ping!PingAssumption, PingInv, NEW c \in Ping!Cores, Ping!trigger_ipi(c)
  PROVE  PingInv'
<1> USE CoresAreBelow DEF PingInv
<1>1. PingTypes'
  BY Zenon DEF Ping!trigger_ipi, PingTypes, LoopInv
<1>2. ASSUME NEW b \in Ping!Cores PROVE LoopInv(b)'
  BY Zenon, <1>2 DEF Ping!trigger_ipi, PingTypes, LoopInv
<1>3. ASSUME NEW b \in Ping!Cores PROVE BehindInv(b)'
  BY Zenon, <1>3 DEF Ping!trigger_ipi, PingTypes, BehindInv
<1>4. ASSUME NEW b \in Ping!Cores PROVE GenerationInv(b)'
  BY Zenon, <1>4 DEF Ping!trigger_ipi, PingTypes, LoopInv, GenerationInv
<1> QED BY Zenon, <1>1, <1>2, <1>3, <1>4

\* A target is left only after its handler has run.
LEMMA CompareStep ==
  ASSUME Ping!PingAssumption, PingInv, NEW c \in Ping!Cores, Ping!CompareGeneration(c)
  PROVE  PingInv'
<1> USE CoresAreBelow DEF PingInv
<1>1. PingTypes'
  BY DEF Ping!CompareGeneration, PingTypes
<1>2. ASSUME NEW b \in Ping!Cores PROVE LoopInv(b)'
  BY <1>2 DEF Ping!CompareGeneration, PingTypes, LoopInv
<1>3. ASSUME NEW b \in Ping!Cores PROVE BehindInv(b)'
  <2>1. CASE b = c /\ generation[c] # notification_generation[target[c]]
    <3>1. target[c] \in handled[c]
      BY Zenon, <2>1 DEF Ping!CompareGeneration, GenerationInv
    <3>2. ping_pc[c] # "idle" /\ target[c] \in Nat /\ handled' = handled /\ target'[c] = target[c] + 1
      BY Zenon, <2>1 DEF Ping!CompareGeneration, PingTypes
    <3>3. ASSUME NEW d \in Ping!Cores, d < target[c] + 1 PROVE d < target[c] \/ d = target[c]
      BY ONLY CoresAreBelow, Ping!PingAssumption, <3>2, <3>3
    <3> QED BY Zenon, <2>1, <3>1, <3>2, <3>3 DEF BehindInv
  <2>2. CASE ~(b = c /\ generation[c] # notification_generation[target[c]])
    BY Zenon, <1>3, <2>2 DEF Ping!CompareGeneration, PingTypes, BehindInv
  <2> QED BY <2>1, <2>2
<1>4. ASSUME NEW b \in Ping!Cores PROVE GenerationInv(b)'
  BY <1>4 DEF Ping!CompareGeneration, PingTypes, LoopInv, GenerationInv
<1> QED BY Zenon, <1>1, <1>2, <1>3, <1>4

\* Nothing is said of a core that does not flush.
LEMMA ReturnStep ==
  ASSUME Ping!PingAssumption, PingInv, NEW c \in Ping!Cores, Ping!Return(c)
  PROVE  PingInv'
<1> USE CoresAreBelow DEF PingInv
<1>1. PingTypes'
  BY Zenon DEF Ping!Return, PingTypes
<1>2. ASSUME NEW b \in Ping!Cores PROVE LoopInv(b)'
  BY Zenon, <1>2 DEF Ping!Return, PingTypes, LoopInv
<1>3. ASSUME NEW b \in Ping!Cores PROVE BehindInv(b)'
  BY Zenon, <1>3 DEF Ping!Return, PingTypes, BehindInv
<1>4. ASSUME NEW b \in Ping!Cores PROVE GenerationInv(b)'
  BY Zenon, <1>4 DEF Ping!Return, PingTypes, LoopInv, GenerationInv
<1> QED BY Zenon, <1>1, <1>2, <1>3, <1>4

\* A handler counts, for all flushes that go on.
LEMMA HandlerStep ==
  ASSUME Ping!PingAssumption, PingInv, NEW c \in Ping!Cores, Ping!wakeup_handler(c)
  PROVE  PingInv'
<1> USE CoresAreBelow DEF PingInv
<1>1. PingTypes'
  BY DEF Ping!wakeup_handler, PingTypes
<1>2. ASSUME NEW b \in Ping!Cores PROVE LoopInv(b)'
  BY Zenon, <1>2 DEF Ping!wakeup_handler, PingTypes, LoopInv
<1>3. ASSUME NEW b \in Ping!Cores PROVE BehindInv(b)'
  BY Zenon, <1>3 DEF Ping!wakeup_handler, PingTypes, BehindInv
<1>4. ASSUME NEW b \in Ping!Cores PROVE GenerationInv(b)'
  BY <1>4 DEF Ping!wakeup_handler, PingTypes, LoopInv, GenerationInv
<1> QED BY Zenon, <1>1, <1>2, <1>3, <1>4

\* Every step keeps the invariant.
LEMMA PingPreserved == ASSUME Ping!PingAssumption, PingInv, [Ping!Next]_(Ping!vars) PROVE PingInv'
<1>1. CASE UNCHANGED Ping!vars
  BY Zenon, <1>1 DEF Ping!vars, PingInv, PingTypes, LoopInv, BehindInv, GenerationInv
<1>2. ASSUME NEW c \in Ping!Cores, Ping!flush_process_write_buffers(c) \/ Ping!Step(c) \/ Ping!wakeup_handler(c)
      PROVE  PingInv'
  BY Zenon, <1>2, FlushStep, LoopStep, ReadStep, TriggerStep, CompareStep, ReturnStep, HandlerStep DEF Ping!Step
<1> QED BY Zenon, <1>1, <1>2 DEF Ping!Next

\* When flush_process_write_buffers returns, all other cores have run the
\* handler since it began, whatever IPIs were merged and however many cores
\* flush at the same time.
THEOREM FlushReaches == Ping!Spec => []FlushReachesAllCores
<1>1. Ping!Init => PingInv
  BY Zenon, PingInitial, BringUpAssumption
<1>2. PingInv /\ [Ping!Next]_(Ping!vars) => PingInv'
  BY Zenon, PingPreserved, BringUpAssumption
<1>3. PingInv => FlushReachesAllCores
  BY CoresAreBelow, BringUpAssumption
     DEF PingInv, PingTypes, LoopInv, BehindInv, Ping!FlushReachesAllCores, FlushReachesAllCores
<1> QED BY <1>1, <1>2, <1>3, PTL DEF Ping!Spec

-----------------------------------------------------------------------------
(* The start of the cores. *)

Modes == {"boot", "kernel", "zero"}
Regs == [cr : Modes, cr3 : Modes, gs : 0..OtherCores, tls : 0..OtherCores, stack : 0..OtherCores, tr : 0..OtherCores]

\* Where the primary core is before, during and after the start of core i.
Before == {"prepare", "store", "store_gs", "clear", "destination", "trigger", "clone", "start"}
Sent == {"pending", "finished"}
After == {"wait", "ready"}

\* Where a core is while it reads the globals, and once it runs ap_reset.
Loading == {"load_cr", "load_gs", "load_context", "load_cr3", "finish"}
Running == {"ap_init", "loop", "idle"}

StartTypes ==
  /\ start_pc \in Before \cup Sent \cup After /\ start_i \in Start!Cores
  /\ context \in [Start!Cores -> [ready : BOOLEAN, code : BOOLEAN, done : BOOLEAN]]
  /\ current \in [cr : Modes, cr3 : Modes, gs : 0..OtherCores]
  /\ input \in Regs /\ regs \in [Start!Cores -> Regs]
  /\ ap \in [Start!Cores -> {"parked"} \cup Loading \cup Running]
  /\ ipi \subseteq Start!Cores

\* The cores are started in turn, and only the IPI of core i is ever on its
\* way.
OrderInv ==
  /\ start_pc \in Before => ap[start_i] = "parked"
  /\ start_pc \notin After => \A c \in Start!Cores : c > start_i => ap[c] = "parked"
  /\ \A c \in ipi : c = start_i /\ start_pc = "pending" /\ ap[start_i] = "parked"
  /\ start_pc = "wait" => \A c \in Start!Cores : c < start_i => context[c].done
  /\ start_pc = "ready" => \A c \in Start!Cores : context[c].done

\* What init_cpu_generic and init_cpu_hyperv have left for core i, and what
\* its answer stands for.
HandshakeInv ==
  /\ start_pc \notin {"prepare"} \cup After => context[start_i].ready
  /\ start_pc \in {"store_gs", "clear", "destination", "trigger"} \cup Sent =>
       current.cr = "kernel" /\ current.cr3 = "kernel"
  /\ start_pc \in {"clear", "destination", "trigger"} \cup Sent => current.gs = start_i
  /\ start_pc \in {"destination", "trigger"} => ~finished_with_current
  /\ start_pc = "trigger" => destination = start_i
  /\ start_pc \in Sent /\ finished_with_current => ap[start_i] \in Running
  /\ start_pc = "start" => /\ input.gs = start_i /\ input.tls = start_i /\ input.stack = start_i /\ input.tr = start_i
                           /\ ~reported => input.cr = "kernel" /\ input.cr3 = "kernel"

\* Only core i reads the globals, and what it has read is its own.
LoadingInv(c) ==
  /\ ap[c] \in Loading => start_pc \in Sent /\ c = start_i
  /\ ap[c] \in Loading \ {"load_cr"} => regs[c].cr = "kernel"
  /\ ap[c] \in {"load_context", "load_cr3", "finish"} => regs[c].gs = c
  /\ ap[c] \in {"load_cr3", "finish"} => regs[c].tls = c /\ regs[c].stack = c /\ regs[c].tr = c
  /\ ap[c] = "finish" => regs[c].cr3 = "kernel"

\* OwnContext of one core, and what done says of it.
RunningInv(c) ==
  /\ ap[c] \in Running =>
       /\ regs[c].gs = c /\ regs[c].tls = c /\ regs[c].stack = c /\ regs[c].tr = c
       /\ ~reported => regs[c].cr = "kernel" /\ regs[c].cr3 = "kernel"
  /\ context[c].done => ap[c] = "idle" /\ ~context[c].code

StartInv ==
  /\ StartTypes /\ OrderInv /\ HandshakeInv
  /\ \A c \in Start!Cores : LoadingInv(c) /\ RunningInv(c)

-----------------------------------------------------------------------------

\* Cores are numbered from 1 to N, and 0 names none of them.
LEMMA CoresAreCounted ==
  ASSUME Start!CoreAssumption
  PROVE  /\ OtherCores \in Nat /\ OtherCores >= 1 /\ 1 \in Start!Cores /\ OtherCores \in Start!Cores
         /\ \A x : x \in Start!Cores <=> x \in Nat /\ 1 <= x /\ x <= OtherCores
         /\ \A x : x \in 0..OtherCores <=> x \in Nat /\ x <= OtherCores
         /\ \A x \in Start!Cores : (x < OtherCores \/ x = OtherCores) /\ (x # OtherCores => x + 1 \in Start!Cores)
         /\ \A x, y \in Start!Cores : x < y + 1 => x < y \/ x = y
  BY DEF Start!CoreAssumption, Start!Cores

\* The registers that a core starts with, or is given, are registers.
LEMMA RegsAreTyped ==
  ASSUME Start!CoreAssumption
  PROVE  /\ Start!BootRegs \in Regs /\ Start!PrimaryRegs \in Regs /\ Start!ZeroRegs \in Regs
         /\ \A r \in Regs, c \in Start!Cores : Start!OwnFields(r, c) \in Regs
<1>1. Start!BootRegs \in Regs
  BY CoresAreCounted DEF Modes, Regs, Start!BootRegs, Start!NoCore
<1>2. Start!PrimaryRegs \in Regs /\ Start!ZeroRegs \in Regs
  BY Zenon, <1>1 DEF Modes, Regs, Start!PrimaryRegs, Start!ZeroRegs
<1>3. \A r \in Regs, c \in 0..OtherCores : Start!OwnFields(r, c) \in Regs
  BY Zenon DEF Regs, Start!OwnFields
<1> QED BY Zenon, <1>1, <1>2, <1>3, CoresAreCounted

\* The initial state satisfies the invariant.
LEMMA StartInitial == ASSUME Start!CoreAssumption, Start!Init PROVE StartInv
<1> USE CoresAreCounted DEF Start!Init, Before, Sent, After, Loading, Running
<1>1. StartTypes
  <2>1. current \in [cr : Modes, cr3 : Modes, gs : 0..OtherCores]
    BY DEF Modes, Start!NoCore
  <2> QED BY <2>1, RegsAreTyped DEF StartTypes
<1>2. OrderInv /\ HandshakeInv
  BY Zenon DEF OrderInv, HandshakeInv
<1>3. ASSUME NEW c \in Start!Cores PROVE LoadingInv(c) /\ RunningInv(c)
  BY Zenon, <1>3 DEF LoadingInv, RunningInv
<1> QED BY Zenon, <1>1, <1>2, <1>3 DEF StartInv

\* Core i is prepared while it is parked.
LEMMA PrepareStep ==
  ASSUME Start!CoreAssumption, StartInv, Start!Prepare
  PROVE  StartInv'
<1> USE CoresAreCounted DEF StartInv, StartTypes, Start!Prepare, Start!waker,
    Before, Sent, After, Loading, Running
<1>1. StartTypes'
  <2>1. [context[start_i] EXCEPT !.ready = TRUE, !.code = TRUE]
          \in [ready : BOOLEAN, code : BOOLEAN, done : BOOLEAN]
    <3>1. context[start_i] \in [ready : BOOLEAN, code : BOOLEAN, done : BOOLEAN]
      BY Zenon
    <3> QED BY ONLY Zenon, <3>1
  <2> QED BY <2>1
<1>2. OrderInv'
  BY Zenon DEF OrderInv, HandshakeInv, LoadingInv, RunningInv
<1>3. HandshakeInv'
  BY DEF OrderInv, HandshakeInv, LoadingInv, RunningInv
<1>4. ASSUME NEW b \in Start!Cores PROVE LoadingInv(b)'
  BY Zenon, <1>4 DEF OrderInv, HandshakeInv, LoadingInv
<1>5. ASSUME NEW b \in Start!Cores PROVE RunningInv(b)'
  BY <1>5 DEF OrderInv, HandshakeInv, LoadingInv, RunningInv
<1> QED BY Zenon, <1>1, <1>2, <1>3, <1>4, <1>5

\* The control registers are stored while no core reads them.
LEMMA StoreControlStep ==
  ASSUME Start!CoreAssumption, StartInv, Start!StoreControl
  PROVE  StartInv'
<1> USE CoresAreCounted DEF StartInv, StartTypes, Start!StoreControl, Start!PrimaryRegs, Start!BootRegs,
    Before, Sent, After, Loading, Running
<1>1. StartTypes'
  BY Zenon DEF Modes
<1>2. OrderInv'
  BY Zenon DEF OrderInv, HandshakeInv, LoadingInv, RunningInv
<1>3. HandshakeInv'
  BY Zenon DEF OrderInv, HandshakeInv, LoadingInv, RunningInv
<1>4. ASSUME NEW b \in Start!Cores PROVE LoadingInv(b)'
  BY Zenon, <1>4 DEF OrderInv, HandshakeInv, LoadingInv
<1>5. ASSUME NEW b \in Start!Cores PROVE RunningInv(b)'
  BY <1>5 DEF OrderInv, HandshakeInv, LoadingInv, RunningInv
<1> QED BY Zenon, <1>1, <1>2, <1>3, <1>4, <1>5

\* The per-core data is stored while no core reads it.
LEMMA StoreGsStep ==
  ASSUME Start!CoreAssumption, StartInv, Start!StoreGs
  PROVE  StartInv'
<1> USE CoresAreCounted DEF StartInv, StartTypes, Start!StoreGs,
    Before, Sent, After, Loading, Running
<1>1. StartTypes'
  BY Zenon
<1>2. OrderInv'
  BY Zenon DEF OrderInv, HandshakeInv, LoadingInv, RunningInv
<1>3. HandshakeInv'
  BY Zenon DEF OrderInv, HandshakeInv, LoadingInv, RunningInv
<1>4. ASSUME NEW b \in Start!Cores PROVE LoadingInv(b)'
  BY Zenon, <1>4 DEF OrderInv, HandshakeInv, LoadingInv
<1>5. ASSUME NEW b \in Start!Cores PROVE RunningInv(b)'
  BY <1>5 DEF OrderInv, HandshakeInv, LoadingInv, RunningInv
<1> QED BY Zenon, <1>1, <1>2, <1>3, <1>4, <1>5

\* The answer of the core before is gone.
LEMMA ClearStep ==
  ASSUME Start!CoreAssumption, StartInv, Start!ClearFinished
  PROVE  StartInv'
<1> USE CoresAreCounted DEF StartInv, StartTypes, Start!ClearFinished,
    Before, Sent, After, Loading, Running
<1>1. StartTypes'
  BY Zenon
<1>2. OrderInv'
  BY Zenon DEF OrderInv, HandshakeInv, LoadingInv, RunningInv
<1>3. HandshakeInv'
  BY Zenon DEF OrderInv, HandshakeInv, LoadingInv, RunningInv
<1>4. ASSUME NEW b \in Start!Cores PROVE LoadingInv(b)'
  BY Zenon, <1>4 DEF OrderInv, HandshakeInv, LoadingInv
<1>5. ASSUME NEW b \in Start!Cores PROVE RunningInv(b)'
  BY <1>5 DEF OrderInv, HandshakeInv, LoadingInv, RunningInv
<1> QED BY Zenon, <1>1, <1>2, <1>3, <1>4, <1>5

\* The IPI will be for core i.
LEMMA DestinationStep ==
  ASSUME Start!CoreAssumption, StartInv, Start!SetDestination
  PROVE  StartInv'
<1> USE CoresAreCounted DEF StartInv, StartTypes, Start!SetDestination,
    Before, Sent, After, Loading, Running
<1>1. StartTypes'
  BY Zenon
<1>2. OrderInv'
  BY Zenon DEF OrderInv, HandshakeInv, LoadingInv, RunningInv
<1>3. HandshakeInv'
  BY Zenon DEF OrderInv, HandshakeInv, LoadingInv, RunningInv
<1>4. ASSUME NEW b \in Start!Cores PROVE LoadingInv(b)'
  BY Zenon, <1>4 DEF OrderInv, HandshakeInv, LoadingInv
<1>5. ASSUME NEW b \in Start!Cores PROVE RunningInv(b)'
  BY <1>5 DEF OrderInv, HandshakeInv, LoadingInv, RunningInv
<1> QED BY Zenon, <1>1, <1>2, <1>3, <1>4, <1>5

\* The IPI is sent to core i, which is parked.
LEMMA SendStep ==
  ASSUME Start!CoreAssumption, StartInv, Start!TriggerIpi
  PROVE  StartInv'
<1> USE CoresAreCounted DEF StartInv, StartTypes, Start!TriggerIpi, Start!waker,
    Before, Sent, After, Loading, Running
<1>1. StartTypes'
  BY Zenon DEF HandshakeInv
<1>2. OrderInv'
  BY Zenon DEF OrderInv, HandshakeInv, LoadingInv, RunningInv
<1>3. HandshakeInv'
  BY Zenon DEF OrderInv, HandshakeInv, LoadingInv, RunningInv
<1>4. ASSUME NEW b \in Start!Cores PROVE LoadingInv(b)'
  BY Zenon, <1>4 DEF OrderInv, HandshakeInv, LoadingInv
<1>5. ASSUME NEW b \in Start!Cores PROVE RunningInv(b)'
  BY <1>5 DEF OrderInv, HandshakeInv, LoadingInv, RunningInv
<1> QED BY Zenon, <1>1, <1>2, <1>3, <1>4, <1>5

\* The IPI has been delivered.
LEMMA DeliveredStep ==
  ASSUME Start!CoreAssumption, StartInv, Start!Delivered
  PROVE  StartInv'
<1> USE CoresAreCounted DEF StartInv, StartTypes, Start!Delivered, Start!waker,
    Before, Sent, After, Loading, Running
<1>1. StartTypes'
  BY Zenon
<1>2. OrderInv'
  BY Zenon DEF OrderInv, HandshakeInv, LoadingInv, RunningInv
<1>3. HandshakeInv'
  BY Zenon DEF OrderInv, HandshakeInv, LoadingInv, RunningInv
<1>4. ASSUME NEW b \in Start!Cores PROVE LoadingInv(b)'
  BY Zenon, <1>4 DEF OrderInv, HandshakeInv, LoadingInv
<1>5. ASSUME NEW b \in Start!Cores PROVE RunningInv(b)'
  BY Zenon, <1>5 DEF OrderInv, HandshakeInv, LoadingInv, RunningInv
<1> QED BY Zenon, <1>1, <1>2, <1>3, <1>4, <1>5

\* Core i has read the globals when the next one is prepared.
LEMMA WaitFinishedStep ==
  ASSUME Start!CoreAssumption, StartInv, Start!WaitFinished
  PROVE  StartInv'
<1> USE CoresAreCounted DEF StartInv, StartTypes, Start!WaitFinished, Start!waker, Start!NextCore,
    Before, Sent, After, Loading, Running
<1>1. StartTypes'
  BY Zenon
<1>2. OrderInv'
  BY DEF OrderInv, HandshakeInv, LoadingInv, RunningInv
<1>3. HandshakeInv'
  BY Zenon DEF OrderInv, HandshakeInv, LoadingInv, RunningInv
<1>4. ASSUME NEW b \in Start!Cores PROVE LoadingInv(b)'
  BY Zenon, <1>4 DEF OrderInv, HandshakeInv, LoadingInv
<1>5. ASSUME NEW b \in Start!Cores PROVE RunningInv(b)'
  BY <1>5 DEF OrderInv, HandshakeInv, LoadingInv, RunningInv
<1> QED BY Zenon, <1>1, <1>2, <1>3, <1>4, <1>5

\* The fields of core i are set, whether or not the hypercall succeeded.
LEMMA CloneStep ==
  ASSUME Start!CoreAssumption, StartInv, Start!clone_initial_context
  PROVE  StartInv'
<1>0. input' \in Regs
  BY RegsAreTyped DEF StartInv, StartTypes, Start!clone_initial_context
<1> USE CoresAreCounted DEF StartInv, StartTypes, Start!clone_initial_context, Start!OwnFields,
    Start!PrimaryRegs, Start!ZeroRegs, Start!BootRegs, Start!NoCore,
    Before, Sent, After, Loading, Running
<1>1. StartTypes'
  BY Zenon, <1>0
<1>2. OrderInv'
  BY Zenon DEF OrderInv, HandshakeInv, LoadingInv, RunningInv
<1>3. HandshakeInv'
  BY DEF OrderInv, HandshakeInv, LoadingInv, RunningInv
<1>4. ASSUME NEW b \in Start!Cores PROVE LoadingInv(b)'
  BY Zenon, <1>4 DEF OrderInv, HandshakeInv, LoadingInv
<1>5. ASSUME NEW b \in Start!Cores PROVE RunningInv(b)'
  BY <1>5 DEF OrderInv, HandshakeInv, LoadingInv, RunningInv
<1> QED BY Zenon, <1>1, <1>2, <1>3, <1>4, <1>5

\* The core starts with its own registers, or not at all.
LEMMA HypervStep ==
  ASSUME Start!CoreAssumption, StartInv, Start!init_cpu_hyperv
  PROVE  StartInv'
<1> USE CoresAreCounted DEF StartInv, StartTypes, Start!init_cpu_hyperv, Start!waker, Start!NextCore,
    Before, Sent, After, Loading, Running
<1>1. StartTypes'
  <2>1. PICK ok \in BOOLEAN : /\ ap' = IF ok THEN [ap EXCEPT ![start_i] = "ap_init"] ELSE ap
                              /\ regs' = IF ok THEN [regs EXCEPT ![start_i] = input] ELSE regs
    BY Zenon
  <2>2. start_i' \in Start!Cores
    BY Zenon
  <2>3. ap' \in [Start!Cores -> {"parked"} \cup Loading \cup Running] /\ regs' \in [Start!Cores -> Regs]
    BY Zenon, <2>1
  <2> QED BY <2>2, <2>3
<1>2. OrderInv'
  BY DEF OrderInv, HandshakeInv, LoadingInv, RunningInv
<1>3. HandshakeInv'
  BY Zenon DEF OrderInv, HandshakeInv, LoadingInv, RunningInv
<1>4. ASSUME NEW b \in Start!Cores PROVE LoadingInv(b)'
  BY <1>4 DEF OrderInv, HandshakeInv, LoadingInv
<1>5. ASSUME NEW b \in Start!Cores PROVE RunningInv(b)'
  BY <1>5 DEF OrderInv, HandshakeInv, LoadingInv, RunningInv
<1> QED BY Zenon, <1>1, <1>2, <1>3, <1>4, <1>5

\* A core is only passed when it is done.
LEMMA WaitDoneStep ==
  ASSUME Start!CoreAssumption, StartInv, Start!WaitDone
  PROVE  StartInv'
<1> USE CoresAreCounted DEF StartInv, StartTypes, Start!WaitDone, Start!waker,
    Before, Sent, After, Loading, Running
<1>1. StartTypes'
  BY Zenon
<1>2. OrderInv'
  <2>1. CASE start_i = OtherCores
    BY Zenon, <2>1 DEF OrderInv
  <2>2. CASE start_i # OtherCores
    <3>1. \A d \in Start!Cores : d < start_i' => d < start_i \/ d = start_i
      BY <2>2
    <3> QED BY <2>2, <3>1 DEF OrderInv
  <2> QED BY <2>1, <2>2
<1>3. HandshakeInv'
  BY Zenon DEF OrderInv, HandshakeInv, LoadingInv, RunningInv
<1>4. ASSUME NEW b \in Start!Cores PROVE LoadingInv(b)'
  BY Zenon, <1>4 DEF OrderInv, HandshakeInv, LoadingInv
<1>5. ASSUME NEW b \in Start!Cores PROVE RunningInv(b)'
  BY <1>5 DEF OrderInv, HandshakeInv, LoadingInv, RunningInv
<1> QED BY Zenon, <1>1, <1>2, <1>3, <1>4, <1>5

\* Core i begins to read.
LEMMA TakeIpiStep ==
  ASSUME Start!CoreAssumption, StartInv, NEW c \in Start!Cores, Start!TakeIpi(c)
  PROVE  StartInv'
<1> USE CoresAreCounted DEF StartInv, StartTypes, Start!TakeIpi, Start!ApStep, Start!waker, Start!primary,
    Before, Sent, After, Loading, Running
<1>1. StartTypes'
  BY Zenon
<1>2. OrderInv'
  BY DEF OrderInv, HandshakeInv, LoadingInv, RunningInv
<1>3. HandshakeInv'
  BY Zenon DEF OrderInv, HandshakeInv, LoadingInv, RunningInv
<1>4. ASSUME NEW b \in Start!Cores PROVE LoadingInv(b)'
  BY <1>4 DEF OrderInv, HandshakeInv, LoadingInv
<1>5. ASSUME NEW b \in Start!Cores PROVE RunningInv(b)'
  BY <1>5 DEF OrderInv, HandshakeInv, LoadingInv, RunningInv
<1> QED BY Zenon, <1>1, <1>2, <1>3, <1>4, <1>5

\* The control registers are those of the primary core.
LEMMA LoadControlStep ==
  ASSUME Start!CoreAssumption, StartInv, NEW c \in Start!Cores, Start!LoadControl(c)
  PROVE  StartInv'
<1> USE CoresAreCounted DEF StartInv, StartTypes, Start!LoadControl, Start!ApStep, Start!waker, Start!primary,
    Before, Sent, After, Loading, Running
<1>1. StartTypes'
  BY Zenon DEF Regs
<1>2. OrderInv'
  BY DEF OrderInv, HandshakeInv, LoadingInv, RunningInv
<1>3. HandshakeInv'
  BY Zenon DEF OrderInv, HandshakeInv, LoadingInv, RunningInv
<1>4. ASSUME NEW b \in Start!Cores PROVE LoadingInv(b)'
  BY <1>4 DEF OrderInv, HandshakeInv, LoadingInv
<1>5. ASSUME NEW b \in Start!Cores PROVE RunningInv(b)'
  BY <1>5 DEF OrderInv, HandshakeInv, LoadingInv, RunningInv
<1> QED BY Zenon, <1>1, <1>2, <1>3, <1>4, <1>5

\* gs names the core itself.
LEMMA LoadGsStep ==
  ASSUME Start!CoreAssumption, StartInv, NEW c \in Start!Cores, Start!LoadGs(c)
  PROVE  StartInv'
<1> USE CoresAreCounted DEF StartInv, StartTypes, Start!LoadGs, Start!ApStep, Start!waker, Start!primary,
    Before, Sent, After, Loading, Running
<1>1. StartTypes'
  BY Zenon DEF Regs
<1>2. OrderInv'
  BY DEF OrderInv, HandshakeInv, LoadingInv, RunningInv
<1>3. HandshakeInv'
  BY Zenon DEF OrderInv, HandshakeInv, LoadingInv, RunningInv
<1>4. ASSUME NEW b \in Start!Cores PROVE LoadingInv(b)'
  BY <1>4 DEF OrderInv, HandshakeInv, LoadingInv
<1>5. ASSUME NEW b \in Start!Cores PROVE RunningInv(b)'
  BY <1>5 DEF OrderInv, HandshakeInv, LoadingInv, RunningInv
<1> QED BY Zenon, <1>1, <1>2, <1>3, <1>4, <1>5

\* The data that gs names was prepared.
LEMMA LoadContextStep ==
  ASSUME Start!CoreAssumption, StartInv, NEW c \in Start!Cores, Start!LoadContext(c)
  PROVE  StartInv'
<1> USE CoresAreCounted DEF StartInv, StartTypes, Start!LoadContext, Start!ApStep, Start!waker, Start!primary,
    Before, Sent, After, Loading, Running
<1>0. regs' = [regs EXCEPT ![c] = [@ EXCEPT !.tls = c, !.stack = c, !.tr = c]]
  <2>1. regs[c].gs = c /\ context[c].ready
    BY Zenon DEF LoadingInv, HandshakeInv
  <2> QED BY <2>1
<1> USE <1>0
<1>1. StartTypes'
  <2>1. [regs[c] EXCEPT !.tls = c, !.stack = c, !.tr = c] \in Regs
    <3>1. regs[c] \in Regs /\ c \in 0..OtherCores
      BY Zenon
    <3> QED BY ONLY Zenon, <3>1 DEF Regs
  <2> QED BY <2>1
<1>2. OrderInv'
  BY DEF OrderInv, HandshakeInv, LoadingInv, RunningInv
<1>3. HandshakeInv'
  BY Zenon DEF OrderInv, HandshakeInv, LoadingInv, RunningInv
<1>4. ASSUME NEW b \in Start!Cores PROVE LoadingInv(b)'
  BY <1>4 DEF OrderInv, HandshakeInv, LoadingInv
<1>5. ASSUME NEW b \in Start!Cores PROVE RunningInv(b)'
  BY <1>5 DEF OrderInv, HandshakeInv, LoadingInv, RunningInv
<1> QED BY Zenon, <1>1, <1>2, <1>3, <1>4, <1>5

\* The page table is that of the primary core.
LEMMA LoadCr3Step ==
  ASSUME Start!CoreAssumption, StartInv, NEW c \in Start!Cores, Start!LoadCr3(c)
  PROVE  StartInv'
<1> USE CoresAreCounted DEF StartInv, StartTypes, Start!LoadCr3, Start!ApStep, Start!waker, Start!primary,
    Before, Sent, After, Loading, Running
<1>1. StartTypes'
  BY Zenon DEF Regs
<1>2. OrderInv'
  BY DEF OrderInv, HandshakeInv, LoadingInv, RunningInv
<1>3. HandshakeInv'
  BY Zenon DEF OrderInv, HandshakeInv, LoadingInv, RunningInv
<1>4. ASSUME NEW b \in Start!Cores PROVE LoadingInv(b)'
  BY <1>4 DEF OrderInv, HandshakeInv, LoadingInv
<1>5. ASSUME NEW b \in Start!Cores PROVE RunningInv(b)'
  BY <1>5 DEF OrderInv, HandshakeInv, LoadingInv, RunningInv
<1> QED BY Zenon, <1>1, <1>2, <1>3, <1>4, <1>5

\* The core answers when it has read everything.
LEMMA AnswerStep ==
  ASSUME Start!CoreAssumption, StartInv, NEW c \in Start!Cores, Start!Finish(c)
  PROVE  StartInv'
<1> USE CoresAreCounted DEF StartInv, StartTypes, Start!Finish, Start!ApStep, Start!primary,
    Before, Sent, After, Loading, Running
<1>1. StartTypes'
  BY Zenon
<1>2. OrderInv'
  BY DEF OrderInv, HandshakeInv, LoadingInv, RunningInv
<1>3. HandshakeInv'
  BY DEF OrderInv, HandshakeInv, LoadingInv, RunningInv
<1>4. ASSUME NEW b \in Start!Cores PROVE LoadingInv(b)'
  BY <1>4 DEF OrderInv, HandshakeInv, LoadingInv
<1>5. ASSUME NEW b \in Start!Cores PROVE RunningInv(b)'
  BY <1>5 DEF OrderInv, HandshakeInv, LoadingInv, RunningInv
<1> QED BY Zenon, <1>1, <1>2, <1>3, <1>4, <1>5

\* ap_init reads no global.
LEMMA ApInitStep ==
  ASSUME Start!CoreAssumption, StartInv, NEW c \in Start!Cores, Start!ApInit(c)
  PROVE  StartInv'
<1> USE CoresAreCounted DEF StartInv, StartTypes, Start!ApInit, Start!ApStep, Start!waker, Start!primary,
    Before, Sent, After, Loading, Running
<1>1. StartTypes'
  BY Zenon
<1>2. OrderInv'
  BY DEF OrderInv, HandshakeInv, LoadingInv, RunningInv
<1>3. HandshakeInv'
  BY DEF OrderInv, HandshakeInv, LoadingInv, RunningInv
<1>4. ASSUME NEW b \in Start!Cores PROVE LoadingInv(b)'
  BY <1>4 DEF OrderInv, HandshakeInv, LoadingInv
<1>5. ASSUME NEW b \in Start!Cores PROVE RunningInv(b)'
  BY <1>5 DEF OrderInv, HandshakeInv, LoadingInv, RunningInv
<1> QED BY Zenon, <1>1, <1>2, <1>3, <1>4, <1>5

\* The initializer that is run is that of the core itself.
LEMMA InitializerStep ==
  ASSUME Start!CoreAssumption, StartInv, NEW c \in Start!Cores, Start!RunInitializer(c)
  PROVE  StartInv'
<1> USE CoresAreCounted DEF StartInv, StartTypes, Start!RunInitializer, Start!ApStep, Start!waker, Start!primary,
    Before, Sent, After, Loading, Running
<1>1. StartTypes'
  BY DEF RunningInv
<1>2. OrderInv'
  BY DEF OrderInv, HandshakeInv, LoadingInv, RunningInv
<1>3. HandshakeInv'
  BY DEF OrderInv, HandshakeInv, LoadingInv, RunningInv
<1>4. ASSUME NEW b \in Start!Cores PROVE LoadingInv(b)'
  BY <1>4 DEF OrderInv, HandshakeInv, LoadingInv
<1>5. ASSUME NEW b \in Start!Cores PROVE RunningInv(b)'
  BY <1>5 DEF OrderInv, HandshakeInv, LoadingInv, RunningInv
<1> QED BY Zenon, <1>1, <1>2, <1>3, <1>4, <1>5

\* Every step keeps the invariant.
LEMMA StartPreserved == ASSUME Start!CoreAssumption, StartInv, [Start!Next]_(Start!vars) PROVE StartInv'
<1>1. CASE UNCHANGED Start!vars
  BY <1>1 DEF Start!vars, Start!primary, Start!waker, StartInv, StartTypes, OrderInv, HandshakeInv, LoadingInv, RunningInv
<1>2. CASE Start!PrimaryNext
  BY Zenon, <1>2, PrepareStep, StoreControlStep, StoreGsStep, ClearStep, DestinationStep, SendStep,
     DeliveredStep, WaitFinishedStep, CloneStep, HypervStep, WaitDoneStep DEF Start!PrimaryNext
<1>3. ASSUME NEW c \in Start!Cores, Start!ApNext(c) PROVE StartInv'
  BY Zenon, <1>3, TakeIpiStep, LoadControlStep, LoadGsStep, LoadContextStep, LoadCr3Step, AnswerStep,
     ApInitStep, InitializerStep DEF Start!ApNext
<1> QED BY Zenon, <1>1, <1>2, <1>3 DEF Start!Next

\* The invariant holds in every reachable state.
LEMMA StartInvariant == ASSUME Start!CoreAssumption PROVE Start!Spec => []StartInv
<1>1. Start!Init => StartInv
  BY Zenon, StartInitial
<1>2. StartInv /\ [Start!Next]_(Start!vars) => StartInv'
  BY Zenon, StartPreserved
<1> QED BY <1>1, <1>2, PTL DEF Start!Spec

\* A core that runs ap_reset is on its own stack, TLS block, per-core data and
\* task state segment: init_cpu_generic overwrites no global that the core
\* before still reads, and clone_initial_context sets all fields of its own.
\* When initialize_threads returns, every core has run the initializer that
\* was stored for it and is back in its loop.
THEOREM AllCoresComeUp == Start!Spec => []CoresComeUp
<1>1. StartInv => Start!OwnContext
  BY Zenon DEF StartInv, RunningInv, Start!OwnContext, Running, Start!PrimaryRegs, Start!BootRegs
<1>2. StartInv => Start!AllInitialized
  BY Zenon DEF StartInv, OrderInv, RunningInv, Start!AllInitialized
<1>3. Start!Spec => []StartInv
  BY Zenon, StartInvariant, BringUpAssumption
<1> QED BY <1>1, <1>2, <1>3, PTL DEF CoresComeUp

=============================================================================
