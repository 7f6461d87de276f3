------------------------------- MODULE BringUp -------------------------------
(***************************************************************************)
(* What the cores do apart from the dispatch of threads: how they are      *)
(* started, how they interrupt one another, and the traps that each of     *)
(* them takes.  The parts share no state.                                  *)
(***************************************************************************)
EXTENDS Integers, FiniteSets

CONSTANTS
  OtherCores,            \* number of cores that the primary core starts
  PingedCores,           \* number of cores that interrupt one another
  Flushers, MaxFlushes,  \* as in PingCores
  Kernel, Comp           \* as in Traps

VARIABLES
  \* CoreStart
  platform, start_pc, start_i, context, current, finished_with_current, destination,
  ipi, input, ap, regs, input_page, reported,
  \* PingCores
  ping_pc, target, generation, notification_generation, irr, flushes, handled,
  \* Traps
  cpu, frame, saved, was, overlapped

Start == INSTANCE CoreStart WITH N <- OtherCores, pc <- start_pc, i <- start_i
Ping == INSTANCE PingCores WITH N <- PingedCores, pc <- ping_pc
Trap == INSTANCE Traps

ASSUME BringUpAssumption == Start!CoreAssumption /\ Ping!PingAssumption /\ Trap!TrapAssumption

-----------------------------------------------------------------------------
(* Properties, as stated in the modules.                                     *)

\* A core in ap_reset has its own context and the registers of the core that
\* started it, and when initialize_threads returns every core has run its
\* initializer.
CoresComeUp == Start!OwnContext /\ Start!AllInitialized

\* flush_process_write_buffers returns after the handler ran on every other core.
FlushReachesAllCores == Ping!FlushReachesAllCores

\* Handlers run in the core, and whatever they interrupted goes on as it was,
\* when traps do not overlap.
ResumesInterrupted == Trap!ResumesInterrupted

=============================================================================
