-------------------------------- MODULE Ticks --------------------------------
(***************************************************************************)
(* Time keeping.  The only clock is the processor's tick counter, which    *)
(* wraps around; tsc_freq ticks are a second, set once by the platform.    *)
(* __libc_start_main runs the global initializers and then init_timing,    *)
(* which notes the counter and the time that the build recorded.           *)
(***************************************************************************)
EXTENDS Integers

CONSTANTS
  Width,       \* bits of the tick counter and of every product (64)
  FreqWidth,   \* bits of the product that init_kvm forms (32)
  NS_IN_S,     \* 1'000'000'000
  Kilo, Mega,  \* 1000 and 1'000'000
  DefaultFreq, \* initial value of tsc_freq (2'000'000'000)
  Machines,    \* [platform, freq]: real frequencies, a multiple of what is reported;
               \* "none" stands for all that keep the default, whatever they have
  Starts,      \* values of the counter at the start of the program
  MaxElapsed,  \* bound: ticks since the start
  BootTimes    \* [sec, ns] that init_timing may be given

\* hv_set_tsc_freq, sev_set_tsc_freq and init_kvm: what the platform reports
\* is in Hz, MHz and kHz; the last is multiplied in the width of its argument.
\* KVM without the timing leaf, and no hypervisor, keep the default.
set_tsc_freq(m) ==
  CASE m.platform = "hyperv" -> m.freq
    [] m.platform = "sev" -> ((m.freq \div Mega) * Mega) % 2^Width
    [] m.platform = "kvm" -> ((m.freq \div Kilo) * Kilo) % 2^FreqWidth
    [] m.platform = "none" -> DefaultFreq

TicksAssumption ==
  /\ Width \in Nat /\ FreqWidth \in Nat /\ NS_IN_S \in Nat \ {0} /\ MaxElapsed \in Nat
  /\ \A m \in Machines : /\ m.freq \in Nat \ {0} /\ set_tsc_freq(m) # 0
                         /\ (m.freq - 1) * NS_IN_S < 2^Width /\ (NS_IN_S - 1) * m.freq < 2^Width
  /\ \A b \in BootTimes : b.ns < NS_IN_S

VARIABLES
  machine, tsc_freq,
  start, elapsed, \* the counter is start + elapsed, modulo its width
  booted,         \* init_timing has run
  ticks_at_boot, time_at_boot,
  boot            \* history: what init_timing was given, and elapsed at that time

vars == <<machine, tsc_freq, start, elapsed, booted, ticks_at_boot, time_at_boot, boot>>

tick == (start + elapsed) % 2^Width

Init ==
  /\ machine \in Machines /\ tsc_freq = set_tsc_freq(machine)
  /\ start \in Starts /\ elapsed = 0
  /\ booted = FALSE /\ ticks_at_boot = 0 /\ time_at_boot = [sec |-> 0, tick |-> 0]
  /\ boot = [sec |-> 0, ns |-> 0, at |-> 0]

Pass ==
  /\ elapsed < MaxElapsed
  /\ elapsed' = elapsed + 1
  /\ UNCHANGED <<machine, tsc_freq, start, booted, ticks_at_boot, time_at_boot, boot>>

tick_to_ns(t) == ((t * NS_IN_S) % 2^Width) \div tsc_freq
ns_to_tick(ns) == ((ns * tsc_freq) % 2^Width) \div NS_IN_S

init_timing(b) ==
  /\ ~booted /\ booted' = TRUE
  /\ time_at_boot' = [sec |-> b.sec, tick |-> ns_to_tick(b.ns)]
  /\ ticks_at_boot' = tick
  /\ boot' = [sec |-> b.sec, ns |-> b.ns, at |-> elapsed]
  /\ UNCHANGED <<machine, tsc_freq, start, elapsed>>

\* Mutant: a counter below its value at boot counts as no time.
get_elapsed_ticks_Saturating == IF tick >= ticks_at_boot THEN tick - ticks_at_boot ELSE 0
get_elapsed_ticks == (tick - ticks_at_boot) % 2^Width

get_timespec(since_boot) ==
  LET e == get_elapsed_ticks
      t == (e % tsc_freq) + (IF since_boot THEN 0 ELSE time_at_boot.tick)
      s == (e \div tsc_freq) + (IF since_boot THEN 0 ELSE time_at_boot.sec)
  IN [sec |-> s + (t \div tsc_freq), ns |-> tick_to_ns(t % tsc_freq)]

\* A reading, which any core may take at any time and which changes nothing;
\* the time of the process is that since boot.
Clocks == {"CLOCK_MONOTONIC", "CLOCK_PROCESS_CPUTIME_ID", "CLOCK_REALTIME"}
clock_gettime(type) == get_timespec(type # "CLOCK_REALTIME")

Finished == elapsed = MaxElapsed /\ booted /\ UNCHANGED vars

Next ==
  \/ Pass
  \/ \E b \in BootTimes : init_timing(b)
  \/ Finished

Spec == Init /\ [][Next]_vars

-----------------------------------------------------------------------------

\* The platform says how many ticks are a second, and init_kvm can tell tsc_freq.
Calibrated ==
  CASE machine.platform \in {"hyperv", "sev"} -> TRUE
    [] machine.platform = "kvm" -> machine.freq < 2^FreqWidth
    [] machine.platform = "none" -> machine.freq = DefaultFreq

\* After init_timing a reading is never ahead of the real time, and behind it
\* by less than a tick and a nanosecond together, for every clock, also when the
\* tick counter has wrapped around since boot; its nanoseconds are less than a
\* second.  On a machine that is not calibrated the same holds of a time that
\* passes at the rate of tsc_freq: the clocks run evenly, with the wrong speed.
\* Times are compared in units of 1 / (frequency * NS_IN_S) seconds.
ClockIsExact ==
  booted => \A type \in Clocks :
    LET f == IF Calibrated THEN machine.freq ELSE tsc_freq
        reading == clock_gettime(type)
        passed == (elapsed - boot.at) * NS_IN_S
        real == passed + (IF type = "CLOCK_REALTIME" THEN (boot.sec * NS_IN_S + boot.ns) * f ELSE 0)
        behind == real - (reading.sec * NS_IN_S + reading.ns) * f
    IN reading.ns \in 0..NS_IN_S - 1 /\ behind >= 0 /\ behind < f + NS_IN_S

=============================================================================
