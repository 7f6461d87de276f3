# Formal model of Monza

TLA+ specifications of the Monza unikernel and its host side, checked with TLC
on small instances and, where stated, proved with TLAPS for every value of the
constants. `PROJECT.json` holds the machine-readable side: components, runs,
mutants, the map from definitions to source lines, findings, hazards, theorems.

Paths are relative to `src/guest-verona-rt` unless they start with `src/`.

## 1. The system

| Part | Source | Modules |
|---|---|---|
| Semaphore, check-and-halt, IPIs | `crt/thread.cc`, `arch/x86_64/cores.asm`, `cores*.cc` | `Semaphore`, `CountingSemaphore` |
| Core start, dispatch, shutdown, flush | `crt/monza_main.cc`, `crt/thread.cc`, `cores.asm`, `cores_generic.cc`, `hv.cc` | `CoreDispatch`, `CoreStart`, `PingCores` |
| Boot, ACPI, descriptor tables, traps | `main64.*`, `cores_generic.cc`, `gdt.cc`, `exceptions.asm`, `compartment.asm` | `Boot`, `AcpiTables`, `DescriptorTables`, `Traps` |
| libc++ threading | `monza-libcxx/src/threading.cc` | `LibcxxSync`, `Once` |
| TLS, time, output | `crt/thread.cc`, `tls.cc`, `time.cc`, `output.cc`, `include/public/logging.h` | `TlsSlots`, `StaticTls`, `Ticks`, `Console`, `LogNumber` |
| Heap and page tables | `heap.h`, `address.h`, `hv_sev.cc`, `heap_generic.cc`, `pagetable.cc` | `HeapRanges`, `HeapSetup`, `PageTable`, `AddressSpace` |
| Allocator ownership, compartments | `include/public/snmalloc/snmalloc.h`, `experimental/include`, `compartment.asm` | `Ownership`, `Compartment`, `CompartmentMemory` |
| SEV-SNP | `hv_sev.cc`, `cores_sev.cc`, `sev_ghcb.h`, `hv_sev_guest_request.cc` | `VisibleMemory`, `GhcbCalls`, `GuestRequest` |
| Host enclaves | `src/app-framework`, `src/windows/app-framework` | `QemuEnclave`, `HcsEnclave`, `SharedMemory` |

How the parts interact. `start` detects the hypervisor, which chooses the
functions the rest calls through pointers, and `startcc` brings up descriptor
tables, heap, page tables and the per-core data found in the ACPI tables. Core 0
runs `monza_main`, which calls `main`. `main` may call `initialize_threads` to
bring the other cores into the loop `ap_reset`, and any running function may
give them functions with `add_thread`: a thread is the core it runs on. Threads
block on semaphores; the libc++ mutex and condition variable use one semaphore
per core, and a release wakes a halted core with an inter-processor interrupt.
The allocator tags chunks with the compartment that owns them; compartments run
in user mode on their own page table and come back through system calls and
callbacks. On SEV-SNP all traffic with the host goes through shared pages. The
host creates the guest (QEMU or HCS), maps shared memory into it and waits for
its end.

## 2. Modules

Every action models a handler or a step of one, with the names of the source.
History variables are marked as such where they are declared. Each module ends
with its properties; definitions whose comment begins with "Mutant" are
plausible mistakes in the definition that follows, kept to show that the
properties notice them.

### Cores and synchronisation

* `Semaphore` is `SingleWaiterSemaphore` at the granularity of memory accesses
  and instructions. `pc` is the program counter of a thread, `intr` the handler
  its core is in. `DebugBuild` chooses between the exchange-and-abort and the
  store of the release build; in the release build callers are assumed not to
  overlap ("There are not allowed to be two parallel calls to sleep",
  `verona_external_threading.h`). `Platform` chooses `trigger_ipi`. Memory is
  sequentially consistent: on x86 only a store followed by a load may be
  reordered, and every such pair here has a locked instruction in between.
  `CountingSemaphore` is what callers may rely on; `Counting` is the mapping.
* `CoreDispatch` has one action per statement of `add_thread`, `join_thread`,
  `initialize_threads`, the end of `monza_main`, and per instruction of
  `ap_reset` that touches shared memory. A job is a function and its argument,
  two words. `SerialAdds` restricts the callers: nothing in the code keeps two
  calls of `add_thread` from choosing the same core, so what is promised about
  single jobs is stated for calls that do not overlap. The ping in the spin of
  `add_thread` is left out: the loop polls.
* `CoreStart` refines the start of a core: the globals and the reset IPI of
  `init_cpu_generic`, the hypercalls of `init_cpu_hyperv`, which may fail, and
  the way of the new core to its loop.
* `PingCores` is `flush_process_write_buffers`: IPIs merge in the pending bit.
* `Boot` has the stages of `start` and `startcc` with what each reads and sets,
  `AcpiTables` the search and the two traversals of `parse_acpi` over small
  firmware images, `DescriptorTables` the tables as they are stored,
  `Traps` entry and exit of handlers around a compartment. `BringUp` puts
  `CoreStart`, `PingCores` and `Traps` side by side.
* `LibcxxSync` has both mutex classes and the condition variable; blocked
  threads sleep on a count, the interface of `CountingSemaphore`. Steps inside a
  spin lock that only touch what it protects are merged, and so is the read of
  `taken_thread` with the step after it: only a thread itself ever stores its
  own id. `depth` is a history variable. `Once` is `CustomOnceImpl::execute`.

### Runtime services

* `TlsSlots`: the two ranges of keys, for the core and for compartments.
  `allocate_tls_slot` takes three steps (test, load, store), because the threads
  of the core share one counter without a lock. `overlapped` is a history
  variable: it records that two of their calls have met. After that the counter
  may pass the end of its half; stores outside the array are not modelled.
* `StaticTls`: sizes, offsets and copies, against the addresses that compiled
  code uses.
* `Ticks`: the frequency that each platform sets, with the widths of its
  arithmetic, and both clocks.
* `Console`: entries, buffers and the lock, for cores and compartments, whose
  callbacks may be aborted. `LogNumber`: the conversion of a number, digit by
  digit, against the value of the text.

### Memory

* `HeapRanges` has the address arithmetic and `HeapSetup` the two set-ups of
  the heap, with arithmetic modulo a word `W`: 2^64 in the code, 16 in the
  instance.
* `PageTable` keeps the nodes of the radix trees with their allocation and
  reuse, as the allocator and the page fault handler call for them;
  `AddressSpace` is a map from pages to rights, which
  it implements. `Layout` scales the tree: three levels of two entries.
* `Ownership` has the page map, the doubly linked list of each owner,
  `MonzaRange` with its destructor, on several cores, and the page fault handler
  that reads them. A call takes a step per chunk, and one for the late `clear`
  of the destructor. In behaviours with `serial` calls do not overlap. The ranges
  of snmalloc below are external: they give a block that is free, or none.
* `Compartment` keeps the stack of one core as the list of frames that
  `compartment.asm` links through it; `CompartmentMemory` the memory objects
  that are filled, moved and destroyed, without their contents. `Compartments`
  puts the two side by side.

### SEV-SNP and host

* `VisibleMemory` (pool shared with the host, page state changes, the MSR),
  `GhcbCalls` (calls in the base format and hypercalls through the GHCB with
  time-outs, and the start of a core), `GuestRequest` (sequence numbers, lock,
  the cipher context shared by all threads; PSP and OpenSSL are external).
  `Confidential` puts the three side by side.
* `QemuEnclave` has the instances of several host processes, at the same time or
  in turn, any of which may be killed between two system calls. `HcsEnclave` has
  construction with every failure, the callbacks, `join` and the destructors.
  `SharedMemory` has the allocation on the host and the checks in the guest. The
  kernel, HCS and the ring buffer library are external.

## 3. Runs

Small components that ask their questions separately share a run: module `MCx`
extends one and instantiates the others, `part` says which one a behaviour is
about, and the variables of the others keep an initial value. So a run explores
the union of the components' state spaces, not their product.

| Run | Parts and instance | Shows |
|---|---|---|
| `semaphore` | 3 threads, 2 releases, debug build | tokens conserved, no lost wake-up, pings that end and are synchronous, refinement of `CountingSemaphore` |
| `cores` | dispatch: 3 cores, 3 jobs, calls of `add_thread` that do not overlap; start: 3 cores besides the first; flush: 2 of 3 cores; ACPI images; boot on every kind of machine; tables for 5 cores; traps | jobs run once, joins wait for the right job, shutdown is quiescent; cores come up on their own data; flushes reach all; the cores of the firmware are found; boot order; handlers run in the core and what they interrupted goes on |
| `mutex` | 3 threads, 2 calls each, both mutex kinds, no nesting | exclusion, one wake-up per sleep, no forgotten waiters, calls return |
| `runtime` | execute-once: 3 threads; slots: 2 threads and 1 compartment, 3 slots each; TLS sections of 0 to 5 units at every placement; clocks: 8-bit arithmetic; console: 2 cores; all 8-bit numbers | the routine runs once, keys and blocks are kept apart, clocks follow the ticks, output is whole |
| `sev` | requests: 2 threads, 2 each; visible memory: 2 cores, 9 frames; GHCB: 3 operations; memory maps of up to 4 entries; page tables: 3 levels, 2 compartments | sequence numbers, own answers, shared memory accounted for, calls shown to the host, heap is the accepted memory, refinement of `AddressSpace` |
| `memory` | ownership: 2 cores, 2 compartments, 3 chunks, blocks of 1 and 2; invocations 2 deep, 2 callbacks, 3 compartments created at 2 addresses; 3 memory objects | owners, lists, collection, frames, stacks, single ownership |
| `host` | QEMU: 2 processes with up to 2 guests; HCS; shared memory: 64 addresses | nothing left behind, own guest resumed, join returns, objects apart and seen alike |
| `semaphore_sev` | 2 threads, 1 release, SEV | **violation**: a ping returns although no handler ran |
| `recursive_nested` | 2 threads, nesting 2 | **violation**: two threads inside after an inner unlock |
| `recursive_owner` | 2 threads, nesting 2 | **violation**: an owner blocks on its own mutex |
| `guest_request_shared` | 2 threads, 1 request each | **violation**: a payload that is not the answer |
| `traps_overlap` | 1 core | **violation**: an IPI replaces the frame of an exception |

Why the bounds are enough. Semaphore: a waiter and two releasers, so that the
second release meets the first in every phase of its ping. Until it aborts, the
debug build does what the release build does and more callers may meet in it;
the proofs are for both. Dispatch: two cores besides the first, so that a
function adds to and joins another, and a third job uses a mailbox again. Mutex:
a holder, a waiter and one that barges in. Requests: an answer that is lost and
a later one, by the same or another thread. Ownership: one
chunk with the interrupt stacks and two to give, so that a list loses its first
or its last entry and a block of two is added in two rounds (the proofs are for
any number); two cores with two compartments hand a chunk over while the other
destroys. Where calls overlap, no compartment reads memory that it does not own;
where they do not, one compartment does and one core makes all calls (`Bounds` in
`MCMemory`). Page tables: a
table that reuses the nodes of an earlier one. Host: a second process that meets
the leftovers of a killed first; only the second has a second guest
(`FirstHasOne` in `MCHost`). Sizes and addresses are chosen on both sides of the
bounds that the code compares with, in words of a few bits: `SharedMemory` and
`HeapSetup` include sums that wrap around, `Ticks` a counter that wraps and a
product that is truncated, `LogNumber` all values. Other limits of the real types
(16-bit slot numbers, 32-bit table lengths) are reached only as scaled constants
or not at all.

What the properties leave out, because the code does not promise it or the model
does not reach it:

* `EveryJobRunsOnce` and `JoinWaitsForTheJob` are about calls of `add_thread`
  that do not overlap; overlapping calls may choose the same core, and one job
  may then replace another. `DispatchEnds` has finitely many jobs: a
  `join_thread` that polls while ever new jobs are given to its core might
  starve, and the run does not show it.
* `BringUpEnds` says that `parse_acpi` ends exactly if it gets to no MADT entry
  of length 0: on one it stays for ever (`cores_generic.cc:153`). A table whose
  header gives less than the length of the header is not modelled. A hypercall
  that fails in `init_cpu_hyperv` is logged and leaves `initialize_threads`
  waiting.
* `ResumesInterrupted` is about traps that do not overlap (see the findings).
* `TlsIsKept` is about the keys of the core's threads only until two of their
  allocations overlap; keys of compartments and static blocks always.
* `ClockIsExact` is about `tsc_freq` as it was set. Where that is not the real
  frequency (none reported, or a product that `kvm.cc:25` truncates), clocks run
  at the wrong speed, and the property says at which.
* `HostSeesTheCall` does not say that only the fields of this call are marked as
  valid: the bitmap starts uninitialised.
* `PagesAreProtected` is about what user code may write and about the interrupt
  stacks, not about read mappings of pages that are free again, nor about entries
  a TLB still holds. Page faults are taken at the last address of each page.
* `OwnershipIsTracked` has two parts: that the page map never names a compartment
  for a chunk it was not given holds for overlapping calls too; that it names
  every holder, only for calls that do not overlap.
* `BlocksHaveOneOwner` does not notice that `fill` refuses data of exactly the
  size of the block, nor that `span()` counts elements where `alloc_size` counts
  bytes.
* `HostCleansUp` excepts names that another process uses at the same time, and a
  QEMU of a killed process that was still being started when its successor
  removed the socket. A QEMU counts as cleaned up when it has exited or was told
  to. Process ids are not reused in the model.
* `JoinReturns` is about guests that were started.

Deadlock checking is off where the system may stop: in `semaphore` after an
abort or when nobody releases, in `mutex` in a wait nobody signals or when the
calls are used up, in `host` when the processes have ended, and in the violation
runs of the first two. Elsewhere an explicit step marks the states in which it
may.

Fairness. A core that is not halted executes its next instruction, and a pending
interrupt is delivered: weak fairness of each core's steps and of interrupts.
Nobody is obliged to call anything. `cores` adds that functions of the
application return, strongly fair because a function may try `add_thread` many
times before it returns; `mutex` that a holder unlocks, and calls are finitely
many, so nobody barges in for ever (the code does not promise
first-come-first-served); `memory` that a call into the allocator goes on, as
the core is not preempted; `host` that a guest that was started ends and that
HCS closes its pipe. That HCS delivers an exit to a callback is not assumed: the
callback may not be registered in time. `ImplementsCounting` claims the progress
of the counting semaphore unless `kabort` ends the behaviour.

### Findings

With a violation run each, quoted in `PROJECT.json`: `trigger_ipi_sev` breaks
the promise documented for `ping_core_sync`; the recursive mutex forgets its
nesting at the first unlock, and clears its owner too late; `decrypt` runs on a
shared context after the lock was released; exception gates share an interrupt
stack with the wake-up IPI.

Met while modelling, with the state in the module but no run of its own:

* `Ownership`: `dealloc_all` clears the owner after the chunk went back
  (`snmalloc.h:501`), so with two cores a new owner may be erased, and the check
  of `remove_monza_owner` then stops the system. `validate_owner_range` (`:420`)
  steps by chunks from its first byte and misses the last chunk of an unaligned
  range; the comment at `:414` says "fully owned".
* `PageTable`: interrupt stacks are heap memory without an owner, so the page
  fault handler maps them readable for a compartment that reads there; the
  comment at `gdt.cc:60` says "not accesible by user". The nodes below a
  persistent entry are not freed (`pagetable.cc:84`).
* `Compartment`: the stack limits in the TCB are not set back after a re-entrant
  invocation (`arch_compartment.h:167`); an owner value is an address that a
  later compartment may get (`:115`). `CompartmentMemory`: `fill` refuses data of
  exactly the reserved size (`compartment_utils.h:130`).
* `TlsSlots`: `allocate_tls_slot` tests and increments a shared counter without a
  lock (`thread.cc:187`).
* `GhcbCalls`: the bitmap of valid fields starts uninitialised (`sev_ghcb.h:108`);
  a console call that fails is logged while the core holds `io_lock`, for which
  it then waits (`hv_sev.cc:353`).
* `AcpiTables`: `parse_madt` never passes an entry of length 0.
* `Boot`: logging in `setup_hypervisor` takes a lock in the BSS before it is
  cleared (`hypervisor.cc:111`). `Ticks`: the clock since boot jumps back at
  `init_timing` for global initialisers (`main.cc:16`); `kvm.cc:25` forms a
  product of 32 bits. `StaticTls`: the comment on the offset of `.tbss`
  (`tls.cc:59`) holds only for an aligned `.tdata`; the code is right.
* `QemuEnclave`: the destructor waits for a paused process if `async_run` was
  never called; the file under `/dev/shm` is never removed, although the comment
  at `enclave_platform.h:156` speaks of removing it; ids repeat from process to
  process.
* `HcsEnclave`: after `join` the deleter joins the thread again, which throws in
  a destructor and ends the process (`hcs_enclave.cc:403`); a failed wait for the
  creation (line 498) leaves the handle open; an instance that was created but not
  started waits for its own pipe.

## 4. Proofs

A theorem is about the specification of one component, for every set of threads,
cores, compartments, chunks or jobs and every bound, from the assumptions that
its module names (positive counts, constants that differ from each other, sizes
that fit the word). Each proof has the same outline: an inductive invariant holds
initially, every action keeps it (one lemma per action or kind of action), and it
implies the property. TLC checks the property on the instance of the run;
`PROJECT.json` lists which theorem states which property.

* `SharedStateProofs`, semaphore. `Inv` (types, conservation, the waiter is
  registered, the compare-exchange follows a positive read) gives `TypeCorrect`,
  `TokensAreConserved`, `SingleWaiter` and, as a step simulation,
  `ImplementsCountingSafely`, for both builds and platforms. `NoLostWakeup` is
  not inductive: a releaser that is in its ping leaves the loop when the
  generation moves, so it must be known that the generation moves exactly when
  the handler ran. `WakeupInv` adds this and gives `NotificationsAreNotLost` and
  `PingIsSynchronous`, for `Platform = "generic"`; on SEV the second is false.
* `SharedStateProofs`, owners. `OwnersAreTracked` and `ListsStayExact`, from
  `OwnInv`. The list of a compartment is the set of chunks it holds minus those
  that calls in progress have yet to add or have removed (`Listed`); `ListInv`
  says that the links form a cycle through exactly this set, without induction
  over the list: `next` and `prev` are inverse to each other on it, and no
  smaller set with the head in it is closed under `next` (`Ring`). `CallOK` says
  what a call half-way has done, and that the pointers which `forall` noted are
  still in the list.
* `CoreDispatchProofs`. `ShutdownWaitsForAllWork`, for overlapping calls of
  `add_thread` too. The counter equals the number of counted cores
  (`CountIsExact`), but a core counts itself late, so the proof needs that
  whoever posted a function that is not yet taken is still in `add_thread`
  (`PosterWaits`), hence running and counted (`CallsAreMadeByRunning`), down to
  core 0. `JobsRunOnce` and `JoinsWait`, for `SerialAdds`: `SerialInv` follows
  each job through the words of the mailbox (`Mailbox`), the call that stores
  them (`AddCall`) and its history (`JobHistory`).
* `LibcxxSyncProofs`. `MutexExcludes`, for `MaxDepth = 1`: ownership lasts from
  the exchange to the store; it implies `taken` and is unique. `WakeupsAreExact`,
  for any nesting, from `WakeInv`: the queues have no repetitions and a thread
  has a wake-up in one place exactly while it is to be woken. `FreeMutexNoticed`
  adds who holds the spin lock (`SpinInv`) and that some thread will notice
  (`Noticed`).
* `RuntimeProofs`. `RoutineRunsOnce`. `TlsKept`: `SlotsInv` says that keys are
  given in order and that an allocation under way has found room, for the core
  until calls overlap; `StaticInv` that blocks lie apart inside memory, with the
  template where compiled code looks, for any sizes and alignment.
* `BringUpProofs`. `AllCoresComeUp`: a core that runs is right because what it
  has read was right (`LoadingInv`), and that because only core `i` reads while
  the primary core waits (`OrderInv`) and the answer it waits for is of this
  core, not of the one before (`HandshakeInv`). `FlushReaches`: that the loop
  leaves no core behind (`BehindInv`) is not inductive by itself; the loop goes
  on when two numbers differ, and `GenerationInv` says that they differ only if
  the handler has run since this flush began, also when another core sent the
  IPI. `InterruptedResumes`, an action property: `TrapInv` says at every place of
  a handler which registers are still those of the interrupted code and where
  the others are saved.
* `ConfidentialProofs`. `SequenceStaysInStep` and `AnswerIsOwn`, for overlapping
  calls: `PageInv` says that the PSP is ahead only while the holder of the lock
  is between exit and check, and that the page then holds its answer or one with
  a number too small to be accepted. `encrypt` and `decrypt` keep all this, so
  the unprotected context cannot break it. `SerialCalls`, for calls that do not
  overlap: `SerialInv` says what the context has been fed at each point.
  `VisibleStaysShared`, from `VInv`: the pool is shared (`PoolInv`), blocks lie
  below it without a gap (`BlockInv`), who adds to it holds the lock (`WorkInv`),
  and the GHCB of a core is a frame given to it (`GhcbInv`).
  `HostSees`, from `GhcbPageInv`: at each point of a call the fields written for
  it are in the page and marked.
* `CompartmentsProofs`. `CallsNest`: the stacks of a compartment are those of its
  invocations, in their order, or one that is not in use (`StackOK`); the
  invocations are counted with cardinalities. `OneOwner`, from `DataInv`.
* `HostProofs`. `CleansUp`: `AloneOK` says that an instance whose name is not in
  use elsewhere has the socket to itself and that what the host has seen is its
  own QEMU. `ObjectsAgree`, from `SharedInv`, for every word size, region and
  alignment that the assumption admits: sums that do not wrap are exact, and
  those that do are refused.

Only model-checked: every liveness property (`PingReturns`, `DispatchEnds`,
`BringUpEnds`, `CallsReturn`, `DestructorReturns`, `JoinReturns`) and the fair
refinement `ImplementsCounting`, since the prover does not treat fairness or
ENABLED; `PagesAreProtected` and `ImplementsAddressSpace`, whose trees are
recursive operators; `OutputIsWhole`, whose number conversion would need
induction over data; `ClockIsExact`, whose products of variables are beyond the
solvers; `FirmwareIsRead`, `BootIsSound` and `HeapIsUsable`, which compare loops
over tables with what they compute and would need induction as well.

## 5. Not modelled

* libc ports: stubs without state, and `pthread_*` functions that pass their
  arguments to operations modelled here.
* Verona handles: each method is one call of `add_thread`, `join_thread`,
  `acquire` or `release`.
* The ring buffer between host and guest is an external library; only its
  placement and the checks on it are modelled. How the host formats the lines
  that a guest writes to its pipe is left out.
* TLB invalidation: CR3 is reloaded when a compartment is entered. What a
  compartment computes, including the wrappers that issue its system calls; the
  contents of memory objects; and the ranges of snmalloc below `MonzaRange`.
* `List::Base::invariant` assigns inside `SNMALLOC_ASSERT`; on lists that are
  consistent this has no effect, and the check is left out.
* The 16-bit boot loader, the build system, patches of other projects, and the
  example applications: they are not code of this program or have no state.
