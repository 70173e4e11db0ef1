# Xermu in TLA+

A TLA+ model of Xermu, an emulator of the original Xbox for x86-64 hosts: a
just-in-time compiler for guest x86 code, models of the chipset, a high-level
("HLE") kernel and the host side of the open nboxkrnl kernel. This directory
holds the modules, the TLC configurations, and the proofs. Paths below are
relative to the repository (`src/cpu/...` is the emulator's source directory).

## The system

| Component | State | Operations | Talks to |
|---|---|---|---|
| Trace cache, run loop (`cpu/trace.hpp`, `cpu/executor.cpp`) | two-level table EIP → trace, trace arena, code cache, page-protection bitmap, `prev_trace` | look up, build, insert, flush, link, dispatch, protect, invalidate, unlink | trace builder, fault handler, TLB, PIC, device ticks |
| Trace builder, emitter (`cpu/trace_builder.cpp`, `cpu/emitter.hpp`, `cpu/insn_dispatch.hpp`) | emit buffer, pending exits, memory sites | build a trace of up to one page | arena, code cache |
| Paging, software TLB (`Executor::translate_va`, `translate_va_jit`) | read and write TLB, CR0, CR3, page tables in guest RAM | translate, fill, flush, flush one page | run loop, helpers |
| Privileged instructions (`cpu/privileged.cpp`) | control registers, `virtual_if`, descriptor tables, MSRs | MOV CRn, INVLPG, CLI/STI, IN/OUT, HLT … | trace cache, TLB, ports |
| Fault handler (`cpu/veh_handler.cpp`) | – | write to a code page; patching of MMIO sites; divide errors | trace cache, MMIO |
| Interrupt delivery (`Executor::run`, `deliver_interrupt`, `iret_helper`) | `virtual_if`, guest stack | poll, acknowledge, enter the handler, return | PIC pair |
| 8259A pair (`xbox/pic.hpp`) | irr, imr, isr, ICW state per chip | raise, lower, has_pending, ack, EOI, ICW/OCW | all devices, run loop |
| PIT, CMOS/RTC, SMBus, NV2A interrupts (`xbox/pit.hpp`, `cmos.hpp`, `smbus.hpp`, `nv2a.hpp`, `setup.hpp`) | counters, status registers | tick, port and register reads and writes | PIC |
| PFIFO pusher (`xbox/nv2a.hpp`) | GET, PUT, subroutine return, reference values | consume the push buffer | guest RAM, PGRAPH, renderer |
| IDE, flash, USB (`xbox/ide.hpp`, `flash.hpp`, `usb.hpp`) | task-file registers, data phase; command state; frame number | commands, data port; writes; tick | disk image |
| Other register files (PCI, ACPI, I/O APIC, APU, misc) | registers | read, write | – |
| Host file I/O of nboxkrnl (`xbox/nboxkrnl_io.hpp`) | work queue, retry buffer, completed map, handle maps, wake-up flag | submit, retry, query (emulation thread); take, process, store (worker); stop | guest kernel through ports 0x206–0x20A, host files |
| HLE kernel and scheduler (`xbox/hle/`) | thread slots, pending threads, DPCs, heap, file handles | some 300 exports; `run_step` | executor |
| Emulation thread (`xbox/emu_thread.hpp`) | stop and halt flags | start, stop, run | UI thread |
| User interface (`main.cpp`) | menu state, boot mode, file dialog | buttons, frames | boot functions, emulation thread |
| Loaders, keys, paths, Vulkan renderer | – | – | – |

**What is hard.** The emulated CPU, its devices and the HLE kernel share one
thread, so their difficulty is order, not preemption: translated code outlives
the bytes and mappings it was made from; patched jumps bypass the run loop;
interrupt state is spread over two chips, the run loop and guest handlers that
nest. Threads exist at three places: the I/O worker, the emulation thread
against the UI, and the (wired but never started) NV2A thread.

**What makes each part correct.** Trace cache: a trace that is entered agrees with memory
and with the mapping in force, and a patched exit leads to a live trace. PIC
and delivery: only requested, unmasked lines are delivered, by priority, and
none is lost or left in service. File I/O: a request is served once, answered
once, no wake-up is lost, and stop returns. Devices: a line follows the
registers it is computed from, the timer is on time, what was written to disk
and flash is there. Pusher: it goes on at commands, in order, and does go on.
Generated code: on every path, the guest's registers, memory and flags are
where they belong, and the host stack is balanced. Scheduler: a DPC runs once,
a living thread runs again, with its own registers and stack. Host program: the
menu never boots over a running system, and a stop returns.

## Modules

| Module | Models | Kind |
|---|---|---|
| `TraceCache` | trace cache, linking, SMC protection, read TLB, the run loop around them | specification |
| `MCTraceCache` | guest programs and page tables for TLC | instance |
| `TraceCacheProofs` | theorems about `TraceCache` | proofs |
| `Pic` | the two 8259A chips as operators on records | operators |
| `PicProofs` | what the chips' operators keep | proofs |
| `IrqDelivery` | devices, PIC pair, run loop, guest handlers | specification |
| `MCIrqDelivery` | wiring, masks and ICW1 variants for TLC | instance |
| `IrqDeliveryProofs` | theorems about `IrqDelivery` | proofs |
| `IoRequests` | the guest's request protocol, and what serving a request does | operators |
| `IoService` | what the host I/O promises | abstract specification |
| `IoSystem` | queues, flags, worker thread, stop | specification, implements `IoService` |
| `IoSystemProofs` | theorems about `IoSystem`, the refinement among them | proofs |
| `Pit`, `Rtc`, `Smbus`, `Ide`, `Flash`, `Usb`, `Nv2a`, `Pfifo` | one device each | operators |
| `Machine` | the devices, the clock callbacks, the PICs, a guest that drives them | specification |
| `MCMachine` | flash commands, a push buffer and its trail for TLC | instance |
| `MachineProofs` | theorems about `Machine` | proofs |
| `HleKernel` | the kernel calls that keep state | operators |
| `HleSched` | thread slots and `run_step` | operators |
| `Host` | user interface, emulation thread, boot, the title's threads | specification |
| `HostProofs` | theorems about `Host` | proofs |
| `JitInsns` | instruction forms, their classes, the liveness pass | operators |
| `JitEmit` | the code generated for each form | operators |
| `Jit` | a processor that runs the generated code | specification |
| `MCJit` | the traces that are built | instance |
| `JitProofs` | theorems about `Jit`: the host stack, liveness | proofs |
| `JitStateProofs` | the theorem about the guest's state in `Jit` | proofs |

### TraceCache

A physical page holds a *content*, and the content decides where the traces
starting on the page may exit to (constant `Exits`). A trace records what it
was built from (`built`), the paging mode it was emitted for, its exits and
its links. Host code is represented by the trace's index in the arena: the code
cache and the arena are always reset together. `run` is the trace that is
executing, or 0 when the run loop has control. One action is one iteration of the run loop up
to the jump into the trace (`EnterCached`, `EnterBuilt`, `EnterAfterFlush`,
`FetchFault`), one exit of a trace (`FollowLink`, `LeaveToRunLoop`), one store
(`GuestStore`, `HostStore`, `EditPte`) or load (`Load`), or one privileged instruction
(`Invlpg`, `MovCr3`, `MovCr0`). A store to a protected page includes the whole
fault handler.

The write TLB is not kept as state. A store that hits it may go to any frame a
page table can name for the page (`MayMap`), which includes every entry the write TLB can
hold; a store that walks uses the page tables and fills the read TLB as the
code does.

`LeaveToRunLoop(e)` lets a trace leave to any entry point, which covers cold
and indirect exits, faults and their handlers; `BreakChain(e)` covers delivery
of an interrupt between traces and a new call of `run()`.

### Pic and IrqDelivery

A register is the set of its lines. `Raise` and `Lower` are the devices,
`Deliver` is the poll at the trace boundary with `ack()` and the IDT gate, the
port writes are `StartMaster/Slave` (ICW1), `DataMaster/Slave` (ICW2–4 or the
mask) and the EOI commands of the handlers. A handler sends its EOIs, the slave's first, and
then executes IRETD; it may set IF and be interrupted at any point. Guests
initialise the chips with interrupts off and outside handlers. A read and the
register select of OCW3 change nothing the properties see.

### IoRequests, IoService, IoSystem

The guest's protocol (`MayIssue`) is what the nboxkrnl packets presuppose: an
id names one outstanding request; a handle is used between the answers to its open
and its close. `IoSystem` has one step per lock region and flag operation of
the worker; a critical section of the emulation thread is one step, because
the only thing that can be seen before its unlock is `pending_flag`, on which
the worker does nothing but ask for the same lock. A failed `try_lock` is
enabled exactly while the worker is inside. `Service` in `IoSystem` is the
refinement mapping: the result of a request is in the worker's hands or in
`completed_map`.

### The devices and Machine

Each device module gives the state of the chip as a record and one operator per
register access or tick. `Machine` puts them behind `hw_tick_callback` (`Tick`)
and `hw_tick_burst_callback` (`Burst`), with the lines they raise, the delivery
of interrupts and the handlers of a guest (`Deliver`, `Silence`, `Return`). The
devices share nothing but the PICs, so a behaviour lets the guest drive one
group (`driver`); every tick still drives all of them. The guest follows the
protocol of each device: it reads data in a data-in phase, reads a count in
access mode 3 after latching it; it may reset or
reprogram at any time. Quantities a property needs but the code does not have
are kept apart from the code's own state: `pitDue` counts the ticks to the next
IRQ 0, `xfer` what a disk transfer asked for.

`Pfifo` counts addresses in dwords. `Drained` is the loop of `tick_fifo`, up to
its budget `MaxDwords`. In the drivers "user" and "window" the registers are
committed memory that the tick polls (`Polled`, `Synced`); in "mmio" they are
written through faults. A GET the guest stores (`StoreGet`) is the start of the
buffer or of another command, and counts only until the pusher has started;
`UserGet` leaves out the position of the compute shader, like the shader itself.
`FencesInOrder` is about the PGRAPH register REF_CNT, which a guest reads by MMIO.
In the committed window the tick overwrites 0x400B10 with CACHE1_REF (the `ref` of
`Window`), so a guest that polls there sees the method SET_REFERENCE and never
NV097_SET_REFERENCE; no property speaks of that copy.

A guest may store to register C of the clock and so discard its flags, but it
does not set a flag there by hand (`RtcWrite`): no interrupt would come for it.

### HleKernel, HleSched and Host

A button, the result of the dialog or a frame's check is one step of the main
thread; `Leave` requests the stop and `Joined` is the join's return. The
emulation thread's steps are those of its loop: `EmuSteps` and `EmuRunsDpc` and
`EmuPicks` for `run_step`, one step per kernel call of the running thread, and
one per way its run can end. A context is the thread the registers belong to and
the place where it goes on. A yield halts the processor inside a kernel stub,
and `run()` goes on at EIP + 1 as after HLT; the places "wait" and "lost" are what
becomes of that. A second `xbox_setup` for the same executor fails an assertion
(`register_io`), which ends the program ("aborted").

### JitInsns, JitEmit and Jit

The guest's state is two registers (`a`, which a call of a C function clobbers,
and `c`), the stack pointer, memory and two flags, one that INC and DEC write
and one that they leave. What matters of a value is whether it is what the location held before
the instruction ("old"), what the instruction is to leave there ("new"), or
neither ("junk"). `Insns` says what each form of instruction reads of the flags
and writes. `JitEmit` has an operator for each emitter function and handler and
composes them into sequences of micro-operations (`Emit`). `Jit` executes them
one by one: a computation yields "new" only from right inputs; a call destroys
the caller-saved registers; a translation may fault; an access that can hit MMIO
runs as it was emitted, patched to a helper, or emulated by the fault handler.

Simplifications: the accesses of PUSH, POP, CALL, RET and LEAVE are to RAM, never
MMIO. In the code they are sites the fault handler can patch
(`src/cpu/trace_builder.cpp:643-647`, 695-699, 776-780, 1114-1118, 1175-1179); a RET from
a stack in MMIO would lose EAX, because the helper saves all registers, the
return address in EAX among them, over the value that line 1192 loads back. Memory is one
location. The form `ud2` stands for everything the builder rejects; it is rejected before
anything is emitted for it, whereas `emit_handler_alu_mem` and the FPU and SSE
handler can reject an instruction after they saved the flags (465-467, 1018-1020), which would
leave the flags on the host stack before the trap. Flags at the end of a
trace count as dead, which is the builder's own rule (phase 2 of `build`), except after IRETD.
"lost" is the value a helper leaves when it drops a page fault
(`guest_translate`).

## Runs

| Run | Expect | What it shows |
|---|---|---|
| `TraceCacheFlat` | pass | flat page tables, one entry per slot: no stale code is entered, links are live, live code is protected, the fault invalidates everything on the page, chains come back |
| `TraceCacheAlias` | pass | any page tables, colliding first level, straddling instructions, arena of 2: links are still live |
| `TraceCacheClash` | violation | two entries in one slot: stale code is entered through a link |
| `TraceCacheHigh` | violation | a page mapped to another frame: the fault invalidates nothing |
| `IrqDelivery` | pass | only requested and unmasked interrupts, in priority order, nothing left in service |
| `IrqLost` | violation | a masked slave request is forgotten when another line is lowered |
| `IoSystem` | pass | no request lost, no lost wake-up, handles agree, requests are answered, implements `IoService` |
| `IoStop` | violation | `stop()` can hang in `join()` |
| `Machine` | pass | the timer is on time, lines follow the devices, disk, flash and push buffer keep their order, every event is served |
| `IdeRead` | violation | a read of several sectors ends one early |
| `Host` | pass | the menu is quiet, stops return, threads are scheduled and kept apart, DPCs run once, reads get their file |
| `Jit` | pass | generated code does what the instructions say, on every path, and balances the host stack |

Properties, with what they would catch:

* `LinksAreLive` – a link missed by `unlink_trace`, the flush or `clear()`.
* `LiveCodeProtected`, `SmcInvalidatesPage`, `EntersCurrentBytes` – the three
  links of the argument against stale code: the page of live code is protected,
  the write that unprotects it invalidates, so what is entered is current.
* `EntersCurrentMapping` – code kept over a change of CR0.PG.
* `ChainsReturn` – a cycle of linked traces that starves interrupts and ticks.
* `NoSpuriousVector`, `MasterPriority`, `IdleNotInService`, `PendingIsSeen` –
  `has_pending()` and `ack()` disagreeing, the order of service, a line left in
  service, a request forgotten.
* `NoRequestLost`, `WorkIsNoticed`, `HeldIsMapped`, `Answered`,
  `ImplementsService`, `StopReturns` – loss, duplication or misordering of requests, sleeping on a full
  queue, and termination.
* `PitOnTime`, `PitReadNotTorn` – a count of 0, half-written loads, a count
  that changes between its two bytes.
* `LinesFollowDevices`, `IntaFollows`, `EventsServed` – a status register and
  its interrupt line out of step, in any order of ticks, accesses and handlers.
* `WriteReachesDisk`, `ReadsReturnDisk`, `ReadDeliversAll`, `FlashBitsRise` –
  sectors stored or loaded at the wrong address, a transfer that ends early, an
  erase nobody confirmed.
* `AtHeaders`, `FencesInOrder`, `GetMoves` – the pusher in the middle of a
  method, two fences seen as one, a pusher that stands still.
* `MenuIsQuiet`, `UiLive` – a boot over a running system, a stop that does not
  return, a title shown as running that does not run.
* `Scheduled`, `DpcsOnce`, `ThreadsApart`, `FileReads` – a thread passed over,
  a DPC run twice or never, registers or stacks of another thread, another file
  behind a handle.
* `HostStackBalanced`, `GuestStateKept` – a fault exit that leaves something
  pushed, a register, ESP or flag that a handler, a helper or a patched access
  destroys although it is still needed, a link or return without the whole state.

### Bounds

*TraceCache.* Two pages of four bytes give two second-level slots per page;
three entries give a trace that links within its page and one that links
across pages. `L1Size` 2 keeps the pages apart in the first level, 1 makes
them collide. An arena of 3 allows a trace to be built again after invalidation
before the flush; an arena of 2 makes flushes frequent. Two contents are enough
to make a trace stale. `TlbSize` is 2.

*IrqDelivery.* Wired lines 0 (PIT), 3 (NV2A), 8 (RTC), 11 (SMBus): two on each
chip, one above the cascade in priority and one below. Masks: nothing, or line
3 of a chip, which on the slave is IRQ 11. Handlers nest to depth 3
(`MaxNest`), one more than it takes for an EOI to be sent by the handler in the
middle. `MasterSpecific = FALSE` and `SlaveSpecific = TRUE` is a guest whose
handlers end a slave line by number and the master by the non-specific command;
`TrapIrqs` gives one interrupt a trap gate.

*IoSystem.* Two ids: two requests can be in flight, one in the queue and one
aside. Two file handles and one raw device handle in `IoSystem`; one of each in `IoStop`.

`CHECK_DEADLOCK FALSE` in the I/O runs: the system stops after `stop()`.

*Machine.* `Byte` 2 makes a counter of four values, so that a count of 0 wraps
after four ticks. Sectors of two words, an image of two sectors within three
addresses, and requests of one (written 0) and three sectors: transfers that
cross the end of the image, wrap, and take several sectors. A flash of two pages
whose six commands are also data bytes. The push buffer is a ring of 16 dwords
with a subroutine, two fences, a method of two data and a notification; the
budget of 8 dwords is less than a round. PUT takes four values, among them the
start and a position past a fence. `MCTrail` lists where the buffer leads: positions, each with
the return address and the fence passed last.

*Host.* Three threads against a heap of two blocks, so that the fallback stack
is used; two DPCs; two opens of two files of two reads. A title uses threads
and memory, or DPCs, or files. All four boot methods.

*Jit.* Every form alone (the end of a page), every form before every exit, and every
pair of forms before a branch on either flag: a form's flags can be needed by
the next instruction, by the one after it, or not at all. Longer traces add no case, because only the set of live
flags passes from one instruction to another.

### Fairness

`TraceCacheFlat` assumes that a trace is left eventually (`WF_vars(LeaveTrace)`):
its host code is finite and has no loops other than through exits. It does not
assume which exit is taken.

`IoSystem` assumes that the worker thread and the thread in `stop()` are
scheduled (weak fairness), and that a guest that polls again and again
eventually finds the mutex free (strong fairness of `Flush` and `Query`): the
worker holds its mutexes for a few instructions at a time.

`Machine` assumes that the clock ticks (`run()` calls it on every budget) and
that the processor takes a pending interrupt, whose handler does its work and
returns; nothing is assumed of the guest outside its handlers. `Host` assumes
that frames follow each other and that the emulation thread is scheduled, a run
ending with its step budget at the latest; nothing is assumed of the user or of
the title.

## Findings

1. **An evicted trace escapes invalidation** (`TraceCacheClash`). Two entry
   points with the same `eip >> 1` share a slot. `insert` evicts the older
   trace without unlinking it; `invalidate_code_page` (`src/cpu/executor.cpp:293`)
   looks only at the slots. The evicted trace keeps running through the exits patched to it
   after its page was rewritten. DESIGN.md says all traces on the page are
   invalidated.
2. **`code_pa` is a virtual address** (`TraceCacheHigh`).
   `src/cpu/trace_builder.cpp:1602` stores `guest_eip` in a field that is compared with a
   physical page. With paging, code mapped away from its frame number is never
   invalidated.
3. **A cascade request is withdrawn too early** (`IrqLost`).
   `PicPair::lower_irq` consults only *unmasked* slave requests before it
   lowers the cascade line (`src/xbox/pic.hpp:105`; `ack()` does likewise at line 130), so a masked
   request is not seen after it is unmasked until its device raises it again.
4. **`stop()` can hang** (`IoStop`). The worker tests the stop flag before it
   takes the lock and clears `pending_flag` inside it
   (`src/xbox/nboxkrnl_io.hpp:539-553`); a stop between the two is overwritten.
5. **A read of several sectors ends one early** (`IdeRead`). READ SECTORS
   decrements `sectors_left` when it loads the first sector
   (`src/xbox/ide.hpp:430`), and the data port decrements it again at the end of
   each (lines 274-276). DESIGN.md says multi-sector transfers advance
   automatically.

Some forms are excepted from properties that hold for all others, because the
code does otherwise (no run of its own shows them):

* ADC, INC, DEC and BTS with a memory operand, when a flag is live before them,
  lose the flags they compute: `emit_handler_alu_mem` restores the saved ones
  (`src/cpu/trace_builder.cpp:465-470`). An FS or GS operand adds the segment
  base with ADD, which destroys live flags (`src/cpu/emitter.hpp:494`). Both are `LosesFlags`.
* MOVZX r16, [mem] is emitted with a prefix that names ESI instead of R14
  (`src/cpu/trace_builder.cpp:931`).
* PUSH, CALL and LEAVE have moved ESP when their access faults (`MovesEsp`).
* An MMIO access that the fault handler does not emulate ends the trace
  through `exception_exit` while flags are saved on the host stack
  (`src/cpu/veh_handler.cpp:616`): state "wild".
* Threads that share the fallback stack are not apart (`ThreadsApart`), and a
  title started from the menu after nboxkrnl runs without the scheduler,
  because the buttons leave `boot_mode` as it was (`Scheduled`).
* Events and the first file have the same handle, so closing an event closes
  that file (`src/xbox/hle/hle_kernel.hpp:1234`); `FileReads` allows a read to bring nothing.
* Flags do not survive the end of a trace if an instruction with a handler
  comes between, although DESIGN.md (547-550) says flags survive across traces.

## Proofs

### TraceCache

`TraceCacheProofs` proves with TLAPS, for all values of the constants that
satisfy the assumptions of `TraceCache`:

* `TypeCorrect`: `Spec => []TypeOK`.
* `LinksStayLive`: `Spec => []LinksAreLive`.

and, assuming `FlatLayout` (no two entries share a slot, no instruction
straddles a page, a page is mapped to the frame of its number or not at all):

* `CodeStaysProtected`: `Spec => []LiveCodeProtected`.
* `NoStaleCode`: `Spec => EntersCurrentBytes`.
* `WriteFaultInvalidates`: `Spec => SmcInvalidatesPage`.

and, assuming `FixedMapping` (no store to a page table changes a translation):

* `MappingHolds`: `Spec => EntersCurrentMapping`.

`FlatLayout` is not a convenience: runs `TraceCacheClash` and `TraceCacheHigh`
show what happens when its first or its third part is dropped.

**The argument.** Neither type correctness nor `LinksAreLive` is inductive
alone. A followed link must name a trace of the arena, so `TypeOK` needs
`LinkInv`; and `LinksAreLive` speaks of traces that can execute only, while
*no* trace of the arena may have a link unless it is valid (an invalidated
trace lost its links, `LinkInv`), or a later invalidation would miss it, since
`unlink_trace` skips invalid sources. The step that matters is
`WriteKeepsLinks`: a victim's EIP identifies it among the valid traces a link
may lead to, so resetting links by target EIP resets all of them. `CodeInv`
adds for the flat layouts that a valid trace is in its slot, that its page is
the frame it was read from, that it agrees with memory and that its RAM page is
protected; being in its slot is what makes the scan of `invalidate_code_page`
find it. `Relinked` describes what linking may change, and is shared by the
three ways to enter a trace.

`MappingHolds` is about translation instead of bytes, and holds for every layout:
straddling code, entries that share a slot, any address spaces. MOV CR0 changes
the mode and empties the arena in one step, so every trace of the arena was made
for the mode in force (`MapInv`, which needs neither links nor protection).
`FixedMapping` is needed because the emulator empties the trace cache on no other
change of the mapping: not on MOV CR3, INVLPG or a store to a page table (see
the hazards). It is what a guest provides whose kernel maps its code once.

### Host

`HostProofs` proves all safety invariants of the run `Host`, for any number of
threads, DPCs, blocks, files and any titles (`HleKernelAssumption`: the bounds
are positive; `HostAssumption`: the modes are boot modes):

* `TypeCorrect`: `Spec => []TypeOK`.
* `MenuQuiet`: `Spec => []MenuIsQuiet`.
* `DpcsRunOnce`: `Spec => []DpcsOnce`.
* `ThreadsKeptApart`: `Spec => []ThreadsApart`.
* `FilesReadRight`: `Spec => []FileReads`.

**The argument.** `IInv` joins one part per structure with one about control
flow. `SlotsHold` says that a thread's last registers are those in its slot, and
that a thread that still waits for a slot is to start with its own: so
promotion (`PromotionHolds`), which puts first registers into new slots, and the end
of a run (`SavedHolds`), which puts the processor's there, both keep it, and the
thread that is picked continues with what it was left with. `StacksHold` adds
that stacks and blocks lie below the heap's next unit, so the next unit is
nobody's; `FilesAgree` that handles lie below the next handle, so an opening
never reuses one, and that an open handle is at the guest's file and position. DPCs
count up from the last that ran (`Counted`). `ControlInv` needs `FreshInv`: a system without devices
is one that nothing was ever booted in, so a boot starts from no thread, block or
handle. That is what the assertion in `register_io` is worth: without it
(`sys.ports` in `BootAndStart`) a second boot would keep the threads of the first.
The choice of the next thread is shown to find an alive one from the well-foundedness of
the naturals (`Least`, `NextAliveIs`), not by induction.

### IrqDelivery

`IrqDeliveryProofs` proves, for any wiring, masks, nesting depth and guest:

* `TypeCorrect`: `Spec => []TypeOK`.
* `IdleIsUnblocked`: `Spec => []IdleNotInService`.
* `NoSpurious`: `Spec => NoSpuriousVector`.
* `PriorityKept`: `Spec => MasterPriority`.

**The argument.** That nothing is in service when no handler is active says
nothing of the states between. `MasterInv` and `SlaveInv` do: the lines in
service are those of the active handlers that still owe the chip an EOI. With
specific EOIs the two sets are the same; with non-specific ones, which end the highest
line whoever sends them, only their numbers are. So the lemmas are about
cardinalities, and `Cascade` counts as a line of the master. `StepInv` keeps
the initialisation, which empties the registers, away from handlers.
`NoSpurious` and `PriorityKept` rest on the lemmas of `PicProofs` on `Lowest`:
what `has_pending()` finds is what `ack()` takes.

### IoSystem

`IoSystemProofs` proves, for any sets of ids, files and devices:

* `TypeCorrect`: `Spec => []TypeOK`.
* `RequestsKept`: `Spec => []NoRequestLost`.
* `WorkSeen`: `Spec => []WorkIsNoticed`.
* `FilesStayOpen`: `Spec => []HeldIsMapped`.
* `Implements`: `Spec => ImplementsService`, that is, `IoSystem` implements
  `IoService` under the mapping `Service`.

**The argument.** Ids travel in sequences; `Once` and `In` turn a sequence into
a place that holds an id at most once. `PlaceInv` says that the places are
disjoint and together hold the outstanding ids; `FlagInv` says that the wake-up flag is up whenever
the queue holds something, not only while the worker waits; `PhaseInv` and `FileInv` tie the state of a handle, as the
guest knows it, to the requests still under way: an open that is not served, a
close that is not served, or none. The refinement takes `Submit`,
`Query`, `Process` and `Exit` to the service's `Submit`, `Answer`, `Serve` and
`Shutdown`, and all other steps, retries, flags, locks and stop, to stutters.

### Machine

`MachineProofs` proves all safety
properties of the run `Machine` but liveness, for all sizes of the devices:

* `TypeCorrect`, `TimerOnTime`, `ReadWhole`, `LinesAgree`, `IntaAgrees`,
  `DiskHoldsWrites`, `PusherAtCommands`: the invariants `TypeOK`, `PitOnTime`,
  `PitReadNotTorn`, `LinesFollowDevices`, `IntaFollows`, `WriteReachesDisk`, `AtHeaders`.
* `ReadsAreOfDisk`, `FlashErases`, `FencesSeen`: the action properties
  `ReadsReturnDisk`, `FlashBitsRise`, `FencesInOrder`.
* `WritesComplete`: WRITE SECTORS ends only when every sector is stored. The
  corresponding claim for READ SECTORS is false (run `IdeRead`).

**The argument.** `IInv` has one part per device, and `Touches` says which step
changes which devices, so each part is proved against its own steps.
`PitInv` equates the ticks still due with the counter, a count of 0 standing for a
whole round, except between the bytes of a load. `OutInv` describes a write
in its middle: after so many turns a sector of the image holds what the *last* turn
that went to its address brought, because a count of 0 or a transfer across the end
wraps and writes sectors again; `Written` says so, and `UnderWay` where the words of
the sector in the buffer are. `FifoInv` cannot speak of positions alone: after a return the
pusher stands where the call's return address says. `AtCommand` therefore joins
position and return address, and `Trail` adds the fence passed last. The loop of
`Drained` runs up to its budget; its invariant is shown by an
induction over sets of numbers (`SetInduction`), derived from the well-foundedness of
finite sets, because the library's induction takes a predicate as parameter.

The assumptions are on the guest: `GuestAssumption` bounds what it writes,
`BufferAssumption` says that its push buffer is well formed (commands lead to
commands; subroutines are entered by CALL and left by RETURN), `FenceAssumption` that `Trail` and `NextFence`
describe the buffer. The pusher checks nothing of this: in a malformed buffer it takes data for
commands. TLC evaluates all three for the buffer of `MCMachine`.

### Jit

`JitProofs` and `JitStateProofs` prove, for every set of traces (`TracesAssumption`: a
trace is a non-empty sequence of forms), with and without paging:

* `TypeCorrect`: `Spec => []TypeOK`; saved flags are never nested.
* `StackBalanced`: `Spec => []HostStackBalanced`.
* `LivenessAsComputed`: `LiveBefore`, which speaks of a whole trace, obeys the
  recurrence that phase 2 of `build` computes from the trace's end.
* `StateKept` (in `JitStateProofs`): `Spec => []GuestStateKept`.

**The argument for the stack.** TLC runs the instruction sequences of `MCJit`; the proof is about the code
of every sequence. A place in the code has a *level*: nothing pushed (0), the
flags or R14 pushed (1), `Halting`, or `Nowhere` behind a return. `Fits(s, d, e)` says
that levels can be given to code `s`, from `d` to `e`, such that each operation may run at
its level, both ways of a fork fit, and a fault exit, at level 0, leads nowhere.
Code that fits can be put together (`FitsConcat`), so there is one lemma for each piece
of `JitEmit`, from the epilogs to the handlers, and `EmitFits` for the
code of an instruction in its trace. Here the liveness pass matters: a divide under saved flags
would leave them on the host stack at its divide error. It never is, because a
divide writes all flags and so none is live across it (`DivideUnsaved`). The
invariant then says that what is left of the current instruction's code
fits the stack as it is. The patched and emulated accesses of a memory site fit at both levels; only the
halt on an MMIO access leaves the flags where they were pushed, and it ends in
`Halting`, the exception `HostStackBalanced` makes. The invariant quantifies over
assignments of levels, so TLC checks its consequences, `TypeOK` and
`HostStackBalanced`, and not the invariant itself.

**The argument for the guest's state.** It has the same shape with *claims* in the
place of levels. A claim names places that hold what they held before the instruction
and places that hold what it leaves there (or "lost"), and the stop reason; among
the places are R14, what is pushed, whether the address in R14 is
translated (`va`, `pa`), and that nothing is lost (`whole`). `OpDoes(c, o, A, B)` says when an
operation leads from claim `A` to claim `B` under the *contract* `c`, an instruction with the flags
alive before it: what `B` claims of a place the operation writes needs right inputs in `A`, what it claims
elsewhere is in `A`, a return or a link needs what
`AtReturn` and `AtLink` ask for, and the fault exit of a translation has to keep the contract by
itself. `Does(c, s, A, B)` chains this along code `s`, and code that does can be put together
(`DoesConcat`). One lemma for each piece of `JitEmit` then leads
to `EmitDoes`: the code of each form leads from `Start` (registers, ESP, memory and the live
flags are old) to `Finish` (what the form writes is new, the rest and
the live flags old), or out of the trace. `ContractIs` carries the live flags on: by
`LivenessAsComputed`, what is alive behind an instruction was alive before it or is written by it, so
that `Finish` of one instruction covers `Start` of the next (`AdvanceAhead`). The other half is
about `Jit`: every operation that may lead from `A` to `B` and
is executed where `A` holds makes `B` hold (`ComputeHolds`, `CopyHolds`, ..., `TranslateHolds`).
The invariant `StateInv` joins the halves: in a trace some claim holds from
which the rest of the code leads on. That it is chained over all sequences is why longer
traces than those of `MCJit` add no case. As with levels, claims are quantified over, and
TLC checks `GuestStateKept`, not `StateInv`.

The theorem says no more than the property: nothing of the flags after the forms of `LosesFlags`,
of the registers after MOVZX r16, or of ESP at a page fault of
the forms in `MovesEsp`, and values are lost where a helper drops a page fault.

### Only model-checked

`ChainsReturn`, `PendingIsSeen`, `Answered`, `StopReturns`, `GetMoves`,
`EventsServed`, `UiLive`, `Scheduled` and everything else that needs fairness or
ENABLED is beyond the prover. Every invariant and every action property of the
passing runs is also proved.

## Plan

Done: the trace cache, interrupts, host I/O, the devices and their composition,
the HLE scheduler with the host program around it, and the generated code; and
the theorems above. What could still be modelled: the descriptor and stack
checks of `deliver_interrupt` and the far transfers of `privileged.cpp`; the bus-master
registers of IDE; the GPU compute path of the pusher.

## Not modelled, and why

Encodings, operand sizes and arithmetic of instructions (emitter, FPU and SSE
helpers, the software interpreter) are data: a model would repeat them. The
loaders, keys and paths are sequential code without protocol. PGRAPH and the
renderer are data shadows and Vulkan calls. The register files of PCI, ACPI, I/O
APIC, APU and the NV2A's passive blocks return what was written. The spin-loop
and HLT heuristics of `Executor::run` change time, which the models leave open:
a tick may come at any point, and a slice may end at any point. `EmuThread::pause` and
`resume` and the NV2A thread have no callers. Failures of
`deliver_interrupt` halt the CPU for good. Events, mutants, timers and critical sections of the HLE kernel
keep no state a call reads back: waits only yield.
