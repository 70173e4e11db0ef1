----------------------------- MODULE HleKernel ------------------------------
(***************************************************************************)
(* The kernel calls a title makes through the HLE stubs (hle_kernel.hpp),  *)
(* as operators on the state they keep (XbeHeap): a bump allocator, the    *)
(* threads and DPCs that wait for run_step, and the open host files.       *)
(*                                                                         *)
(* Events, mutants, semaphores, timers and critical sections keep no state *)
(* that a call reads back: their calls return, and waits also yield.       *)
(***************************************************************************)
EXTENDS Naturals, Sequences

CONSTANTS
    HeapUnits,   \* stacks or blocks the heap has room for
    MaxThreads,  \* threads of a title, the main one included
    MaxDpcs,     \* DPCs a title queues
    MaxOpens,    \* files a title opens
    Files,       \* files of the host directory
    FileSize     \* reads that reach the end of a file

ASSUME HleKernelAssumption ==
    /\ {HeapUnits, MaxThreads, MaxDpcs, MaxOpens, FileSize} \subseteq Nat \ {0}
    /\ "none" \notin Files

\* The end of the stack that is used when the heap is exhausted, 12 MB.
FallbackStack == HeapUnits

\* The handle of every event, 0x100, which is also that of the first file.
EventHandle == 0
Handles == 0 .. MaxOpens - 1

Kernel == [next : 0 .. HeapUnits, pending : 0 .. MaxThreads,
           dpcs : Seq(1 .. MaxDpcs), asked : 0 .. MaxDpcs, fired : 0 .. MaxDpcs,
           open : [Handles -> [file : Files \cup {"none"}, pos : 0 .. FileSize]],
           nextHandle : 0 .. MaxOpens]

Closed == [file |-> "none", pos |-> 0]

NewKernel == [next |-> 0, pending |-> 0, dpcs |-> << >>, asked |-> 0, fired |-> 0,
              open |-> [h \in Handles |-> Closed], nextHandle |-> 0]

\* XbeHeap::reset, when a title is booted: what waits for a DPC stays.
ResetKernel(k) == [NewKernel EXCEPT !.dpcs = k.dpcs, !.asked = k.asked, !.fired = k.fired]

-----------------------------------------------------------------------------
(* Memory.  Nothing is ever given back: the calls that free do nothing.    *)

HasRoom(k) == k.next < HeapUnits
Alloc(k) == [k EXCEPT !.next = @ + 1]

AllocatedUnchecked(k) == Alloc(k)

\* ExAllocatePool, MmAllocateContiguousMemory and the other calls that take
\* memory; they return 0 when there is none.
Allocated(k) == IF HasRoom(k) THEN Alloc(k) ELSE k

-----------------------------------------------------------------------------
(* Threads and DPCs.                                                       *)

\* PsCreateSystemThread, PsCreateSystemThreadEx
CreateThread(k) == [k EXCEPT !.pending = @ + 1]

\* KeSetTimer, KeSetTimerEx, KeInsertQueueDpc: whatever the due time, the DPC
\* waits only for the next run_step.  DPCs are numbered as they are queued.
CanQueueDpc(k) == k.asked < MaxDpcs
QueueDpc(k) == [k EXCEPT !.dpcs = Append(@, k.asked + 1), !.asked = @ + 1]

TakeDpcKept(k) == [k EXCEPT !.fired = Head(k.dpcs)]

\* run_step takes the first one.
TakeDpc(k) == [k EXCEPT !.dpcs = Tail(@), !.fired = Head(k.dpcs)]

-----------------------------------------------------------------------------
(* Files.                                                                  *)

\* NtOpenFile, NtCreateFile through open_host_file: a file that exists, or
\* (for a device or a new file) a handle without one.
CanOpen(k) == k.nextHandle < MaxOpens

OpenHostFileReuse(k, f) ==
    LET free == { h \in Handles : k.open[h] = Closed }
        h == CHOOSE h \in free : \A i \in free : h <= i
    IN  [k EXCEPT !.open[h] = [file |-> f, pos |-> 0], !.nextHandle = @ + 1]

OpenHostFile(k, f) == [k EXCEPT !.open[k.nextHandle] = [file |-> f, pos |-> 0],
                                !.nextHandle = @ + 1]

FakeHandle(k) == [k EXCEPT !.nextHandle = @ + 1]

\* NtClose takes the handles of files and of everything else.
CloseHandle(k, h) == [k EXCEPT !.open[h] = Closed]

\* NtSetInformationFile sets the position, and NtReadFile with an offset.
Seek(k, h, p) == IF k.open[h] = Closed THEN k ELSE [k EXCEPT !.open[h].pos = p]

\* NtReadFile reads from the position on; without a file it reads nothing.
Reads(k, h) == k.open[h] # Closed /\ k.open[h].pos < FileSize
ReadFile(k, h) == IF Reads(k, h) THEN [k EXCEPT !.open[h].pos = @ + 1] ELSE k
=============================================================================
