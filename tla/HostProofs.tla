---------------------------- MODULE HostProofs ------------------------------
(***************************************************************************)
(* Type correctness and the safety invariants of Host, for any number of   *)
(* threads, DPCs, blocks and files.                                        *)
(*                                                                         *)
(* The inductive invariant has one part per structure that the scheduler   *)
(* and the kernel calls keep (KernelInv, SlotsHold, StacksHold and         *)
(* FilesAgree, joined in DataInv), stated of any value of them so that the *)
(* lemmas can speak of the values in between, and one (ControlInv) that    *)
(* ties the user interface, the emulation thread and the system together.  *)
(***************************************************************************)
EXTENDS Host, TLAPS, SequenceTheorems, WellFoundedInduction

\* The DPCs that wait are the last ones that were queued, in order.
Counted(f, n, m) == n >= m /\ f = [i \in 1 .. n - m |-> m + i]
KernelInv(k) == k \in Kernel /\ Counted(k.dpcs, k.asked, k.fired)

\* A thread's last registers are those in its slot, or the ones it is to
\* start with; and there are slots for the n threads that wait for one.
SlotsHold(threads, n, l) ==
    /\ threads \in Seq(Slot) /\ Len(threads) + n <= MaxThreads
    /\ threads = << >> => n = 0
    /\ l \in [Threads -> Context]
    /\ \A t \in Threads : l[t] = IF t <= Len(threads) THEN threads[t].ctx ELSE StartOf(t)

\* Stacks and blocks m are taken from below n, each once.
StacksHold(threads, n, m) ==
    /\ m \subseteq 0 .. n - 1
    /\ threads # << >> => threads[1].stack = MainStack
    /\ \A t \in 2 .. Len(threads) :
        threads[t].stack # FallbackStack => threads[t].stack < n /\ threads[t].stack \notin m
    /\ \A t, u \in 2 .. Len(threads) :
        t # u /\ threads[t].stack # FallbackStack => threads[t].stack # threads[u].stack

\* Handles are given once, below n; an open one is at the file and position
\* that the guest takes it to be at.
OpenedFile == [file : Files, pos : Nat, handle : Handles]
Opens == [Handles -> [file : Files \cup {"none"}, pos : 0 .. FileSize]]
FilesAgree(open, n, files) ==
    /\ files \in Seq(OpenedFile)
    /\ \A h \in Handles : h >= n => open[h] = Closed
    /\ \A i \in 1 .. Len(files) :
        /\ files[i].handle < n
        /\ open[files[i].handle] \in {Closed, [file |-> files[i].file, pos |-> files[i].pos]}
    /\ \A i, j \in 1 .. Len(files) : i # j => files[i].handle # files[j].handle
Guest == [memory : SUBSET Nat, files : Seq(OpenedFile), misread : {FALSE}]

\* Without devices nothing was booted: the system is as it is constructed.
FreshInv ==
    ~sys.ports => /\ sys = NewSystem /\ kernel = NewKernel
                  /\ left = NewLeft /\ guest = NewGuest /\ emu.pc = "none"

\* While the menu is shown nothing runs; a DPC or a thread runs only when
\* there is a thread, and with the registers that thread was left with.
UiRecord == [pc : UiPlaces, state : {"menu", "running", "halted"}, mode : BootModes,
             dialog : BOOLEAN]
EmuRecord == [pc : {"none", "loop", "dpc", "run", "done"}, stop : BOOLEAN,
              halted : BOOLEAN, mode : BootModes]
ControlInv ==
    /\ ui \in UiRecord /\ emu \in EmuRecord
    /\ cpu \in Context /\ title \in Titles
    /\ FreshInv
    /\ ui.pc = "start" \/ (Frame /\ ui.state = "menu") => emu.pc = "none" /\ ~sys.running
    /\ emu.pc = "dpc" \/ InThread => sys.threads # << >>
    /\ InThread => sys.current \in Alive(sys) /\ cpu = left[sys.current]

DataInv ==
    /\ KernelInv(kernel) /\ sys \in System /\ guest \in Guest
    /\ SlotsHold(sys.threads, kernel.pending, left)
    /\ StacksHold(sys.threads, kernel.next, guest.memory)
    /\ FilesAgree(kernel.open, kernel.nextHandle, guest.files)

IInv == DataInv /\ ControlInv

-----------------------------------------------------------------------------
(* The constants.                                                          *)

\* What the assumption says of each constant.
LEMMA Constants ==
    /\ HeapUnits \in Nat \ {0} /\ MaxThreads \in Nat \ {0} /\ MaxDpcs \in Nat \ {0}
    /\ MaxOpens \in Nat \ {0} /\ FileSize \in Nat \ {0}
    /\ "none" \notin Files
  BY HleKernelAssumption

USE Constants

\* The types of a kernel's fields, and of what EXCEPT changes of one.
LEMMA KernelFields ==
    ASSUME NEW k \in Kernel
    PROVE  /\ k.next \in 0 .. HeapUnits /\ k.pending \in 0 .. MaxThreads
           /\ k.dpcs \in Seq(1 .. MaxDpcs)
           /\ k.asked \in 0 .. MaxDpcs /\ k.fired \in 0 .. MaxDpcs
           /\ k.open \in [Handles -> [file : Files \cup {"none"}, pos : 0 .. FileSize]]
           /\ k.nextHandle \in 0 .. MaxOpens
  BY DEF Kernel

-----------------------------------------------------------------------------
(* DPCs.                                                                   *)

\* A sequence that counts up to n from m + 1, by its length and its values.
LEMMA WaitingIs ==
    ASSUME NEW S, NEW n \in Nat, NEW m \in Nat, n >= m, NEW f \in Seq(S),
           Len(f) = n - m, \A i \in 1 .. n - m : f[i] = m + i
    PROVE  Counted(f, n, m)
  BY LenProperties DEF Counted

\* And the length and the values of one that counts.
LEMMA WaitingHas ==
    ASSUME NEW S, NEW n \in Nat, NEW m \in Nat, NEW f \in Seq(S), Counted(f, n, m)
    PROVE  n >= m /\ Len(f) = n - m /\ \A i \in 1 .. n - m : f[i] = m + i
  <1>1. n >= m /\ DOMAIN f = 1 .. n - m /\ \A i \in 1 .. n - m : f[i] = m + i
    BY DEF Counted
  <1> QED BY <1>1, LenProperties

\* It goes on counting when the next number is appended, and when the first
\* one is taken.
LEMMA CountedAppend ==
    ASSUME NEW S, NEW n \in Nat, NEW m \in Nat, NEW f \in Seq(S), Counted(f, n, m), n + 1 \in S
    PROVE  Append(f, n + 1) \in Seq(S) /\ Counted(Append(f, n + 1), n + 1, m)
  <1> DEFINE g == Append(f, n + 1)
  <1>1. n >= m /\ Len(f) = n - m /\ \A i \in 1 .. n - m : f[i] = m + i
    BY WaitingHas
  <1>2. /\ g \in Seq(S) /\ Len(g) = (n + 1) - m
        /\ \A i \in 1 .. n - m : g[i] = m + i
        /\ g[(n + 1) - m] = n + 1
    BY <1>1, AppendProperties
  <1> HIDE DEF g
  <1>3. ASSUME NEW i \in 1 .. (n + 1) - m  PROVE g[i] = m + i
    <2>1. CASE i \in 1 .. n - m
      BY <1>2, <2>1
    <2>2. CASE i = (n + 1) - m
      BY <1>2, <2>2
    <2> QED BY <1>1, <2>1, <2>2
  <1>4. n + 1 \in Nat /\ n + 1 >= m
    BY <1>1
  <1>5. Counted(g, n + 1, m)
    BY <1>2, <1>3, <1>4, WaitingIs
  <1> QED BY <1>2, <1>5 DEF g

\* Taking the first one.
LEMMA CountedTail ==
    ASSUME NEW S, NEW n \in Nat, NEW m \in Nat, NEW f \in Seq(S), Counted(f, n, m), f # << >>
    PROVE  Head(f) = m + 1 /\ n > m /\ Tail(f) \in Seq(S) /\ Counted(Tail(f), n, m + 1)
  <1> DEFINE g == Tail(f)
  <1>1. n >= m /\ Len(f) = n - m /\ \A i \in 1 .. n - m : f[i] = m + i
    BY WaitingHas
  <1>2. /\ g \in Seq(S) /\ Len(g) = Len(f) - 1
        /\ \A i \in 1 .. Len(g) : g[i] = f[i + 1]
    BY HeadTailProperties
  <1>3. n > m
    BY <1>1, EmptySeq
  <1>4. Head(f) = m + 1
    <2>1. 1 \in 1 .. n - m
      BY <1>3
    <2>2. f[1] = m + 1
      BY <1>1, <2>1
    <2> QED BY <2>2
  <1> HIDE DEF g
  <1>5. Len(g) = n - (m + 1)
    BY <1>1, <1>2
  <1>6. \A i \in 1 .. n - (m + 1) : i + 1 \in 1 .. n - m /\ m + (i + 1) = (m + 1) + i
    OBVIOUS
  <1>7. \A i \in 1 .. n - (m + 1) : g[i] = (m + 1) + i
    BY <1>1, <1>2, <1>5, <1>6
  <1>8. m + 1 \in Nat /\ n >= m + 1
    BY <1>3
  <1>9. Counted(g, n, m + 1)
    BY <1>2, <1>5, <1>7, <1>8, WaitingIs
  <1> QED BY <1>2, <1>3, <1>4, <1>9 DEF g

\* What waits is unchanged by a call that does not queue.
LEMMA OtherCallsKeepDpcs ==
    ASSUME NEW k, KernelInv(k), NEW k2 \in Kernel,
           k2.dpcs = k.dpcs, k2.asked = k.asked, k2.fired = k.fired
    PROVE  KernelInv(k2)
  BY DEF KernelInv

\* Queueing keeps the queue's order.
LEMMA QueuedDpc ==
    ASSUME NEW k, KernelInv(k), CanQueueDpc(k)
    PROVE  KernelInv(QueueDpc(k))
  <1> DEFINE new == Append(k.dpcs, k.asked + 1)
             q == QueueDpc(k)
  <1>1. k \in Kernel /\ k.asked \in 0 .. MaxDpcs /\ k.fired \in 0 .. MaxDpcs /\ k.dpcs \in Seq(1 .. MaxDpcs)
    BY KernelFields DEF KernelInv
  <1>2. k.asked + 1 \in 1 .. MaxDpcs /\ k.asked + 1 \in 0 .. MaxDpcs
    BY <1>1 DEF CanQueueDpc
  <1>3. new \in Seq(1 .. MaxDpcs) /\ Counted(new, k.asked + 1, k.fired)
    BY <1>1, <1>2, CountedAppend DEF KernelInv
  <1>4. q = [k EXCEPT !.dpcs = new, !.asked = k.asked + 1]
    BY DEF QueueDpc
  <1> HIDE DEF new, q
  <1>5. q \in Kernel /\ q.dpcs = new /\ q.asked = k.asked + 1 /\ q.fired = k.fired
    BY <1>1, <1>2, <1>3, <1>4 DEF Kernel
  <1>6. KernelInv(q)
    BY <1>3, <1>5 DEF KernelInv
  <1> QED BY <1>6 DEF q

\* Taking the first one keeps the order of the rest, and fires the next.
LEMMA TakenDpc ==
    ASSUME NEW k, KernelInv(k), k.dpcs # << >>
    PROVE  KernelInv(TakeDpc(k))
  <1> DEFINE rest == Tail(k.dpcs)
             q == TakeDpc(k)
  <1>1. k \in Kernel /\ k.asked \in 0 .. MaxDpcs /\ k.fired \in 0 .. MaxDpcs /\ k.dpcs \in Seq(1 .. MaxDpcs)
    BY KernelFields DEF KernelInv
  <1>2. /\ Head(k.dpcs) = k.fired + 1 /\ k.asked > k.fired
        /\ rest \in Seq(1 .. MaxDpcs) /\ Counted(rest, k.asked, k.fired + 1)
    <2>1. k.asked \in Nat /\ k.fired \in Nat /\ Counted(k.dpcs, k.asked, k.fired)
      BY <1>1 DEF KernelInv
    <2> QED BY <1>1, <2>1, CountedTail
  <1>3. q = [k EXCEPT !.dpcs = rest, !.fired = k.fired + 1]
    BY <1>2 DEF TakeDpc
  <1> HIDE DEF rest, q
  <1>4. k.fired + 1 \in 0 .. MaxDpcs
    BY <1>1, <1>2
  <1>5. q \in Kernel /\ q.dpcs = rest /\ q.asked = k.asked /\ q.fired = k.fired + 1
    BY <1>1, <1>2, <1>3, <1>4 DEF Kernel
  <1>6. KernelInv(q)
    BY <1>2, <1>5 DEF KernelInv
  <1> QED BY <1>6 DEF q

-----------------------------------------------------------------------------
(* What each kernel call changes.                                          *)

\* PsCreateSystemThread: one more thread waits.
LEMMA CreateThreadDoes ==
    ASSUME NEW k \in Kernel, k.pending < MaxThreads
    PROVE  LET q == CreateThread(k)
           IN  /\ q \in Kernel /\ q.pending = k.pending + 1
               /\ q.next = k.next /\ q.dpcs = k.dpcs /\ q.asked = k.asked /\ q.fired = k.fired
               /\ q.open = k.open /\ q.nextHandle = k.nextHandle
  <1>1. k.pending + 1 \in 0 .. MaxThreads
    BY KernelFields
  <1> QED BY <1>1 DEF CreateThread, Kernel

\* Queueing a DPC leaves threads, memory and files.
LEMMA QueueDpcDoes ==
    ASSUME NEW k \in Kernel
    PROVE  LET q == QueueDpc(k)
           IN  /\ q.pending = k.pending /\ q.next = k.next
               /\ q.open = k.open /\ q.nextHandle = k.nextHandle
  BY DEF QueueDpc, Kernel

\* So does taking one.
LEMMA TakeDpcDoes ==
    ASSUME NEW k \in Kernel
    PROVE  LET q == TakeDpc(k)
           IN  /\ q.pending = k.pending /\ q.next = k.next
               /\ q.open = k.open /\ q.nextHandle = k.nextHandle
  BY DEF TakeDpc, Kernel

\* A block moves the heap's next one, if there is room.
LEMMA AllocatedDoes ==
    ASSUME NEW k \in Kernel
    PROVE  LET q == Allocated(k)
           IN  /\ q \in Kernel /\ q.next = IF HasRoom(k) THEN k.next + 1 ELSE k.next
               /\ q.pending = k.pending /\ q.dpcs = k.dpcs /\ q.asked = k.asked
               /\ q.fired = k.fired /\ q.open = k.open /\ q.nextHandle = k.nextHandle
  <1>1. HasRoom(k) => k.next + 1 \in 0 .. HeapUnits
    BY KernelFields DEF HasRoom
  <1> QED BY <1>1 DEF Allocated, Alloc, Kernel

\* After promotion no thread waits, and the stacks are taken.
LEMMA AfterPromotionDoes ==
    ASSUME NEW k \in Kernel
    PROVE  LET q == AfterPromotion(k)
           IN  /\ q \in Kernel /\ q.pending = 0
               /\ q.next = IF k.next + k.pending < HeapUnits THEN k.next + k.pending ELSE HeapUnits
               /\ q.dpcs = k.dpcs /\ q.asked = k.asked /\ q.fired = k.fired
               /\ q.open = k.open /\ q.nextHandle = k.nextHandle
  <1> DEFINE next == IF k.next + k.pending < HeapUnits THEN k.next + k.pending ELSE HeapUnits
  <1>1. next \in 0 .. HeapUnits /\ 0 \in 0 .. MaxThreads
    BY KernelFields
  <1>2. AfterPromotion(k) = [k EXCEPT !.pending = 0, !.next = next]
    BY DEF AfterPromotion
  <1> HIDE DEF next
  <1>3. LET q == AfterPromotion(k)
        IN  /\ q \in Kernel /\ q.pending = 0 /\ q.next = next
            /\ q.dpcs = k.dpcs /\ q.asked = k.asked /\ q.fired = k.fired
            /\ q.open = k.open /\ q.nextHandle = k.nextHandle
    BY <1>1, <1>2 DEF Kernel
  <1> QED BY <1>3 DEF next

-----------------------------------------------------------------------------
(* Files.                                                                  *)

\* Handles, and what an entry of the open files can be.
LEMMA HandleFacts ==
    /\ EventHandle \in Handles /\ Handles \subseteq Nat
    /\ \A n \in 0 .. MaxOpens : n < MaxOpens => n \in Handles /\ n + 1 \in 0 .. MaxOpens
    /\ Closed \in [file : Files \cup {"none"}, pos : 0 .. FileSize]
    /\ \A f \in Files, p \in 0 .. FileSize :
        [file |-> f, pos |-> p] \in [file : Files \cup {"none"}, pos : 0 .. FileSize]
  BY DEF EventHandle, Handles, Closed

\* Each opened file has its parts.
LEMMA OpenedElements ==
    ASSUME NEW open, NEW n, NEW files, FilesAgree(open, n, files), NEW i \in 1 .. Len(files)
    PROVE  /\ files[i] \in OpenedFile /\ files[i].handle \in Handles /\ files[i].handle \in Nat
           /\ files[i].file \in Files /\ files[i].pos \in Nat
           /\ files[i] = [file |-> files[i].file, pos |-> files[i].pos, handle |-> files[i].handle]
  <1>1. files[i] \in OpenedFile
    BY ElementOfSeq DEF FilesAgree
  <1> QED BY <1>1, HandleFacts DEF OpenedFile

\* A new handle.
LEMMA AgreeFake ==
    ASSUME NEW open \in Opens, NEW n \in 0 .. MaxOpens, NEW files, FilesAgree(open, n, files)
    PROVE  FilesAgree(open, n + 1, files)
  <1>1. \A h \in Handles : h >= n + 1 => h >= n
    BY HandleFacts
  <1>2. \A i \in 1 .. Len(files) : files[i].handle \in Nat
    BY OpenedElements
  <1>3. \A i \in 1 .. Len(files) : files[i].handle < n + 1
    <2>1. \A i \in 1 .. Len(files) : files[i].handle < n
      BY DEF FilesAgree
    <2> QED BY <1>2, <2>1
  <1> QED BY <1>1, <1>3 DEF FilesAgree

\* A handle closed.
LEMMA AgreeClose ==
    ASSUME NEW open \in Opens, NEW n \in 0 .. MaxOpens, NEW files, FilesAgree(open, n, files),
           NEW h \in Handles
    PROVE  FilesAgree([open EXCEPT ![h] = Closed], n, files)
  <1>1. \A i \in 1 .. Len(files) : files[i].handle \in Handles
    BY OpenedElements
  <1> QED BY <1>1 DEF FilesAgree, Opens

\* The position of one opened file, in the host and in what the guest knows.
LEMMA AgreePos ==
    ASSUME NEW open \in Opens, NEW n \in 0 .. MaxOpens, NEW files, FilesAgree(open, n, files),
           NEW i \in 1 .. Len(files), NEW p \in 0 .. FileSize,
           NEW open2,
           LET h == files[i].handle
           IN  open2 = IF open[h] = Closed THEN open ELSE [open EXCEPT ![h].pos = p]
    PROVE  /\ open2 \in Opens
           /\ FilesAgree(open2, n, [files EXCEPT ![i].pos = p])
  <1> DEFINE h == files[i].handle
             files2 == [files EXCEPT ![i].pos = p]
  <1>1. /\ files \in Seq(OpenedFile) /\ h \in Handles /\ p \in Nat
        /\ files[i].file \in Files /\ files[i].pos \in Nat
    <2>1. files \in Seq(OpenedFile)
      BY DEF FilesAgree
    <2>2. p \in Nat
      OBVIOUS
    <2>3. h \in Handles /\ files[i].file \in Files /\ files[i].pos \in Nat
      BY OpenedElements
    <2> QED BY <2>1, <2>2, <2>3
  <1>2. /\ files2 \in Seq(OpenedFile) /\ Len(files2) = Len(files)
        /\ files2[i] = [file |-> files[i].file, pos |-> p, handle |-> h]
        /\ \A j \in 1 .. Len(files) : j # i => files2[j] = files[j]
    <2>0. [files[i] EXCEPT !.pos = p] = [file |-> files[i].file, pos |-> p, handle |-> h]
      <3>1. files[i] \in [file : Files, pos : Nat, handle : Handles]
        BY OpenedElements DEF OpenedFile
      <3> QED BY <3>1
    <2>1. files2 = [files EXCEPT ![i] = [file |-> files[i].file, pos |-> p, handle |-> h]]
      BY <2>0
    <2>2. [file |-> files[i].file, pos |-> p, handle |-> h] \in OpenedFile
      BY <1>1 DEF OpenedFile
    <2> QED BY <1>1, <2>1, <2>2, ExceptSeq
  <1>3. \A j \in 1 .. Len(files) : j # i => files[j].handle # h
    BY DEF FilesAgree
  <1>4. h < n
    BY DEF FilesAgree
  <1> HIDE DEF files2
  <1>5. CASE open[h] = Closed
    <2>1. open2 = open
      BY <1>5
    <2> QED BY <1>1, <1>2, <1>3, <1>4, <1>5, <2>1 DEF FilesAgree, files2
  <1>6. CASE open[h] # Closed
    <2>1. open[h] = [file |-> files[i].file, pos |-> files[i].pos]
      BY <1>6 DEF FilesAgree
    <2>2. open2 = [open EXCEPT ![h] = [file |-> files[i].file, pos |-> p]]
      <3>1. [open[h] EXCEPT !.pos = p] = [file |-> files[i].file, pos |-> p]
        BY <2>1
      <3>2. open2 = [open EXCEPT ![h] = [open[h] EXCEPT !.pos = p]]
        BY <1>6
      <3> QED BY <3>1, <3>2
    <2>3. [file |-> files[i].file, pos |-> p] \in [file : Files \cup {"none"}, pos : 0 .. FileSize]
      BY <1>1, HandleFacts
    <2>4. open2 \in Opens
      BY <1>1, <2>2, <2>3 DEF Opens
    <2>5. /\ open2[h] = [file |-> files[i].file, pos |-> p]
          /\ \A x \in Handles : x # h => open2[x] = open[x]
      BY <1>1, <2>2 DEF Opens
    <2>6. \A x \in Handles : x >= n => open2[x] = Closed
      BY <1>1, <1>4, <2>5, HandleFacts DEF FilesAgree
    <2>7. ASSUME NEW j \in 1 .. Len(files)
          PROVE  /\ files2[j].handle < n
                 /\ open2[files2[j].handle] \in {Closed, [file |-> files2[j].file, pos |-> files2[j].pos]}
      <3>1. CASE j = i
        <4>1. files2[j] = [file |-> files[i].file, pos |-> p, handle |-> h]
          BY <1>2, <3>1
        <4>2. files2[j].handle = h /\ files2[j].file = files[i].file /\ files2[j].pos = p
          BY <4>1
        <4> QED BY <1>4, <2>5, <4>2
      <3>2. CASE j # i
        <4>1. files2[j] = files[j] /\ files[j].handle # h /\ files[j].handle \in Handles
          BY <1>2, <1>3, <3>2, OpenedElements
        <4> QED BY <2>5, <4>1 DEF FilesAgree
      <3> QED BY <3>1, <3>2
    <2>8. \A j, m \in 1 .. Len(files) : j # m => files2[j].handle # files2[m].handle
      <3>1. ASSUME NEW j \in 1 .. Len(files)  PROVE files2[j].handle = files[j].handle
        <4>1. CASE j = i
          <5>1. files2[j] = [file |-> files[i].file, pos |-> p, handle |-> h]
            BY <1>2, <4>1
          <5> QED BY <4>1, <5>1
        <4>2. CASE j # i
          BY <1>2, <4>2
        <4> QED BY <4>1, <4>2
      <3>2. \A j, m \in 1 .. Len(files) : j # m => files[j].handle # files[m].handle
        BY DEF FilesAgree
      <3> QED BY <3>1, <3>2
    <2>9. FilesAgree(open2, n, files2)
      BY <1>2, <2>6, <2>7, <2>8 DEF FilesAgree
    <2> QED BY <2>4, <2>9 DEF files2
  <1> QED BY <1>5, <1>6

\* The handle that an opening changes is the one it gives.
LEMMA HandleGiven ==
    ASSUME NEW open, NEW open2, NEW n \in Handles, open2[n] # open[n],
           \A h \in Handles : h # n => open2[h] = open[h]
    PROVE  (CHOOSE h \in Handles : open2[h] # open[h]) = n
  OBVIOUS

\* A file opened: the handle is the next one.
LEMMA AgreeOpen ==
    ASSUME NEW open \in Opens, NEW n \in 0 .. MaxOpens, n < MaxOpens,
           NEW files, FilesAgree(open, n, files), NEW f \in Files
    PROVE  LET open2 == [open EXCEPT ![n] = [file |-> f, pos |-> 0]]
               mine == [file |-> f, pos |-> 0, handle |-> n]
           IN  /\ open2 \in Opens
               /\ open2[n] # open[n] /\ \A h \in Handles : h # n => open2[h] = open[h]
               /\ FilesAgree(open2, n + 1, Append(files, mine))
  <1> DEFINE new == [file |-> f, pos |-> 0]
             open2 == [open EXCEPT ![n] = new]
             mine == [file |-> f, pos |-> 0, handle |-> n]
             files2 == Append(files, mine)
             m == Len(files)
  <1>1. n \in Handles /\ n \in Nat /\ 0 \in 0 .. FileSize
    BY HandleFacts
  <1>2. new \in [file : Files \cup {"none"}, pos : 0 .. FileSize] /\ mine \in OpenedFile
    BY <1>1, HandleFacts DEF OpenedFile
  <1>3. new # Closed /\ open[n] = Closed
    BY <1>1, Constants DEF Closed, FilesAgree
  <1>4. /\ open2 \in Opens /\ open2[n] = new
        /\ \A x \in Handles : x # n => open2[x] = open[x]
    <2> HIDE DEF new
    <2> QED BY <1>1, <1>2 DEF Opens
  <1> HIDE DEF new, open2, mine
  <1>5. open2[n] # open[n]
    BY <1>3, <1>4
  <1>6. files \in Seq(OpenedFile)
    BY DEF FilesAgree
  <1>7. /\ files2 \in Seq(OpenedFile) /\ Len(files2) = m + 1 /\ m \in Nat
        /\ \A i \in 1 .. m : files2[i] = files[i]
        /\ files2[m + 1] = mine
    BY <1>2, <1>6, AppendProperties, LenProperties
  <1> HIDE DEF files2
  <1>8. \A x \in Handles : x >= n + 1 => open2[x] = Closed
    BY <1>1, <1>4, HandleFacts DEF FilesAgree
  <1>9. \A i \in 1 .. Len(files2) : i \in 1 .. m \/ i = m + 1
    BY <1>7
  <1>10. \A i \in 1 .. m : /\ files2[i] = files[i] /\ files[i].handle \in Handles
                           /\ files[i].handle < n /\ files[i].handle # n
    <2>1. \A i \in 1 .. m : files2[i] = files[i] /\ files[i].handle \in Handles /\ files[i].handle \in Nat
      BY <1>7, OpenedElements
    <2>2. \A i \in 1 .. m : files[i].handle < n
      BY DEF FilesAgree
    <2> QED BY <1>1, <2>1, <2>2
  <1>11. mine.handle = n /\ mine.file = f /\ mine.pos = 0
    BY DEF mine
  <1>12. ASSUME NEW i \in 1 .. Len(files2)
         PROVE  /\ files2[i].handle < n + 1
                /\ open2[files2[i].handle] \in {Closed, [file |-> files2[i].file, pos |-> files2[i].pos]}
    <2>1. CASE i = m + 1
      BY <1>1, <1>4, <1>7, <1>11, <2>1 DEF new
    <2>2. CASE i \in 1 .. m
      <3>1. files[i].handle \in Nat
        BY <1>10, <2>2, HandleFacts
      <3>2. files2[i].handle < n + 1
        BY <1>1, <1>10, <2>2, <3>1
      <3>3. open2[files[i].handle] = open[files[i].handle]
        BY <1>4, <1>10, <2>2
      <3> QED BY <1>10, <2>2, <3>2, <3>3 DEF FilesAgree
    <2> QED BY <1>9, <2>1, <2>2
  <1>13. ASSUME NEW i \in 1 .. Len(files2), NEW j \in 1 .. Len(files2), i # j
         PROVE  files2[i].handle # files2[j].handle
    <2>1. \A a, b \in 1 .. m : a # b => files[a].handle # files[b].handle
      BY DEF FilesAgree
    <2>2. \A a \in 1 .. m : files2[a].handle = files[a].handle /\ files2[a].handle # n
      BY <1>10
    <2>3. files2[m + 1].handle = n
      BY <1>7, <1>11
    <2>4. CASE i \in 1 .. m /\ j \in 1 .. m
      BY <1>13, <2>1, <2>2, <2>4
    <2>5. CASE i = m + 1 \/ j = m + 1
      BY <1>9, <1>13, <2>2, <2>3, <2>5
    <2> QED BY <1>9, <2>4, <2>5
  <1>14. FilesAgree(open2, n + 1, files2)
    BY <1>7, <1>8, <1>12, <1>13 DEF FilesAgree
  <1> QED BY <1>4, <1>5, <1>14 DEF new, open2, mine, files2

-----------------------------------------------------------------------------
(* Threads.                                                                *)

\* The types of a system's fields, and of what EXCEPT changes of one.
LEMMA SystemFields ==
    ASSUME NEW s \in System
    PROVE  /\ s.ports \in BOOLEAN /\ s.calls \in BOOLEAN /\ s.running \in BOOLEAN
           /\ s.started \in BOOLEAN /\ s.current \in 0 .. MaxThreads
           /\ s.threads \in Seq(Slot)
  BY DEF System

\* The slots of a system replaced.
LEMMA SetThreads ==
    ASSUME NEW s \in System, NEW threads \in Seq(Slot)
    PROVE  LET q == [s EXCEPT !.threads = threads]
           IN  /\ q \in System /\ q.threads = threads /\ q.current = s.current
               /\ q.running = s.running /\ q.ports = s.ports /\ q.calls = s.calls
  BY DEF System

\* Whose turn it is.
LEMMA SetCurrent ==
    ASSUME NEW s \in System, NEW t \in 0 .. MaxThreads
    PROVE  LET q == [s EXCEPT !.current = t]
           IN  /\ q \in System /\ q.threads = s.threads /\ q.current = t
               /\ q.running = s.running /\ q.ports = s.ports /\ q.calls = s.calls
  BY DEF System

\* Whether it runs.
LEMMA SetRunning ==
    ASSUME NEW s \in System, NEW b \in BOOLEAN
    PROVE  LET q == [s EXCEPT !.running = b]
           IN  /\ q \in System /\ q.threads = s.threads /\ q.current = s.current
               /\ q.running = b /\ q.ports = s.ports /\ q.calls = s.calls
  BY DEF System

\* Whether its devices are there.
LEMMA SetPorts ==
    ASSUME NEW s \in System, NEW b \in BOOLEAN
    PROVE  LET q == [s EXCEPT !.ports = b]
           IN  /\ q \in System /\ q.threads = s.threads /\ q.current = s.current
               /\ q.running = s.running /\ q.ports = b /\ q.calls = s.calls
  BY DEF System

\* Whether kernel calls are intercepted.
LEMMA SetCalls ==
    ASSUME NEW s \in System, NEW b \in BOOLEAN
    PROVE  LET q == [s EXCEPT !.calls = b]
           IN  /\ q \in System /\ q.threads = s.threads /\ q.current = s.current
               /\ q.running = s.running /\ q.ports = s.ports /\ q.calls = b
  BY DEF System

\* First registers, those of a DPC, and the two fixed stacks.
LEMMA ContextFacts ==
    /\ \A t \in Threads : StartOf(t) \in Context
    /\ DpcLeft \in Context /\ Threads \subseteq Nat /\ 1 \in Threads
    /\ MainStack \in 0 .. HeapUnits + 1 /\ FallbackStack \in 0 .. HeapUnits + 1
  BY DEF StartOf, Context, Places, DpcLeft, Threads, MainStack, FallbackStack

\* Each slot has its parts.
LEMMA SlotElements ==
    ASSUME NEW threads \in Seq(Slot), NEW t \in 1 .. Len(threads)
    PROVE  /\ threads[t] \in Slot /\ threads[t].alive \in BOOLEAN
           /\ threads[t].ctx \in Context /\ threads[t].stack \in 0 .. HeapUnits + 1
  <1>1. threads[t] \in Slot
    BY ElementOfSeq
  <1> QED BY <1>1 DEF Slot

\* The slots that promote_pending makes.
NewSlots(n, k) ==
    [i \in 1 .. k.pending |-> [alive |-> TRUE, ctx |-> StartOf(n + i), stack |-> StackFor(k, i)]]

\* They are slots, with the registers and stacks of the new threads.
LEMMA NewSlotsAre ==
    ASSUME NEW k \in Kernel, NEW n \in Nat, n + k.pending <= MaxThreads
    PROVE  /\ NewSlots(n, k) \in Seq(Slot) /\ Len(NewSlots(n, k)) = k.pending
           /\ \A i \in 1 .. k.pending :
                /\ NewSlots(n, k)[i].ctx = StartOf(n + i)
                /\ NewSlots(n, k)[i].stack = StackFor(k, i)
  <1>1. k.pending \in Nat /\ k.next \in 0 .. HeapUnits
    BY KernelFields
  <1>2. ASSUME NEW i \in 1 .. k.pending
        PROVE  [alive |-> TRUE, ctx |-> StartOf(n + i), stack |-> StackFor(k, i)] \in Slot
    <2>1. n + i \in Threads
      BY <1>1 DEF Threads
    <2>2. StackFor(k, i) \in 0 .. HeapUnits + 1
      BY <1>1 DEF StackFor, FallbackStack
    <2>3. StartOf(n + i) \in Context
      BY <2>1, ContextFacts
    <2> QED BY <2>2, <2>3 DEF Slot
  <1>3. NewSlots(n, k) \in [1 .. k.pending -> Slot]
    BY <1>2 DEF NewSlots
  <1>4. NewSlots(n, k) \in Seq(Slot)
    BY <1>1, <1>3
  <1>5. DOMAIN NewSlots(n, k) = 1 .. k.pending
    BY DEF NewSlots
  <1>6. Len(NewSlots(n, k)) = k.pending
    BY <1>1, <1>4, <1>5, LenProperties
  <1>7. ASSUME NEW i \in 1 .. k.pending
        PROVE  /\ NewSlots(n, k)[i].ctx = StartOf(n + i)
               /\ NewSlots(n, k)[i].stack = StackFor(k, i)
    BY DEF NewSlots
  <1> QED BY <1>4, <1>6, <1>7

\* Slots followed by others.
LEMMA SlotsJoined ==
    ASSUME NEW s1 \in Seq(Slot), NEW s2 \in Seq(Slot)
    PROVE  /\ s1 \o s2 \in Seq(Slot) /\ Len(s1 \o s2) = Len(s1) + Len(s2)
           /\ \A t \in 1 .. Len(s1) : (s1 \o s2)[t] = s1[t]
           /\ \A t \in 1 .. Len(s1) + Len(s2) :
                ~ (t <= Len(s1)) => (s1 \o s2)[t] = s2[t - Len(s1)]
  <1>1. Len(s1) \in Nat /\ Len(s2) \in Nat
    BY LenProperties
  <1>2. \A t \in 1 .. Len(s1) : t \in 1 .. Len(s1) + Len(s2) /\ t <= Len(s1)
    BY <1>1
  <1> QED BY <1>2, ConcatProperties

\* Promotion gives each waiting thread a slot that holds its first registers.
LEMMA PromotionHolds ==
    ASSUME NEW k \in Kernel, NEW threads, NEW l, NEW m,
           SlotsHold(threads, k.pending, l), StacksHold(threads, k.next, m)
    PROVE  LET all == threads \o NewSlots(Len(threads), k)
           IN  /\ SlotsHold(all, 0, l) /\ StacksHold(all, AfterPromotion(k).next, m)
               /\ all = << >> <=> threads = << >>
               /\ Len(all) >= Len(threads)
               /\ \A t \in 1 .. Len(threads) : all[t] = threads[t]
  <1> DEFINE n == Len(threads)
             p == k.pending
             new == NewSlots(n, k)
             all == threads \o new
             next == AfterPromotion(k).next
  <1>1. /\ threads \in Seq(Slot) /\ n \in Nat /\ p \in Nat /\ n + p <= MaxThreads
        /\ k.next \in 0 .. HeapUnits
    BY KernelFields, LenProperties DEF SlotsHold
  <1>2. /\ new \in Seq(Slot) /\ Len(new) = p
        /\ \A i \in 1 .. p : new[i].ctx = StartOf(n + i) /\ new[i].stack = StackFor(k, i)
    BY <1>1, NewSlotsAre
  <1> HIDE DEF new
  <1>3. all \in Seq(Slot) /\ Len(all) = n + p
    <2>1. all \in Seq(Slot) /\ Len(all) = Len(threads) + Len(new)
      BY <1>1, <1>2, SlotsJoined
    <2> QED BY <1>2, <2>1
  <1>4. \A t \in 1 .. n : all[t] = threads[t]
    BY <1>1, <1>2, SlotsJoined
  <1>5. ASSUME NEW t \in 1 .. n + p, ~ (t \in 1 .. n)
        PROVE  /\ t - n \in 1 .. p /\ n + (t - n) = t
               /\ all[t].ctx = StartOf(t) /\ all[t].stack = StackFor(k, t - n)
    <2>1. t - n \in 1 .. p /\ n + (t - n) = t /\ ~ (t <= n) /\ t \in 1 .. Len(threads) + Len(new)
      BY <1>1, <1>2, <1>5
    <2>2. all[t] = new[t - n]
      BY <1>1, <1>2, <2>1, SlotsJoined
    <2> QED BY <1>2, <2>1, <2>2
  <1>6. threads = << >> <=> n = 0
    BY <1>1, EmptySeq
  <1>7. all = << >> <=> n + p = 0
    BY <1>3, EmptySeq
  <1> HIDE DEF all
  <1>8. all = << >> <=> threads = << >>
    BY <1>1, <1>6, <1>7 DEF SlotsHold
  <1>9. ASSUME NEW t \in Threads
        PROVE  l[t] = IF t <= Len(all) THEN all[t].ctx ELSE StartOf(t)
    <2>1. t \in Nat /\ t >= 1 /\ l[t] = IF t <= n THEN threads[t].ctx ELSE StartOf(t)
      BY DEF SlotsHold, Threads
    <2>2. CASE t \in 1 .. n
      <3>1. all[t] = threads[t] /\ t <= n /\ t <= Len(all)
        BY <1>1, <1>3, <1>4, <2>2
      <3> QED BY <2>1, <3>1
    <2>3. CASE ~ (t \in 1 .. n) /\ t \in 1 .. n + p
      <3>1. all[t].ctx = StartOf(t) /\ ~ (t <= n) /\ t <= Len(all)
        BY <1>1, <1>3, <1>5, <2>1, <2>3
      <3> QED BY <2>1, <3>1
    <2>4. CASE ~ (t \in 1 .. n + p)
      BY <1>1, <1>3, <2>1, <2>4
    <2> QED BY <2>2, <2>3, <2>4
  <1>10. SlotsHold(all, 0, l)
    BY <1>1, <1>3, <1>9 DEF SlotsHold
  <1>11. next = IF k.next + p < HeapUnits THEN k.next + p ELSE HeapUnits
    BY AfterPromotionDoes
  <1>12. next \in Nat /\ k.next <= next
    BY <1>1, <1>11
  <1> HIDE DEF next
  <1>13. \A i \in 1 .. p : StackFor(k, i) # FallbackStack =>
            StackFor(k, i) = k.next + i - 1 /\ StackFor(k, i) < next
    BY <1>1, <1>11 DEF StackFor
  <1>14. m \subseteq 0 .. next - 1 /\ \A x \in m : x < k.next
    <2>1. m \subseteq 0 .. k.next - 1
      BY DEF StacksHold
    <2>2. \A x \in 0 .. k.next - 1 : x \in 0 .. next - 1 /\ x < k.next
      BY <1>1, <1>12
    <2> QED BY <2>1, <2>2
  <1>15. \A t \in 2 .. n : t \in 1 .. n /\ threads[t].stack \in 0 .. HeapUnits + 1
    BY <1>1, SlotElements
  <1>16. ASSUME NEW t \in 2 .. n + p, all[t].stack # FallbackStack
         PROVE  all[t].stack < next /\ all[t].stack \notin m
    <2>1. CASE t \in 2 .. n
      <3>1. threads[t].stack < k.next /\ threads[t].stack \notin m
        BY <1>4, <1>15, <1>16, <2>1 DEF StacksHold
      <3> QED BY <1>1, <1>4, <1>12, <1>15, <2>1, <3>1
    <2>2. CASE ~ (t \in 2 .. n)
      <3>1. t - n \in 1 .. p /\ all[t].stack = StackFor(k, t - n)
        BY <1>1, <1>5, <2>2
      <3> QED BY <1>1, <1>13, <1>14, <1>16, <3>1
    <2> QED BY <2>1, <2>2
  <1>17. ASSUME NEW t \in 2 .. n + p, NEW u \in 2 .. n + p, t # u, all[t].stack # FallbackStack
         PROVE  all[t].stack # all[u].stack
    <2>1. \A v \in 2 .. n + p : v \in 2 .. n \/ (~ (v \in 1 .. n) /\ v \in 1 .. n + p)
      BY <1>1
    <2>2. CASE t \in 2 .. n /\ u \in 2 .. n
      BY <1>4, <1>15, <1>17, <2>2 DEF StacksHold
    <2>3. CASE ~ (t \in 1 .. n) /\ ~ (u \in 1 .. n)
      <3>1. /\ t - n \in 1 .. p /\ all[t].stack = StackFor(k, t - n)
            /\ u - n \in 1 .. p /\ all[u].stack = StackFor(k, u - n)
        BY <1>1, <1>5, <2>3
      <3>2. CASE all[u].stack = FallbackStack
        BY <1>17, <3>2
      <3>3. CASE all[u].stack # FallbackStack
        <4>1. all[t].stack = k.next + (t - n) - 1 /\ all[u].stack = k.next + (u - n) - 1
          BY <1>13, <1>17, <3>1, <3>3
        <4> QED BY <1>1, <1>17, <4>1
      <3> QED BY <3>2, <3>3
    <2>4. ASSUME NEW x \in 2 .. n, NEW y \in 2 .. n + p, ~ (y \in 1 .. n),
                 all[x].stack # FallbackStack, all[y].stack # FallbackStack
          PROVE  all[x].stack # all[y].stack
      <3>1. all[x].stack < k.next /\ all[x].stack \in Nat
        BY <1>1, <1>4, <1>15, <2>4 DEF StacksHold
      <3>2. y - n \in 1 .. p /\ all[y].stack = StackFor(k, y - n)
        BY <1>1, <1>5, <2>4
      <3>3. all[y].stack = k.next + (y - n) - 1
        BY <1>13, <2>4, <3>2
      <3> QED BY <1>1, <3>1, <3>2, <3>3
    <2>5. all[u].stack = FallbackStack => all[t].stack # all[u].stack
      BY <1>17
    <2> QED BY <1>17, <2>1, <2>2, <2>3, <2>4, <2>5
  <1>18. all # << >> => all[1].stack = MainStack
    <2>1. ASSUME all # << >>  PROVE all[1].stack = MainStack
      <3>1. threads # << >> /\ 1 \in 1 .. n
        BY <1>1, <1>6, <1>8, <2>1
      <3> QED BY <1>4, <3>1 DEF StacksHold
    <2> QED BY <2>1
  <1>19. StacksHold(all, next, m)
    BY <1>3, <1>14, <1>16, <1>17, <1>18 DEF StacksHold
  <1>20. Len(all) >= n
    BY <1>1, <1>3
  <1> QED BY <1>4, <1>8, <1>10, <1>19, <1>20 DEF all, next, new

\* The main thread's slot, where there is none.
LEMMA MainHolds ==
    ASSUME NEW threads, NEW l, NEW n, NEW m,
           SlotsHold(threads, 0, l), StacksHold(threads, n, m)
    PROVE  LET main == IF threads # << >> THEN threads
                       ELSE << [alive |-> TRUE, ctx |-> StartOf(1), stack |-> MainStack] >>
           IN  SlotsHold(main, 0, l) /\ StacksHold(main, n, m) /\ main # << >>
  <1> DEFINE slot == [alive |-> TRUE, ctx |-> StartOf(1), stack |-> MainStack]
             main == << slot >>
  <1>1. CASE threads # << >>
    BY <1>1
  <1>2. CASE threads = << >>
    <2>1. slot \in Slot
      BY ContextFacts DEF Slot
    <2>2. slot.ctx = StartOf(1) /\ slot.stack = MainStack
      OBVIOUS
    <2> HIDE DEF slot
    <2>3. main \in Seq(Slot) /\ Len(main) = 1 /\ main[1] = slot /\ main # << >>
      BY <2>1
    <2> HIDE DEF main
    <2>4. ASSUME NEW t \in Threads
          PROVE  l[t] = IF t <= Len(main) THEN main[t].ctx ELSE StartOf(t)
      <3>1. t \in Nat /\ t >= 1 /\ l[t] = StartOf(t)
        BY <1>2 DEF SlotsHold, Threads
      <3> QED BY <2>2, <2>3, <3>1
    <2>5. SlotsHold(main, 0, l)
      BY <2>3, <2>4 DEF SlotsHold
    <2>6. StacksHold(main, n, m)
      BY <2>2, <2>3 DEF StacksHold
    <2> QED BY <1>2, <2>3, <2>5, <2>6 DEF main, slot
  <1> QED BY <1>1, <1>2

\* A slot with other registers.
LEMMA SlotWith ==
    ASSUME NEW r \in Slot, NEW c
    PROVE  [r EXCEPT !.ctx = c] = [alive |-> r.alive, ctx |-> c, stack |-> r.stack]
  BY DEF Slot

\* A slot whose registers are replaced, with those the thread is left with.
LEMMA SavedHolds ==
    ASSUME NEW threads, NEW l, NEW p \in Nat, NEW n, NEW m,
           SlotsHold(threads, p, l), StacksHold(threads, n, m),
           NEW t \in 1 .. Len(threads), NEW c \in Context
    PROVE  LET all == [threads EXCEPT ![t].ctx = c]
           IN  /\ SlotsHold(all, p, [l EXCEPT ![t] = c]) /\ StacksHold(all, n, m)
               /\ Len(all) = Len(threads)
  <1> DEFINE slot == [alive |-> threads[t].alive, ctx |-> c, stack |-> threads[t].stack]
             all == [threads EXCEPT ![t].ctx = c]
             l2 == [l EXCEPT ![t] = c]
  <1>1. threads \in Seq(Slot) /\ threads[t] \in Slot /\ slot \in Slot
    <2>1. threads \in Seq(Slot)
      BY DEF SlotsHold
    <2> QED BY <2>1, SlotElements DEF Slot
  <1>2. all = [threads EXCEPT ![t] = slot]
    <2>1. [threads[t] EXCEPT !.ctx = c] = slot
      BY <1>1, SlotWith
    <2> QED BY <2>1
  <1>3. slot.ctx = c /\ slot.stack = threads[t].stack
    OBVIOUS
  <1> HIDE DEF slot, all
  <1>4. /\ all \in Seq(Slot) /\ Len(all) = Len(threads) /\ Len(threads) \in Nat
        /\ all[t] = slot /\ \A u \in 1 .. Len(threads) : u # t => all[u] = threads[u]
    BY <1>1, <1>2, ExceptSeq, LenProperties
  <1>5. \A u \in 1 .. Len(threads) : all[u].stack = threads[u].stack
    BY <1>3, <1>4
  <1>6. threads # << >> /\ all # << >>
    BY <1>1, <1>4, EmptySeq
  <1>7. l \in [Threads -> Context] /\ t \in Threads
    <2>1. Len(threads) + p <= MaxThreads /\ l \in [Threads -> Context]
      BY DEF SlotsHold
    <2> QED BY <1>4, <2>1 DEF Threads
  <1>8. l2 \in [Threads -> Context]
    BY <1>7
  <1>9. ASSUME NEW u \in Threads
        PROVE  l2[u] = IF u <= Len(all) THEN all[u].ctx ELSE StartOf(u)
    <2>1. CASE u = t
      BY <1>3, <1>4, <1>7, <2>1
    <2>2. CASE u # t
      <3>1. u \in Nat /\ u >= 1 /\ l2[u] = l[u]
        BY <1>7, <2>2 DEF Threads
      <3>2. l[u] = IF u <= Len(threads) THEN threads[u].ctx ELSE StartOf(u)
        BY DEF SlotsHold
      <3>3. u <= Len(threads) => all[u] = threads[u]
        BY <1>4, <2>2, <3>1
      <3> QED BY <1>4, <3>1, <3>2, <3>3
    <2> QED BY <2>1, <2>2
  <1> HIDE DEF l2
  <1>10. SlotsHold(all, p, l2)
    BY <1>4, <1>6, <1>8, <1>9 DEF SlotsHold
  <1>11. StacksHold(all, n, m)
    <2>1. \A u \in 2 .. Len(threads) : u \in 1 .. Len(threads)
      BY <1>4
    <2>2. 1 \in 1 .. Len(threads)
      BY <1>4
    <2> QED BY <1>4, <1>5, <1>6, <2>1, <2>2 DEF StacksHold
  <1> QED BY <1>4, <1>10, <1>11 DEF all, l2

\* A slot that is dead keeps its registers and its stack.
LEMMA DeadSlot ==
    ASSUME NEW r \in Slot
    PROVE  LET dead == [r EXCEPT !.alive = FALSE]
           IN  dead \in Slot /\ dead.ctx = r.ctx /\ dead.stack = r.stack
  BY DEF Slot

\* A slot that dies.
LEMMA DeadHolds ==
    ASSUME NEW threads, NEW l, NEW p \in Nat, NEW n, NEW m,
           SlotsHold(threads, p, l), StacksHold(threads, n, m), NEW t \in 1 .. Len(threads)
    PROVE  LET all == [threads EXCEPT ![t].alive = FALSE]
           IN  SlotsHold(all, p, l) /\ StacksHold(all, n, m)
  <1> DEFINE slot == [threads[t] EXCEPT !.alive = FALSE]
             all == [threads EXCEPT ![t].alive = FALSE]
  <1>1. threads \in Seq(Slot) /\ threads[t] \in Slot
    <2>1. threads \in Seq(Slot)
      BY DEF SlotsHold
    <2> QED BY <2>1, SlotElements
  <1>2. all = [threads EXCEPT ![t] = slot]
    OBVIOUS
  <1>3. slot \in Slot /\ slot.ctx = threads[t].ctx /\ slot.stack = threads[t].stack
    BY <1>1, DeadSlot
  <1> HIDE DEF slot, all
  <1>4. /\ all \in Seq(Slot) /\ Len(all) = Len(threads) /\ Len(threads) \in Nat
        /\ all[t] = slot /\ \A u \in 1 .. Len(threads) : u # t => all[u] = threads[u]
    BY <1>1, <1>2, <1>3, ExceptSeq, LenProperties
  <1>5. \A u \in 1 .. Len(threads) : all[u].stack = threads[u].stack /\ all[u].ctx = threads[u].ctx
    BY <1>3, <1>4
  <1>6. threads # << >> /\ all # << >>
    BY <1>1, <1>4, EmptySeq
  <1>7. \A u \in Threads : u <= Len(threads) => u \in 1 .. Len(threads)
    BY <1>4 DEF Threads
  <1>8. SlotsHold(all, p, l)
    BY <1>4, <1>5, <1>6, <1>7 DEF SlotsHold
  <1>9. StacksHold(all, n, m)
    <2>1. \A u \in 2 .. Len(threads) : u \in 1 .. Len(threads)
      BY <1>4
    <2>2. 1 \in 1 .. Len(threads)
      BY <1>4
    <2> QED BY <1>4, <1>5, <1>6, <2>1, <2>2 DEF StacksHold
  <1> QED BY <1>8, <1>9 DEF all

-----------------------------------------------------------------------------
(* The choice of a thread.                                                 *)

\* A set of numbers that is not empty has a least one.
LEMMA Least ==
    ASSUME NEW T, T \subseteq Nat, T # {}
    PROVE  \E x \in T : \A y \in T : x <= y
  <1>1. PICK x \in T : \A y \in T : ~ (<<y, x>> \in OpToRel(<, Nat))
    BY NatLessThanWellFounded, WFMin
  <1>2. \A y \in T : ~ (y < x)
    BY <1>1 DEF OpToRel
  <1> QED BY <1>2

\* next_alive_thread finds an alive thread, or none.
LEMMA NextAliveIs ==
    ASSUME NEW s, s.threads \in Seq(Slot), NEW from \in Nat
    PROVE  NextAlive(s, from) = 0 \/ NextAlive(s, from) \in Alive(s)
  <1> DEFINE n == Len(s.threads)
             after(i) == ((from + i - 1) % n) + 1
             steps == { i \in 1 .. n : after(i) \in Alive(s) }
  <1>1. CASE steps = {}
    BY <1>1 DEF NextAlive
  <1>2. CASE steps # {}
    <2>1. steps \subseteq Nat
      OBVIOUS
    <2> DEFINE first == CHOOSE i \in steps : \A j \in steps : i <= j
    <2>2. first \in steps
      <3> HIDE DEF steps
      <3> QED BY <1>2, <2>1, Least
    <2>3. NextAlive(s, from) = after(first)
      BY <1>2 DEF NextAlive
    <2> HIDE DEF first
    <2> QED BY <2>2, <2>3
  <1> QED BY <1>1, <1>2

\* After the main thread, it finds one if there is one.
LEMMA NextAliveFinds ==
    ASSUME NEW s, s.threads \in Seq(Slot), Alive(s) \subseteq 1 .. Len(s.threads), Alive(s) # {}
    PROVE  NextAlive(s, 1) \in Alive(s)
  <1> DEFINE n == Len(s.threads)
             after(i) == ((1 + i - 1) % n) + 1
             steps == { i \in 1 .. n : after(i) \in Alive(s) }
  <1>1. PICK t \in Alive(s) : TRUE
    OBVIOUS
  <1>2. n \in Nat /\ t \in 1 .. n
    BY <1>1, LenProperties
  <1>3. \E i \in 1 .. n : after(i) = t
    <2> HIDE DEF n
    <2>1. CASE t = 1
      <3>1. n \in 1 .. n /\ n % n = 0
        BY <1>2
      <3>2. after(n) = t
        BY <1>2, <2>1, <3>1
      <3> QED BY <3>1, <3>2
    <2>2. CASE t # 1
      <3>1. t - 1 \in 1 .. n /\ (t - 1) % n = t - 1
        BY <1>2, <2>2
      <3>2. after(t - 1) = t
        BY <1>2, <3>1
      <3> QED BY <3>1, <3>2
    <2> QED BY <2>1, <2>2
  <1>4. steps # {} /\ steps \subseteq Nat
    <2>1. PICK i \in 1 .. n : after(i) = t
      BY <1>3
    <2> HIDE DEF after
    <2> QED BY <1>1, <2>1
  <1> DEFINE first == CHOOSE i \in steps : \A j \in steps : i <= j
  <1>5. first \in steps
    <2> HIDE DEF steps
    <2> QED BY <1>4, Least
  <1>6. NextAlive(s, 1) = after(first)
    BY <1>4 DEF NextAlive
  <1> HIDE DEF first
  <1> QED BY <1>5, <1>6

\* Alive threads have slots; there are no more slots than threads.
LEMMA AliveHaveSlots ==
    ASSUME NEW s, NEW p \in Nat, NEW l, SlotsHold(s.threads, p, l)
    PROVE  /\ Alive(s) \subseteq 1 .. Len(s.threads) /\ Alive(s) \subseteq Threads
           /\ Alive(s) \subseteq 0 .. MaxThreads /\ 1 .. Len(s.threads) \subseteq Threads
  <1>1. s.threads \in Seq(Slot) /\ Len(s.threads) \in Nat /\ Len(s.threads) <= MaxThreads
    BY LenProperties DEF SlotsHold
  <1>2. Alive(s) \subseteq 1 .. Len(s.threads)
    BY <1>1, LenProperties DEF Alive
  <1> QED BY <1>1, <1>2 DEF Threads

\* Rotating changes only whose turn it is.
LEMMA RotatedDoes ==
    ASSUME NEW s \in System, NEW p \in Nat, NEW l, SlotsHold(s.threads, p, l)
    PROVE  LET q == Rotated(s)
           IN  /\ q \in System /\ q.threads = s.threads /\ q.running = s.running
               /\ q.ports = s.ports /\ q.calls = s.calls
  <1>1. s.threads \in Seq(Slot) /\ s.current \in Nat
    BY SystemFields
  <1>2. NextAlive(s, s.current) \in 0 .. MaxThreads
    <2>1. NextAlive(s, s.current) = 0 \/ NextAlive(s, s.current) \in Alive(s)
      BY <1>1, NextAliveIs
    <2>2. Alive(s) \subseteq 0 .. MaxThreads
      BY AliveHaveSlots
    <2> QED BY <2>1, <2>2
  <1> QED BY <1>2, SetCurrent DEF Rotated

-----------------------------------------------------------------------------
(* DataInv is kept: by what changes nothing of it, by what makes all of it *)
(* new, by the kernel calls and by the scheduler.                          *)

\* Nothing of it changes.
LEMMA DataUnchanged ==
    ASSUME DataInv, UNCHANGED <<sys, kernel, left, guest>>
    PROVE  DataInv'
  BY DEF DataInv

\* Only whether the system runs, or whose turn it is, changes.
LEMMA DataSameThreads ==
    ASSUME DataInv, UNCHANGED <<kernel, left, guest>>,
           sys' \in System, sys'.threads = sys.threads
    PROVE  DataInv'
  BY DEF DataInv

\* What is new satisfies every part.
LEMMA NewFacts ==
    /\ NewKernel \in Kernel /\ KernelInv(NewKernel) /\ ResetKernel(NewKernel) = NewKernel
    /\ NewKernel.pending = 0 /\ NewKernel.next = 0 /\ NewKernel.nextHandle = 0
    /\ NewKernel.open \in Opens /\ NewGuest \in Guest
    /\ SlotsHold(<< >>, 0, NewLeft) /\ StacksHold(<< >>, 0, {})
    /\ FilesAgree(NewKernel.open, 0, << >>)
  <1> DEFINE open == [h \in Handles |-> Closed]
  <1>1. open \in Opens /\ \A h \in Handles : open[h] = Closed
    BY HandleFacts DEF Opens
  <1>2. NewKernel = [next |-> 0, pending |-> 0, dpcs |-> << >>, asked |-> 0, fired |-> 0,
                     open |-> open, nextHandle |-> 0]
    BY DEF NewKernel
  <1> HIDE DEF open
  <1>3. << >> \in Seq(1 .. MaxDpcs) /\ << >> \in Seq(OpenedFile) /\ << >> \in Seq(Slot) /\ Len(<< >>) = 0
    OBVIOUS
  <1>4. NewKernel \in Kernel
    <2>1. 0 \in 0 .. HeapUnits /\ 0 \in 0 .. MaxThreads /\ 0 \in 0 .. MaxDpcs /\ 0 \in 0 .. MaxOpens
      OBVIOUS
    <2> QED BY <1>1, <1>2, <1>3, <2>1 DEF Kernel, Opens
  <1>5. /\ NewKernel.pending = 0 /\ NewKernel.next = 0 /\ NewKernel.nextHandle = 0
        /\ NewKernel.open = open /\ NewKernel.dpcs = << >> /\ NewKernel.asked = 0 /\ NewKernel.fired = 0
    BY <1>2
  <1>6. KernelInv(NewKernel)
    <2>1. \A i \in 1 .. 0 - 0 : << >>[i] = 0 + i
      OBVIOUS
    <2>2. 0 \in Nat /\ 0 >= 0 /\ Len(<< >>) = 0 - 0
      BY <1>3
    <2>3. Counted(<< >>, 0, 0)
      BY <1>3, <2>1, <2>2, WaitingIs
    <2> QED BY <1>4, <1>5, <2>3 DEF KernelInv
  <1>7. ResetKernel(NewKernel) = NewKernel
    BY <1>2, <1>5 DEF ResetKernel
  <1>8. NewGuest \in Guest
    BY <1>3 DEF NewGuest, Guest
  <1>9. SlotsHold(<< >>, 0, NewLeft)
    <2>1. NewLeft \in [Threads -> Context]
      BY ContextFacts DEF NewLeft
    <2>2. \A t \in Threads : NewLeft[t] = StartOf(t) /\ ~ (t <= 0)
      BY DEF NewLeft, Threads
    <2>3. Len(<< >>) + 0 <= MaxThreads
      BY <1>3
    <2> QED BY <1>3, <2>1, <2>2, <2>3 DEF SlotsHold
  <1>10. StacksHold(<< >>, 0, {})
    BY <1>3 DEF StacksHold
  <1>11. FilesAgree(open, 0, << >>)
    BY <1>1, <1>3 DEF FilesAgree
  <1> QED BY <1>1, <1>4, <1>5, <1>6, <1>7, <1>8, <1>9, <1>10, <1>11

\* A system without threads, and everything else new.
LEMMA DataNew ==
    ASSUME sys' \in System, sys'.threads = << >>, kernel' = NewKernel,
           left' = NewLeft, guest' = NewGuest
    PROVE  DataInv'
  <1>1. guest'.memory = {} /\ guest'.files = << >>
    BY DEF NewGuest
  <1> QED BY <1>1, NewFacts DEF DataInv

\* A kernel call of a title, by what it changes; DPCs are kept as KernelInv'.
LEMMA DataCall ==
    ASSUME DataInv, UNCHANGED <<sys, left>>, KernelInv(kernel'), guest' \in Guest,
           SlotsHold(sys.threads, kernel'.pending, left),
           StacksHold(sys.threads, kernel'.next, guest'.memory),
           FilesAgree(kernel'.open, kernel'.nextHandle, guest'.files)
    PROVE  DataInv'
  BY DEF DataInv

\* The types of what DataInv is about.
LEMMA DataFacts ==
    ASSUME DataInv
    PROVE  /\ kernel \in Kernel /\ kernel.next \in 0 .. HeapUnits /\ kernel.pending \in Nat
           /\ kernel.open \in Opens /\ kernel.nextHandle \in 0 .. MaxOpens
           /\ sys.threads \in Seq(Slot) /\ Len(sys.threads) \in Nat
           /\ guest.memory \in SUBSET Nat /\ guest.files \in Seq(OpenedFile)
           /\ Len(guest.files) \in Nat /\ DOMAIN guest.files = 1 .. Len(guest.files)
           /\ guest.misread = FALSE
           /\ guest = [memory |-> guest.memory, files |-> guest.files, misread |-> FALSE]
  <1>1. kernel \in Kernel /\ sys \in System /\ guest \in Guest
    BY DEF DataInv, KernelInv
  <1>2. /\ kernel.next \in 0 .. HeapUnits /\ kernel.pending \in Nat
        /\ kernel.open \in Opens /\ kernel.nextHandle \in 0 .. MaxOpens
    BY <1>1, KernelFields DEF Opens
  <1>3. sys.threads \in Seq(Slot) /\ Len(sys.threads) \in Nat
    BY <1>1, SystemFields, LenProperties
  <1>4. /\ guest.memory \in SUBSET Nat /\ guest.files \in Seq(OpenedFile) /\ guest.misread = FALSE
        /\ guest = [memory |-> guest.memory, files |-> guest.files, misread |-> FALSE]
    BY <1>1 DEF Guest
  <1>5. Len(guest.files) \in Nat /\ DOMAIN guest.files = 1 .. Len(guest.files)
    BY <1>4, LenProperties
  <1> QED BY <1>1, <1>2, <1>3, <1>4, <1>5

\* A thread created: it waits for a slot, and there will be one.
LEMMA DataCreateThread ==
    ASSUME DataInv, sys.threads # << >>, UNCHANGED <<sys, left, guest>>,
           NEW k, KernelInv(k), k.pending = kernel.pending, k.next = kernel.next,
           k.open = kernel.open, k.nextHandle = kernel.nextHandle,
           CanCreate(k), kernel' = CreateThread(k)
    PROVE  DataInv'
  <1>1. k \in Kernel /\ k.pending \in Nat /\ Len(sys.threads) \in Nat
    BY DataFacts DEF KernelInv
  <1>2. Len(sys.threads) + (k.pending + 1) <= MaxThreads /\ k.pending < MaxThreads
    BY <1>1 DEF CanCreate
  <1>3. /\ kernel' \in Kernel /\ kernel'.pending = k.pending + 1 /\ kernel'.next = k.next
        /\ kernel'.dpcs = k.dpcs /\ kernel'.asked = k.asked /\ kernel'.fired = k.fired
        /\ kernel'.open = k.open /\ kernel'.nextHandle = k.nextHandle
    BY <1>1, <1>2, CreateThreadDoes
  <1>4. KernelInv(kernel')
    BY <1>3, OtherCallsKeepDpcs
  <1>5. SlotsHold(sys.threads, kernel'.pending, left)
    BY <1>2, <1>3 DEF DataInv, SlotsHold
  <1> QED BY <1>3, <1>4, <1>5, DataCall DEF DataInv

\* A DPC queued, or taken.
LEMMA DataDpcs ==
    ASSUME DataInv, UNCHANGED <<sys, left, guest>>, KernelInv(kernel'),
           kernel'.pending = kernel.pending, kernel'.next = kernel.next,
           kernel'.open = kernel.open, kernel'.nextHandle = kernel.nextHandle
    PROVE  DataInv'
  BY DataCall DEF DataInv

\* KeInsertQueueDpc and the timers.
LEMMA DataQueueDpc ==
    ASSUME DataInv, CallQueueDpc
    PROVE  DataInv'
  <1>1. UNCHANGED <<sys, left, guest>> /\ kernel' = QueueDpc(kernel) /\ CanQueueDpc(kernel)
    BY DEF CallQueueDpc, Call
  <1>2. KernelInv(kernel) /\ kernel \in Kernel
    BY DEF DataInv, KernelInv
  <1> QED BY <1>1, <1>2, QueuedDpc, QueueDpcDoes, DataDpcs

\* A DPC that runs may arm a timer or create a thread.
LEMMA DataRunsDpc ==
    ASSUME DataInv, sys.threads # << >>, EmuRunsDpc
    PROVE  DataInv'
  <1> DEFINE k == TakeDpc(kernel)
  <1>1. UNCHANGED <<sys, left, guest>> /\ kernel.dpcs # << >> /\ KernelInv(kernel) /\ kernel \in Kernel
    BY DEF EmuRunsDpc, DataInv, KernelInv
  <1>2. KernelInv(k)
    BY <1>1, TakenDpc
  <1>3. /\ k \in Kernel /\ k.pending = kernel.pending /\ k.next = kernel.next
        /\ k.open = kernel.open /\ k.nextHandle = kernel.nextHandle
    BY <1>1, <1>2, TakeDpcDoes DEF KernelInv
  <1>4. \/ kernel' = k
        \/ CanQueueDpc(k) /\ kernel' = QueueDpc(k)
        \/ CanCreate(k) /\ kernel' = CreateThread(k)
    BY DEF EmuRunsDpc
  <1> HIDE DEF k
  <1>5. CASE kernel' = k
    BY <1>1, <1>2, <1>3, <1>5, DataDpcs
  <1>6. CASE CanQueueDpc(k) /\ kernel' = QueueDpc(k)
    <2>1. KernelInv(kernel')
      BY <1>2, <1>6, QueuedDpc
    <2>2. /\ kernel'.pending = kernel.pending /\ kernel'.next = kernel.next
          /\ kernel'.open = kernel.open /\ kernel'.nextHandle = kernel.nextHandle
      BY <1>3, <1>6, QueueDpcDoes
    <2> QED BY <1>1, <2>1, <2>2, DataDpcs
  <1>7. CASE CanCreate(k) /\ kernel' = CreateThread(k)
    BY <1>1, <1>2, <1>3, <1>7, DataCreateThread
  <1> QED BY <1>4, <1>5, <1>6, <1>7

\* A block taken is the next one, which no stack is.
LEMMA DataAllocate ==
    ASSUME DataInv, CallAllocate
    PROVE  DataInv'
  <1>1. /\ UNCHANGED <<sys, left>> /\ kernel' = Allocated(kernel)
        /\ guest' = IF HasRoom(kernel) THEN [guest EXCEPT !.memory = @ \cup {kernel.next}] ELSE guest
    BY DEF CallAllocate, Call
  <1>2. /\ kernel' \in Kernel /\ kernel'.next = IF HasRoom(kernel) THEN kernel.next + 1 ELSE kernel.next
        /\ kernel'.pending = kernel.pending /\ kernel'.dpcs = kernel.dpcs
        /\ kernel'.asked = kernel.asked /\ kernel'.fired = kernel.fired
        /\ kernel'.open = kernel.open /\ kernel'.nextHandle = kernel.nextHandle
    BY <1>1, DataFacts, AllocatedDoes
  <1>3. KernelInv(kernel')
    BY <1>2, OtherCallsKeepDpcs DEF DataInv
  <1>4. CASE ~HasRoom(kernel)
    BY <1>1, <1>2, <1>3, <1>4, DataDpcs
  <1>5. CASE HasRoom(kernel)
    <2> DEFINE n == kernel.next
               m == guest.memory \cup {n}
    <2>1. n \in Nat /\ guest.memory \subseteq Nat
      BY DataFacts
    <2>2. guest' = [memory |-> m, files |-> guest.files, misread |-> FALSE]
      BY <1>1, <1>5, DataFacts
    <2>3. guest' \in Guest /\ guest'.memory = m /\ guest'.files = guest.files
      BY <2>1, <2>2, DataFacts DEF Guest
    <2>4. StacksHold(sys.threads, n + 1, m)
      <3>1. StacksHold(sys.threads, n, guest.memory) /\ sys.threads \in Seq(Slot)
        BY DataFacts DEF DataInv
      <3>2. m \subseteq 0 .. (n + 1) - 1
        BY <2>1, <3>1 DEF StacksHold
      <3>3. \A t \in 2 .. Len(sys.threads) : sys.threads[t].stack \in Nat
        <4>1. \A t \in 2 .. Len(sys.threads) : t \in 1 .. Len(sys.threads)
          BY DataFacts
        <4> QED BY <3>1, <4>1, SlotElements
      <3>4. ASSUME NEW t \in 2 .. Len(sys.threads), sys.threads[t].stack # FallbackStack
            PROVE  sys.threads[t].stack < n + 1 /\ sys.threads[t].stack \notin m
        <4>1. sys.threads[t].stack < n /\ sys.threads[t].stack \notin guest.memory
          BY <3>1, <3>4 DEF StacksHold
        <4> QED BY <2>1, <3>3, <4>1
      <3> HIDE DEF n, m
      <3> QED BY <3>1, <3>2, <3>4 DEF StacksHold
    <2>5. kernel'.next = n + 1
      BY <1>2, <1>5
    <2> HIDE DEF n, m
    <2> QED BY <1>1, <1>2, <1>3, <2>3, <2>4, <2>5, DataCall DEF DataInv
  <1> QED BY <1>4, <1>5

\* A file call, by the open files it leaves and what the guest then knows.
LEMMA DataFiles ==
    ASSUME DataInv, UNCHANGED <<sys, left>>,
           NEW open \in Opens, NEW n \in 0 .. MaxOpens, NEW files \in Seq(OpenedFile),
           kernel' = [kernel EXCEPT !.open = open, !.nextHandle = n],
           guest' = [memory |-> guest.memory, files |-> files, misread |-> FALSE],
           FilesAgree(open, n, files)
    PROVE  DataInv'
  <1>1. /\ kernel' \in Kernel /\ kernel'.open = open /\ kernel'.nextHandle = n
        /\ kernel'.pending = kernel.pending /\ kernel'.next = kernel.next
        /\ kernel'.dpcs = kernel.dpcs /\ kernel'.asked = kernel.asked /\ kernel'.fired = kernel.fired
    <2>1. kernel \in Kernel
      BY DataFacts
    <2> QED BY <2>1 DEF Kernel, Opens
  <1>2. KernelInv(kernel')
    BY <1>1, OtherCallsKeepDpcs DEF DataInv
  <1>3. guest' \in Guest /\ guest'.memory = guest.memory /\ guest'.files = files
    BY DataFacts DEF Guest
  <1> QED BY <1>1, <1>2, <1>3, DataCall DEF DataInv

\* NtOpenFile: a handle, with a file or without.
LEMMA DataOpen ==
    ASSUME DataInv, CallOpen
    PROVE  DataInv'
  <1> DEFINE n == kernel.nextHandle
  <1>1. UNCHANGED <<sys, left>> /\ CanOpen(kernel)
    BY DEF CallOpen, Call
  <1>2. /\ n \in 0 .. MaxOpens /\ n < MaxOpens /\ n + 1 \in 0 .. MaxOpens
        /\ FilesAgree(kernel.open, n, guest.files)
    BY <1>1, DataFacts DEF CanOpen, DataInv
  <1>3. CASE kernel' = FakeHandle(kernel) /\ UNCHANGED guest
    <2>1. kernel' = [kernel EXCEPT !.open = kernel.open, !.nextHandle = n + 1]
      BY <1>3, DataFacts DEF FakeHandle, Kernel
    <2>2. FilesAgree(kernel.open, n + 1, guest.files)
      BY <1>2, DataFacts, AgreeFake
    <2>3. guest' = [memory |-> guest.memory, files |-> guest.files, misread |-> FALSE]
      BY <1>3, DataFacts
    <2> HIDE DEF n
    <2> QED BY <1>1, <1>2, <2>1, <2>2, <2>3, DataFacts, DataFiles
  <1>4. ASSUME NEW f \in Files, kernel' = OpenHostFile(kernel, f),
               guest' = [guest EXCEPT !.files = Append(@,
                   [file |-> f, pos |-> 0,
                    handle |-> CHOOSE h \in Handles : kernel'.open[h] # kernel.open[h]])]
        PROVE  DataInv'
    <2> DEFINE open == [kernel.open EXCEPT ![n] = [file |-> f, pos |-> 0]]
               mine == [file |-> f, pos |-> 0, handle |-> n]
               files == Append(guest.files, mine)
    <2>1. /\ open \in Opens /\ FilesAgree(open, n + 1, files)
          /\ open[n] # kernel.open[n] /\ \A h \in Handles : h # n => open[h] = kernel.open[h]
      <3>1. kernel.open \in Opens
        BY DataFacts
      <3> HIDE DEF n
      <3> QED BY <1>2, <3>1, AgreeOpen
    <2>2. kernel' = [kernel EXCEPT !.open = open, !.nextHandle = n + 1]
      BY <1>4 DEF OpenHostFile
    <2>3. kernel'.open = open
      <3>1. kernel \in Kernel
        BY DataFacts
      <3> HIDE DEF open
      <3> QED BY <1>2, <2>1, <2>2, <3>1 DEF Kernel
    <2>4. guest' = [guest EXCEPT !.files = files]
      <3>1. (CHOOSE h \in Handles : kernel'.open[h] # kernel.open[h]) = n
        <4>1. n \in Handles
          BY <1>2, HandleFacts
        <4> HIDE DEF open, n
        <4> QED BY <2>1, <2>3, <4>1, HandleGiven
      <3> QED BY <1>4, <3>1
    <2> HIDE DEF open, files, n
    <2>5. guest' = [memory |-> guest.memory, files |-> files, misread |-> FALSE]
      BY <2>4, DataFacts
    <2>6. files \in Seq(OpenedFile)
      BY <2>1 DEF FilesAgree
    <2> QED BY <1>1, <1>2, <2>1, <2>2, <2>5, <2>6, DataFiles
  <1> QED BY <1>3, <1>4 DEF CallOpen

\* NtClose.
LEMMA DataClose ==
    ASSUME DataInv, CallClose
    PROVE  DataInv'
  <1>1. UNCHANGED <<sys, left, guest>>
    BY DEF CallClose, Call
  <1>2. PICK h \in {EventHandle} \cup { guest.files[i].handle : i \in DOMAIN guest.files } :
            kernel' = CloseHandle(kernel, h)
    BY DEF CallClose
  <1> DEFINE n == kernel.nextHandle
             open == [kernel.open EXCEPT ![h] = Closed]
  <1>3. FilesAgree(kernel.open, n, guest.files)
    BY DEF DataInv
  <1>4. h \in Handles
    <2>1. \A i \in DOMAIN guest.files : guest.files[i].handle \in Handles
      BY <1>3, DataFacts, OpenedElements
    <2> QED BY <1>2, <2>1, HandleFacts
  <1>5. open \in Opens
    BY <1>4, DataFacts, HandleFacts DEF Opens
  <1>6. FilesAgree(open, n, guest.files)
    BY <1>3, <1>4, DataFacts, AgreeClose
  <1>7. kernel' = [kernel EXCEPT !.open = open, !.nextHandle = n]
    BY <1>2, DataFacts DEF CloseHandle, Kernel
  <1>8. guest' = [memory |-> guest.memory, files |-> guest.files, misread |-> FALSE]
    BY <1>1, DataFacts
  <1> HIDE DEF n, open
  <1>9. n \in 0 .. MaxOpens
    BY DataFacts DEF n
  <1> QED BY <1>1, <1>5, <1>6, <1>7, <1>8, <1>9, DataFacts, DataFiles

\* A position set in both, for an opened file i.
LEMMA DataPos ==
    ASSUME DataInv, UNCHANGED <<sys, left>>,
           NEW i \in DOMAIN guest.files, NEW p \in 0 .. FileSize,
           LET h == guest.files[i].handle
           IN  kernel' = IF kernel.open[h] = Closed THEN kernel
                         ELSE [kernel EXCEPT !.open = [kernel.open EXCEPT ![h].pos = p]],
           guest' = [memory |-> guest.memory, files |-> [guest.files EXCEPT ![i].pos = p],
                     misread |-> FALSE]
    PROVE  DataInv'
  <1> DEFINE n == kernel.nextHandle
             h == guest.files[i].handle
             open == IF kernel.open[h] = Closed THEN kernel.open
                     ELSE [kernel.open EXCEPT ![h].pos = p]
             files == [guest.files EXCEPT ![i].pos = p]
  <1>1. FilesAgree(kernel.open, n, guest.files) /\ n \in 0 .. MaxOpens
    BY DataFacts DEF DataInv
  <1>2. open \in Opens /\ FilesAgree(open, n, files)
    <2>1. i \in 1 .. Len(guest.files)
      BY DataFacts
    <2> QED BY <1>1, <2>1, DataFacts, AgreePos
  <1>3. kernel' = [kernel EXCEPT !.open = open, !.nextHandle = n]
    <2>1. kernel = [kernel EXCEPT !.open = kernel.open, !.nextHandle = n]
      BY DataFacts DEF Kernel
    <2>2. \A o : [kernel EXCEPT !.open = o] = [kernel EXCEPT !.open = o, !.nextHandle = n]
      BY DataFacts DEF Kernel
    <2> QED BY <2>1, <2>2
  <1> HIDE DEF n, open, files
  <1>4. files \in Seq(OpenedFile)
    BY <1>2 DEF FilesAgree
  <1> QED BY <1>1, <1>2, <1>3, <1>4, DataFiles DEF files

\* NtSetInformationFile.
LEMMA DataSeek ==
    ASSUME DataInv, CallSeek
    PROVE  DataInv'
  <1>1. UNCHANGED <<sys, left>>
    BY DEF CallSeek, Call
  <1>2. PICK i \in DOMAIN guest.files, p \in 0 .. FileSize :
            /\ kernel' = Seek(kernel, guest.files[i].handle, p)
            /\ guest' = [guest EXCEPT !.files[i].pos = p]
    BY DEF CallSeek
  <1>3. kernel' = LET h == guest.files[i].handle
                  IN  IF kernel.open[h] = Closed THEN kernel
                      ELSE [kernel EXCEPT !.open = [kernel.open EXCEPT ![h].pos = p]]
    BY <1>2 DEF Seek
  <1>4. guest' = [memory |-> guest.memory, files |-> [guest.files EXCEPT ![i].pos = p],
                  misread |-> FALSE]
    <2> DEFINE files == [guest.files EXCEPT ![i].pos = p]
    <2>1. guest' = [guest EXCEPT !.files = files]
      BY <1>2
    <2> HIDE DEF files
    <2>2. guest' = [memory |-> guest.memory, files |-> files, misread |-> FALSE]
      BY <2>1, DataFacts
    <2> QED BY <2>2 DEF files
  <1> QED BY <1>1, <1>3, <1>4, DataPos

\* What the guest knows, with other files.
LEMMA GuestWith ==
    ASSUME NEW A, NEW B, NEW C, NEW g \in [memory : A, files : B, misread : C],
           NEW files \in B, NEW misread \in BOOLEAN
    PROVE  [g EXCEPT !.files = files, !.misread = misread]
              = [memory |-> g.memory, files |-> files, misread |-> misread]
  <1> DEFINE h == [g EXCEPT !.files = files]
  <1>1. h = [memory |-> g.memory, files |-> files, misread |-> g.misread]
    OBVIOUS
  <1>2. h \in [memory : A, files : B, misread : C]
    BY <1>1
  <1> HIDE DEF h
  <1>3. [h EXCEPT !.misread = misread]
            = [memory |-> h.memory, files |-> h.files, misread |-> misread]
    BY <1>2
  <1> QED BY <1>1, <1>3 DEF h

\* What is read is the opened file's next part, so nothing is misread.
LEMMA DataRead ==
    ASSUME DataInv, CallRead
    PROVE  DataInv'
  <1>1. UNCHANGED <<sys, left>>
    BY DEF CallRead, Call
  <1>2. PICK i \in DOMAIN guest.files :
            LET mine == guest.files[i]
                there == kernel.open[mine.handle]
            IN  /\ Reads(kernel, mine.handle)
                /\ kernel' = ReadFile(kernel, mine.handle)
                /\ guest' = [guest EXCEPT !.files[i].pos = @ + 1,
                      !.misread = @ \/ there.file # mine.file \/ there.pos # mine.pos]
    BY DEF CallRead
  <1> DEFINE h == guest.files[i].handle
             there == kernel.open[h]
             p == guest.files[i].pos + 1
             files == [guest.files EXCEPT ![i].pos = p]
  <1>3. i \in 1 .. Len(guest.files) /\ FilesAgree(kernel.open, kernel.nextHandle, guest.files)
    BY DataFacts DEF DataInv
  <1>4. there # Closed /\ there.pos < FileSize
    BY <1>2 DEF Reads
  <1>5. there = [file |-> guest.files[i].file, pos |-> guest.files[i].pos]
    BY <1>3, <1>4 DEF FilesAgree
  <1>6. there.file = guest.files[i].file /\ there.pos = guest.files[i].pos
    BY <1>5
  <1>7. guest.files[i].pos \in Nat
    BY <1>3, OpenedElements
  <1>8. p \in 0 .. FileSize
    BY <1>4, <1>6, <1>7
  <1>9. kernel' = IF kernel.open[h] = Closed THEN kernel
                  ELSE [kernel EXCEPT !.open = [kernel.open EXCEPT ![h].pos = p]]
    <2>1. kernel' = [kernel EXCEPT !.open[h].pos = @ + 1]
      BY <1>2 DEF ReadFile
    <2>2. kernel' = [kernel EXCEPT !.open = [kernel.open EXCEPT ![h].pos = kernel.open[h].pos + 1]]
      BY <2>1
    <2>3. kernel.open[h].pos + 1 = p
      BY <1>6
    <2> HIDE DEF p, h, there
    <2>4. kernel' = [kernel EXCEPT !.open = [kernel.open EXCEPT ![h].pos = p]]
      BY <2>2, <2>3
    <2> QED BY <1>4, <2>4 DEF there
  <1>10. guest' = [memory |-> guest.memory, files |-> files, misread |-> FALSE]
    <2>1. guest' = [guest EXCEPT !.files = files, !.misread = FALSE]
      <3>1. (guest.misread \/ there.file # guest.files[i].file
                \/ there.pos # guest.files[i].pos) = FALSE
        BY <1>6, DataFacts
      <3>2. guest' = [guest EXCEPT !.files = files,
                        !.misread = (guest.misread \/ there.file # guest.files[i].file
                                        \/ there.pos # guest.files[i].pos)]
        BY <1>2
      <3> QED BY <3>1, <3>2
    <2> HIDE DEF files
    <2>2. guest \in [memory : SUBSET Nat, files : Seq(OpenedFile), misread : {FALSE}]
      BY DEF DataInv, Guest
    <2>3. files \in Seq(OpenedFile)
      <3>1. i \in 1 .. Len(guest.files) /\ kernel.open \in Opens /\ kernel.nextHandle \in 0 .. MaxOpens
        BY DataFacts
      <3>2. \E open \in Opens : FilesAgree(open, kernel.nextHandle, [guest.files EXCEPT ![i].pos = p])
        BY <1>3, <1>8, <3>1, AgreePos
      <3> QED BY <3>2 DEF FilesAgree, files
    <2>4. FALSE \in BOOLEAN
      OBVIOUS
    <2> QED BY <2>1, <2>2, <2>3, <2>4, GuestWith
  <1> HIDE DEF p
  <1> QED BY <1>1, <1>8, <1>9, <1>10, DataPos

-----------------------------------------------------------------------------
(* DataInv is kept by the scheduler.                                       *)

\* The head of run_step: promotion, then the main thread's slot.
LEMMA DataSteps ==
    ASSUME DataInv, EmuSteps
    PROVE  DataInv' /\ sys'.threads # << >>
  <1> DEFINE all == sys.threads \o NewSlots(Len(sys.threads), kernel)
             main == IF all # << >> THEN all
                     ELSE << [alive |-> TRUE, ctx |-> StartOf(1), stack |-> MainStack] >>
  <1>1. /\ UNCHANGED <<left, guest>> /\ kernel' = AfterPromotion(kernel)
        /\ sys' = WithMain(Promoted(sys, kernel))
    BY DEF EmuSteps
  <1>2. /\ kernel' \in Kernel /\ kernel'.pending = 0
        /\ kernel'.dpcs = kernel.dpcs /\ kernel'.asked = kernel.asked /\ kernel'.fired = kernel.fired
        /\ kernel'.open = kernel.open /\ kernel'.nextHandle = kernel.nextHandle
    BY <1>1, DataFacts, AfterPromotionDoes
  <1>3. KernelInv(kernel')
    BY <1>2, OtherCallsKeepDpcs DEF DataInv
  <1>4. SlotsHold(all, 0, left) /\ StacksHold(all, kernel'.next, guest.memory)
    BY <1>1, DataFacts, PromotionHolds DEF DataInv
  <1>5. sys \in System
    BY DEF DataInv
  <1>6. all \in Seq(Slot)
    BY <1>4 DEF SlotsHold
  <1>7. Promoted(sys, kernel) = [sys EXCEPT !.threads = all]
    BY DEF Promoted, NewSlots
  <1> HIDE DEF all
  <1>8. Promoted(sys, kernel) \in System /\ Promoted(sys, kernel).threads = all
    BY <1>5, <1>6, <1>7, SetThreads
  <1>9. SlotsHold(main, 0, left) /\ StacksHold(main, kernel'.next, guest.memory) /\ main # << >>
    BY <1>4, MainHolds
  <1>10. sys' \in System /\ sys'.threads = main
    <2>1. main \in Seq(Slot) /\ 1 \in 0 .. MaxThreads
      BY <1>9 DEF SlotsHold
    <2> HIDE DEF main
    <2>2. \A s \in System, m \in Seq(Slot) :
            LET q == [s EXCEPT !.started = TRUE, !.current = 1, !.threads = m]
            IN  q \in System /\ q.threads = m
      BY <2>1 DEF System
    <2>3. \A s \in System : LET q == [s EXCEPT !.started = TRUE]
                            IN  q \in System /\ q.threads = s.threads
      BY DEF System
    <2> QED BY <1>1, <1>8, <2>1, <2>2, <2>3 DEF WithMain, main
  <1> HIDE DEF main
  <1> QED BY <1>1, <1>2, <1>3, <1>9, <1>10 DEF DataInv

\* A thread's run ends: its slot holds the registers it is left with.
LEMMA DataSaved ==
    ASSUME DataInv, UNCHANGED <<kernel, guest>>,
           NEW t \in 1 .. Len(sys.threads), NEW c \in Context,
           left' = [left EXCEPT ![t] = c],
           sys' \in System, sys'.threads = [sys.threads EXCEPT ![t].ctx = c]
    PROVE  DataInv'
  <1>1. kernel.pending \in Nat
    BY DataFacts
  <1>2. SlotsHold(sys.threads, kernel.pending, left) /\ StacksHold(sys.threads, kernel.next, guest.memory)
    BY DEF DataInv
  <1> DEFINE all == [sys.threads EXCEPT ![t].ctx = c]
             l == [left EXCEPT ![t] = c]
  <1>3. SlotsHold(all, kernel.pending, l) /\ StacksHold(all, kernel.next, guest.memory)
    BY <1>1, <1>2, SavedHolds
  <1>4. sys'.threads = all /\ left' = l
    OBVIOUS
  <1> HIDE DEF all, l
  <1> QED BY <1>3, <1>4 DEF DataInv

\* What Saved and Rotated make of a system.
LEMMA SavedDoes ==
    ASSUME DataInv, NEW t \in 1 .. Len(sys.threads), NEW c \in Context
    PROVE  LET q == Saved(sys, t, c)
           IN  /\ q \in System /\ q.threads = [sys.threads EXCEPT ![t].ctx = c]
               /\ q.current = sys.current /\ q.running = sys.running
               /\ q.ports = sys.ports /\ q.calls = sys.calls
               /\ SlotsHold(q.threads, kernel.pending, [left EXCEPT ![t] = c])
               /\ StacksHold(q.threads, kernel.next, guest.memory)
  <1> DEFINE threads == [sys.threads EXCEPT ![t].ctx = c]
  <1>1. /\ SlotsHold(threads, kernel.pending, [left EXCEPT ![t] = c])
        /\ StacksHold(threads, kernel.next, guest.memory)
    <2>1. kernel.pending \in Nat
      BY DataFacts
    <2>2. SlotsHold(sys.threads, kernel.pending, left) /\ StacksHold(sys.threads, kernel.next, guest.memory)
      BY DEF DataInv
    <2> QED BY <2>1, <2>2, SavedHolds
  <1>2. threads \in Seq(Slot)
    BY <1>1 DEF SlotsHold
  <1>3. Saved(sys, t, c) = [sys EXCEPT !.threads = threads]
    BY DEF Saved
  <1>4. sys \in System
    BY DEF DataInv
  <1> HIDE DEF threads
  <1>5. LET q == [sys EXCEPT !.threads = threads]
        IN  /\ q \in System /\ q.threads = threads /\ q.current = sys.current
            /\ q.running = sys.running /\ q.ports = sys.ports /\ q.calls = sys.calls
    BY <1>2, <1>4, SetThreads
  <1> QED BY <1>1, <1>3, <1>5 DEF threads

\* The thread whose run it is has a slot, and its registers are of a thread.
LEMMA TurnFacts ==
    ASSUME DataInv, ControlInv, InThread
    PROVE  /\ sys.current \in 1 .. Len(sys.threads) /\ sys.threads # << >>
           /\ \A at \in Places : Left(at) \in Context
           /\ cpu.at \in Places /\ cpu.of \in 0 .. MaxThreads
  <1>1. sys.current \in Alive(sys) /\ sys.threads # << >> /\ cpu \in Context
    BY DEF ControlInv
  <1>2. sys.current \in 1 .. Len(sys.threads)
    <2>1. SlotsHold(sys.threads, kernel.pending, left) /\ kernel.pending \in Nat
      BY DataFacts DEF DataInv
    <2> QED BY <1>1, <2>1, AliveHaveSlots
  <1>3. /\ \A at \in Places : Left(at) \in Context
        /\ cpu.at \in Places /\ cpu.of \in 0 .. MaxThreads
    BY <1>1 DEF Left, Context
  <1> QED BY <1>1, <1>2, <1>3

\* A run that the thread survives.
LEMMA DataRunEnds ==
    ASSUME DataInv, ControlInv, NEW at \in Places, RunEnds(at)
    PROVE  DataInv'
  <1> DEFINE t == sys.current
             q == Saved(sys, t, Left(at))
  <1>1. /\ InThread /\ UNCHANGED <<kernel, guest>> /\ sys' = Rotated(q)
        /\ left' = [left EXCEPT ![t] = Left(at)]
    BY DEF RunEnds
  <1>2. t \in 1 .. Len(sys.threads) /\ Left(at) \in Context
    BY <1>1, TurnFacts
  <1>3. /\ q \in System /\ q.threads = [sys.threads EXCEPT ![t].ctx = Left(at)]
        /\ SlotsHold(q.threads, kernel.pending, [left EXCEPT ![t] = Left(at)])
    BY <1>2, SavedDoes
  <1>4. sys' \in System /\ sys'.threads = q.threads
    <2>1. kernel.pending \in Nat
      BY DataFacts
    <2> HIDE DEF q
    <2> QED BY <1>1, <1>3, <2>1, RotatedDoes
  <1> QED BY <1>1, <1>2, <1>3, <1>4, DataSaved

\* A run that stops the system.
LEMMA DataFault ==
    ASSUME DataInv, ControlInv, EndsFault
    PROVE  DataInv'
  <1> DEFINE t == sys.current
             c == Left(cpu.at)
             q == Saved(sys, t, c)
  <1>1. /\ InThread /\ UNCHANGED <<kernel, guest>>
        /\ sys' = [q EXCEPT !.running = FALSE] /\ left' = [left EXCEPT ![t] = c]
    BY DEF EndsFault
  <1>2. t \in 1 .. Len(sys.threads) /\ c \in Context
    BY <1>1, TurnFacts
  <1>3. q \in System /\ q.threads = [sys.threads EXCEPT ![t].ctx = c]
    BY <1>2, SavedDoes
  <1>4. sys' \in System /\ sys'.threads = q.threads
    <2> HIDE DEF q
    <2> QED BY <1>1, <1>3 DEF System
  <1> QED BY <1>1, <1>2, <1>3, <1>4, DataSaved

\* The main thread returns: its slot dies, and threads it created get theirs.
LEMMA DataEndsMain ==
    ASSUME DataInv, ControlInv, EndsMain
    PROVE  /\ DataInv'
           /\ sys'.running => sys'.current \in 1 .. Len(sys'.threads)
           /\ sys'.ports = sys.ports
  <1> DEFINE c == Left("app")
             q == Saved(sys, 1, c)
             dead == [q EXCEPT !.threads[1].alive = FALSE]
             slots == [q.threads EXCEPT ![1].alive = FALSE]
             all == slots \o NewSlots(Len(slots), kernel)
             full == [dead EXCEPT !.threads = all]
             l == [left EXCEPT ![1] = c]
             next == AfterPromotion(kernel).next
  <1>1. /\ InThread /\ sys.current = 1 /\ UNCHANGED guest /\ left' = l
        /\ kernel' = AfterPromotion(kernel)
        /\ sys' = Buried(q, kernel)
    BY DEF EndsMain, InTitle
  <1>2. 1 \in 1 .. Len(sys.threads) /\ c \in Context
    <2>1. "app" \in Places
      BY DEF Places
    <2> QED BY <1>1, <2>1, TurnFacts
  <1>3. /\ q \in System /\ q.current = 1 /\ q.ports = sys.ports
        /\ q.threads = [sys.threads EXCEPT ![1].ctx = c]
        /\ SlotsHold(q.threads, kernel.pending, l) /\ StacksHold(q.threads, kernel.next, guest.memory)
    BY <1>1, <1>2, SavedDoes
  <1>4. Len(q.threads) = Len(sys.threads)
    <2>1. kernel.pending \in Nat /\ SlotsHold(sys.threads, kernel.pending, left)
      BY DataFacts DEF DataInv
    <2>2. StacksHold(sys.threads, kernel.next, guest.memory)
      BY DEF DataInv
    <2> HIDE DEF q, c
    <2> QED BY <1>2, <1>3, <2>1, <2>2, SavedHolds
  <1> HIDE DEF q, c, l
  <1>5. SlotsHold(slots, kernel.pending, l) /\ StacksHold(slots, kernel.next, guest.memory)
    <2>1. 1 \in 1 .. Len(q.threads) /\ kernel.pending \in Nat
      BY <1>2, <1>4, DataFacts
    <2> QED BY <1>3, <2>1, DeadHolds
  <1>6. slots # << >>
    <2>1. sys.threads # << >> /\ Len(q.threads) # 0 /\ q.threads \in Seq(Slot)
      BY <1>1, <1>2, <1>3, <1>4, TurnFacts DEF SlotsHold
    <2>2. DOMAIN slots = DOMAIN q.threads /\ 1 \in DOMAIN q.threads
      BY <1>2, <1>4, <2>1, LenProperties
    <2> QED BY <2>2
  <1> HIDE DEF slots
  <1>7. /\ SlotsHold(all, 0, l) /\ StacksHold(all, next, guest.memory) /\ all # << >>
    <2>1. kernel \in Kernel
      BY DataFacts
    <2>2. /\ SlotsHold(all, 0, l) /\ StacksHold(all, next, guest.memory)
          /\ all = << >> <=> slots = << >>
      BY <1>5, <2>1, PromotionHolds
    <2> QED BY <1>6, <2>2
  <1>8. dead = [q EXCEPT !.threads = slots]
    BY DEF slots
  <1>9. slots \in Seq(Slot) /\ all \in Seq(Slot)
    BY <1>5, <1>7 DEF SlotsHold
  <1>10. dead \in System /\ dead.threads = slots /\ dead.ports = sys.ports /\ dead.current = 1
    <2> HIDE DEF dead
    <2> QED BY <1>3, <1>8, <1>9, SetThreads
  <1>11. Promoted(dead, kernel) = full
    <2> HIDE DEF dead
    <2> QED BY <1>10 DEF Promoted, NewSlots
  <1>12. full \in System /\ full.threads = all /\ full.ports = sys.ports /\ full.current = 1
    <2> HIDE DEF dead, all
    <2> QED BY <1>9, <1>10, SetThreads
  <1>13. sys' = IF Alive(full) = {} THEN [full EXCEPT !.running = FALSE] ELSE Rotated(full)
    <2>1. dead = [q EXCEPT !.threads[q.current].alive = FALSE]
      BY <1>3
    <2> HIDE DEF dead, full
    <2> QED BY <1>1, <1>11, <2>1 DEF Buried
  <1> HIDE DEF dead, all, full
  <1>14. /\ sys' \in System /\ sys'.threads = all /\ sys'.ports = sys.ports
         /\ sys'.running => sys'.current \in 1 .. Len(sys'.threads)
    <2>1. CASE Alive(full) = {}
      <3>1. FALSE \in BOOLEAN
        OBVIOUS
      <3> QED BY <1>12, <1>13, <2>1, <3>1, SetRunning
    <2>2. CASE Alive(full) # {}
      <3>1. sys' = Rotated(full)
        BY <1>13, <2>2
      <3>2. sys' \in System /\ sys'.threads = all /\ sys'.ports = sys.ports
        BY <1>7, <1>12, <3>1, RotatedDoes
      <3>3. Alive(full) \subseteq 1 .. Len(all)
        BY <1>7, <1>12, AliveHaveSlots
      <3>4. NextAlive(full, 1) \in Alive(full)
        BY <1>9, <1>12, <2>2, <3>3, NextAliveFinds
      <3>5. NextAlive(full, 1) \in 0 .. MaxThreads
        BY <1>7, <1>12, <3>4, AliveHaveSlots
      <3>6. sys'.current = NextAlive(full, 1)
        BY <1>12, <3>1, <3>5, SetCurrent DEF Rotated
      <3> QED BY <3>2, <3>3, <3>4, <3>6
    <2> QED BY <2>1, <2>2
  <1>15. /\ kernel' \in Kernel /\ kernel'.pending = 0 /\ kernel'.next = next
         /\ kernel'.dpcs = kernel.dpcs /\ kernel'.asked = kernel.asked
         /\ kernel'.fired = kernel.fired
         /\ kernel'.open = kernel.open /\ kernel'.nextHandle = kernel.nextHandle
    BY <1>1, DataFacts, AfterPromotionDoes
  <1>16. KernelInv(kernel')
    BY <1>15, OtherCallsKeepDpcs DEF DataInv
  <1> HIDE DEF next
  <1> QED BY <1>1, <1>7, <1>14, <1>15, <1>16 DEF DataInv

-----------------------------------------------------------------------------
(* Booting, from a system without devices: it is new.                      *)

\* Each boot function leaves a system with its devices and no thread.
LEMMA BootDoes ==
    ASSUME sys = NewSystem, kernel = NewKernel,
           NEW mode \in BootModes \ {"none"}, NEW ok \in BOOLEAN, Boot(mode, ok)
    PROVE  /\ sys' \in System /\ sys'.threads = << >> /\ sys'.ports = TRUE
           /\ ~ok => sys'.running = FALSE
           /\ kernel' = NewKernel
  <1>1. sys \in System /\ sys.threads = << >> /\ sys.running = FALSE
    BY DEF NewSystem, System
  <1>2. WithDevices \in System /\ WithDevices.threads = << >> /\ WithDevices.ports = TRUE
            /\ WithDevices.running = FALSE
    BY <1>1, SetPorts DEF WithDevices
  <1>3. Ready \in System /\ Ready.threads = << >> /\ Ready.ports = TRUE
    BY <1>2, SetRunning DEF Ready
  <1> DEFINE titled == [Ready EXCEPT !.calls = TRUE]
  <1>4. titled \in System /\ titled.threads = << >> /\ titled.ports = TRUE
    BY <1>3, SetCalls
  <1>5. \/ sys' = (IF ok THEN titled ELSE WithDevices)
        \/ sys' = (IF ok THEN Ready ELSE WithDevices)
    BY DEF Boot, BootHle, BootLle, BootLleKernel, BootNboxkrnl, BootModes
  <1>6. kernel' = NewKernel
    BY NewFacts DEF Boot, BootHle, BootLle, BootLleKernel, BootNboxkrnl, BootModes
  <1> HIDE DEF titled
  <1> QED BY <1>2, <1>3, <1>4, <1>5, <1>6

\* What a boot makes of the user interface and of the emulation thread.
BootedIn(run, failed, dialog) ==
    \E ok \in BOOLEAN :
      /\ ~ok => sys'.running = FALSE
      /\ ui' = [ui EXCEPT !.pc = "frame", !.dialog = dialog,
                          !.state = IF ok THEN "running" ELSE failed,
                          !.mode = IF ok THEN run ELSE @]
      /\ IF ok THEN emu' = Started(run) ELSE UNCHANGED emu

\* BootAndStart either ends the program or boots a new system.
LEMMA BootAndStartDoes ==
    ASSUME IInv, NEW mode \in BootModes \ {"none"}, NEW run, NEW failed, NEW dialog,
           BootAndStart(mode, run, failed, dialog)
    PROVE  \/ Ended("aborted")
           \/ /\ emu.pc = "none" /\ ~sys.ports
              /\ sys = NewSystem /\ kernel = NewKernel /\ left = NewLeft /\ guest = NewGuest
              /\ UNCHANGED <<cpu, title, left, guest>>
              /\ sys' \in System /\ sys'.threads = << >> /\ sys'.ports = TRUE
              /\ kernel' = NewKernel
              /\ BootedIn(run, failed, dialog)
  <1>1. CASE Ended("aborted")
    BY <1>1
  <1>2. CASE ~Ended("aborted")
    <2>1. ~sys.ports /\ emu.pc = "none" /\ UNCHANGED <<cpu, title, left, guest>>
      BY <1>2 DEF BootAndStart
    <2>2. sys = NewSystem /\ kernel = NewKernel /\ left = NewLeft /\ guest = NewGuest
      BY <2>1 DEF IInv, ControlInv, FreshInv
    <2>3. PICK ok \in BOOLEAN :
            /\ Boot(mode, ok)
            /\ ui' = [ui EXCEPT !.pc = "frame", !.dialog = dialog,
                                !.state = IF ok THEN "running" ELSE failed,
                                !.mode = IF ok THEN run ELSE @]
            /\ IF ok THEN emu' = Started(run) ELSE UNCHANGED emu
      BY <1>2 DEF BootAndStart
    <2>4. /\ sys' \in System /\ sys'.threads = << >> /\ sys'.ports = TRUE
          /\ ~ok => sys'.running = FALSE
          /\ kernel' = NewKernel
      BY <2>2, <2>3, BootDoes
    <2>5. BootedIn(run, failed, dialog)
      BY <2>3, <2>4 DEF BootedIn
    <2> QED BY <2>1, <2>2, <2>4, <2>5
  <1> QED BY <1>1, <1>2

\* The program's end, and what makes the system new.
LEMMA EndedKeeps ==
    ASSUME IInv, NEW pc \in {"exited", "aborted"}, Ended(pc)
    PROVE  IInv'
  <1>1. /\ ui' = [NewUi EXCEPT !.pc = pc] /\ emu' = NewEmu
        /\ sys' = NewSystem /\ kernel' = NewKernel /\ cpu' = StartOf(1)
        /\ left' = NewLeft /\ guest' = NewGuest /\ title' = title
    BY DEF Ended
  <1>2. /\ ui' = [pc |-> pc, state |-> "menu", mode |-> "none", dialog |-> FALSE]
        /\ ui' \in UiRecord /\ ui'.pc = pc
    BY <1>1 DEF NewUi, UiRecord, UiPlaces, BootModes
  <1>3. emu' \in EmuRecord /\ emu'.pc = "none"
    BY <1>1 DEF NewEmu, EmuRecord, BootModes
  <1>4. sys' \in System /\ sys'.threads = << >> /\ sys'.running = FALSE
    BY <1>1 DEF NewSystem, System
  <1>5. DataInv'
    BY <1>1, <1>4, DataNew
  <1>6. cpu' \in Context /\ title' \in Titles
    BY <1>1, ContextFacts DEF IInv, ControlInv
  <1>7. ControlInv'
    BY <1>1, <1>2, <1>3, <1>4, <1>6 DEF ControlInv, FreshInv, Frame, InThread
  <1> QED BY <1>5, <1>7 DEF IInv

\* Booting in one of the modes, in state `failed' if it fails.
LEMMA BootKeeps ==
    ASSUME IInv, NEW mode \in BootModes \ {"none"}, NEW run \in BootModes,
           NEW failed \in {"menu", "running", "halted"}, NEW dialog, dialog \in BOOLEAN,
           failed = "menu" => ui.pc = "start" \/ (Frame /\ ui.state = "menu"),
           BootAndStart(mode, run, failed, dialog)
    PROVE  IInv'
  <1>1. CASE Ended("aborted")
    BY <1>1, EndedKeeps
  <1>2. CASE ~Ended("aborted")
    <2>0. BootedIn(run, failed, dialog)
      BY <1>2, BootAndStartDoes
    <2>1. PICK ok \in BOOLEAN :
            /\ ~ok => sys'.running = FALSE
            /\ ui' = [ui EXCEPT !.pc = "frame", !.dialog = dialog,
                                !.state = IF ok THEN "running" ELSE failed,
                                !.mode = IF ok THEN run ELSE @]
            /\ IF ok THEN emu' = Started(run) ELSE UNCHANGED emu
      BY <2>0 DEF BootedIn
    <2>2. /\ emu.pc = "none"
          /\ sys = NewSystem /\ kernel = NewKernel /\ left = NewLeft /\ guest = NewGuest
          /\ UNCHANGED <<cpu, title, left, guest>>
          /\ sys' \in System /\ sys'.threads = << >> /\ sys'.ports = TRUE
          /\ kernel' = NewKernel
      BY <1>2, BootAndStartDoes
    <2>3. DataInv'
      BY <2>2, DataNew
    <2>4. ui' \in UiRecord /\ ui'.state = (IF ok THEN "running" ELSE failed) /\ ui'.pc = "frame"
      <3> DEFINE state == IF ok THEN "running" ELSE failed
                 m == IF ok THEN run ELSE ui.mode
      <3>1. ui \in UiRecord
        BY DEF IInv, ControlInv
      <3>2. state \in {"menu", "running", "halted"} /\ m \in BootModes
        BY <3>1 DEF UiRecord
      <3>3. ui' = [ui EXCEPT !.pc = "frame", !.dialog = dialog, !.state = state, !.mode = m]
        BY <2>1
      <3> HIDE DEF state, m
      <3>4. ui' \in UiRecord /\ ui'.state = state /\ ui'.pc = "frame"
        BY <3>1, <3>2, <3>3 DEF UiRecord, UiPlaces
      <3> QED BY <3>4 DEF state
    <2>5. emu' \in EmuRecord /\ emu'.pc \in {"none", "loop"} /\ (~ok => emu'.pc = "none")
      <3>1. Started(run) \in EmuRecord /\ Started(run).pc = "loop"
        BY DEF Started, EmuRecord
      <3>2. emu \in EmuRecord
        BY DEF IInv, ControlInv
      <3> QED BY <2>1, <2>2, <3>1, <3>2
    <2>6. cpu' \in Context /\ title' \in Titles
      BY <2>2 DEF IInv, ControlInv
    <2>7. ControlInv'
      BY <2>1, <2>2, <2>4, <2>5, <2>6 DEF ControlInv, FreshInv, Frame, InThread
    <2> QED BY <2>3, <2>7 DEF IInv
  <1> QED BY <1>1, <1>2

-----------------------------------------------------------------------------
(* The user interface.                                                     *)

\* The modes that are tried are boot modes.
LEMMA ModesFacts ==
    /\ Modes \subseteq BootModes \ {"none"} /\ {"hle", "lle", "llek", "nbox"} \subseteq BootModes
    /\ \A found \in SUBSET (Modes \ {"llek"}) :
        found # {} => FirstTried(found) \in BootModes \ {"none"}
  BY HostAssumption DEF BootModes, FirstTried

\* The mode that the command line asks for.
LEMMA CommandLineKeeps == ASSUME IInv, CommandLine PROVE IInv'
  <1>1. PICK mode \in Modes \ {"hle"} : BootAndStart(mode, mode, "menu", FALSE)
    BY DEF CommandLine
  <1>2. mode \in BootModes \ {"none"} /\ ui.pc = "start"
    BY ModesFacts DEF CommandLine
  <1>3. FALSE \in BOOLEAN
    OBVIOUS
  <1> QED BY <1>1, <1>2, <1>3, BootKeeps

\* auto_boot.
LEMMA AutoBootKeeps == ASSUME IInv, AutoBoot PROVE IInv'
  <1>1. ui.pc = "start" /\ FALSE \in BOOLEAN
    BY DEF AutoBoot
  <1>2. PICK found \in SUBSET (Modes \ {"llek"}) :
            \/ /\ ui' = [ui EXCEPT !.pc = "frame"]
               /\ UNCHANGED <<emu, sys, kernel, cpu, title, left, guest>>
            \/ /\ found # {}
               /\ BootAndStart(FirstTried(found), FirstTried(found), "menu", FALSE)
            \/ Ended("aborted")
    BY DEF AutoBoot
  <1>3. CASE /\ ui' = [ui EXCEPT !.pc = "frame"]
             /\ UNCHANGED <<emu, sys, kernel, cpu, title, left, guest>>
    <2>1. DataInv'
      BY <1>3, DataUnchanged DEF IInv
    <2>2. ui \in UiRecord
      BY DEF IInv, ControlInv
    <2>3. ui' \in UiRecord
      BY <1>3, <2>2 DEF UiRecord, UiPlaces
    <2>4. ControlInv'
      BY <1>1, <1>3, <2>3 DEF IInv, ControlInv, FreshInv, Frame, InThread
    <2> QED BY <2>1, <2>4 DEF IInv
  <1>4. CASE /\ found # {}
             /\ BootAndStart(FirstTried(found), FirstTried(found), "menu", FALSE)
    <2>1. FirstTried(found) \in BootModes \ {"none"}
      BY <1>4, ModesFacts
    <2> QED BY <1>1, <1>4, <2>1, BootKeeps
  <1>5. CASE Ended("aborted")
    BY <1>5, EndedKeeps
  <1> QED BY <1>2, <1>3, <1>4, <1>5

\* The buttons of the menu.
LEMMA MenuBootKeeps == ASSUME IInv, MenuBoot PROVE IInv'
  <1>1. PICK mode \in Modes \ {"nbox"} : BootAndStart(mode, ui.mode, "halted", ui.dialog)
    BY DEF MenuBoot
  <1>2. mode \in BootModes \ {"none"} /\ ui.mode \in BootModes /\ ui.dialog \in BOOLEAN
    BY ModesFacts DEF IInv, ControlInv, UiRecord
  <1> QED BY <1>1, <1>2, BootKeeps

\* A file picked while a system may be running.
LEMMA BootPickedKeeps == ASSUME IInv, BootPicked PROVE IInv'
  <1>1. Frame /\ BootAndStart("hle", ui.mode, ui.state, FALSE)
    BY DEF BootPicked
  <1>2. /\ "hle" \in BootModes \ {"none"} /\ ui.mode \in BootModes /\ FALSE \in BOOLEAN
        /\ ui.state \in {"menu", "running", "halted"}
    BY ModesFacts DEF IInv, ControlInv, UiRecord
  <1> QED BY <1>1, <1>2, BootKeeps

\* The dialog and the check for a halt change the user interface only.
LEMMA UiOnlyKeeps ==
    ASSUME IInv, OpenDialog \/ DialogCancelled \/ NoticeHalt
    PROVE  IInv'
  <1>1. /\ ui \in UiRecord /\ UNCHANGED <<emu, sys, kernel, cpu, title, left, guest>>
        /\ \/ ui' = [ui EXCEPT !.dialog = TRUE] \/ ui' = [ui EXCEPT !.dialog = FALSE]
           \/ ui' = [ui EXCEPT !.state = "halted"]
    BY DEF OpenDialog, DialogCancelled, NoticeHalt, IInv, ControlInv
  <1>2. ui' \in UiRecord /\ ui'.pc = ui.pc /\ (ui'.state = ui.state \/ ui'.state = "halted")
    BY <1>1 DEF UiRecord
  <1>3. DataInv'
    BY <1>1, DataUnchanged DEF IInv
  <1>4. ControlInv'
    BY <1>1, <1>2 DEF IInv, ControlInv, FreshInv, Frame, InThread
  <1> QED BY <1>3, <1>4 DEF IInv

\* Stop, back and closing the window.
LEMMA LeaveKeeps == ASSUME IInv, Leave PROVE IInv'
  <1>1. /\ ui \in UiRecord /\ emu \in EmuRecord /\ UNCHANGED <<sys, kernel, cpu, title, left, guest>>
        /\ emu' = [emu EXCEPT !.stop = TRUE]
    BY DEF Leave, StopRequested, IInv, ControlInv
  <1>2. PICK pc \in Joining : ui' = [ui EXCEPT !.pc = pc]
    BY DEF Leave
  <1>3. ui' \in UiRecord /\ ui'.pc \in Joining
    BY <1>1, <1>2 DEF UiRecord, UiPlaces, Joining
  <1>4. emu' \in EmuRecord /\ emu'.pc = emu.pc /\ emu'.mode = emu.mode
    BY <1>1 DEF EmuRecord
  <1>5. DataInv'
    BY <1>1, DataUnchanged DEF IInv
  <1>6. ControlInv'
    BY <1>1, <1>3, <1>4 DEF IInv, ControlInv, FreshInv, Frame, InThread, Joining
  <1> QED BY <1>5, <1>6 DEF IInv

\* After a join the emulation thread is gone, whatever was asked for.
LEMMA JoinedKeeps == ASSUME IInv, Joined PROVE IInv'
  <1>1. emu.pc \in {"none", "done"} /\ ui \in UiRecord /\ emu \in EmuRecord /\ sys \in System
    BY DEF Joined, CanJoin, IInv, ControlInv, DataInv
  <1>2. Released \in EmuRecord /\ Released.pc = "none"
    BY <1>1 DEF Released, EmuRecord
  <1>3. CASE /\ emu' = Released /\ sys' = [sys EXCEPT !.running = FALSE]
             /\ ui' = [ui EXCEPT !.pc = "frame", !.state = "halted"]
             /\ UNCHANGED <<kernel, cpu, title, left, guest>>
    <2>1. /\ sys' \in System /\ sys'.threads = sys.threads /\ sys'.running = FALSE
          /\ sys'.ports = sys.ports
      <3>1. FALSE \in BOOLEAN
        OBVIOUS
      <3> QED BY <1>1, <1>3, <3>1, SetRunning
    <2>2. DataInv'
      BY <1>3, <2>1, DataSameThreads DEF IInv
    <2>3. ui' \in UiRecord /\ ui'.state = "halted" /\ ui'.pc = "frame"
      BY <1>1, <1>3 DEF UiRecord, UiPlaces
    <2>4. ~sys'.ports => sys' = NewSystem
      <3>1. ASSUME ~sys'.ports PROVE sys' = NewSystem
        <4>1. sys = NewSystem
          BY <2>1, <3>1 DEF IInv, ControlInv, FreshInv
        <4> QED BY <1>3, <4>1 DEF NewSystem
      <3> QED BY <3>1
    <2>5. ControlInv'
      BY <1>2, <1>3, <2>1, <2>3, <2>4 DEF IInv, ControlInv, FreshInv, Frame, InThread
    <2> QED BY <2>2, <2>5 DEF IInv
  <1>4. CASE /\ emu' = Released /\ sys' = NewSystem /\ kernel' = NewKernel
             /\ cpu' = StartOf(1) /\ left' = NewLeft /\ guest' = NewGuest
             /\ ui' = [ui EXCEPT !.pc = "frame", !.state = "menu"] /\ title' = title
    <2>1. sys' \in System /\ sys'.threads = << >> /\ sys'.running = FALSE
      BY <1>4 DEF NewSystem, System
    <2>2. DataInv'
      BY <1>4, <2>1, DataNew
    <2>3. ui' \in UiRecord /\ ui'.pc = "frame"
      BY <1>1, <1>4 DEF UiRecord, UiPlaces
    <2>4. cpu' \in Context /\ title' \in Titles
      BY <1>4, ContextFacts DEF IInv, ControlInv
    <2>5. ControlInv'
      BY <1>2, <1>4, <2>1, <2>3, <2>4 DEF ControlInv, FreshInv, Frame, InThread
    <2> QED BY <2>2, <2>5 DEF IInv
  <1>5. CASE Ended("exited")
    BY <1>5, EndedKeeps
  <1> QED BY <1>3, <1>4, <1>5 DEF Joined

-----------------------------------------------------------------------------
(* The emulation thread and the title it runs.                             *)

\* While the thread is there, the user interface is not quiet and the system
\* has its devices; what is left is about the thread itself.
LEMMA EmuControl ==
    ASSUME IInv, emu.pc # "none", UNCHANGED <<ui, title>>, emu' \in EmuRecord,
           sys'.ports = sys.ports, cpu' \in Context,
           emu'.pc = "dpc" \/ InThread' => sys'.threads # << >>,
           InThread' => sys'.current \in Alive(sys') /\ cpu' = left'[sys'.current]
    PROVE  ControlInv'
  <1>1. sys.ports /\ sys'.ports
    BY DEF IInv, ControlInv, FreshInv
  <1>2. ~(ui.pc = "start" \/ (Frame /\ ui.state = "menu"))
    BY DEF IInv, ControlInv
  <1> QED BY <1>1, <1>2 DEF IInv, ControlInv, FreshInv, Frame

\* The places of the thread.
LEMMA EmuFacts ==
    ASSUME IInv
    PROVE  /\ emu \in EmuRecord /\ sys \in System /\ DataInv /\ ControlInv
           /\ \A pc \in {"none", "loop", "dpc", "run", "done"} :
                LET e == [emu EXCEPT !.pc = pc]
                IN  e \in EmuRecord /\ e.pc = pc /\ e.mode = emu.mode
           /\ LET e == [emu EXCEPT !.pc = "done", !.halted = TRUE]
              IN  e \in EmuRecord /\ e.pc = "done" /\ e.mode = emu.mode
  BY DEF IInv, ControlInv, DataInv, EmuRecord

\* The loop sees the request to stop.
LEMMA StopsKeeps == ASSUME IInv, EmuStops PROVE IInv'
  <1>1. /\ emu.pc = "loop" /\ emu' = [emu EXCEPT !.pc = "done"]
        /\ UNCHANGED <<ui, sys, kernel, cpu, title, left, guest>>
    BY DEF EmuStops
  <1>2. emu' \in EmuRecord /\ emu'.pc = "done"
    BY <1>1, EmuFacts
  <1>3. DataInv'
    BY <1>1, DataUnchanged DEF IInv
  <1>4. ControlInv'
    BY <1>1, <1>2, EmuControl DEF IInv, ControlInv, InThread
  <1> QED BY <1>3, <1>4 DEF IInv

\* A time slice of nboxkrnl's guest.
LEMMA RunsKernelKeeps == ASSUME IInv, EmuRunsKernel PROVE IInv'
  <1>1. /\ emu.mode = "nbox" /\ emu.pc \in {"loop", "run"}
        /\ UNCHANGED <<ui, kernel, cpu, title, left, guest>>
        /\ \/ (emu' = [emu EXCEPT !.pc = "run"] \/ emu' = [emu EXCEPT !.pc = "loop"]) /\ UNCHANGED sys
           \/ /\ emu' = [emu EXCEPT !.pc = "done", !.halted = TRUE]
              /\ sys' = [sys EXCEPT !.running = FALSE]
    BY DEF EmuRunsKernel, Halted
  <1>2. emu' \in EmuRecord /\ emu'.pc # "dpc" /\ emu'.mode = "nbox"
    BY <1>1, EmuFacts
  <1>3. sys' \in System /\ sys'.threads = sys.threads /\ sys'.ports = sys.ports
    <2>1. FALSE \in BOOLEAN /\ sys \in System
      BY EmuFacts
    <2> QED BY <1>1, <2>1, SetRunning
  <1>4. DataInv'
    BY <1>1, <1>3, DataSameThreads DEF IInv
  <1>5. ControlInv'
    BY <1>1, <1>2, <1>3, EmuControl DEF IInv, ControlInv, InThread
  <1> QED BY <1>4, <1>5 DEF IInv

\* run_step begins.
LEMMA StepsKeeps == ASSUME IInv, EmuSteps PROVE IInv'
  <1>1. /\ emu.pc = "loop" /\ emu' = [emu EXCEPT !.pc = "dpc"] /\ UNCHANGED <<ui, cpu, title>>
        /\ sys' = WithMain(Promoted(sys, kernel))
    BY DEF EmuSteps
  <1>2. emu' \in EmuRecord /\ emu'.pc = "dpc"
    BY <1>1, EmuFacts
  <1>3. DataInv' /\ sys'.threads # << >>
    BY DataSteps DEF IInv
  <1>4. sys'.ports = sys.ports
    BY <1>1, EmuFacts DEF WithMain, Promoted, System
  <1>5. ControlInv'
    BY <1>1, <1>2, <1>3, <1>4, EmuControl DEF IInv, ControlInv, InThread
  <1> QED BY <1>3, <1>5 DEF IInv

\* A DPC runs.
LEMMA RunsDpcKeeps == ASSUME IInv, EmuRunsDpc PROVE IInv'
  <1>1. emu.pc = "dpc" /\ UNCHANGED <<ui, emu, sys, title, left, guest>> /\ cpu' = DpcLeft
    BY DEF EmuRunsDpc
  <1>2. sys.threads # << >> /\ emu \in EmuRecord
    BY <1>1 DEF IInv, ControlInv
  <1>3. DataInv'
    BY <1>2, DataRunsDpc DEF IInv
  <1>4. ControlInv'
    BY <1>1, <1>2, ContextFacts, EmuControl DEF InThread
  <1> QED BY <1>3, <1>4 DEF IInv

\* A thread is chosen: its registers are those it was left with.
LEMMA PicksKeeps == ASSUME IInv, EmuPicks PROVE IInv'
  <1> DEFINE t == ToRun(sys)
  <1>1. emu.pc = "dpc" /\ UNCHANGED <<ui, kernel, title, left, guest>>
    BY DEF EmuPicks
  <1>2. sys.threads # << >> /\ emu \in EmuRecord /\ sys \in System /\ cpu \in Context
    BY <1>1 DEF IInv, ControlInv, DataInv
  <1>3. SlotsHold(sys.threads, kernel.pending, left) /\ kernel.pending \in Nat
    BY DataFacts DEF IInv, DataInv
  <1>4. t = 0 \/ t \in Alive(sys)
    <2>1. sys.current \in Nat /\ sys.threads \in Seq(Slot)
      BY <1>2, SystemFields
    <2> QED BY <2>1, NextAliveIs DEF ToRun
  <1>5. CASE t = 0
    <2>1. /\ emu' = [emu EXCEPT !.pc = "done", !.halted = TRUE]
          /\ sys' = [sys EXCEPT !.running = FALSE] /\ cpu' = cpu
      BY <1>5 DEF EmuPicks, Halted
    <2>2. emu' \in EmuRecord /\ emu'.pc = "done"
      BY <2>1, EmuFacts
    <2>3. sys' \in System /\ sys'.threads = sys.threads /\ sys'.ports = sys.ports
      <3>1. FALSE \in BOOLEAN
        OBVIOUS
      <3> QED BY <1>2, <2>1, <3>1, SetRunning
    <2>4. DataInv'
      BY <1>1, <2>3, DataSameThreads DEF IInv
    <2>5. ControlInv'
      BY <1>1, <1>2, <2>1, <2>2, <2>3, EmuControl DEF InThread
    <2> QED BY <2>4, <2>5 DEF IInv
  <1>6. CASE t # 0
    <2>1. t \in Alive(sys)
      BY <1>4, <1>6
    <2>2. /\ emu' = [emu EXCEPT !.pc = "run"] /\ sys' = [sys EXCEPT !.current = t]
          /\ cpu' = sys.threads[t].ctx
      BY <1>6 DEF EmuPicks, Restored
    <2>3. emu' \in EmuRecord /\ emu'.pc = "run"
      BY <2>2, EmuFacts
    <2>4. t \in 0 .. MaxThreads /\ t \in 1 .. Len(sys.threads) /\ t \in Threads
      BY <1>3, <2>1, AliveHaveSlots
    <2> HIDE DEF t
    <2>5. /\ sys' \in System /\ sys'.threads = sys.threads /\ sys'.ports = sys.ports
          /\ sys'.current = t
      BY <1>2, <2>2, <2>4, SetCurrent
    <2>6. DataInv'
      BY <1>1, <2>5, DataSameThreads DEF IInv
    <2>7. Alive(sys') = Alive(sys)
      BY <2>5 DEF Alive
    <2>8. left[t] = sys.threads[t].ctx /\ cpu' \in Context
      <3>1. sys.threads \in Seq(Slot)
        BY <1>3 DEF SlotsHold
      <3>2. sys.threads[t].ctx \in Context
        BY <2>4, <3>1, SlotElements
      <3>3. t <= Len(sys.threads)
        BY <2>4
      <3> QED BY <1>3, <2>2, <2>4, <3>2, <3>3 DEF SlotsHold
    <2>9. ControlInv'
      BY <1>1, <1>2, <2>1, <2>2, <2>3, <2>5, <2>7, <2>8, EmuControl DEF InThread
    <2> QED BY <2>6, <2>9 DEF IInv
  <1> QED BY <1>5, <1>6

\* A kernel call of a title leaves all but the kernel and what the title knows.
LEMMA CallsKeep == ASSUME IInv, Calls PROVE IInv'
  <1>1. InThread /\ UNCHANGED <<ui, emu, sys, cpu, title, left>>
    BY DEF Calls, CallCreateThread, CallQueueDpc, CallAllocate, CallOpen, CallClose, CallSeek,
           CallRead, Call, InTitle
  <1>2. emu.pc = "run" /\ emu \in EmuRecord /\ cpu \in Context /\ DataInv
    BY <1>1, EmuFacts DEF InThread, IInv, ControlInv
  <1>3. /\ sys.threads # << >> /\ sys.current \in Alive(sys) /\ cpu = left[sys.current]
    BY <1>1 DEF IInv, ControlInv
  <1>4. ControlInv'
    <2>1. emu'.pc # "dpc"
      BY <1>1, <1>2
    <2>2. sys'.current \in Alive(sys') /\ cpu' = left'[sys'.current]
      BY <1>1, <1>3
    <2> QED BY <1>1, <1>2, <1>3, <2>1, <2>2, EmuControl
  <1>5. DataInv'
    <2>1. CASE CallCreateThread
      <3>1. /\ CanCreate(kernel) /\ kernel' = CreateThread(kernel)
            /\ UNCHANGED <<sys, left, guest>> /\ KernelInv(kernel)
        BY <1>1, <1>2, <2>1 DEF CallCreateThread, DataInv
      <3> QED BY <1>2, <1>3, <3>1, DataCreateThread
    <2>2. CASE CallQueueDpc
      BY <1>2, <2>2, DataQueueDpc
    <2>3. CASE CallAllocate
      BY <1>2, <2>3, DataAllocate
    <2>4. CASE CallOpen
      BY <1>2, <2>4, DataOpen
    <2>5. CASE CallClose
      BY <1>2, <2>5, DataClose
    <2>6. CASE CallSeek
      BY <1>2, <2>6, DataSeek
    <2>7. CASE CallRead
      BY <1>2, <2>7, DataRead
    <2> QED BY <2>1, <2>2, <2>3, <2>4, <2>5, <2>6, <2>7 DEF Calls
  <1> QED BY <1>4, <1>5 DEF IInv

\* The end of a run: the thread leaves its slot to the next one's turn.
LEMMA RunEndsKeeps == ASSUME IInv, NEW at \in Places, RunEnds(at) PROVE IInv'
  <1>1. /\ InThread /\ cpu' = Left(at) /\ emu' = [emu EXCEPT !.pc = "loop"]
        /\ UNCHANGED <<ui, kernel, title, guest>>
        /\ sys' = Rotated(Saved(sys, sys.current, Left(at)))
    BY DEF RunEnds
  <1>2. DataInv /\ ControlInv /\ emu.pc # "none"
    BY <1>1 DEF IInv, InThread
  <1>3. emu' \in EmuRecord /\ emu'.pc = "loop"
    BY <1>1, EmuFacts
  <1>4. Left(at) \in Context /\ sys.current \in 1 .. Len(sys.threads)
    BY <1>1, <1>2, TurnFacts
  <1>5. sys'.ports = sys.ports
    <2> DEFINE q == Saved(sys, sys.current, Left(at))
    <2>1. /\ q \in System /\ q.ports = sys.ports
          /\ SlotsHold(q.threads, kernel.pending, [left EXCEPT ![sys.current] = Left(at)])
      BY <1>2, <1>4, SavedDoes
    <2>2. kernel.pending \in Nat /\ sys' = Rotated(q)
      BY <1>1, <1>2, DataFacts
    <2> HIDE DEF q
    <2> QED BY <2>1, <2>2, RotatedDoes
  <1>6. DataInv'
    BY <1>2, DataRunEnds
  <1>7. ControlInv'
    BY <1>1, <1>2, <1>3, <1>4, <1>5, EmuControl DEF InThread
  <1> QED BY <1>6, <1>7 DEF IInv

\* The main thread returns.
LEMMA EndsMainKeeps == ASSUME IInv, EndsMain PROVE IInv'
  <1>1. /\ InThread /\ sys.current = 1 /\ UNCHANGED <<ui, title, guest>>
    BY DEF EndsMain, InTitle
  <1>2. DataInv /\ ControlInv /\ emu.pc # "none"
    BY <1>1 DEF IInv, InThread
  <1> DEFINE s == Buried(Saved(sys, 1, Left("app")), kernel)
  <1>3. /\ sys' = s
        /\ \/ s.running /\ cpu' = Restored(s, s.current) /\ emu' = [emu EXCEPT !.pc = "loop"]
           \/ cpu' = Left("app") /\ emu' = [emu EXCEPT !.pc = "done", !.halted = TRUE]
    BY DEF EndsMain, Halted
  <1> HIDE DEF s
  <1>4. emu' \in EmuRecord /\ emu'.pc \in {"loop", "done"}
    BY <1>3, EmuFacts
  <1>5. DataInv' /\ sys'.ports = sys.ports
    BY <1>2, DataEndsMain
  <1>6. cpu' \in Context
    <2>1. Left("app") \in Context
      <3>1. "app" \in Places
        BY DEF Places
      <3> QED BY <1>1, <1>2, <3>1, TurnFacts
    <2>2. CASE s.running /\ cpu' = Restored(s, s.current)
      <3>1. s.current \in 1 .. Len(s.threads)
        BY <1>2, <1>3, <1>4, <2>2, DataEndsMain
      <3>2. s.threads \in Seq(Slot)
        BY <1>3, <1>5 DEF DataInv, SlotsHold
      <3> QED BY <2>2, <3>1, <3>2, SlotElements DEF Restored
    <2>3. \/ s.running /\ cpu' = Restored(s, s.current)
          \/ cpu' = Left("app")
      BY <1>3
    <2> QED BY <2>1, <2>2, <2>3
  <1>7. ControlInv'
    BY <1>1, <1>2, <1>4, <1>5, <1>6, EmuControl DEF InThread
  <1> QED BY <1>5, <1>7 DEF IInv

\* A run that stops the system.
LEMMA FaultKeeps == ASSUME IInv, EndsFault PROVE IInv'
  <1>1. /\ InThread /\ cpu' = Left(cpu.at) /\ UNCHANGED <<ui, kernel, title, guest>>
        /\ emu' = [emu EXCEPT !.pc = "done", !.halted = TRUE]
        /\ sys' = [Saved(sys, sys.current, Left(cpu.at)) EXCEPT !.running = FALSE]
    BY DEF EndsFault, Halted
  <1>2. DataInv /\ ControlInv /\ emu.pc # "none"
    BY <1>1 DEF IInv, InThread
  <1>3. emu' \in EmuRecord /\ emu'.pc = "done"
    BY <1>1, EmuFacts
  <1>4. Left(cpu.at) \in Context /\ sys.current \in 1 .. Len(sys.threads)
    BY <1>1, <1>2, TurnFacts
  <1>5. sys'.ports = sys.ports
    <2> DEFINE q == Saved(sys, sys.current, Left(cpu.at))
    <2>1. q \in System /\ q.ports = sys.ports
      BY <1>2, <1>4, SavedDoes
    <2>2. sys' = [q EXCEPT !.running = FALSE]
      BY <1>1
    <2> HIDE DEF q
    <2> QED BY <2>1, <2>2 DEF System
  <1>6. DataInv'
    BY <1>2, DataFault
  <1>7. ControlInv'
    BY <1>1, <1>2, <1>3, <1>4, <1>5, EmuControl DEF InThread
  <1> QED BY <1>6, <1>7 DEF IInv

-----------------------------------------------------------------------------
(* The theorems.                                                           *)

\* The program as it starts.
LEMMA InitKeeps == Init => IInv
  <1> SUFFICES ASSUME Init PROVE IInv
    OBVIOUS
  <1>1. ui \in UiRecord /\ emu \in EmuRecord /\ emu.pc = "none"
    BY DEF Init, NewUi, NewEmu, UiRecord, UiPlaces, EmuRecord, BootModes
  <1>2. sys \in System /\ sys.threads = << >> /\ sys.running = FALSE
    BY DEF Init, NewSystem, System
  <1>3. guest.memory = {} /\ guest.files = << >>
    BY DEF Init, NewGuest
  <1>4. DataInv
    BY <1>2, <1>3, NewFacts DEF Init, DataInv
  <1>5. ControlInv
    BY <1>1, <1>2, ContextFacts DEF Init, ControlInv, FreshInv, InThread
  <1> QED BY <1>4, <1>5 DEF IInv

\* Every step keeps the invariant.
LEMMA StepKeeps == IInv /\ [Next]_vars => IInv'
  <1> SUFFICES ASSUME IInv, [Next]_vars PROVE IInv'
    OBVIOUS
  <1>1. CASE User
    BY <1>1, CommandLineKeeps, AutoBootKeeps, MenuBootKeeps, BootPickedKeeps, UiOnlyKeeps,
       LeaveKeeps DEF User
  <1>2. CASE Ui
    BY <1>2, UiOnlyKeeps, JoinedKeeps DEF Ui
  <1>3. CASE Calls
    BY <1>3, CallsKeep
  <1>4. CASE Emu
    <2>1. CASE EmuStops \/ EmuRunsKernel \/ EmuSteps \/ EmuRunsDpc \/ EmuPicks
      BY <2>1, StopsKeeps, RunsKernelKeeps, StepsKeeps, RunsDpcKeeps, PicksKeeps
    <2>2. ASSUME EndsSlice \/ EndsWait \/ EndsExit
          PROVE  \E at \in Places : RunEnds(at)
      <3>1. {"app", "wait", "lost"} = Places
        BY DEF Places
      <3>2. CASE EndsSlice
        <4>1. InThread /\ RunEnds(cpu.at)
          BY <3>2 DEF EndsSlice, RunEnds
        <4> QED BY <4>1, TurnFacts DEF IInv
      <3>3. CASE EndsWait
        BY <3>1, <3>3 DEF EndsWait
      <3>4. CASE EndsExit
        BY <3>1, <3>4 DEF EndsExit
      <3> QED BY <2>2, <3>2, <3>3, <3>4
    <2>3. CASE EndsSlice \/ EndsWait \/ EndsExit
      BY <2>2, <2>3, RunEndsKeeps
    <2>4. CASE EndsMain \/ EndsFault
      BY <2>4, EndsMainKeeps, FaultKeeps
    <2> QED BY <1>4, <2>1, <2>3, <2>4 DEF Emu
  <1>5. CASE Over \/ UNCHANGED vars
    <2>1. UNCHANGED <<ui, emu, sys, kernel, cpu, title, left, guest>>
      BY <1>5 DEF Over, vars
    <2>2. DataInv'
      BY <2>1, DataUnchanged DEF IInv
    <2>3. ControlInv'
      BY <2>1 DEF IInv, ControlInv, FreshInv, Frame, InThread
    <2> QED BY <2>2, <2>3 DEF IInv
  <1> QED BY <1>1, <1>2, <1>3, <1>4, <1>5 DEF Next

\* The invariant holds for ever.
LEMMA Invariant == Spec => []IInv
  BY InitKeeps, StepKeeps, PTL DEF Spec

\* The program, the system and what the title knows keep their shape.
THEOREM TypeCorrect == Spec => []TypeOK
  <1>1. IInv => TypeOK
    <2> SUFFICES ASSUME IInv PROVE TypeOK
      OBVIOUS
    <2>1. /\ ui \in UiRecord /\ emu \in EmuRecord /\ cpu \in Context /\ title \in Titles
          /\ sys \in System /\ kernel \in Kernel
      BY DEF IInv, ControlInv, DataInv, KernelInv
    <2>2. left \in [Threads -> Context] /\ Len(sys.threads) <= MaxThreads
      <3>1. kernel.pending \in Nat /\ Len(sys.threads) \in Nat
        BY DataFacts DEF IInv
      <3> QED BY <3>1 DEF IInv, DataInv, SlotsHold
    <2>3. \A i \in DOMAIN guest.files : guest.files[i].handle \in Handles
      <3>1. FilesAgree(kernel.open, kernel.nextHandle, guest.files)
        BY DEF IInv, DataInv
      <3>2. DOMAIN guest.files = 1 .. Len(guest.files)
        BY DataFacts DEF IInv
      <3> QED BY <3>1, <3>2, OpenedElements
    <2> QED BY <2>1, <2>2, <2>3 DEF TypeOK, UiRecord, EmuRecord
  <1> QED BY <1>1, Invariant, PTL

\* While the menu is shown, nothing is left that runs the system it boots.
THEOREM MenuQuiet == Spec => []MenuIsQuiet
  <1>1. IInv => MenuIsQuiet
    BY DEF IInv, ControlInv, MenuIsQuiet
  <1> QED BY <1>1, Invariant, PTL

\* Every DPC runs once, in the order in which they were queued.
THEOREM DpcsRunOnce == Spec => []DpcsOnce
  <1>1. IInv => DpcsOnce
    BY DEF IInv, DataInv, KernelInv, Counted, DpcsOnce
  <1> QED BY <1>1, Invariant, PTL

\* A thread runs on with its own registers, on a stack of its own.
THEOREM ThreadsKeptApart == Spec => []ThreadsApart
  <1>1. IInv => ThreadsApart
    <2> SUFFICES ASSUME IInv PROVE ThreadsApart
      OBVIOUS
    <2>1. emu.pc = "run" /\ emu.mode # "nbox" => cpu = left[sys.current]
      BY DEF IInv, ControlInv, InThread
    <2>2. StacksHold(sys.threads, kernel.next, guest.memory) /\ sys.threads \in Seq(Slot)
      BY DataFacts DEF IInv, DataInv
    <2>3. /\ DOMAIN sys.threads = 1 .. Len(sys.threads) /\ Len(sys.threads) \in Nat
          /\ kernel.next \in 0 .. HeapUnits /\ guest.memory \subseteq 0 .. kernel.next - 1
      BY <2>2, DataFacts, LenProperties DEF IInv, StacksHold
    <2>4. ASSUME NEW t \in DOMAIN sys.threads
          PROVE  (t = 1 /\ sys.threads[t].stack = MainStack) \/ t \in 2 .. Len(sys.threads)
      <3>1. sys.threads # << >>
        BY <2>3
      <3> QED BY <2>2, <2>3, <3>1 DEF StacksHold
    <2>5. MainStack \notin guest.memory
      BY <2>3 DEF MainStack
    <2>6. ASSUME NEW t \in 2 .. Len(sys.threads), sys.threads[t].stack # FallbackStack
          PROVE  sys.threads[t].stack # MainStack /\ sys.threads[t].stack \notin guest.memory
      <3>1. t \in 1 .. Len(sys.threads)
        BY <2>3
      <3>2. sys.threads[t].stack \in 0 .. HeapUnits + 1
        BY <2>2, <3>1, SlotElements
      <3>3. sys.threads[t].stack < kernel.next /\ sys.threads[t].stack \notin guest.memory
        BY <2>2, <2>6 DEF StacksHold
      <3> QED BY <2>3, <3>2, <3>3 DEF MainStack
    <2>7. MainStack # FallbackStack
      BY DEF MainStack, FallbackStack
    <2>8. ASSUME NEW t \in DOMAIN sys.threads, NEW u \in DOMAIN sys.threads,
                 sys.threads[t].stack # FallbackStack
          PROVE  /\ t # u => sys.threads[t].stack # sys.threads[u].stack
                 /\ sys.threads[t].stack \notin guest.memory
      <3>1. sys.threads[t].stack \notin guest.memory
        BY <2>4, <2>5, <2>6, <2>8
      <3>2. ASSUME t # u PROVE sys.threads[t].stack # sys.threads[u].stack
        <4>1. CASE t \in 2 .. Len(sys.threads) /\ u \in 2 .. Len(sys.threads)
          BY <2>2, <2>8, <3>2, <4>1 DEF StacksHold
        <4>2. CASE t = 1 /\ u \in 2 .. Len(sys.threads)
          <5>1. sys.threads[t].stack = MainStack
            BY <2>4, <4>2
          <5> QED BY <2>6, <2>8, <4>2, <5>1
        <4>3. CASE t \in 2 .. Len(sys.threads) /\ u = 1
          <5>1. sys.threads[u].stack = MainStack
            BY <2>4, <4>3
          <5> QED BY <2>6, <2>8, <4>3, <5>1
        <4> QED BY <2>4, <3>2, <4>1, <4>2, <4>3
      <3> QED BY <3>1, <3>2
    <2> QED BY <2>1, <2>8 DEF ThreadsApart
  <1> QED BY <1>1, Invariant, PTL

\* No read brings what is not of the opened file.
THEOREM FilesReadRight == Spec => []FileReads
  <1>1. IInv => FileReads
    BY DEF IInv, DataInv, Guest, FileReads
  <1> QED BY <1>1, Invariant, PTL
=============================================================================
