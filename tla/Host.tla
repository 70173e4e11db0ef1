-------------------------------- MODULE Host --------------------------------
(***************************************************************************)
(* The host program: the user interface of the main thread (main.cpp), the *)
(* emulation thread it starts and stops (EmuThread), and the system that   *)
(* the boot functions set up and the emulation thread runs (HleSched).     *)
(*                                                                         *)
(* Every button, dialog result and check of a frame is one step; a frame   *)
(* that joins the emulation thread waits for it.  The emulation thread's   *)
(* steps are the ones of run(): the tests at the head of its loop, each    *)
(* DPC, the choice of a thread, each kernel call and the end of a run.     *)
(***************************************************************************)
EXTENDS HleSched, FiniteSets

CONSTANTS
    Titles,  \* titles: each the set of its "threads", "memory", "dpcs", "files"
    Modes    \* the boot methods whose files are there

ASSUME HostAssumption == Modes \subseteq BootModes \ {"none"}

VARIABLES
    ui,      \* the main thread and AppContext
    emu,     \* EmuThread: its place, its flags and its boot mode
    sys,     \* XboxSystem
    kernel,  \* its hle_heap
    cpu,     \* the context in the executor
    title,
    left,    \* thread -> its context when its last run ended
    guest    \* what the title knows: its memory, and the files it opened

vars == <<ui, emu, sys, kernel, cpu, title, left, guest>>

Joining == {"stop", "back", "quit"}
UiPlaces == {"start", "frame", "exited", "aborted"} \cup Joining

\* What a title knows: blocks it was given, its files in the order of their
\* opening, and whether a read ever brought something else.
NewGuest == [memory |-> {}, files |-> << >>, misread |-> FALSE]
NewLeft == [t \in Threads |-> StartOf(t)]

NewUi == [pc |-> "start", state |-> "menu", mode |-> "none", dialog |-> FALSE]
NewEmu == [pc |-> "none", stop |-> FALSE, halted |-> FALSE, mode |-> "none"]

Init ==
    /\ ui = NewUi /\ emu = NewEmu
    /\ sys = NewSystem /\ kernel = NewKernel
    /\ cpu = StartOf(1)
    /\ title \in Titles
    /\ left = NewLeft /\ guest = NewGuest

\* The program ends: nothing of it is left.
Ended(pc) ==
    /\ ui' = [NewUi EXCEPT !.pc = pc] /\ emu' = NewEmu
    /\ sys' = NewSystem /\ kernel' = NewKernel /\ cpu' = StartOf(1)
    /\ left' = NewLeft /\ guest' = NewGuest
    /\ UNCHANGED title

Frame == ui.pc = "frame"

-----------------------------------------------------------------------------
(* Booting and starting.                                                   *)

\* The boot functions begin with xbox_setup, which registers the ports of
\* all devices: a second time for the same executor there is no room for
\* them, and the assertion in register_io ends the program.  What then fails
\* leaves the devices in place.
WithDevices == [sys EXCEPT !.ports = TRUE]
Ready == [WithDevices EXCEPT !.running = TRUE]

\* The XBE can be unreadable or malformed.  Then the heap, the drives and the
\* handler of kernel calls are set up.
BootHle(ok) ==
    IF ok THEN sys' = [Ready EXCEPT !.calls = TRUE] /\ kernel' = ResetKernel(kernel)
          ELSE sys' = WithDevices /\ UNCHANGED kernel

\* The BIOS can be unreadable, its real-mode prologue unknown, its second
\* loader not found; no kernel call is intercepted.
BootLle(ok) == sys' = (IF ok THEN Ready ELSE WithDevices) /\ UNCHANGED kernel

\* As HLE, with the thunks that the kernel image exports bound to it.
BootLleKernel(ok) == BootHle(ok)

\* The worker of the I/O system runs once the paths are there, also if the
\* kernel image then cannot be loaded.
BootNboxkrnl(ok) == sys' = (IF ok THEN Ready ELSE WithDevices) /\ UNCHANGED kernel

Boot(mode, ok) ==
    CASE mode = "hle"  -> BootHle(ok)
      [] mode = "lle"  -> BootLle(ok)
      [] mode = "llek" -> BootLleKernel(ok)
      [] mode = "nbox" -> BootNboxkrnl(ok)

StartedStopped(mode) == [emu EXCEPT !.pc = "loop", !.halted = FALSE, !.mode = mode]

\* start_emu, EmuThread::start: the flags are cleared before the thread runs.
Started(mode) == [pc |-> "loop", stop |-> FALSE, halted |-> FALSE, mode |-> mode]

\* A boot in `mode', on to state `failed' if it fails; emulation starts in
\* `run', the mode AppContext then holds.  Assigning a thread to one that was
\* not joined is std::terminate, and ends the program as the assertion does.
BootAndStart(mode, run, failed, dialog) ==
    \/ (sys.ports \/ emu.pc # "none") /\ Ended("aborted")
    \/ /\ ~sys.ports /\ emu.pc = "none"
       /\ \E ok \in BOOLEAN :
            /\ Boot(mode, ok)
            /\ ui' = [ui EXCEPT !.pc = "frame", !.dialog = dialog,
                                !.state = IF ok THEN "running" ELSE failed,
                                !.mode = IF ok THEN run ELSE @]
            /\ IF ok THEN emu' = Started(run) ELSE UNCHANGED emu
       /\ UNCHANGED <<cpu, title, left, guest>>

\* The command line asks for one mode.
CommandLine ==
    /\ ui.pc = "start"
    /\ \E mode \in Modes \ {"hle"} : BootAndStart(mode, mode, "menu", FALSE)

\* auto_boot: nboxkrnl, then the BIOS, then HLE, whichever has its files (an
\* XBE serves both nboxkrnl and HLE).  A second attempt is one more xbox_setup.
FirstTried(found) == CASE "nbox" \in found -> "nbox"
                       [] "nbox" \notin found /\ "lle" \in found -> "lle"
                       [] OTHER -> "hle"

AutoBoot ==
    /\ ui.pc = "start"
    /\ \E found \in SUBSET (Modes \ {"llek"}) :
         LET first == FirstTried(found)
         IN  /\ "nbox" \in found => "hle" \in found
             /\ \/ /\ found = {}
                   /\ ui' = [ui EXCEPT !.pc = "frame"]
                   /\ UNCHANGED <<emu, sys, kernel, cpu, title, left, guest>>
                \/ /\ found # {}
                   /\ BootAndStart(first, first, "menu", FALSE)
                   /\ ui'.state = "running" \/ found = {first}
                \/ found \ {first} # {} /\ Ended("aborted")

\* The buttons of draw_menu; they do not set the boot mode.
MenuBoot ==
    /\ Frame /\ ui.state = "menu"
    /\ \E mode \in Modes \ {"nbox"} : BootAndStart(mode, ui.mode, "halted", ui.dialog)

-----------------------------------------------------------------------------
(* The file dialog, and the checks of a frame.                             *)

\* Select XBE, Select XISO: the dialog stays open while frames go on.
OpenDialog ==
    /\ Frame /\ ui.state = "menu" /\ ~ui.dialog
    /\ ui' = [ui EXCEPT !.dialog = TRUE]
    /\ UNCHANGED <<emu, sys, kernel, cpu, title, left, guest>>

\* file_dialog_callback, and the frame that finds the file it picked: it is
\* booted whatever runs, and a failure leaves the state.
DialogCancelled ==
    /\ Frame /\ ui.dialog
    /\ ui' = [ui EXCEPT !.dialog = FALSE]
    /\ UNCHANGED <<emu, sys, kernel, cpu, title, left, guest>>

BootPicked ==
    /\ Frame /\ ui.dialog
    /\ BootAndStart("hle", ui.mode, ui.state, FALSE)

NoticeHalt ==
    /\ Frame /\ ui.state = "running" /\ emu.halted
    /\ ui' = [ui EXCEPT !.state = "halted"]
    /\ UNCHANGED <<emu, sys, kernel, cpu, title, left, guest>>

-----------------------------------------------------------------------------
(* Stopping.                                                               *)

\* EmuThread::stop, up to the join.
StopRequested == [emu EXCEPT !.stop = TRUE]

\* The buttons of draw_running, and closing the window.
Leave ==
    /\ Frame
    /\ \E pc \in Joining : /\ pc # "quit" => ui.state # "menu"
                           /\ ui' = [ui EXCEPT !.pc = pc]
    /\ emu' = StopRequested
    /\ UNCHANGED <<sys, kernel, cpu, title, left, guest>>

CanJoinRunning == TRUE

\* The join returns when the thread has ended, or was never started.
CanJoin == emu.pc \in {"none", "done"}

Released == [emu EXCEPT !.pc = IF @ = "done" THEN "none" ELSE @]

Joined ==
    /\ CanJoin
    /\ \/ /\ ui.pc = "stop"
          /\ emu' = Released
          /\ sys' = [sys EXCEPT !.running = FALSE]
          /\ ui' = [ui EXCEPT !.pc = "frame", !.state = "halted"]
          /\ UNCHANGED <<kernel, cpu, title, left, guest>>
       \/ /\ ui.pc = "back"
          /\ emu' = Released
          /\ sys' = NewSystem /\ kernel' = NewKernel
          /\ cpu' = StartOf(1) /\ left' = NewLeft /\ guest' = NewGuest
          /\ ui' = [ui EXCEPT !.pc = "frame", !.state = "menu"]
          /\ UNCHANGED title
       \/ ui.pc = "quit" /\ Ended("exited")

-----------------------------------------------------------------------------
(* The emulation thread: EmuThread::run.                                   *)

EmuStops ==
    /\ emu.pc = "loop" /\ emu.stop
    /\ emu' = [emu EXCEPT !.pc = "done"]
    /\ UNCHANGED <<ui, sys, kernel, cpu, title, left, guest>>

Halted == emu' = [emu EXCEPT !.pc = "done", !.halted = TRUE]

\* nboxkrnl's guest runs for a time slice; only address 0xFFFFFFFF ends it.
EmuRunsKernel ==
    /\ emu.mode = "nbox"
    /\ \/ /\ emu.pc = "loop" /\ ~emu.stop /\ sys.running
          /\ emu' = [emu EXCEPT !.pc = "run"]
          /\ UNCHANGED sys
       \/ /\ emu.pc = "run"
          /\ \/ emu' = [emu EXCEPT !.pc = "loop"] /\ UNCHANGED sys
             \/ Halted /\ sys' = [sys EXCEPT !.running = FALSE]
    /\ UNCHANGED <<ui, kernel, cpu, title, left, guest>>

\* run_step: new threads get their slots, the first one is made.
EmuSteps ==
    /\ emu.pc = "loop" /\ emu.mode # "nbox" /\ ~emu.stop /\ sys.running
    /\ sys' = WithMain(Promoted(sys, kernel))
    /\ kernel' = AfterPromotion(kernel)
    /\ emu' = [emu EXCEPT !.pc = "dpc"]
    /\ UNCHANGED <<ui, cpu, title, left, guest>>

\* A DPC runs on the registers and the stack of whoever ran last, and may
\* itself arm a timer or create a thread.
CanCreate(k) == Len(sys.threads) + k.pending < MaxThreads
EmuRunsDpc ==
    /\ emu.pc = "dpc" /\ kernel.dpcs # << >>
    /\ cpu' = DpcLeft
    /\ LET k == TakeDpc(kernel)
       IN  \/ kernel' = k
           \/ CanQueueDpc(k) /\ kernel' = QueueDpc(k)
           \/ CanCreate(k) /\ kernel' = CreateThread(k)
    /\ UNCHANGED <<ui, emu, sys, title, left, guest>>

EmuPicks ==
    /\ emu.pc = "dpc" /\ kernel.dpcs = << >>
    /\ LET t == ToRun(sys)
       IN  IF t = 0
           THEN Halted /\ sys' = [sys EXCEPT !.running = FALSE] /\ UNCHANGED cpu
           ELSE /\ sys' = [sys EXCEPT !.current = t]
                /\ cpu' = Restored(sys, t)
                /\ emu' = [emu EXCEPT !.pc = "run"]
    /\ UNCHANGED <<ui, kernel, title, left, guest>>

-----------------------------------------------------------------------------
(* The run of a thread: its kernel calls, and how it ends.                 *)

InThread == emu.pc = "run" /\ emu.mode # "nbox"
InTitle == InThread /\ sys.calls

Call(wanted) ==
    /\ InTitle /\ cpu.at = "app" /\ wanted \in title
    /\ UNCHANGED <<ui, emu, sys, cpu, title, left>>

CallCreateThread ==
    /\ Call("threads") /\ CanCreate(kernel)
    /\ kernel' = CreateThread(kernel)
    /\ UNCHANGED guest

CallQueueDpc ==
    /\ Call("dpcs") /\ CanQueueDpc(kernel)
    /\ kernel' = QueueDpc(kernel)
    /\ UNCHANGED guest

CallAllocate ==
    /\ Call("memory")
    /\ kernel' = Allocated(kernel)
    /\ guest' = IF HasRoom(kernel) THEN [guest EXCEPT !.memory = @ \cup {kernel.next}] ELSE guest

CallOpen ==
    /\ Call("files") /\ CanOpen(kernel)
    /\ \/ \E f \in Files :
            /\ kernel' = OpenHostFile(kernel, f)
            /\ guest' = [guest EXCEPT !.files = Append(@,
                 [file |-> f, pos |-> 0,
                  handle |-> CHOOSE h \in Handles : kernel'.open[h] # kernel.open[h]])]
       \/ kernel' = FakeHandle(kernel) /\ UNCHANGED guest

\* The guest closes a file, or an event.
CallClose ==
    /\ Call("files") /\ UNCHANGED guest
    /\ \E h \in {EventHandle} \cup { guest.files[i].handle : i \in DOMAIN guest.files } :
         kernel' = CloseHandle(kernel, h)

CallSeek ==
    /\ Call("files")
    /\ \E i \in DOMAIN guest.files, p \in 0 .. FileSize :
         /\ kernel' = Seek(kernel, guest.files[i].handle, p)
         /\ guest' = [guest EXCEPT !.files[i].pos = p]

\* A read through the handle of an opening should bring the next bytes of
\* that file, or nothing.
CallRead ==
    /\ Call("files")
    /\ \E i \in DOMAIN guest.files :
         LET mine == guest.files[i]
             there == kernel.open[mine.handle]
         IN  /\ Reads(kernel, mine.handle)
             /\ kernel' = ReadFile(kernel, mine.handle)
             /\ guest' = [guest EXCEPT !.files[i].pos = @ + 1,
                                       !.misread = @ \/ there.file # mine.file \/ there.pos # mine.pos]

\* The thread's registers when the run ends at `at', saved in its slot.
Left(at) == [cpu EXCEPT !.at = at]

RunEnds(at) ==
    /\ InThread
    /\ cpu' = Left(at)
    /\ sys' = Rotated(Saved(sys, sys.current, Left(at)))
    /\ left' = [left EXCEPT ![sys.current] = Left(at)]
    /\ emu' = [emu EXCEPT !.pc = "loop"]
    /\ UNCHANGED <<ui, kernel, title, guest>>

\* The budget is used up, or run() takes the thread for a spin without stores.
EndsSlice == RunEnds(cpu.at) /\ cpu.at # "wait"

\* Waits, delays and yields; a thread in a stub goes through it first.
EndsWait ==
    /\ InTitle /\ "files" \notin title
    /\ \/ RunEnds("wait") /\ cpu.at = "app"
       \/ RunEnds("app") /\ cpu.at \in {"app", "wait"}

\* PsTerminateSystemThread and HalReturnToFirmware, also by returning from
\* the start routine of a created thread.
EndsExit == InTitle /\ "threads" \in title /\ RunEnds("lost") /\ cpu.at = "app"

\* The main thread returns to the sentinel.
EndsMain ==
    /\ InTitle /\ cpu.at = "app" /\ sys.current = 1
    /\ LET s == Buried(Saved(sys, 1, Left("app")), kernel)
       IN  /\ sys' = s
           /\ kernel' = AfterPromotion(kernel)
           /\ IF s.running
              THEN cpu' = Restored(s, s.current) /\ emu' = [emu EXCEPT !.pc = "loop"]
              ELSE cpu' = Left("app") /\ Halted
    /\ left' = [left EXCEPT ![1] = Left("app")]
    /\ UNCHANGED <<ui, title, guest>>

\* An invalid opcode, a division by zero, a jump outside RAM, or a kernel call
\* that is not implemented: the system stops.
EndsFault ==
    /\ InThread /\ cpu.at # "wait"
    /\ cpu' = Left(cpu.at)
    /\ sys' = [Saved(sys, sys.current, cpu') EXCEPT !.running = FALSE]
    /\ left' = [left EXCEPT ![sys.current] = cpu']
    /\ Halted
    /\ UNCHANGED <<ui, kernel, title, guest>>

-----------------------------------------------------------------------------
User == CommandLine \/ AutoBoot \/ MenuBoot \/ OpenDialog \/ DialogCancelled \/ BootPicked \/ Leave
Ui == NoticeHalt \/ Joined
Calls == CallCreateThread \/ CallQueueDpc \/ CallAllocate \/ CallOpen \/ CallClose \/ CallSeek \/ CallRead
Emu == \/ EmuStops \/ EmuRunsKernel \/ EmuSteps \/ EmuRunsDpc \/ EmuPicks
       \/ EndsSlice \/ EndsWait \/ EndsExit \/ EndsMain \/ EndsFault

\* A program that has ended stays so.
Over == ui.pc \in {"exited", "aborted"} /\ UNCHANGED vars

Next == User \/ Ui \/ Calls \/ Emu \/ Over

\* Frames follow each other, and the emulation thread is scheduled; a run
\* ends after its budget at the latest.
Fairness == WF_vars(NoticeHalt) /\ WF_vars(Joined) /\ WF_vars(Emu)

Spec == Init /\ [][Next]_vars /\ Fairness

-----------------------------------------------------------------------------
(* Properties.                                                             *)

\* The program, the system and the title's state keep their shape through
\* boots, stops and everything a title calls.
TypeOK ==
    /\ ui \in [pc : UiPlaces, state : {"menu", "running", "halted"}, mode : BootModes,
               dialog : BOOLEAN]
    /\ emu \in [pc : {"none", "loop", "dpc", "run", "done"}, stop : BOOLEAN,
                halted : BOOLEAN, mode : BootModes]
    /\ sys \in System /\ Len(sys.threads) <= MaxThreads
    /\ kernel \in Kernel /\ cpu \in Context /\ title \in Titles
    /\ left \in [Threads -> Context]
    /\ \A i \in DOMAIN guest.files : guest.files[i].handle \in Handles

\* While the menu is shown no emulation thread is left that could still run
\* the system the menu's buttons boot over (draw_running, EmuThread::stop).
MenuIsQuiet == Frame /\ ui.state = "menu" => emu.pc = "none" /\ ~sys.running

\* A title that the user interface shows as running gets to run again, or is
\* shown as halted; and the user is never kept waiting for a stop for ever.
UiLive ==
    /\ (Frame /\ ui.state = "running") ~> (emu.pc = "run" \/ ~Frame \/ ui.state # "running")
    /\ (ui.pc \in Joining) ~> (ui.pc \notin Joining)

\* Every alive thread gets its turn again and again, whatever the others and
\* the DPCs do, until the user stops or the system does (run_step).
Running(t) == emu.pc = "run" /\ sys.current = t
Scheduled ==
    \A t \in Threads :
        (t \in Alive(sys) /\ sys.running /\ emu.mode # "nbox")
            ~> (Running(t) \/ t \notin Alive(sys) \/ ~sys.running \/ ~Frame)

\* Every DPC runs once, in the order of queueing, also those that DPCs queue
\* and those that were waiting when the loop was left (pending_dpcs).
DpcsOnce == kernel.dpcs = [i \in 1 .. kernel.asked - kernel.fired |-> kernel.fired + i]

\* A thread goes on with the registers it was left with, whatever ran on the
\* processor since; and its stack is no other thread's and no block that the
\* title was given, unless the heap was exhausted.
ThreadsApart ==
    /\ emu.pc = "run" /\ emu.mode # "nbox" => cpu = left[sys.current]
    /\ \A t, u \in DOMAIN sys.threads :
         LET stack == sys.threads[t].stack
         IN  stack # FallbackStack =>
                /\ t # u => stack # sys.threads[u].stack
                /\ stack \notin guest.memory

\* A read brings the next bytes of the file that was opened as the handle it
\* is given, or nothing: never those of another file, after whatever closes.
FileReads == ~guest.misread
=============================================================================
