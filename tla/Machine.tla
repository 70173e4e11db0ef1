------------------------------- MODULE Machine ------------------------------
(***************************************************************************)
(* The chipset of the Xbox (setup.hpp): the devices, the clock callback    *)
(* that drives them all, their wiring to the interrupt controllers, and a  *)
(* guest that programs them and serves their interrupts.                   *)
(*                                                                         *)
(* The guest drives one group of devices (`driver'); the others stay as    *)
(* they are at power-on, which the clock leaves alone.  The groups do not  *)
(* share state but the controllers.  Left out of the clock: KeTickCount    *)
(* and the ACPI timer, which only count.                                   *)
(***************************************************************************)
EXTENDS Pic, Pit, Rtc, Smbus, Ide, Flash, Usb, Nv2a, Pfifo

CONSTANTS
    Drivers,      \* the groups of devices a guest may drive
    PitModes,     \* modes a guest programs; 3 is 2 but for the output pin
    SectorCounts, \* sector counts a guest asks for; 0 stands for one
    Commands,     \* bytes a guest writes to the flash
    GuestPuts,    \* dword positions a guest writes to PUT
    Starts,       \* where a channel's context may start
    AtapiOps      \* packet operations

\* What a guest that knows the devices may ask of them.
ASSUME GuestAssumption ==
    /\ PitModes \subseteq 0 .. 3
    /\ SectorCounts \subseteq 0 .. MaxCount
    /\ Commands \subseteq SUBSET Bits
    /\ GuestPuts \cup Starts \subseteq 0 .. RamSize
    /\ AtapiOps \subseteq {"test", "answer", "bad"}

VARIABLES
    driver,
    master, slave, cpu,           \* the PICs; the handler the CPU is in
    pit, pitDue, pitRead,
    rtc, smb,
    ide, disk, xfer,
    flash, flashLast,
    usb, gpu, fifo, win

timers == <<pit, pitDue, pitRead>>
storage == <<ide, disk, xfer>>
vars == <<driver, master, slave, cpu, timers, rtc, smb, storage, flash, flashLast,
          usb, gpu, fifo, win>>

chips == <<pit, rtc, smb, ide, flash, usb, gpu, fifo, win>>

\* cpu is the IRQ whose handler runs, or this.
Main == 16

Running == cpu = Main
InHandler(irq) == cpu = irq

\* Words of the disk image, all different; the guest writes others.
ImageWord(s, j) == s * Words + j + 1
GuestWord(k) == Sectors * Words + k + 1
Word == 0 .. Sectors * Words + MaxCount * Words + 1

\* The controllers after their initialisation by the guest, nothing masked.
Ready == [PowerOn EXCEPT !.imr = {}]

\* The channel the guest drives: the hard disk, or the DVD drive for packets.
NoTransfer == [dir |-> "none", first |-> 0, count |-> 0, done |-> 0, before |-> << >>]

Init ==
    /\ driver \in Drivers
    /\ master = Ready /\ slave = Ready /\ cpu = Main
    /\ pit = PitPowerOn
    /\ pitDue = [left |-> 0, torn |-> FALSE, late |-> FALSE]
    /\ pitRead = [low |-> 0, want |-> 0, exact |-> TRUE]
    /\ rtc = RtcPowerOn
    /\ smb = SmbusPowerOn([o \in Offsets |-> 0])
    /\ ide = IdePowerOn(driver = "dvd")
    /\ disk = [s \in 0 .. Sectors - 1 |-> [j \in 0 .. Words - 1 |-> ImageWord(s, j)]]
    /\ xfer = NoTransfer
    /\ flash = FlashPowerOn /\ flashLast = ReadArray
    /\ usb = UsbInit
    /\ gpu = GpuPowerOn
    /\ fifo = PusherPowerOn /\ win = WindowClear

-----------------------------------------------------------------------------
(* The clock.                                                             *)

\* INTA# is IRQ 3 (nv2a_irq_callback).
WithInta(m, s, g) == IF Inta(g) THEN RaiseMaster(m, 3) ELSE LowerMaster(m, s, 3)

\* When the timer's interrupt should come, counted apart from the counter:
\* `late' is set when it comes at another tick than the one it is due.
DueAfterTick ==
    LET due == pitDue.left = 1
        raises == PitRaises(pit)
    IN  [left |-> IF ~pit.enabled \/ pit.mode = 1 THEN pitDue.left
                  ELSE IF pitDue.left > 1 THEN pitDue.left - 1
                  ELSE IF pit.mode = 0 THEN 0
                  ELSE IF pit.reload = 0 THEN Modulus ELSE pit.reload,
         torn |-> pitDue.torn \/ (raises /\ pit.loWritten),
         late |-> pitDue.late \/ (pit.enabled /\ pit.mode # 1 /\ ~pitDue.torn
                                    /\ ~pit.loWritten /\ due # raises)]

TickTimers(m) == IF PitRaises(pit) THEN RaiseMaster(m, 0) ELSE m

\* hw_tick_callback: timer, NV2A timer, USB, RTC, then the pusher, in the
\* committed window after polling it.
Tick ==
    /\ pit' = PitTick(pit)
    /\ pitDue' = DueAfterTick
    /\ gpu' = GpuTick(gpu)
    /\ usb' = UsbTick(usb)
    /\ rtc' = RtcTick(rtc)
    /\ LET m == WithInta(TickTimers(master), slave, gpu')
       IN  master' = IF RtcRaises(rtc) THEN RaiseMaster(m, 8) ELSE m
    /\ slave' = IF RtcRaises(rtc) THEN RaiseSlave(slave, 8) ELSE slave
    /\ IF driver \in {"user", "window"}
       THEN fifo' = FifoTick(Polled(fifo, win)) /\ win' = Synced(Polled(fifo, win), win)
       ELSE fifo' = FifoTick(fifo) /\ UNCHANGED win
    /\ UNCHANGED <<driver, cpu, pitRead, smb, storage, flash, flashLast>>

\* hw_tick_burst_callback: the same without the NV2A.
Burst ==
    /\ pit' = PitTick(pit)
    /\ pitDue' = DueAfterTick
    /\ usb' = UsbTick(usb)
    /\ rtc' = RtcTick(rtc)
    /\ master' = IF RtcRaises(rtc) THEN RaiseMaster(TickTimers(master), 8)
                 ELSE TickTimers(master)
    /\ slave' = IF RtcRaises(rtc) THEN RaiseSlave(slave, 8) ELSE slave
    /\ UNCHANGED <<driver, cpu, pitRead, smb, storage, flash, flashLast, gpu, fifo, win>>

-----------------------------------------------------------------------------
(* Interrupts: delivery through the PICs, and the guest's handlers.        *)

Deliver ==
    /\ Running
    /\ PairPending(master, slave)
    /\ LET a == PairAck(master, slave)
       IN  master' = a.master /\ slave' = a.slave /\ cpu' = a.irq
    /\ UNCHANGED <<driver, chips, pitDue, pitRead, disk, xfer, flashLast>>

\* The handler has silenced its device: it sends its EOIs and returns.
Served == CASE cpu = 8 -> ~rtc.flags
            [] cpu = 11 -> ~smb.done
            [] cpu = 3 -> ~Inta(gpu)
            [] OTHER -> TRUE

Return ==
    /\ ~Running /\ Served
    /\ slave' = IF cpu >= 8 THEN EoiSpecific(slave, cpu - 8) ELSE slave
    /\ master' = EoiSpecific(master, IF cpu >= 8 THEN Cascade ELSE cpu)
    /\ cpu' = Main
    /\ UNCHANGED <<driver, chips, pitDue, pitRead, disk, xfer, flashLast>>

-----------------------------------------------------------------------------
(* The timer and the clock.                                               *)

others == <<rtc, smb, storage, flash, flashLast, usb, gpu, fifo, win>>

PitProgram ==
    /\ driver = "pit" /\ Running
    /\ \E access \in 1 .. 3, mode \in PitModes : pit' = Program(pit, access, mode)
    /\ pitDue' = [pitDue EXCEPT !.left = 0, !.torn = FALSE]
    /\ pitRead' = [pitRead EXCEPT !.low = 0, !.want = 0]
    /\ UNCHANGED <<driver, master, slave, cpu, others>>

PitLatch ==
    /\ driver = "pit" /\ Running
    /\ pit.access = 3 => ~pit.loRead       \* a guest ends a read it began
    /\ pit' = Latch(pit)
    /\ UNCHANGED <<driver, master, slave, cpu, pitDue, pitRead, others>>

\* A load counts from the value that is loaded; 0 stands for Modulus.
PitLoad ==
    /\ driver = "pit" /\ Running /\ pit.access # 0
    /\ \E b \in Bytes :
        /\ pit' = PitWrite(pit, b)
        /\ pitDue' = IF pit.access = 3 /\ ~pit.loWritten THEN pitDue
                     ELSE [left |-> IF pit'.reload = 0 THEN Modulus ELSE pit'.reload,
                           torn |-> FALSE, late |-> pitDue.late]
    /\ UNCHANGED <<driver, master, slave, cpu, pitRead, others>>

\* The guest keeps the low byte and what the latch held when it read it.
PitRead ==
    /\ driver = "pit" /\ Running /\ pit.access # 0
    /\ pit.access = 3 => (pit.latched \/ pit.loRead)
    /\ pit' = PitAfterRead(pit)
    /\ pitRead' = IF pit.access # 3 THEN pitRead
                  ELSE IF ~pit.loRead
                  THEN [low |-> PitByte(pit), want |-> pit.latchVal, exact |-> TRUE]
                  ELSE [low |-> 0, want |-> 0,
                        exact |-> Join(PitByte(pit), pitRead.low) = pitRead.want]
    /\ UNCHANGED <<driver, master, slave, cpu, pitDue, others>>

\* The guest may discard the flags of register C unread; it does not store a
\* flag there that is not set.
RtcWrite ==
    /\ driver = "rtc" /\ Running
    /\ \/ \E b \in BOOLEAN : rtc' = WriteA(rtc, b)
       \/ \E b \in BOOLEAN : rtc' = WriteB(rtc, b)
       \/ \E b \in BOOLEAN : (b => rtc.flags) /\ rtc' = WriteC(rtc, b)
    /\ UNCHANGED <<driver, master, slave, cpu, timers, smb, storage, flash, flashLast,
                   usb, gpu, fifo, win>>

\* The handler reads register C; so may a guest that polls.
RtcRead ==
    /\ driver = "rtc" /\ (Running \/ InHandler(8)) /\ rtc.flags
    /\ rtc' = ReadC(rtc)
    /\ UNCHANGED <<driver, master, slave, cpu, timers, smb, storage, flash, flashLast,
                   usb, gpu, fifo, win>>

-----------------------------------------------------------------------------
(* SMBus.                                                                 *)

besideSmbus == <<driver, cpu, timers, rtc, storage, flash, flashLast, usb, gpu, fifo, win>>

\* Transactions alone, or completions beside the clock's interrupt.
UsesSmbus == driver \in {"rtc", "smbus"}

SmbusSetUp ==
    /\ driver = "smbus" /\ Running /\ ~smb.done
    /\ \E dev \in Devices, read \in BOOLEAN, cmd \in Offsets, data \in Data :
        smb' = SetUp(smb, dev, read, cmd, data)
    /\ UNCHANGED <<besideSmbus, master, slave>>

SmbusStart ==
    /\ UsesSmbus /\ Running
    /\ \E block \in BOOLEAN : smb' = WriteControl(smb, block)
    /\ master' = RaiseMaster(master, 11)
    /\ slave' = RaiseSlave(slave, 11)
    /\ UNCHANGED besideSmbus

\* Mutant of SmbusAck: the interrupt line is not lowered.
SmbusAckOnly ==
    /\ UsesSmbus /\ (Running \/ InHandler(11)) /\ smb.done
    /\ \E done \in BOOLEAN : smb' = WriteStatus(smb, done)
    /\ UNCHANGED <<besideSmbus, master, slave>>

SmbusAck ==
    /\ UsesSmbus /\ (Running \/ InHandler(11)) /\ smb.done
    /\ \E done \in BOOLEAN : smb' = WriteStatus(smb, done)
    /\ IF smb'.done THEN UNCHANGED <<master, slave>>
       ELSE master' = LowerMaster(master, slave, 11) /\ slave' = LowerSlave(slave, 11)
    /\ UNCHANGED besideSmbus

SmbusFifo ==
    /\ UsesSmbus /\ Running /\ smb.fifo # << >>
    /\ smb' = AfterFifoRead(smb)
    /\ UNCHANGED <<besideSmbus, master, slave>>

-----------------------------------------------------------------------------
(* Disks.  The guest keeps to the ATA protocol: it reads data in a data-in *)
(* phase and writes data in a data-out phase, while DRQ is set; it may     *)
(* reset the channel at any time.  xfer records what it asked for.         *)

Ata == driver \in {"hdd", "dvd"}
besideDisk == <<driver, master, slave, cpu, timers, rtc, smb, flash, flashLast, usb,
                gpu, fifo, win>>

Idle == ide.status # "drq"

TaskFile ==
    /\ driver = "hdd" /\ Idle
    /\ \E lba \in 0 .. Blocks - 1, n \in SectorCounts :
        ide' = [ide EXCEPT !.lba = lba, !.count = n]
    /\ xfer' = NoTransfer
    /\ UNCHANGED <<besideDisk, disk>>

Transfer(dir, count) ==
    [dir |-> dir, first |-> ide.lba, count |-> count, done |-> 0, before |-> disk]

ReadCommand ==
    /\ Ata /\ Idle
    /\ ide' = ReadSectors(ide, disk)
    /\ xfer' = Transfer("in", Sectors0(ide))
    /\ UNCHANGED <<besideDisk, disk>>

WriteCommand ==
    /\ driver = "hdd" /\ Idle
    /\ ide' = WriteSectors(ide)
    /\ xfer' = Transfer("out", Sectors0(ide))
    /\ UNCHANGED <<besideDisk, disk>>

OtherCommand ==
    /\ Ata /\ Idle
    /\ ide' \in {Identify(ide), Packet(ide), NonData(ide), UnknownCommand(ide)}
    /\ xfer' = NoTransfer
    /\ UNCHANGED <<besideDisk, disk>>

SendPacket ==
    /\ Ata /\ ide.awaiting
    /\ \E op \in AtapiOps : ide' = PacketWord(ide, op)
    /\ UNCHANGED <<besideDisk, disk, xfer>>

DataIn ==
    /\ Ata /\ ~Idle /\ ~ide.awaiting /\ xfer.dir # "out"
    /\ ide' = PioRead(ide, disk)
    /\ xfer' = IF xfer.dir = "in" THEN [xfer EXCEPT !.done = @ + 1] ELSE xfer
    /\ UNCHANGED <<besideDisk, disk>>

DataOut ==
    /\ Ata /\ ~Idle /\ ~ide.awaiting /\ xfer.dir = "out"
    /\ ide' = PioWrite(ide, GuestWord(xfer.done))
    /\ disk' = PioStored(ide, disk, GuestWord(xfer.done))
    /\ xfer' = [xfer EXCEPT !.done = @ + 1]
    /\ UNCHANGED besideDisk

Srst ==
    /\ Ata
    /\ ide' = SoftReset(ide)
    /\ xfer' = NoTransfer
    /\ UNCHANGED <<besideDisk, disk>>

-----------------------------------------------------------------------------
(* Flash and USB.                                                         *)

FlashAccess ==
    /\ driver = "flash"
    /\ \E a \in Addresses, byte \in Commands :
        /\ flash' = FlashWrite(flash, a, byte)
        /\ flashLast' = byte
    /\ UNCHANGED <<driver, master, slave, cpu, timers, rtc, smb, storage, usb, gpu, fifo, win>>

UsbAccess ==
    /\ driver = "usb"
    /\ \/ \E b \in BOOLEAN : usb' \in {WriteUsbControl(usb, b), WriteCommandStatus(usb, b)}
       \/ \E S \in SUBSET Events :
            usb' \in {AckEvents(usb, S), EnableEvents(usb, S), DisableEvents(usb, S)}
    /\ UNCHANGED <<driver, master, slave, cpu, timers, rtc, smb, storage, flash, flashLast,
                   gpu, fifo, win>>

-----------------------------------------------------------------------------
(* NV2A.                                                                  *)

besideGpu == <<driver, cpu, timers, rtc, smb, storage, flash, flashLast, usb, fifo, win>>

\* A register write of the guest, in its handler the acknowledgements only.
GpuAccess ==
    /\ driver = "gpu" /\ (Running \/ InHandler(3))
    /\ \/ \E b \in gpu.intr : gpu' = AckBlock(gpu, b)
       \/ \E S \in SUBSET IrqBlocks : gpu' = AckPmc(gpu, S)
       \/ Running /\ \E S \in SUBSET IrqBlocks : gpu' = EnableBlock(gpu, S)
       \/ Running /\ \E b \in BOOLEAN : gpu' = EnablePmc(gpu, b)
    /\ master' = WithInta(master, slave, gpu')
    /\ UNCHANGED <<besideGpu, slave>>

GpuAlarm ==
    /\ driver = "gpu" /\ Running
    /\ \E t \in 0 .. Times - 1 : gpu' = SetAlarm(gpu, t)
    /\ UNCHANGED <<besideGpu, master, slave>>

-----------------------------------------------------------------------------
(* The push buffer, through MMIO faults or in the committed window.        *)

besideFifo == <<driver, master, slave, cpu, timers, rtc, smb, storage, flash, flashLast,
                usb, gpu>>

Committed == driver \in {"user", "window"}

\* The channel is set up once, before the first PUT.
ChannelSetUp ==
    /\ fifo.put = 0 /\ ~fifo.valid
    /\ \E p \in Starts :
        IF driver = "mmio" THEN fifo' = LoadContext(WriteContext(fifo, p, p)) /\ UNCHANGED win
        ELSE /\ Committed
             /\ win.push1 = 0
             /\ fifo' = WriteContext(fifo, p, p) /\ win' = [win EXCEPT !.push1 = 1]
    /\ UNCHANGED besideFifo

\* The guest stores a GET: the pusher starts there, or goes on without it.
StoreGet ==
    /\ driver = "mmio"
    /\ \E p \in Starts : fifo' = WriteGet(fifo, p)
    /\ UNCHANGED <<besideFifo, win>>

SubmitMmio ==
    /\ driver = "mmio"
    /\ \E p \in GuestPuts : fifo' = WritePut(fifo, p)
    /\ UNCHANGED <<besideFifo, win>>

\* The pusher is stopped and let go again.
Pause ==
    /\ driver = "mmio"
    /\ \/ fifo' = WritePush0(fifo, FALSE)
       \/ \E on \in BOOLEAN : fifo' = WriteDmaPush(fifo, on)
    /\ UNCHANGED <<besideFifo, win>>

\* In the window a PUT of 0 is never noticed; the guest uses one of the two
\* PUT registers.
SubmitWindow ==
    /\ Committed
    /\ \E p \in GuestPuts \ {0} :
        win' = IF driver = "user" THEN [win EXCEPT !.userPut = p] ELSE [win EXCEPT !.fifoPut = p]
    /\ UNCHANGED <<besideFifo, fifo>>

EnableWindow ==
    /\ Committed /\ ~fifo.valid /\ fifo.put = 0
    /\ win' = [win EXCEPT !.push0 = TRUE]
    /\ UNCHANGED <<besideFifo, fifo>>

-----------------------------------------------------------------------------

Guest ==
    \/ PitProgram \/ PitLatch \/ PitLoad \/ PitRead
    \/ RtcWrite \/ RtcRead
    \/ SmbusSetUp \/ SmbusStart \/ SmbusAck \/ SmbusFifo
    \/ TaskFile \/ ReadCommand \/ WriteCommand \/ OtherCommand \/ SendPacket
    \/ DataIn \/ DataOut \/ Srst
    \/ FlashAccess \/ UsbAccess
    \/ GpuAccess \/ GpuAlarm
    \/ ChannelSetUp \/ StoreGet \/ SubmitMmio \/ Pause \/ SubmitWindow \/ EnableWindow

Next == Tick \/ Burst \/ Deliver \/ Return \/ Guest

\* What a handler does to its device before it returns.
Silence ==
    /\ ~Running
    /\ \/ RtcRead
       \/ SmbusAck /\ ~smb'.done
       \/ GpuAccess /\ gpu'.intr # gpu.intr

\* The clock ticks, and the processor goes on where the guest leaves it no
\* choice: it takes a pending interrupt, its handler does its work and ends.
Fairness == WF_vars(Tick) /\ WF_vars(Deliver \/ Silence \/ Return)

Spec == Init /\ [][Next]_vars /\ Fairness

-----------------------------------------------------------------------------
(* Properties.                                                            *)

\* Every device is in a state its registers can hold, and the controllers
\* and the transfer records keep their shape, whatever the guest programs.
TypeOK ==
    /\ driver \in Drivers
    /\ master \in Chip /\ slave \in Chip /\ cpu \in {Main} \cup Irqs
    /\ pit \in Channel /\ rtc \in Clock
    /\ smb.fifo \in Seq(Data) /\ smb.eeprom \in [Offsets -> Data] /\ smb.data \in Data
    /\ ide \in IdeChannel(Word) /\ disk \in Disk(Word)
    /\ flash \in FlashChip /\ usb \in Ohci /\ gpu \in Gpu
    /\ fifo.fifoGet <= RamSize /\ fifo.put <= RamSize

\* IRQ 0 comes exactly as many ticks after a load, or after the last one, as
\* was loaded, a full Modulus for 0, unless a load is only half written
\* (PitState::tick, load_count).
PitOnTime == ~pitDue.late

\* The two bytes read after a latch command are those of one count, the one
\* at the latch, although the counter runs between the reads.
PitReadNotTorn == pitRead.exact

\* The lines of the slave agree with the registers behind them: a periodic
\* event that register C reports is requested, or its handler is running and
\* has not yet read the register, so that no event waits for an interrupt
\* that will not come (cmos.hpp tick, setup.hpp); and IRQ 11 is requested only
\* while the DONE status it announces is set (smbus_io_write).
LinesFollowDevices ==
    /\ rtc.flags => 0 \in slave.irr \/ InHandler(8)
    /\ 3 \in slave.irr => smb.done

\* IRQ 3 is requested only while an enabled NV2A block is pending, and the
\* summary in PMC_INTR_0 agrees with the blocks after every handler and
\* tick, whatever was acknowledged in which order (update_irq).
IntaFollows ==
    /\ 3 \in master.irr => Inta(gpu)
    /\ gpu.pending = gpu.intr \cap gpu.en

\* The sectors written so far hold the guest's words, each at its place, and
\* no other sector changed since the command (WRITE SECTORS, store_sector).
WriteReachesDisk ==
    xfer.dir = "out" =>
        \A s \in 0 .. Sectors - 1 :
            LET at == { i \in 0 .. xfer.done \div Words - 1 : (xfer.first + i) % Blocks = s }
            IN  IF at = {} THEN disk[s] = xfer.before[s]
                ELSE LET i == CHOOSE i \in at : \A k \in at : k <= i
                     IN  disk[s] = [j \in 0 .. Words - 1 |-> GuestWord(i * Words + j)]

\* Each word the guest reads in a data-in phase is the next word of the
\* sectors it asked for (READ SECTORS, load_sector, advance_sector).
ReadsReturnDisk ==
    [][DataIn /\ xfer.dir = "in" =>
        LET s == (xfer.first + xfer.done \div Words) % Blocks
        IN  WordAtPort(ide) = IF s < Sectors THEN disk[s][xfer.done % Words] ELSE 0]_vars

\* A read of several sectors ends, without a reset, only when all of them
\* were delivered.  The code delivers one fewer.
ReadDeliversAll ==
    xfer.dir = "in" /\ Idle => xfer.done = xfer.count * Words

\* A bit of the flash goes from 0 to 1 only in the page of a confirmed erase
\* whose setup was the write just before (flash_write).
FlashBitsRise ==
    [][\A a \in Addresses :
        flash'.data[a] \ flash.data[a] # {} =>
            /\ flashLast = EraseSetup /\ flashLast' = EraseConfirm
            /\ \A b \in Addresses : b[1] # a[1] => flash'.data[b] = flash.data[b]]_vars

\* The positions of commands, and the order in which the fences follow each
\* other in the guest's push buffer, as the module's instance gives them.
CONSTANTS Headers, NextFence

\* The push buffer is well formed: of the commands some belong to its
\* subroutines, which a CALL enters and only a RETURN leaves, and after every
\* command comes a command of the same kind.
WellFormed(routines) ==
    LET main == Headers \ routines
        Beside(h, g) == g \in Headers /\ (g \in routines <=> h \in routines)
    IN  /\ {0} \cup Starts \subseteq main
        /\ \A h \in Headers :
            /\ h \in Positions
            /\ CASE Ram[h].kind = "jump" -> Beside(h, Ram[h].arg)
                 [] Ram[h].kind = "call" /\ h \in main ->
                      Ram[h].arg \in routines /\ h + 1 \in main
                 [] Ram[h].kind = "return" /\ h \in routines -> TRUE
                 [] Ram[h].kind = "method" -> Beside(h, h + 1 + Ram[h].arg)
                 [] OTHER -> Beside(h, h + 1)

ASSUME BufferAssumption == \E routines \in SUBSET Headers : WellFormed(routines)

\* The commands the guest's push buffer leads to, each with where a subroutine
\* returns to and the fence that was passed last, as the instance gives them.
CONSTANT Trail

\* NextFence is the order of the fences in the buffer: along the trail only a
\* fence changes the last one, to the next.
FenceOrder ==
    /\ \A s \in {0} \cup Starts : <<s, {}, 0>> \in Trail
    /\ \A x \in Trail :
        LET h == x[1]
            back == x[2]
            cmd == Ram[h]
            fence == IF cmd.kind = "method" /\ cmd.method = "set_reference" /\ cmd.arg # 0
                     THEN Ram[h + 1].arg ELSE x[3]
        IN  /\ fence # x[3] => fence = NextFence[x[3]]
            /\ CASE cmd.kind = "jump" -> <<cmd.arg, back, fence>> \in Trail
                 [] cmd.kind = "call" /\ back = {} -> <<cmd.arg, {h + 1}, fence>> \in Trail
                 [] cmd.kind = "return" /\ back # {} -> \A a \in back : <<a, {}, fence>> \in Trail
                 [] cmd.kind = "method" -> <<h + 1 + cmd.arg, back, fence>> \in Trail
                 [] OTHER -> <<h + 1, back, fence>> \in Trail

ASSUME FenceAssumption == FenceOrder

\* The pusher always goes on at a command, never inside a method's data or
\* beyond the buffer, through jumps, calls, fences and a used-up budget.
AtHeaders == fifo.valid => fifo.fifoGet \in Headers

\* The guest can see every fence: between two ticks REF_CNT takes the values
\* of NV097_SET_REFERENCE one by one, in the order of the push buffer.  That
\* is the register a guest reads by MMIO (tick_fifo leaves after a fence so
\* that it can); in the committed window 0x400B10 is overwritten at each tick
\* with CACHE1_REF (setup.hpp:135-136), of which nothing is claimed.
FencesInOrder == [][fifo'.refCnt # fifo.refCnt => fifo'.refCnt = NextFence[fifo.refCnt]]_vars

\* Work that was submitted is taken up: if from some moment on the pusher
\* is enabled and GET differs from PUT, GET moves again and again.
Behind == fifo.valid /\ fifo.push /\ fifo.push0 /\ fifo.fifoGet # fifo.put
GetMoves == []<>~Behind \/ []<><<fifo'.fifoGet # fifo.fifoGet>>_vars

\* Every event is served: the clock's, the GPU's, and the SMBus's where no
\* clock interrupt comes first every time.
EventsServed ==
    /\ rtc.flags ~> ~rtc.flags
    /\ Inta(gpu) ~> (InHandler(3) \/ ~Inta(gpu))
    /\ smb.done /\ driver = "smbus" ~> ~smb.done
=============================================================================
