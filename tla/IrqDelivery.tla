---------------------------- MODULE IrqDelivery -----------------------------
(***************************************************************************)
(* Hardware interrupts end to end: devices raise and lower IRQ lines, the  *)
(* PIC pair holds them, the run loop of the executor polls has_pending()   *)
(* at every trace boundary and delivers the acknowledged vector through    *)
(* the IDT, and the guest's handlers end them with EOI and IRETD.          *)
(*                                                                         *)
(* The emulated CPU is one thread: a device callback, an I/O port write of *)
(* the guest and a delivery never overlap, but they come in any order.     *)
(***************************************************************************)
EXTENDS Pic, Sequences

CONSTANTS
    DeviceIrqs,   \* the IRQs that devices are wired to
    Masks,        \* the mask values the guest writes to a data port
    TrapIrqs,     \* IRQs whose IDT entry is a trap gate: IF stays set
    InitModes,    \* the ICW1 variants the guest uses: ICW4 needed, single
    AutoEoi,      \* the auto-EOI settings the guest programs with ICW4
    MasterSpecific, SlaveSpecific,  \* the handlers use specific EOI commands
    MaxNest       \* bound: how deep interrupt handlers nest

ASSUME IrqAssumption ==
    /\ DeviceIrqs \subseteq Irqs \ {Cascade}
    /\ Masks \subseteq SUBSET Lines
    /\ TrapIrqs \subseteq Irqs
    /\ InitModes \subseteq [icw4 : BOOLEAN, single : BOOLEAN]
    /\ AutoEoi \subseteq BOOLEAN
    /\ MasterSpecific \in BOOLEAN /\ SlaveSpecific \in BOOLEAN
    /\ MaxNest \in Nat

VARIABLES
    master, slave,  \* PicPair
    vif,            \* ctx.virtual_if
    frames          \* the interrupted contexts on the guest stack

vars == <<master, slave, vif, frames>>

\* A frame: the IRQ its handler serves, the IF it saved, and which end of
\* interrupt the handler sends next (a slave IRQ is ended at both chips).
Frame == [irq : Irqs, saved : BOOLEAN, next : {"slave", "master", "iret"}]

TypeOK ==
    /\ master \in Chip /\ slave \in Chip
    /\ vif \in BOOLEAN
    /\ frames \in Seq(Frame) /\ Len(frames) <= MaxNest

Top == frames[Len(frames)]
Nested == Len(frames) > 0

Init ==
    /\ master = PowerOn /\ slave = PowerOn
    /\ vif = TRUE
    /\ frames = <<>>

-----------------------------------------------------------------------------
(* Devices.                                                               *)

Raise(irq) ==
    /\ master' = RaiseMaster(master, irq)
    /\ slave' = RaiseSlave(slave, irq)
    /\ UNCHANGED <<vif, frames>>

\* Level-triggered devices (NV2A, SMBus) withdraw a request.
Lower(irq) ==
    /\ master' = LowerMaster(master, slave, irq)
    /\ slave' = LowerSlave(slave, irq)
    /\ UNCHANGED <<vif, frames>>

-----------------------------------------------------------------------------
(* The run loop at a trace boundary.                                      *)

\* The EOI commands a handler has to send: none to a chip with auto-EOI.
MasterEnd == IF master.aeoi THEN "iret" ELSE "master"
SlaveEnd == IF slave.aeoi THEN MasterEnd ELSE "slave"

Interruptible == PairPending(master, slave) /\ vif

Deliver ==
    /\ Interruptible
    /\ Len(frames) < MaxNest
    /\ LET a == PairAck(master, slave) IN
          /\ master' = a.master
          /\ slave' = a.slave
          /\ frames' = Append(frames,
                [irq |-> a.irq, saved |-> vif,
                 next |-> IF a.irq < 8 THEN MasterEnd ELSE SlaveEnd])
          /\ vif' = (a.irq \in TrapIrqs)

-----------------------------------------------------------------------------
(* The guest.                                                             *)

\* CLI, STI and POPFD.  Interrupts stay off while a chip waits for an ICW.
SetIf(b) ==
    /\ b => master.step = 0 /\ slave.step = 0
    /\ vif' = b
    /\ UNCHANGED <<master, slave, frames>>

\* The guest (re)initialises a chip with interrupts off and outside of any
\* handler: ICW1 on the command port, then ICW2 to ICW4 on the data port.
StartMaster(mode) ==
    /\ ~vif /\ ~Nested
    /\ master' = Icw1(master, mode.icw4, mode.single)
    /\ UNCHANGED <<slave, vif, frames>>

StartSlave(mode) ==
    /\ ~vif /\ ~Nested
    /\ slave' = Icw1(slave, mode.icw4, mode.single)
    /\ UNCHANGED <<master, vif, frames>>

\* The data port: the next ICW, or OCW1 (a new mask) when initialised.
DataMaster(mask, aeoi) ==
    /\ master' = DataWrite(master, mask, aeoi)
    /\ UNCHANGED <<slave, vif, frames>>

DataSlave(mask, aeoi) ==
    /\ slave' = DataWrite(slave, mask, aeoi)
    /\ UNCHANGED <<master, vif, frames>>

\* A handler ends its interrupt: OUT 0xA0 first for a slave IRQ, then
\* OUT 0x20.
EndSlave ==
    /\ Nested /\ Top.next = "slave"
    /\ slave' = IF SlaveSpecific THEN EoiSpecific(slave, Top.irq - 8) ELSE Eoi(slave)
    /\ frames' = [frames EXCEPT ![Len(frames)].next = MasterEnd]
    /\ UNCHANGED <<master, vif>>

EndMaster ==
    /\ Nested /\ Top.next = "master"
    /\ master' = IF MasterSpecific
                  THEN EoiSpecific(master, IF Top.irq < 8 THEN Top.irq ELSE Cascade)
                  ELSE Eoi(master)
    /\ frames' = [frames EXCEPT ![Len(frames)].next = "iret"]
    /\ UNCHANGED <<slave, vif>>

\* IRETD pops the saved EFLAGS and with them IF.
Iret ==
    /\ Nested /\ Top.next = "iret"
    /\ vif' = Top.saved
    /\ frames' = SubSeq(frames, 1, Len(frames) - 1)
    /\ UNCHANGED <<master, slave>>

Handler == EndSlave \/ EndMaster \/ Iret

Next ==
    \/ \E irq \in DeviceIrqs : Raise(irq) \/ Lower(irq)
    \/ Deliver
    \/ \E b \in BOOLEAN : SetIf(b)
    \/ \E mode \in InitModes : StartMaster(mode) \/ StartSlave(mode)
    \/ \E mask \in Masks, b \in AutoEoi : DataMaster(mask, b) \/ DataSlave(mask, b)
    \/ Handler

Spec == Init /\ [][Next]_vars

-----------------------------------------------------------------------------
(* Properties.                                                            *)

\* IRQ n has its request bit set, is not masked on its way to the CPU, and
\* is not already in service.
Deliverable(irq) ==
    IF irq < 8
    THEN irq \in Pending(master)
    ELSE /\ irq - 8 \in Pending(slave)
         /\ Cascade \notin master.imr \cup master.isr

\* has_pending() and ack() agree: no vector is delivered that no device asked
\* for, and none that is masked.
NoSpuriousVector ==
    [][Len(frames') > Len(frames) => Deliverable(frames'[Len(frames')].irq)]_vars

\* "PIC evaluates masking/priority": what has_pending() sees is served in
\* the order of the lines; nothing deliverable on the master is overtaken by
\* a line of lower priority.
MasterPriority ==
    [][Len(frames') > Len(frames) =>
          LET irq == frames'[Len(frames')].irq
              at == IF irq < 8 THEN irq ELSE Cascade
          IN  \A i \in Pending(master) \ {Cascade} : at <= i]_vars

\* Every handler that ran to its IRETD has ended its interrupt: with no
\* handler active no line is left in service, so no line stays blocked, in
\* whatever order nested handlers sent their non-specific EOIs.
IdleNotInService == frames = <<>> => master.isr = {} /\ slave.isr = {}

\* The request of a device is never forgotten: a slave line that is requested
\* and unmasked is visible to the run loop as soon as no cascade interrupt is
\* in service and the cascade line is unmasked.
PendingIsSeen ==
    \A irq \in DeviceIrqs : Deliverable(irq) => PairPending(master, slave)
=============================================================================
