-------------------------------- MODULE Usb ---------------------------------
(***************************************************************************)
(* The frame timer of an OHCI controller (usb.hpp).  Frame numbers are     *)
(* below Frames (2^16); half of them have bit 15 set.  Its interrupts are  *)
(* polled: no PIC line is driven.  Root hub ports keep what is written.    *)
(***************************************************************************)
EXTENDS Naturals

CONSTANT Frames

ASSUME FramesAssumption == Frames \in Nat \ {0} /\ Frames % 2 = 0

Events == {"SF", "FNO"}

Ohci == [oper : BOOLEAN, frame : 0 .. Frames - 1, status : SUBSET Events,
         enabled : SUBSET Events]

UsbInit == [oper |-> FALSE, frame |-> 0, status |-> {}, enabled |-> {}]

NextFrame(u) == (u.frame + 1) % Frames
TopBit(n) == n >= Frames \div 2

\* tick_frame: a frame starts; FNO when the top bit of the number changes.
UsbTick(u) ==
    IF ~u.oper THEN u
    ELSE [u EXCEPT !.frame = NextFrame(u),
                   !.status = @ \cup {"SF"} \cup
                       (IF TopBit(u.frame) # TopBit(NextFrame(u)) THEN {"FNO"} ELSE {})]

WriteUsbControl(u, oper) == [u EXCEPT !.oper = oper]

\* COMMAND_STATUS bit 0 resets everything; the other bits only set bits of
\* that register.
WriteCommandStatus(u, reset) == IF reset THEN UsbInit ELSE u

\* INTERRUPT_STATUS: 1 clears; ENABLE sets, DISABLE clears.
AckEvents(u, S) == [u EXCEPT !.status = @ \ S]
EnableEvents(u, S) == [u EXCEPT !.enabled = @ \cup S]
DisableEvents(u, S) == [u EXCEPT !.enabled = @ \ S]
=============================================================================
