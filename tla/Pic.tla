-------------------------------- MODULE Pic --------------------------------
(***************************************************************************)
(* The pair of 8259A interrupt controllers (pic.hpp) as operators on the   *)
(* state of the two chips.  A register is the set of the lines whose bit   *)
(* is 1.  IRQ n of the machine is line n of the master for n < 8 and line  *)
(* n - 8 of the slave otherwise; line 2 of the master is the cascade.      *)
(* The vector of an IRQ is abstracted to the IRQ itself: the bases that    *)
(* ICW2 programs only have to keep the sixteen vectors apart.              *)
(***************************************************************************)
EXTENDS Naturals, FiniteSets

Lines == 0 .. 7
Irqs == 0 .. 15
Cascade == 2

Chip == [irr    : SUBSET Lines,   \* requested
         imr    : SUBSET Lines,   \* masked
         isr    : SUBSET Lines,   \* in service
         aeoi   : BOOLEAN,        \* auto_eoi
         icw4   : BOOLEAN,        \* icw4_needed
         single : BOOLEAN,        \* single_mode
         step   : 0 .. 3]         \* init_step

PowerOn == [irr |-> {}, imr |-> Lines, isr |-> {}, aeoi |-> FALSE,
            icw4 |-> FALSE, single |-> FALSE, step |-> 0]

-----------------------------------------------------------------------------
(* One chip.                                                              *)

Pending(c) == c.irr \ (c.imr \cup c.isr)

\* has_pending() of one chip.
ChipPending(c) == Pending(c) # {}

Lowest(S) == CHOOSE i \in S : \A j \in S : i <= j

\* Mutant of Highest: the highest number wins.
HighestNumber(c) == CHOOSE i \in Pending(c) : \A j \in Pending(c) : j <= i

\* highest_pending(): the lowest number wins.
Highest(c) == Lowest(Pending(c))

\* Mutant of Serve: auto-EOI is not looked at.
ServeNoAutoEoi(c, line) == [c EXCEPT !.irr = @ \ {line}, !.isr = @ \cup {line}]

\* irr -> isr, or dropped at once with auto-EOI.
Serve(c, line) ==
    [c EXCEPT !.irr = @ \ {line},
              !.isr = IF c.aeoi THEN @ \ {line} ELSE @ \cup {line}]

\* ack() of one chip: the line is 0 when nothing is pending (vector_base).
AckLine(c) == IF ChipPending(c) THEN Highest(c) ELSE 0
AckChip(c) == IF ChipPending(c) THEN Serve(c, Highest(c)) ELSE c

\* OCW2: the non-specific EOI ends the lowest-numbered line in service.
Eoi(c) == [c EXCEPT !.isr = IF @ = {} THEN {} ELSE @ \ {Lowest(@)}]
EoiSpecific(c, line) == [c EXCEPT !.isr = @ \ {line}]

\* A write of ICW1 starts the initialisation; auto_eoi keeps its value.
Icw1(c, icw4, single) ==
    [c EXCEPT !.irr = {}, !.imr = {}, !.isr = {}, !.step = 1,
              !.icw4 = icw4, !.single = single]

\* Mutant of DataWrite: the initialisation does not end with ICW4.
DataWriteNoEnd(c, mask, aeoi) ==
    IF c.step = 0 THEN [c EXCEPT !.imr = mask]
    ELSE IF c.step = 3 THEN [c EXCEPT !.aeoi = aeoi, !.step = @ + 1]
    ELSE [c EXCEPT !.step = IF c.step = 1 /\ ~c.single THEN 2
                            ELSE IF c.icw4 THEN 3 ELSE 0]

\* A write of the data port: ICW2, ICW3 or ICW4 while initialising, else
\* the mask register.
DataWrite(c, mask, aeoi) ==
    IF c.step = 0 THEN [c EXCEPT !.imr = mask]
    ELSE IF c.step = 3 THEN [c EXCEPT !.aeoi = aeoi, !.step = 0]
    ELSE [c EXCEPT !.step = IF c.step = 1 /\ ~c.single THEN 2
                            ELSE IF c.icw4 THEN 3 ELSE 0]

-----------------------------------------------------------------------------
(* The pair.                                                              *)

RaiseMaster(m, irq) == [m EXCEPT !.irr = @ \cup {IF irq < 8 THEN irq ELSE Cascade}]
RaiseSlave(s, irq) == IF irq < 8 THEN s ELSE [s EXCEPT !.irr = @ \cup {irq - 8}]

LowerSlave(s, irq) == IF irq < 8 THEN s ELSE [s EXCEPT !.irr = @ \ {irq - 8}]
LowerMaster(m, s, irq) ==
    IF irq < 8 THEN [m EXCEPT !.irr = @ \ {irq}]
    ELSE IF ChipPending(LowerSlave(s, irq)) THEN m
    ELSE [m EXCEPT !.irr = @ \ {Cascade}]

\* Mutant of PairPending: a lone cascade request always counts.
PairPendingLoneCascade(m, s) == ChipPending(m)

\* has_pending(): a lone cascade request counts only if the slave agrees.
PairPending(m, s) ==
    /\ ChipPending(m)
    /\ Pending(m) = {Cascade} => ChipPending(s)

\* ack(): the two chips and the IRQ whose vector is returned.
PairAck(m, s) ==
    IF ~ChipPending(m) \/ Highest(m) # Cascade
    THEN [master |-> AckChip(m), slave |-> s, irq |-> AckLine(m)]
    ELSE IF ChipPending(s)
    THEN [master |-> Serve(m, Cascade), slave |-> AckChip(s), irq |-> 8 + AckLine(s)]
    ELSE LET n == [m EXCEPT !.irr = @ \ {Cascade}]   \* spurious cascade
         IN  [master |-> AckChip(n), slave |-> s, irq |-> AckLine(n)]
=============================================================================
