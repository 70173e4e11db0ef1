-------------------------------- MODULE Pit ---------------------------------
(***************************************************************************)
(* Channel 0 of the 8254 interval timer (pit.hpp), the only one that runs, *)
(* as operators on the channel.  A counter is two bytes of base Byte (256  *)
(* in the code), so that the reload value Byte * Byte, which the program   *)
(* writes for a count of 0, wraps to 0 as it does in a uint16_t.  The pin  *)
(* `output' is read by nobody and left out.                                *)
(***************************************************************************)
EXTENDS Naturals

CONSTANT Byte

ASSUME ByteAssumption == Byte \in Nat \ {0, 1}

Bytes == 0 .. Byte - 1
Modulus == Byte * Byte
Counts == 0 .. Modulus - 1

Low(v) == v % Byte
High(v) == v \div Byte
Join(hi, lo) == hi * Byte + lo

Channel == [reload : Counts, count : Counts, mode : 0 .. 3, access : 0 .. 3,
            loWritten : BOOLEAN, loRead : BOOLEAN, enabled : BOOLEAN,
            latchVal : Counts, latched : BOOLEAN]

PitPowerOn == [reload |-> 0, count |-> 0, mode |-> 0, access |-> 0,
               loWritten |-> FALSE, loRead |-> FALSE, enabled |-> FALSE,
               latchVal |-> 0, latched |-> FALSE]

-----------------------------------------------------------------------------
(* The clock.                                                             *)

\* Mutant of Counted: a reload of 0 counts from 0 without the wrap.
CountedNoWrap(c) == IF c.count = 0 THEN c.reload ELSE c.count - 1

\* The count after one decrement: from 0 it reloads first, and 0 - 1 wraps.
Counted(c) == ((IF c.count = 0 THEN c.reload ELSE c.count) + Modulus - 1) % Modulus

PitRaises(c) == c.enabled /\ Counted(c) = 0 /\ c.mode \in {0, 2, 3}

\* PitState::tick: mode 0 stops at 0, modes 2 and 3 start again, mode 1
\* goes on through the wrap.
PitTick(c) ==
    IF ~c.enabled THEN c
    ELSE [c EXCEPT !.count = IF PitRaises(c) /\ c.mode # 0 THEN c.reload ELSE Counted(c),
                   !.enabled = ~(PitRaises(c) /\ c.mode = 0)]

-----------------------------------------------------------------------------
(* The ports.                                                             *)

\* Port 0x43 with access 0: the counter latch command.
Latch(c) == [c EXCEPT !.latchVal = c.count, !.latched = TRUE]

\* Port 0x43: the mode of the channel; it stops, a latched value stays.
Program(c, access, mode) ==
    [c EXCEPT !.access = access, !.mode = mode, !.enabled = FALSE,
              !.loWritten = FALSE, !.loRead = FALSE]

\* PitChannel::load_count.
LoadCount(c, v) == [c EXCEPT !.reload = v, !.count = v, !.enabled = TRUE]

\* Port 0x40: one byte of the reload value.  The first byte of a pair is
\* in force at once.
PitWrite(c, b) ==
    CASE c.access = 0 -> c
      [] c.access = 1 -> LoadCount(c, Join(High(c.reload), b))
      [] c.access = 2 -> LoadCount(c, Join(b, Low(c.reload)))
      [] c.access = 3 /\ ~c.loWritten ->
           [c EXCEPT !.reload = Join(High(@), b), !.loWritten = TRUE]
      [] OTHER -> LoadCount([c EXCEPT !.loWritten = FALSE], Join(b, Low(c.reload)))

\* Mutant of PitValue: the latch is forgotten.
PitValueLive(c) == c.count

PitValue(c) == IF c.latched THEN c.latchVal ELSE c.count

\* Port 0x40: the byte that is read, and the channel after the read.
PitByte(c) ==
    CASE c.access = 0 -> 0
      [] c.access = 1 \/ (c.access = 3 /\ ~c.loRead) -> Low(PitValue(c))
      [] OTHER -> High(PitValue(c))

PitAfterRead(c) ==
    IF c.access # 3 THEN c
    ELSE IF ~c.loRead THEN [c EXCEPT !.loRead = TRUE]
    ELSE [c EXCEPT !.loRead = FALSE, !.latched = FALSE]
=============================================================================
