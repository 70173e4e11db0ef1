------------------------------- MODULE Smbus --------------------------------
(***************************************************************************)
(* The SMBus controller with the EEPROM and the system management          *)
(* controller behind it (smbus.hpp), as operators on its state.  A byte    *)
(* is a member of Data, a command an EEPROM offset.  The EEPROM has Cells  *)
(* bytes (256), the FIFO holds FifoSize (32).  Of the SMC the scratch      *)
(* register stands for those that read back what was written; fixed        *)
(* answers (versions, temperatures, encoders) are the byte 0.              *)
(***************************************************************************)
EXTENDS Naturals, Sequences

CONSTANTS Cells, FifoSize, Data

ASSUME SmbusAssumption ==
    /\ Cells \in Nat \ {0}
    /\ FifoSize \in Nat \ {0}
    /\ Data \subseteq Nat
    /\ 0 \in Data

Offsets == 0 .. Cells - 1
Devices == {"eeprom", "smc", "encoder"}

Controller == [done : BOOLEAN, dev : Devices, read : BOOLEAN, cmd : Offsets,
               data : Data,
               fifo : Seq(Data), eeprom : [Offsets -> Data], scratch : Data]

SmbusPowerOn(image) ==
    [done |-> FALSE, dev |-> "encoder", read |-> FALSE, cmd |-> 0, data |-> 0,
     fifo |-> << >>, eeprom |-> image, scratch |-> 0]

\* The bytes a block read of len bytes at cmd puts in the FIFO; beyond the
\* end of the EEPROM they are 0.
Block(s, len) ==
    [i \in 1 .. (IF len > FifoSize THEN FifoSize ELSE len) |->
        IF s.cmd + i - 1 < Cells THEN s.eeprom[s.cmd + i - 1] ELSE 0]

\* The transaction a write to CONTROL performs.
Transact(s, block) ==
    CASE s.dev = "eeprom" /\ block ->
           IF s.read THEN [s EXCEPT !.fifo = Block(s, s.data)] ELSE s
      [] s.dev = "eeprom" /\ ~block ->
           IF s.read THEN [s EXCEPT !.data = s.eeprom[s.cmd]]
           ELSE [s EXCEPT !.eeprom[s.cmd] = s.data]
      [] s.dev = "smc" ->
           IF s.read THEN [s EXCEPT !.data = s.scratch] ELSE [s EXCEPT !.scratch = s.data]
      [] OTHER -> IF s.read THEN [s EXCEPT !.data = 0] ELSE s

\* A write to CONTROL completes at once; IRQ 11 is raised whatever bits
\* are set.
WriteControl(s, block) == [Transact(s, block) EXCEPT !.done = TRUE]

\* A write to STATUS: 1 clears.  IRQ 11 is lowered unless DONE remains.
WriteStatus(s, done) == [s EXCEPT !.done = @ /\ ~done]

\* ADDRESS, COMMAND and DATA only keep what is written.
SetUp(s, dev, read, cmd, data) ==
    [s EXCEPT !.dev = dev, !.read = read, !.cmd = cmd, !.data = data]

\* A read of the FIFO port: a byte of the last block, or 0.
FifoByte(s) == IF s.fifo = << >> THEN 0 ELSE Head(s.fifo)
AfterFifoRead(s) == [s EXCEPT !.fifo = IF @ = << >> THEN @ ELSE Tail(@)]
=============================================================================
