------------------------------- MODULE Flash --------------------------------
(***************************************************************************)
(* The command state machine of the BIOS flash (flash.hpp).  A byte is the *)
(* set of its 1 bits; the array has Pages pages of PageBytes bytes (4 KB). *)
(* A write carries a byte, which the mode reads as a command or as data.   *)
(***************************************************************************)
EXTENDS Naturals

CONSTANTS Bits, Pages, PageBytes,
          ReadArray, ReadId, ReadStatus, ClearStatus, ByteProgram, EraseSetup,
          EraseConfirm

Modes == {"array", "id", "status", "program", "erase"}
Addresses == (0 .. Pages - 1) \X (0 .. PageBytes - 1)

FlashChip == [data : [Addresses -> SUBSET Bits], mode : Modes]
FlashPowerOn == [data |-> [a \in Addresses |-> Bits], mode |-> "array"]

\* A command in one of the three read modes; anything else is ignored.
ModeAfter(f, byte) ==
    CASE byte = ReadArray -> "array"
      [] byte = ReadId -> "id"
      [] byte = ReadStatus -> "status"
      [] byte = ClearStatus -> "array"
      [] byte = ByteProgram -> "program"
      [] byte = EraseSetup -> "erase"
      [] OTHER -> f.mode

\* Mutant of FlashWrite: a byte that is not the confirmation keeps the setup.
FlashWriteKeepsSetup(f, a, byte) ==
    CASE f.mode = "program" -> [f EXCEPT !.data[a] = @ \cap byte, !.mode = "array"]
      [] f.mode = "erase" ->
           IF byte # EraseConfirm THEN f
           ELSE [f EXCEPT !.data = [b \in Addresses |-> IF b[1] = a[1] THEN Bits ELSE @[b]],
                          !.mode = "array"]
      [] OTHER -> [f EXCEPT !.mode = ModeAfter(f, byte)]

\* flash_write: programming clears bits, a confirmed erase sets a page.
FlashWrite(f, a, byte) ==
    CASE f.mode = "program" -> [f EXCEPT !.data[a] = @ \cap byte, !.mode = "array"]
      [] f.mode = "erase" ->
           [f EXCEPT !.data = IF byte = EraseConfirm
                              THEN [b \in Addresses |-> IF b[1] = a[1] THEN Bits ELSE @[b]]
                              ELSE @,
                     !.mode = "array"]
      [] OTHER -> [f EXCEPT !.mode = ModeAfter(f, byte)]
=============================================================================
