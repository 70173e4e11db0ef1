-------------------------------- MODULE Ide ---------------------------------
(***************************************************************************)
(* One channel of the IDE controller (ide.hpp) as operators on the channel *)
(* and on the image behind it.  A sector has Words words (256), the image  *)
(* Sectors sectors, a logical block address is below Blocks (2^28).  The   *)
(* task file is the address, the sector count and the status; the status   *)
(* is "ready" (DRDY_DSC), "drq" (DRDY_DSC_DRQ) or "error" (DRDY_DSC_ERR).  *)
(* A packet is PacketWords words (6), of which the first is the operation. *)
(***************************************************************************)
EXTENDS Naturals

CONSTANTS Words, Sectors, Blocks, PacketWords, MaxCount

ASSUME IdeAssumption ==
    /\ {Words, Sectors, Blocks, PacketWords, MaxCount} \subseteq Nat \ {0}
    /\ Sectors <= Blocks

\* MODE SENSE answers 8 bytes and INQUIRY 36, both less than a sector.
AnswerWords == 1

Disk(Word) == [0 .. Sectors - 1 -> [0 .. Words - 1 -> Word]]

IdeChannel(Word) ==
    [lba : 0 .. Blocks - 1, count : 0 .. MaxCount, status : {"ready", "drq", "error"},
     buf : [0 .. Words - 1 -> Word], pos : 0 .. Words, len : 0 .. Words,
     left : 0 .. MaxCount, awaiting : BOOLEAN, packet : 0 .. PacketWords,
     op : {"none", "test", "answer", "bad"}, atapi : BOOLEAN]

Blank == [j \in 0 .. Words - 1 |-> 0]

\* The address in the task file after a reset; the signature of an ATAPI
\* device reads as an address beyond the image.
Signature(atapi) == IF atapi THEN Blocks - 1 ELSE 1 % Blocks

IdePowerOn(atapi) ==
    [lba |-> Signature(atapi), count |-> 1, status |-> "ready", buf |-> Blank, pos |-> 0,
     len |-> 0, left |-> 0, awaiting |-> FALSE, packet |-> 0, op |-> "none",
     atapi |-> atapi]

-----------------------------------------------------------------------------
(* Sectors.                                                               *)

LoadSector(ch, disk, lba) ==
    [ch EXCEPT !.buf = IF lba < Sectors THEN disk[lba] ELSE Blank,
               !.pos = 0, !.len = Words]

StoreSector(ch, disk) ==
    IF ch.lba < Sectors THEN [disk EXCEPT ![ch.lba] = ch.buf] ELSE disk

AdvanceSector(ch) == [ch EXCEPT !.lba = (@ + 1) % Blocks]

BlankSector(ch) == [ch EXCEPT !.buf = Blank, !.pos = 0, !.len = Words]

\* A data phase is over, or the next sector follows.
NextSector(ch, following) ==
    IF ch.left > 1
    THEN [following EXCEPT !.left = ch.left - 1, !.status = "drq"]
    ELSE [ch EXCEPT !.left = 0, !.status = "ready"]

-----------------------------------------------------------------------------
(* The data port.                                                         *)

WordAtPort(ch) == IF ch.len = 0 \/ ch.pos >= Words THEN 0 ELSE ch.buf[ch.pos]

Moved(ch) == [ch EXCEPT !.pos = @ + 1, !.len = @ - 1]

\* Mutant of PioRead: the buffer is loaded before the address advances.
PioReadStaleLba(ch, disk) ==
    IF ch.len = 0 THEN ch
    ELSE IF ch.len > 1 THEN Moved(ch)
    ELSE NextSector(Moved(ch), AdvanceSector(LoadSector(ch, disk, ch.lba)))

PioRead(ch, disk) ==
    IF ch.len = 0 THEN ch
    ELSE IF ch.len > 1 THEN Moved(ch)
    ELSE LET next == AdvanceSector(ch)
         IN  NextSector(Moved(ch), LoadSector(next, disk, next.lba))

\* A word of an ATAPI packet; the last one executes it.
PacketWord(ch, op) ==
    LET c == [ch EXCEPT !.packet = @ + 1, !.op = IF ch.packet = 0 THEN op ELSE @]
    IN  IF c.packet < PacketWords THEN c
        ELSE [c EXCEPT !.awaiting = FALSE,
                       !.status = CASE c.op = "test" -> "ready"
                                    [] c.op = "answer" -> "drq"
                                    [] OTHER -> "error",
                       !.buf = IF c.op = "answer" THEN Blank ELSE @,
                       !.pos = IF c.op = "answer" THEN 0 ELSE @,
                       !.len = IF c.op = "answer" THEN AnswerWords ELSE @]

Placed(ch, word) ==
    Moved(IF ch.pos < Words THEN [ch EXCEPT !.buf[ch.pos] = word] ELSE ch)

\* A word of data: the last of a sector stores it.
PioWrite(ch, word) ==
    IF ch.len = 0 THEN ch
    ELSE IF ch.len > 1 THEN Placed(ch, word)
    ELSE NextSector(Placed(ch, word), BlankSector(AdvanceSector(ch)))

\* Mutant of PioStored: the sector is stored after the address advanced.
PioStoredLate(ch, disk, word) ==
    IF ch.len # 1 THEN disk ELSE StoreSector(PioWrite(ch, word), disk)

PioStored(ch, disk, word) ==
    IF ch.len # 1 THEN disk ELSE StoreSector(Placed(ch, word), disk)

-----------------------------------------------------------------------------
(* The command and control registers.                                     *)

Begin(ch, status) == [ch EXCEPT !.status = status]

Sectors0(ch) == IF ch.count = 0 THEN 1 ELSE ch.count

\* READ SECTORS counts the first sector off at once.
ReadSectors(ch, disk) ==
    [LoadSector(Begin(ch, "drq"), disk, ch.lba) EXCEPT !.left = Sectors0(ch) - 1]

WriteSectors(ch) == [BlankSector(Begin(ch, "drq")) EXCEPT !.left = Sectors0(ch)]

\* IDENTIFY DEVICE and IDENTIFY PACKET DEVICE; the answer is data.
Identify(ch) == [BlankSector(Begin(ch, "drq")) EXCEPT !.left = 0]

\* Mutant of Packet: the words of an earlier packet still count.
PacketKeepsCount(ch) ==
    IF ch.atapi
    THEN [Begin(ch, "drq") EXCEPT !.awaiting = TRUE, !.op = "none", !.count = 1]
    ELSE Begin(ch, "error")

Packet(ch) ==
    IF ch.atapi
    THEN [Begin(ch, "drq") EXCEPT !.awaiting = TRUE, !.packet = 0, !.op = "none", !.count = 1]
    ELSE Begin(ch, "error")

\* SET FEATURES, INITIALIZE DEVICE PARAMETERS, FLUSH CACHE.
NonData(ch) == Begin(ch, "ready")
UnknownCommand(ch) == Begin(ch, "error")

\* SRST: the task file is the signature; the data phase is not forgotten.
SoftReset(ch) ==
    [ch EXCEPT !.status = "ready", !.count = 1, !.lba = Signature(ch.atapi),
               !.awaiting = FALSE]
=============================================================================
