--------------------------- MODULE MachineProofs ----------------------------
(***************************************************************************)
(* Theorems about Machine, for every size of the devices and every guest.  *)
(* Two devices come first whose invariants take an argument of their own.  *)
(* The disk: every transfer of the guest moves the words of the sectors it *)
(* asked for, in their order, whatever the sizes are.  The pusher: it      *)
(* walks a well-formed push buffer from command to command, whatever the   *)
(* guest writes to its registers and whenever.                             *)
(***************************************************************************)
EXTENDS Machine, PicProofs, FiniteSetTheorems, WellFoundedInduction, SequenceTheorems, TLAPS

DiskGuest == \/ TaskFile \/ ReadCommand \/ WriteCommand \/ OtherCommand \/ SendPacket
             \/ DataIn \/ DataOut \/ Srst

-----------------------------------------------------------------------------
(* The disk: the inductive invariant.                                      *)

\* What the guest may have asked for.
Transfers == [dir : {"none", "in", "out"}, first : 0 .. Blocks - 1, count : 0 .. MaxCount,
              done : Nat, before : {<< >>} \cup Disk(Word)]

\* A channel whose buffer holds what is left of its data.
Legal(c) == c \in IdeChannel(Word) /\ c.pos + c.len <= Words

\* The channel, and the packet it waits for.
IdeInv ==
    /\ Legal(ide) /\ disk \in Disk(Word) /\ xfer \in Transfers
    /\ ide.awaiting => ide.status = "drq" /\ ide.packet < PacketWords /\ xfer.dir = "none"

\* The sector that the transfer is at, when turns of them are complete.
At(turn) == (xfer.first + turn) % Blocks

\* Sector s of the image after the guest wrote its first turns sectors.
Written(s, turns) ==
    LET at == {i \in 0 .. turns - 1 : At(i) = s}
    IN  IF at = {} THEN disk[s] = xfer.before[s]
        ELSE \E i \in at : /\ \A k \in at : k <= i
                           /\ disk[s] = [j \in 0 .. Words - 1 |-> GuestWord(i * Words + j)]

\* The sector at an address; beyond the image there is nothing.
SectorAt(dk, lba) == IF lba < Sectors THEN dk[lba] ELSE Blank

\* A transfer under way: turns sectors are complete, and ide.pos words of the
\* next one.
UnderWay(turns) ==
    /\ xfer.done = turns * Words + ide.pos
    /\ ide.pos + ide.len = Words /\ ide.len > 0
    /\ ide.lba = At(turns)

OutInv ==
    xfer.dir = "out" =>
        \E turns \in 0 .. xfer.count :
            /\ \A s \in 0 .. Sectors - 1 : Written(s, turns)
            /\ Idle => turns = xfer.count /\ xfer.done = turns * Words
            /\ ~Idle =>
                  /\ UnderWay(turns)
                  /\ ide.left = xfer.count - turns /\ ide.left > 0
                  /\ \A j \in 0 .. ide.pos - 1 : ide.buf[j] = GuestWord(turns * Words + j)

InInv ==
    xfer.dir = "in" /\ ~Idle =>
        \E turns \in 0 .. xfer.count :
            /\ UnderWay(turns)
            /\ turns + ide.left < xfer.count
            /\ ide.buf = SectorAt(disk, ide.lba)

DiskInv == IdeInv /\ OutInv /\ InInv

-----------------------------------------------------------------------------
(* Arithmetic of sectors and words.                                        *)

\* The sizes are positive.
LEMMA Sizes ==
  /\ Words \in Nat \ {0} /\ Sectors \in Nat \ {0} /\ Blocks \in Nat \ {0}
  /\ PacketWords \in Nat \ {0} /\ MaxCount \in Nat \ {0} /\ Sectors <= Blocks
  BY IdeAssumption DEF IdeAssumption

\* Word pos of the sector after turns whole ones.
LEMMA WordOfTurn ==
  ASSUME NEW turns \in Nat, NEW pos \in 0 .. Words - 1
  PROVE  /\ turns * Words + pos \in Nat
         /\ (turns * Words + pos) \div Words = turns
         /\ (turns * Words + pos) % Words = pos
  <1>1. Words \in Nat /\ Words > 0
    BY Sizes
  <1>2. ASSUME NEW k \in Nat, NEW W \in Nat, W > 0
        PROVE  /\ k \div W \in Nat /\ k % W \in 0 .. W - 1
               /\ k = (k \div W) * W + (k % W)
    BY <1>2
  <1>3. turns * Words \in Nat
    BY <1>1
  <1> DEFINE k == turns * Words + pos
             q == k \div Words
             r == k % Words
  <1>4. k \in Nat /\ q \in Nat /\ r \in 0 .. Words - 1 /\ k = (q * Words) + r
    BY <1>1, <1>2, <1>3
  <1>5. ASSUME NEW a \in Nat, NEW b \in Nat, NEW W \in Nat, W > 0, NEW x \in 0 .. W - 1,
               NEW y \in 0 .. W - 1, (a * W) + x = (b * W) + y
        PROVE  a = b /\ x = y
    <2>1. (a - b) * W = y - x
      BY <1>5
    <2>2. CASE a > b
      <3>1. (a - b) * W >= 1 * W
        BY <1>5, <2>2
      <3> QED BY <1>5, <2>1, <3>1
    <2>3. CASE a < b
      <3>1. (b - a) * W >= 1 * W
        BY <1>5, <2>3
      <3>2. (b - a) * W = x - y
        BY <1>5
      <3> QED BY <1>5, <3>1, <3>2
    <2>4. CASE a = b
      BY <1>5, <2>4
    <2> QED BY <2>2, <2>3, <2>4
  <1>6. (q * Words) + r = (turns * Words) + pos
    BY <1>4
  <1> HIDE DEF q, r
  <1>7. q = turns /\ r = pos
    BY <1>1, <1>4, <1>5, <1>6
  <1> QED BY <1>4, <1>7 DEF q, r

\* Whole sectors have whole numbers of words, and words of earlier ones come
\* before.
LEMMA TurnBound ==
  ASSUME NEW turns \in Nat, NEW n \in Nat, turns < n, NEW pos \in 0 .. Words - 1
  PROVE  turns * Words + pos < n * Words /\ n * Words \in Nat
  <1>1. Words \in Nat /\ Words > 0
    BY Sizes
  <1>2. (n - turns - 1) \in Nat
    OBVIOUS
  <1>3. (n - turns - 1) * Words \in Nat
    BY <1>1, <1>2
  <1>4. n * Words = (turns * Words) + Words + ((n - turns - 1) * Words)
    BY <1>1
  <1> QED BY <1>1, <1>3, <1>4

\* The address goes on modulo the number of blocks (advance_sector).
LEMMA NextAddress ==
  ASSUME NEW a \in Nat
  PROVE  /\ a % Blocks \in 0 .. Blocks - 1
         /\ ((a % Blocks) + 1) % Blocks = (a + 1) % Blocks
  <1>1. Blocks \in Nat /\ Blocks > 0
    BY Sizes
  <1>2. ASSUME NEW B \in Nat, B > 0, NEW q \in Nat, NEW r \in 0 .. B - 1
        PROVE  ((q * B) + r) % B = r
    BY <1>2
  <1>3. ASSUME NEW B \in Nat, B > 0, NEW q \in Nat, NEW r \in 0 .. B - 1
        PROVE  (r + 1) % B = (((q * B) + r) + 1) % B
    <2>1. CASE r + 1 < B
      <3>1. r + 1 \in 0 .. B - 1
        BY <1>3, <2>1
      <3>2. ((q * B) + (r + 1)) % B = r + 1
        BY <1>2, <1>3, <3>1
      <3>3. ((0 * B) + (r + 1)) % B = r + 1
        BY <1>2, <1>3, <3>1
      <3>4. ((q * B) + r) + 1 = (q * B) + (r + 1) /\ (0 * B) + (r + 1) = r + 1
        BY <1>3
      <3> QED BY <3>2, <3>3, <3>4
    <2>2. CASE r + 1 = B
      <3>1. 0 \in 0 .. B - 1 /\ q + 1 \in Nat
        BY <1>3
      <3>2. (((q + 1) * B) + 0) % B = 0
        BY <1>2, <1>3, <3>1
      <3>3. ((1 * B) + 0) % B = 0
        BY <1>2, <1>3, <3>1
      <3>4. ((q * B) + r) + 1 = ((q + 1) * B) + 0 /\ (1 * B) + 0 = r + 1
        BY <1>3, <2>2
      <3> QED BY <3>2, <3>3, <3>4
    <2> QED BY <1>3, <2>1, <2>2
  <1>4. /\ a % Blocks \in 0 .. Blocks - 1 /\ a \div Blocks \in Nat
        /\ a = ((a \div Blocks) * Blocks) + (a % Blocks)
    BY <1>1
  <1> DEFINE q == a \div Blocks
             r == a % Blocks
  <1> HIDE DEF q, r
  <1>5. q \in Nat /\ r \in 0 .. Blocks - 1 /\ a = (q * Blocks) + r
    BY <1>4 DEF q, r
  <1>6. (r + 1) % Blocks = (((q * Blocks) + r) + 1) % Blocks
    BY <1>1, <1>3, <1>5
  <1>7. (r + 1) % Blocks = (a + 1) % Blocks
    BY <1>5, <1>6
  <1> QED BY <1>4, <1>7 DEF r

-----------------------------------------------------------------------------
(* The channel.                                                            *)

Buffer == [0 .. Words - 1 -> Word]
Statuses == {"ready", "drq", "error"}

\* The sectors of an image, and what is beyond it, fill the buffer.
LEMMA SectorFills ==
  ASSUME NEW dk \in Disk(Word), NEW lba \in 0 .. Blocks - 1
  PROVE  SectorAt(dk, lba) \in Buffer /\ Blank \in Buffer
  <1>1. 0 \in Word
    BY Sizes DEF Word
  <1>2. Blank \in Buffer
    BY <1>1 DEF Blank, Buffer
  <1>3. lba < Sectors => lba \in 0 .. Sectors - 1
    BY Sizes
  <1> QED BY <1>2, <1>3 DEF SectorAt, Disk, Buffer

\* Channel d is channel c with another buffer (load_sector, BlankSector).
Loaded(c, d, b, p, l) ==
    /\ d \in IdeChannel(Word)
    /\ d.buf = b /\ d.pos = p /\ d.len = l
    /\ d.lba = c.lba /\ d.count = c.count /\ d.status = c.status /\ d.left = c.left
    /\ d.packet = c.packet /\ d.awaiting = c.awaiting

\* A channel with another buffer and place in it is a channel.
LEMMA LoadFacts ==
  ASSUME NEW c \in IdeChannel(Word), NEW b \in Buffer, NEW p \in 0 .. Words, NEW l \in 0 .. Words
  PROVE  Loaded(c, [c EXCEPT !.buf = b, !.pos = p, !.len = l], b, p, l)
  <1> DEFINE d == [c EXCEPT !.buf = b, !.pos = p, !.len = l]
  <1>1. d \in IdeChannel(Word)
    BY DEF IdeChannel, Buffer
  <1>2. /\ d.buf = b /\ d.pos = p /\ d.len = l
        /\ d.lba = c.lba /\ d.count = c.count /\ d.status = c.status /\ d.left = c.left
        /\ d.packet = c.packet
    BY DEF IdeChannel
  <1>3. d.awaiting = c.awaiting
    BY DEF IdeChannel
  <1> HIDE DEF d
  <1>4. Loaded(c, d, b, p, l)
    BY <1>1, <1>2, <1>3, Zenon DEF Loaded
  <1> QED BY <1>4 DEF d

\* Channel d is channel c with another count of sectors and another status.
Phased(c, d, n, st) ==
    /\ d \in IdeChannel(Word)
    /\ d.left = n /\ d.status = st
    /\ d.buf = c.buf /\ d.pos = c.pos /\ d.len = c.len
    /\ d.lba = c.lba /\ d.count = c.count /\ d.packet = c.packet /\ d.awaiting = c.awaiting

\* So is one with another count and status.
LEMMA CountFacts ==
  ASSUME NEW c \in IdeChannel(Word), NEW n \in 0 .. MaxCount, NEW st \in Statuses
  PROVE  Phased(c, [c EXCEPT !.left = n, !.status = st], n, st)
  <1> DEFINE d == [c EXCEPT !.left = n, !.status = st]
  <1>1. d \in IdeChannel(Word)
    BY DEF IdeChannel, Statuses
  <1>2. /\ d.left = n /\ d.status = st
        /\ d.buf = c.buf /\ d.pos = c.pos /\ d.len = c.len
        /\ d.lba = c.lba /\ d.count = c.count /\ d.packet = c.packet
    BY DEF IdeChannel
  <1>3. d.awaiting = c.awaiting
    BY DEF IdeChannel
  <1> HIDE DEF d
  <1>4. Phased(c, d, n, st)
    BY <1>1, <1>2, <1>3, Zenon DEF Phased
  <1> QED BY <1>4 DEF d

\* Channel d is channel c at the next address (advance_sector).
Advanced(c, d) ==
    /\ d \in IdeChannel(Word)
    /\ d.lba = (c.lba + 1) % Blocks
    /\ d.left = c.left /\ d.status = c.status /\ d.awaiting = c.awaiting

\* advance_sector moves the address on by one sector and wraps.
LEMMA AdvanceFacts ==
  ASSUME NEW c \in IdeChannel(Word)
  PROVE  Advanced(c, AdvanceSector(c))
  <1>1. c.lba \in Nat
    BY Sizes DEF IdeChannel
  <1>2. (c.lba + 1) % Blocks \in 0 .. Blocks - 1
    BY <1>1, NextAddress
  <1>3. PICK a \in 0 .. Blocks - 1 : a = (c.lba + 1) % Blocks
    BY <1>2
  <1> DEFINE d == [c EXCEPT !.lba = a]
  <1>4. AdvanceSector(c) = d
    BY <1>3 DEF AdvanceSector
  <1>5. d \in IdeChannel(Word)
    BY DEF IdeChannel
  <1>6. d.lba = a /\ d.left = c.left /\ d.status = c.status
    BY DEF IdeChannel
  <1>7. d.awaiting = c.awaiting
    BY DEF IdeChannel
  <1> HIDE DEF d
  <1>8. d.lba = (c.lba + 1) % Blocks
    BY <1>3, <1>6
  <1>9. Advanced(c, d)
    BY <1>5, <1>6, <1>7, <1>8, Zenon DEF Advanced
  <1> QED BY <1>4, <1>9

-----------------------------------------------------------------------------
(* The data port.                                                          *)

\* A word was moved: from c to d the buffer goes on, with contents b.
Moving(c, d, b) ==
    /\ Legal(d)
    /\ d.pos = c.pos + 1 /\ d.len = c.len - 1 /\ d.lba = c.lba /\ d.left = c.left
    /\ d.status = c.status /\ d.buf = b /\ d.awaiting = c.awaiting

\* A word moves the place in the buffer on and leaves the rest.
LEMMA MovedFacts ==
  ASSUME NEW c, Legal(c), c.len > 0, NEW b \in Buffer
  PROVE  Moving(c, Moved([c EXCEPT !.buf = b]), b)
  <1>1. c.pos \in 0 .. Words /\ c.len \in 0 .. Words /\ c.pos + c.len <= Words
        /\ c \in IdeChannel(Word)
    BY DEF Legal, IdeChannel
  <1>2. c.pos + 1 \in 0 .. Words /\ c.len - 1 \in 0 .. Words
    BY <1>1, Sizes
  <1> DEFINE d == Moved([c EXCEPT !.buf = b])
  <1>3. d = [c EXCEPT !.buf = b, !.pos = c.pos + 1, !.len = c.len - 1]
    BY <1>1 DEF Moved, IdeChannel
  <1> HIDE DEF d
  <1>4. Loaded(c, d, b, c.pos + 1, c.len - 1)
    BY <1>1, <1>2, <1>3, LoadFacts
  <1>5. Legal(d)
    BY <1>1, <1>4, Sizes DEF Legal, Loaded
  <1>6. Moving(c, d, b)
    BY <1>4, <1>5, Zenon DEF Moving, Loaded
  <1> QED BY <1>6 DEF d

\* What a word of data does: the sector goes on; or it is complete and a new
\* one is begun, in buffer b; or the data phase is over.
NewSector(c, d, b) ==
    /\ c.len = 1 /\ c.left > 1
    /\ d.pos = 0 /\ d.len = Words
    /\ d.lba = (c.lba + 1) % Blocks /\ d.left = c.left - 1 /\ d.status = "drq" /\ d.buf = b

Over(c, d) == c.len = 1 /\ c.left <= 1 /\ d.status = "ready"

\* A read of the data port moves on, loads the next sector, or ends the phase.
LEMMA ReadWord ==
  ASSUME NEW c, Legal(c), NEW dk \in Disk(Word), ~c.awaiting,
         NEW d, d = PioRead(c, dk)
  PROVE  /\ Legal(d) /\ ~d.awaiting
         /\ \/ c.len = 0 /\ d = c
            \/ c.len > 1 /\ Moving(c, d, c.buf)
            \/ NewSector(c, d, SectorAt(dk, d.lba))
            \/ Over(c, d)
  <1>1. /\ c \in IdeChannel(Word) /\ c.buf \in Buffer /\ c.len \in 0 .. Words
        /\ c.left \in 0 .. MaxCount /\ Words \in Nat
    BY Sizes DEF Legal, IdeChannel, Buffer
  <1>2. [c EXCEPT !.buf = c.buf] = c
    BY <1>1 DEF IdeChannel
  <1>3. CASE c.len = 0
    BY <1>3 DEF PioRead
  <1>4. CASE c.len > 1
    <2>1. Moving(c, Moved(c), c.buf)
      BY <1>1, <1>2, <1>4, MovedFacts
    <2>2. d = Moved(c)
      BY <1>1, <1>4 DEF PioRead
    <2> QED BY <1>4, <2>1, <2>2, Zenon DEF Moving
  <1>5. CASE c.len = 1 /\ c.left > 1
    <2>1. PICK n : n = AdvanceSector(c)
      OBVIOUS
    <2>2. Advanced(c, n)
      BY <1>1, <2>1, AdvanceFacts
    <2>3. PICK b \in Buffer : b = SectorAt(dk, n.lba)
      <3>1. n.lba \in 0 .. Blocks - 1
        BY <2>2 DEF Advanced, IdeChannel
      <3> QED BY <3>1, SectorFills
    <2>4. PICK e : e = LoadSector(n, dk, n.lba)
      OBVIOUS
    <2>5. e = [n EXCEPT !.buf = b, !.pos = 0, !.len = Words]
      BY <2>3, <2>4 DEF LoadSector, SectorAt
    <2>6. Loaded(n, e, b, 0, Words)
      <3>1. 0 \in 0 .. Words /\ Words \in 0 .. Words /\ n \in IdeChannel(Word)
        BY <1>1, <2>2 DEF Advanced
      <3> QED BY <2>5, <3>1, LoadFacts
    <2>7. PICK f : f = [e EXCEPT !.left = c.left - 1, !.status = "drq"]
      OBVIOUS
    <2>8. Phased(e, f, c.left - 1, "drq")
      <3>1. c.left - 1 \in 0 .. MaxCount /\ "drq" \in Statuses /\ e \in IdeChannel(Word)
        BY <1>1, <1>5, <2>6, Sizes DEF Loaded, Statuses
      <3> QED BY <2>7, <3>1, CountFacts
    <2>9. d = f
      <3>1. ~(c.len = 0) /\ ~(c.len > 1) /\ Moved(c).left = c.left
        BY <1>1, <1>5 DEF Moved, IdeChannel
      <3> QED BY <1>5, <2>1, <2>4, <2>7, <3>1 DEF PioRead, NextSector
    <2>10. Legal(f)
      BY <1>1, <2>6, <2>8 DEF Legal, Loaded, Phased
    <2>11. ~f.awaiting
      BY <2>2, <2>6, <2>8, Zenon DEF Advanced, Loaded, Phased
    <2>12. NewSector(c, f, SectorAt(dk, f.lba))
      <3>1. f.lba = n.lba /\ f.buf = b /\ f.pos = 0 /\ f.len = Words
            /\ f.left = c.left - 1 /\ f.status = "drq" /\ n.lba = (c.lba + 1) % Blocks
        BY <2>2, <2>6, <2>8, Zenon DEF Advanced, Loaded, Phased
      <3> QED BY <1>5, <2>3, <3>1 DEF NewSector
    <2> QED BY <2>9, <2>10, <2>11, <2>12
  <1>6. CASE c.len = 1 /\ ~(c.left > 1)
    <2>1. PICK e : e = Moved(c)
      OBVIOUS
    <2>2. Moving(c, e, c.buf)
      BY <1>1, <1>2, <1>6, <2>1, MovedFacts
    <2>3. Phased(e, [e EXCEPT !.left = 0, !.status = "ready"], 0, "ready")
      <3>1. 0 \in 0 .. MaxCount /\ "ready" \in Statuses /\ e \in IdeChannel(Word)
        BY <2>2, Sizes DEF Moving, Legal, Statuses
      <3> QED BY <3>1, CountFacts
    <2>4. d = [e EXCEPT !.left = 0, !.status = "ready"]
      <3>1. ~(c.len = 0) /\ ~(c.len > 1) /\ e.left = c.left
        BY <1>1, <1>6, <2>2 DEF Moving
      <3> QED BY <1>6, <2>1, <3>1 DEF PioRead, NextSector
    <2>5. Phased(e, d, 0, "ready")
      BY <2>3, <2>4
    <2>6. Legal(d) /\ d.status = "ready"
      BY <2>2, <2>5 DEF Moving, Legal, Phased
    <2>7. ~d.awaiting
      BY <2>2, <2>5, Zenon DEF Moving, Phased
    <2> QED BY <1>1, <1>6, <2>6, <2>7 DEF Over
  <1> QED BY <1>1, <1>3, <1>4, <1>5, <1>6

\* The buffer with a word put at its position.
Put(c, word) == [c.buf EXCEPT ![c.pos] = word]

\* A word is put into the buffer at the place, and the place moves on.
LEMMA PlacedFacts ==
  ASSUME NEW c, Legal(c), c.len > 0, NEW word \in Word
  PROVE  Put(c, word) \in Buffer /\ Moving(c, Placed(c, word), Put(c, word))
  <1>1. /\ c \in IdeChannel(Word) /\ c.buf \in Buffer /\ c.len \in 0 .. Words
        /\ c.pos \in 0 .. Words /\ c.pos + c.len <= Words /\ Words \in Nat
    BY Sizes DEF Legal, IdeChannel, Buffer
  <1>2. c.pos < Words
    BY <1>1
  <1>3. Put(c, word) \in Buffer
    BY <1>1 DEF Put, Buffer
  <1>4. Placed(c, word) = Moved([c EXCEPT !.buf = Put(c, word)])
    BY <1>2 DEF Placed, Put
  <1> QED BY <1>3, <1>4, MovedFacts

\* A write of the data port moves on, begins a new sector, or ends the phase.
LEMMA WriteWord ==
  ASSUME NEW c, Legal(c), c.len > 0, ~c.awaiting, NEW word \in Word,
         NEW d, d = PioWrite(c, word)
  PROVE  /\ Legal(d) /\ ~d.awaiting
         /\ \/ c.len > 1 /\ Moving(c, d, Put(c, word))
            \/ NewSector(c, d, Blank)
            \/ Over(c, d)
  <1>1. /\ c \in IdeChannel(Word) /\ c.len \in 0 .. Words
        /\ c.left \in 0 .. MaxCount /\ Words \in Nat /\ ~(c.len = 0)
    BY Sizes DEF Legal, IdeChannel
  <1>2. PICK e : e = Placed(c, word)
    OBVIOUS
  <1>3. Moving(c, e, Put(c, word))
    BY <1>2, PlacedFacts
  <1>4. e \in IdeChannel(Word) /\ e.left = c.left
    BY <1>3 DEF Moving, Legal
  <1>5. CASE c.len > 1
    <2>1. d = e
      BY <1>1, <1>2, <1>5 DEF PioWrite
    <2> QED BY <1>3, <1>5, <2>1, Zenon DEF Moving
  <1>6. CASE c.len = 1 /\ c.left > 1
    <2>1. PICK n : n = AdvanceSector(c)
      OBVIOUS
    <2>2. Advanced(c, n)
      BY <1>1, <2>1, AdvanceFacts
    <2>3. PICK f : f = BlankSector(n)
      OBVIOUS
    <2>4. Loaded(n, f, Blank, 0, Words)
      <3>1. 0 \in 0 .. Words /\ Words \in 0 .. Words /\ n \in IdeChannel(Word)
        BY <1>1, <2>2 DEF Advanced
      <3>2. Blank \in Buffer
        <4>1. n.lba \in 0 .. Blocks - 1
          BY <2>2 DEF Advanced, IdeChannel
        <4>2. 0 \in Word
          BY Sizes DEF Word
        <4> QED BY <4>2 DEF Blank, Buffer
      <3> QED BY <2>3, <3>1, <3>2, LoadFacts DEF BlankSector
    <2>5. PICK g : g = [f EXCEPT !.left = c.left - 1, !.status = "drq"]
      OBVIOUS
    <2>6. Phased(f, g, c.left - 1, "drq")
      <3>1. c.left - 1 \in 0 .. MaxCount /\ "drq" \in Statuses /\ f \in IdeChannel(Word)
        BY <1>1, <1>6, <2>4, Sizes DEF Loaded, Statuses
      <3> QED BY <2>5, <3>1, CountFacts
    <2>7. d = g
      <3>1. ~(c.len > 1) /\ e.left > 1 /\ e.left - 1 = c.left - 1
        BY <1>1, <1>4, <1>6
      <3> QED BY <1>1, <1>2, <2>1, <2>3, <2>5, <3>1 DEF PioWrite, NextSector
    <2>8. Legal(g)
      BY <1>1, <2>4, <2>6 DEF Legal, Loaded, Phased
    <2>9. ~g.awaiting
      BY <2>2, <2>4, <2>6, Zenon DEF Advanced, Loaded, Phased
    <2>10. NewSector(c, g, Blank)
      <3>1. g.lba = n.lba /\ g.buf = Blank /\ g.pos = 0 /\ g.len = Words
            /\ g.left = c.left - 1 /\ g.status = "drq" /\ n.lba = (c.lba + 1) % Blocks
        BY <2>2, <2>4, <2>6, Zenon DEF Advanced, Loaded, Phased
      <3> QED BY <1>6, <3>1 DEF NewSector
    <2> QED BY <2>7, <2>8, <2>9, <2>10
  <1>7. CASE c.len = 1 /\ ~(c.left > 1)
    <2>1. d = [e EXCEPT !.left = 0, !.status = "ready"]
      <3>1. ~(c.len > 1) /\ ~(e.left > 1)
        BY <1>1, <1>4, <1>7
      <3> QED BY <1>1, <1>2, <3>1 DEF PioWrite, NextSector
    <2>2. Phased(e, d, 0, "ready")
      <3>1. 0 \in 0 .. MaxCount /\ "ready" \in Statuses
        BY Sizes DEF Statuses
      <3>2. Phased(e, [e EXCEPT !.left = 0, !.status = "ready"], 0, "ready")
        BY <1>4, <3>1, CountFacts
      <3> QED BY <2>1, <3>2
    <2>3. Legal(d) /\ d.status = "ready"
      BY <1>3, <2>2 DEF Moving, Legal, Phased
    <2>4. ~d.awaiting
      BY <1>3, <2>2, Zenon DEF Moving, Phased
    <2> QED BY <1>1, <1>7, <2>3, <2>4 DEF Over
  <1> QED BY <1>1, <1>5, <1>6, <1>7

-----------------------------------------------------------------------------
(* Transfers.                                                              *)

\* The guest counts the words it moved.
LEMMA CountWord ==
  ASSUME xfer \in Transfers, xfer' = [xfer EXCEPT !.done = @ + 1]
  PROVE  /\ xfer' \in Transfers /\ xfer'.dir = xfer.dir /\ xfer'.first = xfer.first
         /\ xfer'.count = xfer.count /\ xfer'.before = xfer.before
         /\ xfer'.done = xfer.done + 1
  BY DEF Transfers

\* The guest's words fit the image's alphabet.
LEMMA GuestWords ==
  ASSUME NEW turns \in Nat, turns < MaxCount, NEW pos \in 0 .. Words - 1
  PROVE  GuestWord(turns * Words + pos) \in Word
  <1>1. turns * Words + pos \in Nat /\ turns * Words + pos < MaxCount * Words
        /\ MaxCount * Words \in Nat
    BY Sizes, TurnBound, WordOfTurn
  <1>2. Sectors * Words \in Nat
    BY Sizes
  <1>3. ASSUME NEW a \in Nat, NEW b \in Nat, NEW k \in Nat, k < b
        PROVE  a + k + 1 \in 0 .. a + b + 1
    BY <1>3
  <1> QED BY <1>1, <1>2, <1>3 DEF GuestWord, Word

\* Sector number turns of a write was stored: it is the last one written at
\* its address, and no other address changed.
LEMMA StoredSector ==
  ASSUME NEW turns \in Nat, NEW s \in 0 .. Sectors - 1,
         xfer'.first = xfer.first, xfer'.before = xfer.before,
         disk \in Disk(Word), NEW sector,
         sector = [j \in 0 .. Words - 1 |-> GuestWord(turns * Words + j)],
         disk' = IF At(turns) < Sectors THEN [disk EXCEPT ![At(turns)] = sector] ELSE disk,
         Written(s, turns)
  PROVE  Written(s, turns + 1)'
  <1>1. \A i : At(i)' = At(i)
    BY DEF At
  <1>2. 0 .. (turns + 1) - 1 = (0 .. turns - 1) \cup {turns}
    OBVIOUS
  <1>3. DOMAIN disk = 0 .. Sectors - 1
    BY DEF Disk
  <1> DEFINE now == {i \in 0 .. turns - 1 : At(i) = s}
             next == {i \in 0 .. (turns + 1) - 1 : At(i) = s}
  <1>4. Written(s, turns + 1)' <=>
          IF next = {} THEN disk'[s] = xfer.before[s]
          ELSE \E i \in next : /\ \A k \in next : k <= i
                               /\ disk'[s] = [j \in 0 .. Words - 1 |-> GuestWord(i * Words + j)]
    BY <1>1 DEF Written
  <1>5. Written(s, turns) <=>
          IF now = {} THEN disk[s] = xfer.before[s]
          ELSE \E i \in now : /\ \A k \in now : k <= i
                              /\ disk[s] = [j \in 0 .. Words - 1 |-> GuestWord(i * Words + j)]
    BY DEF Written
  <1>6. CASE At(turns) = s
    <2>1. turns \in next /\ \A k \in next : k <= turns
      BY <1>2, <1>6
    <2>2. disk'[s] = sector
      BY <1>3, <1>6, Sizes
    <2> QED BY <1>4, <2>1, <2>2
  <1>7. CASE At(turns) # s
    <2>1. next = now
      BY <1>2, <1>7
    <2>2. disk'[s] = disk[s]
      BY <1>3, <1>7
    <2> HIDE DEF next, now
    <2> QED BY <1>4, <1>5, <2>1, <2>2
  <1> QED BY <1>6, <1>7

\* A sector stays written while the image and the command stay.
LEMMA SameSector ==
  ASSUME NEW turns, NEW s, xfer'.first = xfer.first, xfer'.before = xfer.before, disk' = disk,
         Written(s, turns)
  PROVE  Written(s, turns)'
  <1>1. \A i : At(i)' = At(i)
    BY DEF At
  <1> DEFINE now == {i \in 0 .. turns - 1 : At(i) = s}
  <1>2. Written(s, turns)' <=>
          IF now = {} THEN disk'[s] = xfer.before[s]
          ELSE \E i \in now : /\ \A k \in now : k <= i
                              /\ disk'[s] = [j \in 0 .. Words - 1 |-> GuestWord(i * Words + j)]
    BY <1>1 DEF Written
  <1> QED BY <1>2 DEF Written

\* A word written to the data port: the sector is stored when it is complete.
LEMMA DataOutKeeps ==
  ASSUME DiskInv, DataOut
  PROVE  DiskInv'
  <1>1. /\ ide.status = "drq" /\ ~ide.awaiting /\ xfer.dir = "out"
        /\ ide' = PioWrite(ide, GuestWord(xfer.done))
        /\ disk' = PioStored(ide, disk, GuestWord(xfer.done))
        /\ xfer' = [xfer EXCEPT !.done = @ + 1]
    BY DEF DataOut, Idle
  <1>2. /\ Legal(ide) /\ disk \in Disk(Word) /\ xfer \in Transfers
        /\ ide.pos \in 0 .. Words /\ ide.len \in 0 .. Words /\ ide.buf \in Buffer
        /\ ide.lba \in 0 .. Blocks - 1 /\ ide.left \in 0 .. MaxCount
        /\ xfer.count \in 0 .. MaxCount /\ xfer.first \in 0 .. Blocks - 1 /\ xfer.done \in Nat
    BY DEF DiskInv, IdeInv, Legal, IdeChannel, Transfers, Buffer
  <1>3. PICK turns \in 0 .. xfer.count :
            /\ \A s \in 0 .. Sectors - 1 : Written(s, turns)
            /\ UnderWay(turns)
            /\ ide.left = xfer.count - turns /\ ide.left > 0
            /\ \A j \in 0 .. ide.pos - 1 : ide.buf[j] = GuestWord(turns * Words + j)
    BY <1>1 DEF DiskInv, OutInv, Idle
  <1>4. /\ ide.pos + ide.len = Words /\ ide.len > 0 /\ ide.pos \in 0 .. Words - 1
        /\ xfer.done = turns * Words + ide.pos /\ ide.lba = At(turns)
        /\ turns \in Nat /\ turns < xfer.count /\ turns < MaxCount
    BY <1>2, <1>3, Sizes DEF UnderWay
  <1> DEFINE word == GuestWord(xfer.done)
  <1>5. word \in Word
    BY <1>4, GuestWords
  <1> HIDE DEF word
  <1>6. /\ Legal(ide') /\ ~ide'.awaiting
        /\ \/ ide.len > 1 /\ Moving(ide, ide', Put(ide, word))
           \/ NewSector(ide, ide', Blank)
           \/ Over(ide, ide')
    <2>1. ide' = PioWrite(ide, word)
      BY <1>1 DEF word
    <2> QED BY <1>1, <1>2, <1>4, <1>5, <2>1, WriteWord
  <1>7. Put(ide, word) \in Buffer /\ Moving(ide, Placed(ide, word), Put(ide, word))
    BY <1>2, <1>4, <1>5, PlacedFacts
  <1>8. /\ ide.len # 1 => disk' = disk
        /\ ide.len = 1 => disk' = IF At(turns) < Sectors
                                  THEN [disk EXCEPT ![At(turns)] = Put(ide, word)] ELSE disk
    <2>1. disk' = PioStored(ide, disk, word)
      BY <1>1 DEF word
    <2>2. Placed(ide, word).lba = At(turns) /\ Placed(ide, word).buf = Put(ide, word)
      BY <1>4, <1>7 DEF Moving
    <2> QED BY <2>1, <2>2 DEF PioStored, StoreSector
  <1>9. disk' \in Disk(Word)
    <2>1. ASSUME NEW a, NEW b \in Buffer PROVE [disk EXCEPT ![a] = b] \in Disk(Word)
      BY <1>2 DEF Disk, Buffer
    <2> QED BY <1>2, <1>7, <1>8, <2>1
  <1>10. /\ xfer' \in Transfers /\ xfer'.dir = "out" /\ xfer'.first = xfer.first
         /\ xfer'.count = xfer.count /\ xfer'.before = xfer.before
         /\ xfer'.done = xfer.done + 1
    BY <1>1, <1>2, CountWord
  <1>11. IdeInv'
    BY <1>6, <1>9, <1>10 DEF IdeInv
  <1>12. \A j \in 0 .. ide.pos : Put(ide, word)[j] = GuestWord(turns * Words + j)
    <2> TAKE j \in 0 .. ide.pos
    <2>1. CASE j = ide.pos
      BY <1>2, <1>4, <2>1 DEF Put, word, Buffer
    <2>2. CASE j # ide.pos
      <3>1. j \in 0 .. ide.pos - 1
        BY <1>4, <2>2
      <3>2. Put(ide, word)[j] = ide.buf[j]
        BY <1>2, <1>4, <2>2, <3>1 DEF Put, Buffer
      <3> QED BY <1>3, <3>1, <3>2
    <2> QED BY <2>1, <2>2
  <1>13. \A i : At(i)' = At(i)
    BY <1>10 DEF At
  <1>14. ASSUME ide.len > 1, Moving(ide, ide', Put(ide, word))
         PROVE  OutInv'
    <2>1. /\ ide'.pos = ide.pos + 1 /\ ide'.len = ide.len - 1 /\ ide'.lba = ide.lba
          /\ ide'.left = ide.left /\ ide'.status = ide.status /\ ide'.buf = Put(ide, word)
      BY <1>14 DEF Moving
    <2>2. \A s \in 0 .. Sectors - 1 : Written(s, turns)'
      <3>1. disk' = disk
        BY <1>2, <1>8, <1>14
      <3> QED BY <1>3, <1>10, <3>1, SameSector
    <2>3. UnderWay(turns)'
      <3>1. turns * Words \in Nat
        BY <1>4, Sizes
      <3>2. xfer'.done = turns * Words + ide'.pos
        BY <1>4, <1>10, <2>1, <3>1
      <3>3. ide'.pos + ide'.len = Words /\ ide'.len > 0
        BY <1>2, <1>4, <1>14, <2>1
      <3>4. ide'.lba = At(turns)'
        BY <1>4, <1>13, <2>1
      <3> QED BY <3>2, <3>3, <3>4 DEF UnderWay
    <2>4. \A j \in 0 .. ide'.pos - 1 : ide'.buf[j] = GuestWord(turns * Words + j)
      BY <1>2, <1>12, <2>1
    <2>5. ~Idle'
      BY <1>1, <2>1 DEF Idle
    <2>6. turns \in 0 .. xfer'.count /\ ide'.left = xfer'.count - turns /\ ide'.left > 0
      BY <1>3, <1>10, <2>1
    <2> QED BY <2>2, <2>3, <2>4, <2>5, <2>6 DEF OutInv
  <1>15. ASSUME ide.len = 1
         PROVE  /\ \A s \in 0 .. Sectors - 1 : Written(s, turns + 1)'
                /\ xfer'.done = (turns + 1) * Words
    <2>1. ide.pos = Words - 1
      BY <1>2, <1>4, <1>15, Sizes
    <2>2. Put(ide, word) = [j \in 0 .. Words - 1 |-> GuestWord(turns * Words + j)]
      BY <1>7, <1>12, <2>1 DEF Buffer
    <2>3. \A s \in 0 .. Sectors - 1 : Written(s, turns + 1)'
      BY <1>2, <1>3, <1>4, <1>8, <1>10, <1>15, <2>2, StoredSector
    <2>4. xfer'.done = (turns + 1) * Words
      BY <1>4, <1>10, <2>1, Sizes
    <2> QED BY <2>3, <2>4
  <1>16. ASSUME NewSector(ide, ide', Blank)
         PROVE  OutInv'
    <2>1. /\ ide.len = 1 /\ ide.left > 1 /\ ide'.pos = 0 /\ ide'.len = Words
          /\ ide'.lba = (ide.lba + 1) % Blocks /\ ide'.left = ide.left - 1 /\ ide'.status = "drq"
      BY <1>16 DEF NewSector
    <2>2. At(turns + 1) = (ide.lba + 1) % Blocks
      <3>1. xfer.first + turns \in Nat /\ xfer.first + (turns + 1) = (xfer.first + turns) + 1
        BY <1>2, <1>4
      <3>2. (((xfer.first + turns) % Blocks) + 1) % Blocks = ((xfer.first + turns) + 1) % Blocks
        BY <3>1, NextAddress
      <3> QED BY <1>4, <3>1, <3>2 DEF At
    <2>3. UnderWay(turns + 1)'
      <3>1. (turns + 1) * Words \in Nat
        BY <1>4, Sizes
      <3> QED BY <1>13, <1>15, <2>1, <2>2, <3>1, Sizes DEF UnderWay
    <2>4. turns + 1 \in 0 .. xfer'.count /\ ide'.left = xfer'.count - (turns + 1) /\ ide'.left > 0
      BY <1>2, <1>3, <1>4, <1>10, <2>1
    <2>5. \A j \in 0 .. ide'.pos - 1 : ide'.buf[j] = GuestWord((turns + 1) * Words + j)
      BY <2>1
    <2>6. ~Idle'
      BY <2>1 DEF Idle
    <2> QED BY <1>15, <2>1, <2>3, <2>4, <2>5, <2>6 DEF OutInv
  <1>17. ASSUME Over(ide, ide')
         PROVE  OutInv'
    <2>1. ide.len = 1 /\ ide.left <= 1 /\ ide'.status = "ready"
      BY <1>17 DEF Over
    <2>2. turns + 1 \in 0 .. xfer'.count /\ turns + 1 = xfer'.count
      BY <1>2, <1>3, <1>4, <1>10, <2>1
    <2>3. Idle'
      BY <2>1 DEF Idle
    <2> QED BY <1>15, <2>1, <2>2, <2>3 DEF OutInv
  <1>18. InInv'
    BY <1>10 DEF InInv
  <1> QED BY <1>6, <1>11, <1>14, <1>16, <1>17, <1>18 DEF DiskInv

\* A word read from the data port is the next one that was asked for.
LEMMA DataInKeeps ==
  ASSUME DiskInv, DataIn
  PROVE  DiskInv'
  <1>1. /\ ide.status = "drq" /\ ~ide.awaiting /\ xfer.dir # "out"
        /\ ide' = PioRead(ide, disk) /\ disk' = disk
        /\ xfer' = IF xfer.dir = "in" THEN [xfer EXCEPT !.done = @ + 1] ELSE xfer
    BY DEF DataIn, Idle, besideDisk
  <1>2. /\ Legal(ide) /\ disk \in Disk(Word) /\ xfer \in Transfers
        /\ ide.pos \in 0 .. Words /\ ide.len \in 0 .. Words
        /\ ide.lba \in 0 .. Blocks - 1 /\ ide.left \in 0 .. MaxCount
        /\ xfer.count \in 0 .. MaxCount /\ xfer.first \in 0 .. Blocks - 1 /\ xfer.done \in Nat
    BY DEF DiskInv, IdeInv, Legal, IdeChannel, Transfers
  <1>3. /\ Legal(ide') /\ ~ide'.awaiting
        /\ \/ ide.len = 0 /\ ide' = ide
           \/ ide.len > 1 /\ Moving(ide, ide', ide.buf)
           \/ NewSector(ide, ide', SectorAt(disk, ide'.lba))
           \/ Over(ide, ide')
    BY <1>1, <1>2, ReadWord
  <1>4. xfer.dir = "in" =>
          /\ xfer' \in Transfers /\ xfer'.dir = "in" /\ xfer'.first = xfer.first
          /\ xfer'.count = xfer.count /\ xfer'.done = xfer.done + 1
    BY <1>1, <1>2, CountWord
  <1>5. xfer' \in Transfers /\ xfer'.dir = xfer.dir
    BY <1>1, <1>2, <1>4
  <1>6. IdeInv'
    BY <1>1, <1>2, <1>3, <1>5 DEF IdeInv
  <1>7. OutInv'
    BY <1>1, <1>5 DEF OutInv
  <1>8. ASSUME xfer.dir = "in" PROVE InInv'
    <2>1. PICK turns \in 0 .. xfer.count :
              UnderWay(turns) /\ turns + ide.left < xfer.count /\ ide.buf = SectorAt(disk, ide.lba)
      BY <1>1, <1>8 DEF DiskInv, InInv, Idle
    <2>2. /\ ide.pos + ide.len = Words /\ ide.len > 0
          /\ xfer.done = turns * Words + ide.pos /\ ide.lba = At(turns)
          /\ turns \in Nat
      BY <1>2, <2>1 DEF UnderWay
    <2>3. \A i : At(i)' = At(i)
      BY <1>4, <1>8 DEF At
    <2>4. turns * Words \in Nat /\ (turns + 1) * Words = turns * Words + Words
      BY <2>2, Sizes
    <2>5. ASSUME ide.len > 1, Moving(ide, ide', ide.buf)
          PROVE  InInv'
      <3>1. /\ ide'.pos = ide.pos + 1 /\ ide'.len = ide.len - 1 /\ ide'.lba = ide.lba
            /\ ide'.left = ide.left /\ ide'.buf = ide.buf
        BY <2>5 DEF Moving
      <3>2. xfer'.done = turns * Words + ide'.pos
        BY <1>2, <1>4, <1>8, <2>2, <2>4, <3>1
      <3>3. ide'.pos + ide'.len = Words /\ ide'.len > 0
        <4>1. ide.pos \in Nat /\ ide.len \in Nat /\ ide.len > 1 /\ ide.pos + ide.len = Words
          BY <1>2, <2>2, <2>5, Sizes
        <4>2. ide'.pos = ide.pos + 1 /\ ide'.len = ide.len - 1
          BY <3>1
        <4> QED BY <4>1, <4>2
      <3>4. ide'.lba = At(turns)'
        BY <2>2, <2>3, <3>1
      <3>5. UnderWay(turns)'
        BY <3>2, <3>3, <3>4 DEF UnderWay
      <3>6. turns \in 0 .. xfer'.count /\ turns + ide'.left < xfer'.count
        BY <1>4, <1>8, <2>1, <3>1
      <3>7. ide'.buf = SectorAt(disk', ide'.lba)
        BY <1>1, <2>1, <3>1
      <3> QED BY <3>5, <3>6, <3>7 DEF InInv
    <2>6. ASSUME NewSector(ide, ide', SectorAt(disk, ide'.lba))
          PROVE  InInv'
      <3>1. /\ ide.len = 1 /\ ide.left > 1 /\ ide'.pos = 0 /\ ide'.len = Words
            /\ ide'.lba = (ide.lba + 1) % Blocks /\ ide'.left = ide.left - 1
            /\ ide'.buf = SectorAt(disk, ide'.lba)
        BY <2>6 DEF NewSector
      <3>2. At(turns + 1) = (ide.lba + 1) % Blocks
        <4>1. xfer.first + turns \in Nat /\ xfer.first + (turns + 1) = (xfer.first + turns) + 1
          BY <1>2, <2>2
        <4>2. (((xfer.first + turns) % Blocks) + 1) % Blocks = ((xfer.first + turns) + 1) % Blocks
          BY <4>1, NextAddress
        <4> QED BY <2>2, <4>1, <4>2 DEF At
      <3>3. xfer'.done = (turns + 1) * Words + ide'.pos
        <4>1. ide.pos = Words - 1
          BY <1>2, <2>2, <3>1, Sizes
        <4> QED BY <1>2, <1>4, <1>8, <2>2, <2>4, <3>1, <4>1, Sizes
      <3>4. UnderWay(turns + 1)'
        BY <2>3, <3>1, <3>2, <3>3, Sizes DEF UnderWay
      <3>5. turns + 1 \in 0 .. xfer'.count /\ (turns + 1) + ide'.left < xfer'.count
        BY <1>2, <1>4, <1>8, <2>1, <2>2, <3>1
      <3>6. ide'.buf = SectorAt(disk', ide'.lba)
        BY <1>1, <3>1
      <3> QED BY <3>4, <3>5, <3>6 DEF InInv
    <2>7. ASSUME Over(ide, ide') PROVE InInv'
      BY <2>7 DEF Over, InInv, Idle
    <2> QED BY <1>3, <2>2, <2>5, <2>6, <2>7
  <1>9. InInv'
    BY <1>5, <1>8 DEF InInv
  <1> QED BY <1>6, <1>7, <1>9 DEF DiskInv

-----------------------------------------------------------------------------
(* Commands.                                                               *)

\* A channel that expects no data waits for no packet either.
LEMMA IdleFacts ==
  ASSUME DiskInv, Idle
  PROVE  ~ide.awaiting
  BY DEF DiskInv, IdeInv, Idle

\* One register is written.
LEMMA BeginFacts ==
  ASSUME NEW c \in IdeChannel(Word), NEW st \in Statuses
  PROVE  Phased(c, Begin(c, st), c.left, st)
  <1>1. [c EXCEPT !.left = c.left, !.status = st] = [c EXCEPT !.status = st]
    BY DEF IdeChannel
  <1>2. c.left \in 0 .. MaxCount
    BY DEF IdeChannel
  <1>3. Phased(c, [c EXCEPT !.left = c.left, !.status = st], c.left, st)
    BY <1>2, CountFacts
  <1> QED BY <1>1, <1>3 DEF Begin

\* A channel with another sectors_left is a channel.
LEMMA LeftFacts ==
  ASSUME NEW c \in IdeChannel(Word), NEW n \in 0 .. MaxCount
  PROVE  Phased(c, [c EXCEPT !.left = n], n, c.status)
  <1>1. [c EXCEPT !.left = n, !.status = c.status] = [c EXCEPT !.left = n]
    BY DEF IdeChannel
  <1>2. c.status \in Statuses
    BY DEF IdeChannel, Statuses
  <1>3. Phased(c, [c EXCEPT !.left = n, !.status = c.status], n, c.status)
    BY <1>2, CountFacts
  <1> QED BY <1>1, <1>3

\* A command with data: the status is drq, the buffer b, and n sectors are
\* counted.
DataPhase(c, d, b, n) ==
    /\ Legal(d) /\ d.status = "drq" /\ d.buf = b /\ d.pos = 0 /\ d.len = Words
    /\ d.lba = c.lba /\ d.left = n /\ d.awaiting = c.awaiting

\* A command begins its data phase with a whole buffer.
LEMMA DataCommand ==
  ASSUME NEW c \in IdeChannel(Word), NEW b \in Buffer, NEW n \in 0 .. MaxCount,
         NEW d, d = [[Begin(c, "drq") EXCEPT !.buf = b, !.pos = 0, !.len = Words] EXCEPT !.left = n]
  PROVE  DataPhase(c, d, b, n)
  <1>1. PICK e : e = Begin(c, "drq")
    OBVIOUS
  <1>2. Phased(c, e, c.left, "drq")
    BY <1>1, BeginFacts DEF Statuses
  <1>3. PICK f : f = [e EXCEPT !.buf = b, !.pos = 0, !.len = Words]
    OBVIOUS
  <1>4. Loaded(e, f, b, 0, Words)
    <2>1. 0 \in 0 .. Words /\ Words \in 0 .. Words /\ e \in IdeChannel(Word)
      BY <1>2, Sizes DEF Phased
    <2> QED BY <1>3, <2>1, LoadFacts
  <1>5. Phased(f, d, n, f.status)
    <2>1. d = [f EXCEPT !.left = n] /\ f \in IdeChannel(Word)
      BY <1>1, <1>3, <1>4 DEF Loaded
    <2> QED BY <2>1, LeftFacts
  <1>6. Legal(d)
    BY <1>4, <1>5, Sizes DEF Loaded, Phased, Legal
  <1> QED BY <1>2, <1>4, <1>5, <1>6, Zenon DEF Phased, Loaded, DataPhase

\* What the guest asked for, and how many sectors that is.
LEMMA TransferFacts ==
  ASSUME DiskInv, NEW dir \in {"in", "out"}
  PROVE  /\ Sectors0(ide) \in 1 .. MaxCount
         /\ Transfer(dir, Sectors0(ide)) \in Transfers
  <1>1. ide.count \in 0 .. MaxCount /\ ide.lba \in 0 .. Blocks - 1 /\ disk \in Disk(Word)
    BY DEF DiskInv, IdeInv, Legal, IdeChannel
  <1>2. Sectors0(ide) \in 1 .. MaxCount
    BY <1>1, Sizes DEF Sectors0
  <1>3. PICK n \in 0 .. MaxCount : n = Sectors0(ide)
    BY <1>2
  <1> QED BY <1>1, <1>2, <1>3 DEF Transfer, Transfers

\* READ SECTORS loads the first sector.
LEMMA ReadCommandKeeps ==
  ASSUME DiskInv, ReadCommand
  PROVE  DiskInv'
  <1>1. /\ Idle /\ ide' = ReadSectors(ide, disk) /\ disk' = disk
        /\ xfer' = Transfer("in", Sectors0(ide))
    BY DEF ReadCommand, besideDisk
  <1>2. /\ ide \in IdeChannel(Word) /\ disk \in Disk(Word) /\ ide.lba \in 0 .. Blocks - 1
        /\ ~ide.awaiting
    BY <1>1, IdleFacts DEF DiskInv, IdeInv, Legal, IdeChannel
  <1>3. PICK n \in 1 .. MaxCount : n = Sectors0(ide) /\ xfer' = Transfer("in", n)
    BY <1>1, TransferFacts
  <1>4. PICK b \in Buffer : b = SectorAt(disk, ide.lba)
    BY <1>2, SectorFills
  <1>5. ide' = [[Begin(ide, "drq") EXCEPT !.buf = b, !.pos = 0, !.len = Words]
                  EXCEPT !.left = n - 1]
    BY <1>1, <1>3, <1>4 DEF ReadSectors, LoadSector, SectorAt
  <1>6. DataPhase(ide, ide', b, n - 1)
    <2>1. n - 1 \in 0 .. MaxCount
      BY Sizes
    <2> QED BY <1>2, <1>5, <2>1, DataCommand
  <1>7. xfer' \in Transfers
    BY <1>1, TransferFacts
  <1>8. xfer'.dir = "in" /\ xfer'.first = ide.lba /\ xfer'.count = n /\ xfer'.done = 0
    BY <1>3 DEF Transfer
  <1>9. ~ide'.awaiting /\ Legal(ide')
    BY <1>2, <1>6, Zenon DEF DataPhase
  <1>10. IdeInv'
    BY <1>1, <1>2, <1>7, <1>9, Zenon DEF IdeInv
  <1>11. OutInv'
    BY <1>8 DEF OutInv
  <1>12. UnderWay(0)'
    <2>1. ide'.pos = 0 /\ ide'.len = Words /\ ide'.lba = ide.lba
      BY <1>6 DEF DataPhase
    <2>2. (ide.lba + 0) % Blocks = ide.lba
      BY <1>2, Sizes
    <2> QED BY <1>8, <2>1, <2>2, Sizes DEF UnderWay, At
  <1>13. 0 \in 0 .. xfer'.count /\ 0 + ide'.left < xfer'.count
    BY <1>6, <1>8 DEF DataPhase
  <1>14. ide'.buf = SectorAt(disk', ide'.lba)
    BY <1>1, <1>4, <1>6 DEF DataPhase
  <1>15. InInv'
    BY <1>12, <1>13, <1>14 DEF InInv
  <1> QED BY <1>10, <1>11, <1>15 DEF DiskInv

\* WRITE SECTORS waits for the first word.
LEMMA WriteCommandKeeps ==
  ASSUME DiskInv, WriteCommand
  PROVE  DiskInv'
  <1>1. /\ Idle /\ ide' = WriteSectors(ide) /\ disk' = disk
        /\ xfer' = Transfer("out", Sectors0(ide))
    BY DEF WriteCommand, besideDisk
  <1>2. /\ ide \in IdeChannel(Word) /\ disk \in Disk(Word) /\ ide.lba \in 0 .. Blocks - 1
        /\ ~ide.awaiting
    BY <1>1, IdleFacts DEF DiskInv, IdeInv, Legal, IdeChannel
  <1>3. PICK n \in 1 .. MaxCount : n = Sectors0(ide) /\ xfer' = Transfer("out", n)
    BY <1>1, TransferFacts
  <1>4. Blank \in Buffer
    BY <1>2, SectorFills
  <1>5. ide' = [[Begin(ide, "drq") EXCEPT !.buf = Blank, !.pos = 0, !.len = Words]
                  EXCEPT !.left = n]
    BY <1>1, <1>3 DEF WriteSectors, BlankSector
  <1>6. DataPhase(ide, ide', Blank, n)
    <2>1. n \in 0 .. MaxCount
      BY Sizes
    <2> QED BY <1>2, <1>4, <1>5, <2>1, DataCommand
  <1>7. xfer' \in Transfers
    BY <1>1, TransferFacts
  <1>8. /\ xfer'.dir = "out" /\ xfer'.first = ide.lba /\ xfer'.count = n /\ xfer'.done = 0
        /\ xfer'.before = disk
    BY <1>3 DEF Transfer
  <1>9. ~ide'.awaiting /\ Legal(ide')
    BY <1>2, <1>6, Zenon DEF DataPhase
  <1>10. IdeInv'
    BY <1>1, <1>2, <1>7, <1>9, Zenon DEF IdeInv
  <1>11. InInv'
    BY <1>8 DEF InInv
  <1>12. UnderWay(0)'
    <2>1. ide'.pos = 0 /\ ide'.len = Words /\ ide'.lba = ide.lba
      BY <1>6 DEF DataPhase
    <2>2. (ide.lba + 0) % Blocks = ide.lba
      BY <1>2, Sizes
    <2> QED BY <1>8, <2>1, <2>2, Sizes DEF UnderWay, At
  <1>13. \A s \in 0 .. Sectors - 1 : Written(s, 0)'
    <2>1. 0 .. 0 - 1 = {}
      OBVIOUS
    <2> QED BY <1>1, <1>8, <2>1 DEF Written
  <1>14. /\ 0 \in 0 .. xfer'.count /\ ide'.left = xfer'.count - 0 /\ ide'.left > 0
         /\ ide'.status = "drq" /\ ide'.pos = 0
    BY <1>6, <1>8 DEF DataPhase
  <1>15. OutInv'
    BY <1>12, <1>13, <1>14 DEF OutInv, Idle
  <1> QED BY <1>10, <1>11, <1>15 DEF DiskInv

\* A step that ends the transfer only has to leave a legal channel.
LEMMA NoTransferKeeps ==
  ASSUME disk \in Disk(Word), disk' = disk, xfer' = NoTransfer, Legal(ide'),
         ide'.awaiting => ide'.status = "drq" /\ ide'.packet < PacketWords
  PROVE  DiskInv'
  <1>1. NoTransfer \in Transfers /\ NoTransfer.dir = "none"
    BY Sizes DEF NoTransfer, Transfers
  <1> QED BY <1>1 DEF DiskInv, IdeInv, OutInv, InInv

\* The task file can be written between the phases.
LEMMA TaskFileKeeps ==
  ASSUME DiskInv, TaskFile
  PROVE  DiskInv'
  <1>1. PICK lba \in 0 .. Blocks - 1, n \in SectorCounts :
            /\ Idle /\ ide' = [ide EXCEPT !.lba = lba, !.count = n]
            /\ xfer' = NoTransfer /\ disk' = disk
    BY DEF TaskFile, besideDisk
  <1>2. n \in 0 .. MaxCount
    BY GuestAssumption DEF GuestAssumption
  <1>3. ide \in IdeChannel(Word) /\ ide.pos + ide.len <= Words /\ ~ide.awaiting
        /\ disk \in Disk(Word)
    BY <1>1, IdleFacts DEF DiskInv, IdeInv, Legal
  <1>4. ide' \in IdeChannel(Word)
    BY <1>1, <1>2, <1>3 DEF IdeChannel
  <1>5. ide'.pos = ide.pos /\ ide'.len = ide.len
    BY <1>1, <1>3 DEF IdeChannel
  <1>6. ide'.awaiting = ide.awaiting
    BY <1>1, <1>3 DEF IdeChannel
  <1>7. Legal(ide') /\ ~ide'.awaiting
    <2>1. Legal(ide')
      BY <1>3, <1>4, <1>5 DEF Legal
    <2> QED BY <1>3, <1>6, <2>1, Zenon
  <1> QED BY <1>1, <1>3, <1>7, NoTransferKeeps

\* A command that moves no sector ends the transfer.
LEMMA OtherCommandKeeps ==
  ASSUME DiskInv, OtherCommand
  PROVE  DiskInv'
  <1>1. /\ Idle /\ xfer' = NoTransfer /\ disk' = disk
        /\ ide' \in {Identify(ide), Packet(ide), NonData(ide), UnknownCommand(ide)}
    BY DEF OtherCommand, besideDisk
  <1>2. /\ ide \in IdeChannel(Word) /\ ide.pos + ide.len <= Words /\ ~ide.awaiting
        /\ disk \in Disk(Word) /\ ide.lba \in 0 .. Blocks - 1
    BY <1>1, IdleFacts DEF DiskInv, IdeInv, Legal, IdeChannel
  <1>3. ASSUME NEW st \in Statuses, NEW d, d = Begin(ide, st)
        PROVE  Legal(d) /\ ~d.awaiting
    <2>1. Phased(ide, d, ide.left, st)
      BY <1>2, <1>3, BeginFacts
    <2>2. Legal(d)
      BY <1>2, <2>1 DEF Phased, Legal
    <2> QED BY <1>2, <2>1, <2>2, Zenon DEF Phased
  <1>4. CASE ide' = Identify(ide)
    <2>1. Blank \in Buffer /\ 0 \in 0 .. MaxCount
      BY <1>2, SectorFills, Sizes
    <2>2. ide' = [[Begin(ide, "drq") EXCEPT !.buf = Blank, !.pos = 0, !.len = Words]
                    EXCEPT !.left = 0]
      BY <1>4 DEF Identify, BlankSector
    <2>3. DataPhase(ide, ide', Blank, 0)
      BY <1>2, <2>1, <2>2, DataCommand
    <2>4. Legal(ide') /\ ~ide'.awaiting
      BY <1>2, <2>3, Zenon DEF DataPhase
    <2> QED BY <1>1, <1>2, <2>4, NoTransferKeeps
  <1>5. CASE ide' = Packet(ide) /\ ide.atapi
    <2>1. PICK c : c = Begin(ide, "drq")
      OBVIOUS
    <2>2. c \in IdeChannel(Word) /\ c.pos + c.len <= Words /\ c.status = "drq"
      <3>1. Phased(ide, c, ide.left, "drq")
        BY <1>2, <2>1, BeginFacts DEF Statuses
      <3> QED BY <1>2, <3>1 DEF Phased
    <2>3. ide' = [[c EXCEPT !.awaiting = TRUE, !.packet = 0] EXCEPT !.op = "none", !.count = 1]
      BY <1>5, <2>1 DEF Packet
    <2>4. PICK e : e = [c EXCEPT !.awaiting = TRUE, !.packet = 0]
      OBVIOUS
    <2>5. /\ e \in IdeChannel(Word) /\ e.pos = c.pos /\ e.len = c.len /\ e.status = "drq"
          /\ e.packet = 0
      <3>1. 0 \in 0 .. PacketWords
        BY Sizes
      <3>2. ASSUME NEW n \in 0 .. PacketWords, e = [c EXCEPT !.awaiting = TRUE, !.packet = n]
            PROVE  e \in IdeChannel(Word)
        BY <2>2, <3>2 DEF IdeChannel
      <3>3. e \in IdeChannel(Word)
        BY <2>4, <3>1, <3>2
      <3> QED BY <2>2, <2>4, <3>3 DEF IdeChannel
    <2>6. ide' = [e EXCEPT !.op = "none", !.count = 1]
      BY <2>3, <2>4
    <2>7. /\ ide' \in IdeChannel(Word) /\ ide'.pos = e.pos /\ ide'.len = e.len
          /\ ide'.status = e.status /\ ide'.packet = e.packet
      <3>1. PICK k \in 0 .. MaxCount : k = 1
        BY Sizes
      <3>2. PICK o \in {"none", "test", "answer", "bad"} : o = "none"
        OBVIOUS
      <3>3. ide' = [e EXCEPT !.op = o, !.count = k]
        BY <2>6, <3>1, <3>2
      <3>4. [e EXCEPT !.op = o, !.count = k] \in IdeChannel(Word)
        BY <2>5 DEF IdeChannel
      <3>5. /\ ide'.pos = e.pos /\ ide'.len = e.len
            /\ ide'.status = e.status /\ ide'.packet = e.packet
        BY <2>5, <3>3 DEF IdeChannel
      <3> QED BY <3>3, <3>4, <3>5
    <2>8. Legal(ide') /\ ide'.status = "drq" /\ ide'.packet < PacketWords
      BY <2>2, <2>5, <2>7, Sizes DEF Legal
    <2> QED BY <1>1, <1>2, <2>8, NoTransferKeeps
  <1>6. CASE ide' = Packet(ide) /\ ~ide.atapi
    <2>1. ide' = Begin(ide, "error") /\ "error" \in Statuses
      BY <1>6 DEF Packet, Statuses
    <2>2. Legal(ide') /\ ~ide'.awaiting
      BY <1>3, <2>1
    <2> QED BY <1>1, <1>2, <2>2, NoTransferKeeps
  <1>7. CASE ide' = NonData(ide)
    <2>1. ide' = Begin(ide, "ready") /\ "ready" \in Statuses
      BY <1>7 DEF NonData, Statuses
    <2>2. Legal(ide') /\ ~ide'.awaiting
      BY <1>3, <2>1
    <2> QED BY <1>1, <1>2, <2>2, NoTransferKeeps
  <1>8. CASE ide' = UnknownCommand(ide)
    <2>1. ide' = Begin(ide, "error") /\ "error" \in Statuses
      BY <1>8 DEF UnknownCommand, Statuses
    <2>2. Legal(ide') /\ ~ide'.awaiting
      BY <1>3, <2>1
    <2> QED BY <1>1, <1>2, <2>2, NoTransferKeeps
  <1> QED BY <1>1, <1>4, <1>5, <1>6, <1>7, <1>8

\* The bytes of a packet are counted; the last one gives up waiting.
LEMMA SendPacketKeeps ==
  ASSUME DiskInv, SendPacket
  PROVE  DiskInv'
  <1>1. PICK o \in AtapiOps : ide.awaiting /\ ide' = PacketWord(ide, o)
                              /\ xfer' = xfer /\ disk' = disk
    BY DEF SendPacket, besideDisk
  <1>2. /\ ide \in IdeChannel(Word) /\ ide.pos + ide.len <= Words
        /\ disk \in Disk(Word) /\ xfer \in Transfers
        /\ ide.status = "drq" /\ ide.packet < PacketWords /\ xfer.dir = "none"
    BY <1>1 DEF DiskInv, IdeInv, Legal
  <1>3. OutInv' /\ InInv'
    BY <1>1, <1>2 DEF OutInv, InInv
  <1>4. PICK n \in 0 .. PacketWords : n = ide.packet + 1
    BY <1>2, Sizes DEF IdeChannel
  <1>5. PICK op \in {"none", "test", "answer", "bad"} : op = IF ide.packet = 0 THEN o ELSE ide.op
    BY <1>1, <1>2, GuestAssumption DEF GuestAssumption, IdeChannel
  <1>6. PICK c : c = [ide EXCEPT !.packet = n, !.op = op]
    OBVIOUS
  <1>7. c \in IdeChannel(Word)
    BY <1>2, <1>6 DEF IdeChannel
  <1>8. /\ c.pos = ide.pos /\ c.len = ide.len /\ c.status = ide.status /\ c.buf = ide.buf
        /\ c.packet = n /\ c.op = op
    BY <1>2, <1>6 DEF IdeChannel
  <1>9. c = [ide EXCEPT !.packet = @ + 1, !.op = IF ide.packet = 0 THEN o ELSE @]
    BY <1>2, <1>4, <1>5, <1>6 DEF IdeChannel
  <1>10. CASE c.packet < PacketWords
    <2>1. ide' = c
      BY <1>1, <1>9, <1>10 DEF PacketWord
    <2>2. Legal(ide') /\ ide'.status = "drq" /\ ide'.packet < PacketWords
      BY <1>2, <1>7, <1>8, <1>10, <2>1 DEF Legal
    <2>3. IdeInv'
      BY <1>1, <1>2, <2>2 DEF IdeInv
    <2> QED BY <1>3, <2>3 DEF DiskInv
  <1>11. CASE ~(c.packet < PacketWords)
    <2>1. PICK st \in Statuses : st = CASE op = "test" -> "ready"
                                        [] op = "answer" -> "drq"
                                        [] OTHER -> "error"
      BY DEF Statuses
    <2>2. PICK b \in Buffer : b = IF op = "answer" THEN Blank ELSE c.buf
      <3>1. Blank \in Buffer
        <4>1. ide.lba \in 0 .. Blocks - 1
          BY <1>2 DEF IdeChannel
        <4> QED BY <1>2, <4>1, SectorFills
      <3>2. c.buf \in Buffer
        BY <1>7 DEF IdeChannel, Buffer
      <3> QED BY <3>1, <3>2
    <2>3. PICK p \in 0 .. Words, l \in 0 .. Words :
              /\ p = IF op = "answer" THEN 0 ELSE c.pos
              /\ l = IF op = "answer" THEN AnswerWords ELSE c.len
              /\ p + l <= Words
      <3>1. c.pos \in 0 .. Words /\ c.len \in 0 .. Words /\ c.pos + c.len <= Words
        BY <1>2, <1>7, <1>8 DEF IdeChannel
      <3> QED BY <3>1, Sizes DEF AnswerWords
    <2>4. PICK e : e = [c EXCEPT !.awaiting = FALSE, !.status = st]
      OBVIOUS
    <2>5. e \in IdeChannel(Word)
      BY <1>7, <2>4 DEF IdeChannel, Statuses
    <2>6. ~e.awaiting
      BY <1>7, <2>4 DEF IdeChannel
    <2>7. ide' = [c EXCEPT !.awaiting = FALSE, !.status = st, !.buf = b, !.pos = p, !.len = l]
      <3>1. ide' = [c EXCEPT !.awaiting = FALSE,
                             !.status = CASE c.op = "test" -> "ready"
                                          [] c.op = "answer" -> "drq"
                                          [] OTHER -> "error",
                             !.buf = IF c.op = "answer" THEN Blank ELSE c.buf,
                             !.pos = IF c.op = "answer" THEN 0 ELSE c.pos,
                             !.len = IF c.op = "answer" THEN AnswerWords ELSE c.len]
        BY <1>1, <1>7, <1>9, <1>11 DEF PacketWord, IdeChannel
      <3> QED BY <1>8, <2>1, <2>2, <2>3, <3>1
    <2>8. ide' = [e EXCEPT !.buf = b, !.pos = p, !.len = l]
      BY <2>4, <2>7
    <2>9. Loaded(e, ide', b, p, l)
      BY <2>5, <2>8, LoadFacts
    <2>10. Legal(ide') /\ ~ide'.awaiting
      <3>1. Legal(ide')
        BY <2>3, <2>9 DEF Loaded, Legal
      <3> QED BY <2>6, <2>9, <3>1, Zenon DEF Loaded
    <2>11. IdeInv'
      BY <1>1, <1>2, <2>10 DEF IdeInv
    <2> QED BY <1>3, <2>11 DEF DiskInv
  <1> QED BY <1>10, <1>11

\* A soft reset ends the transfer, the sectors stored so far stay.
LEMMA SrstKeeps ==
  ASSUME DiskInv, Srst
  PROVE  DiskInv'
  <1>1. ide' = SoftReset(ide) /\ xfer' = NoTransfer /\ disk' = disk
    BY DEF Srst, besideDisk
  <1>2. ide \in IdeChannel(Word) /\ ide.pos + ide.len <= Words /\ disk \in Disk(Word)
    BY DEF DiskInv, IdeInv, Legal
  <1>3. PICK k \in 0 .. MaxCount : k = 1
    BY Sizes
  <1>4. PICK a \in 0 .. Blocks - 1 : a = Signature(ide.atapi)
    <2>1. 1 % Blocks \in 0 .. Blocks - 1 /\ Blocks - 1 \in 0 .. Blocks - 1
      BY Sizes, NextAddress
    <2> QED BY <2>1 DEF Signature
  <1>5. PICK c : c = [ide EXCEPT !.status = "ready", !.count = k]
    OBVIOUS
  <1>6. c \in IdeChannel(Word) /\ c.pos = ide.pos /\ c.len = ide.len
    BY <1>2, <1>5 DEF IdeChannel
  <1>7. ide' = [c EXCEPT !.lba = a, !.awaiting = FALSE]
    BY <1>1, <1>3, <1>4, <1>5 DEF SoftReset
  <1>8. ide' \in IdeChannel(Word) /\ ide'.pos = c.pos /\ ide'.len = c.len
    <2>1. [c EXCEPT !.lba = a, !.awaiting = FALSE] \in IdeChannel(Word)
      BY <1>6 DEF IdeChannel
    <2> QED BY <1>6, <1>7, <2>1 DEF IdeChannel
  <1>9. ~ide'.awaiting
    BY <1>6, <1>7 DEF IdeChannel
  <1>10. Legal(ide')
    BY <1>2, <1>6, <1>8 DEF Legal
  <1> QED BY <1>1, <1>2, <1>9, <1>10, NoTransferKeeps

-----------------------------------------------------------------------------
(* What the invariant says.                                                *)

\* Whatever the guest does to the channel keeps the invariant.
LEMMA DiskGuestKeeps ==
  ASSUME DiskInv, DiskGuest
  PROVE  DiskInv'
  BY TaskFileKeeps, ReadCommandKeeps, WriteCommandKeeps, OtherCommandKeeps, SendPacketKeeps,
     DataInKeeps, DataOutKeeps, SrstKeeps DEF DiskGuest

\* The rest of the machine does not touch the disk.
LEMMA DiskStays ==
  ASSUME DiskInv, UNCHANGED storage
  PROVE  DiskInv'
  <1>1. ide' = ide /\ disk' = disk /\ xfer' = xfer
    BY DEF storage
  <1>2. IdeInv' /\ InInv'
    BY <1>1 DEF DiskInv, IdeInv, InInv, UnderWay, At, Idle
  <1>3. ASSUME xfer.dir = "out" PROVE OutInv'
    <2>1. PICK turns \in 0 .. xfer.count :
              /\ \A s \in 0 .. Sectors - 1 : Written(s, turns)
              /\ Idle => turns = xfer.count /\ xfer.done = turns * Words
              /\ ~Idle =>
                    /\ UnderWay(turns)
                    /\ ide.left = xfer.count - turns /\ ide.left > 0
                    /\ \A j \in 0 .. ide.pos - 1 : ide.buf[j] = GuestWord(turns * Words + j)
      BY <1>3 DEF DiskInv, OutInv
    <2>2. \A s \in 0 .. Sectors - 1 : Written(s, turns)'
      BY <1>1, <2>1, SameSector
    <2>3. UnderWay(turns)' = UnderWay(turns) /\ Idle' = Idle
      BY <1>1 DEF UnderWay, At, Idle
    <2> QED BY <1>1, <2>1, <2>2, <2>3 DEF OutInv
  <1>4. OutInv'
    BY <1>1, <1>3 DEF OutInv
  <1> QED BY <1>2, <1>4 DEF DiskInv

\* At power-on nothing is transferred.
LEMMA DiskStarts ==
  ASSUME Init
  PROVE  DiskInv
  <1>1. /\ ide = IdePowerOn(driver = "dvd") /\ xfer = NoTransfer
        /\ disk = [s \in 0 .. Sectors - 1 |-> [j \in 0 .. Words - 1 |-> ImageWord(s, j)]]
    BY DEF Init
  <1>2. PICK atapi \in BOOLEAN : ide = IdePowerOn(atapi)
    BY <1>1
  <1>3. disk \in Disk(Word)
    <2>1. ASSUME NEW s \in 0 .. Sectors - 1, NEW j \in 0 .. Words - 1
          PROVE  ImageWord(s, j) \in Word
      <3>1. /\ s * Words + j < Sectors * Words /\ Sectors * Words \in Nat
            /\ s * Words + j \in Nat /\ MaxCount * Words \in Nat
        BY TurnBound, WordOfTurn, Sizes
      <3> QED BY <3>1 DEF ImageWord, Word
    <2> QED BY <1>1, <2>1 DEF Disk
  <1>4. Signature(atapi) \in 0 .. Blocks - 1
    <2>1. 1 % Blocks \in 0 .. Blocks - 1 /\ Blocks - 1 \in 0 .. Blocks - 1
      BY Sizes, NextAddress
    <2> QED BY <2>1 DEF Signature
  <1>5. Blank \in Buffer
    <2>1. 0 \in Word
      BY Sizes DEF Word
    <2> QED BY <2>1 DEF Blank, Buffer
  <1>6. Legal(ide) /\ ~ide.awaiting
    <2>1. /\ 0 \in 0 .. Words /\ 1 \in 0 .. MaxCount /\ 0 \in 0 .. MaxCount
          /\ 0 \in 0 .. PacketWords /\ 0 + 0 <= Words
      BY Sizes
    <2>2. ide = [lba |-> Signature(atapi), count |-> 1, status |-> "ready", buf |-> Blank,
                 pos |-> 0, len |-> 0, left |-> 0, awaiting |-> FALSE, packet |-> 0,
                 op |-> "none", atapi |-> atapi]
      BY <1>2 DEF IdePowerOn
    <2>3. ide \in IdeChannel(Word)
      BY <1>4, <1>5, <2>1, <2>2 DEF IdeChannel, Buffer
    <2> QED BY <2>1, <2>2, <2>3 DEF Legal
  <1>7. NoTransfer \in Transfers /\ NoTransfer.dir = "none"
    BY Sizes DEF NoTransfer, Transfers
  <1> QED BY <1>1, <1>3, <1>6, <1>7 DEF DiskInv, IdeInv, OutInv, InInv

\* The sectors written so far are the guest's, as Machine states it.
LEMMA WrittenReach ==
  ASSUME DiskInv
  PROVE  WriteReachesDisk
  <1>1. SUFFICES ASSUME xfer.dir = "out", NEW s \in 0 .. Sectors - 1
                 PROVE  LET at == { i \in 0 .. xfer.done \div Words - 1 :
                                      (xfer.first + i) % Blocks = s }
                        IN  IF at = {} THEN disk[s] = xfer.before[s]
                            ELSE LET i == CHOOSE i \in at : \A k \in at : k <= i
                                 IN  disk[s] = [j \in 0 .. Words - 1 |-> GuestWord(i * Words + j)]
    BY DEF WriteReachesDisk
  <1>2. PICK turns \in 0 .. xfer.count :
            /\ Written(s, turns)
            /\ Idle => xfer.done = turns * Words
            /\ ~Idle => UnderWay(turns)
    BY <1>1 DEF DiskInv, OutInv
  <1>3. turns \in Nat /\ ide.pos \in 0 .. Words /\ ide.len \in 0 .. Words
    BY <1>2, Sizes DEF DiskInv, IdeInv, Legal, IdeChannel, Transfers
  <1>4. xfer.done \div Words = turns
    <2>1. CASE Idle
      <3>1. 0 \in 0 .. Words - 1 /\ turns * Words + 0 = turns * Words
        BY <1>3, Sizes
      <3>2. (turns * Words + 0) \div Words = turns
        BY <1>3, <3>1, WordOfTurn
      <3> QED BY <1>2, <2>1, <3>1, <3>2
    <2>2. CASE ~Idle
      <3>1. xfer.done = turns * Words + ide.pos /\ ide.pos \in 0 .. Words - 1
        BY <1>2, <1>3, <2>2, Sizes DEF UnderWay
      <3> QED BY <1>3, <3>1, WordOfTurn
    <2> QED BY <2>1, <2>2
  <1> DEFINE at == {i \in 0 .. turns - 1 : At(i) = s}
  <1>5. at = {i \in 0 .. xfer.done \div Words - 1 : (xfer.first + i) % Blocks = s}
    BY <1>4 DEF At
  <1>6. IF at = {} THEN disk[s] = xfer.before[s]
        ELSE \E i \in at : /\ \A k \in at : k <= i
                           /\ disk[s] = [j \in 0 .. Words - 1 |-> GuestWord(i * Words + j)]
    BY <1>2 DEF Written
  <1>7. at \subseteq Nat
    BY <1>3
  <1> HIDE DEF at
  <1>8. at # {} => disk[s] = [j \in 0 .. Words - 1 |->
                                GuestWord((CHOOSE i \in at : \A k \in at : k <= i) * Words + j)]
    <2>1. SUFFICES ASSUME at # {} PROVE disk[s] = [j \in 0 .. Words - 1 |->
                            GuestWord((CHOOSE i \in at : \A k \in at : k <= i) * Words + j)]
      OBVIOUS
    <2>2. PICK i \in at : /\ \A k \in at : k <= i
                          /\ disk[s] = [j \in 0 .. Words - 1 |-> GuestWord(i * Words + j)]
      BY <1>6, <2>1
    <2>3. PICK l : l = CHOOSE m \in at : \A k \in at : k <= m
      OBVIOUS
    <2>4. l \in at /\ \A k \in at : k <= l
      BY <2>2, <2>3
    <2>5. l = i
      BY <1>7, <2>2, <2>4
    <2> QED BY <2>2, <2>3, <2>5
  <1> QED BY <1>5, <1>6, <1>8

\* A write ends only when every sector was stored.
WriteDeliversAll == xfer.dir = "out" /\ Idle => xfer.done = xfer.count * Words

\* A write whose phase ended was stored to its last sector.
LEMMA WholeWrites ==
  ASSUME DiskInv
  PROVE  WriteDeliversAll
  BY DEF DiskInv, OutInv, WriteDeliversAll

\* A word that is read is the next one of the sectors the guest asked for.
LEMMA ReadsDisk ==
  ASSUME DiskInv, DataIn, xfer.dir = "in"
  PROVE  LET s == (xfer.first + xfer.done \div Words) % Blocks
         IN  WordAtPort(ide) = IF s < Sectors THEN disk[s][xfer.done % Words] ELSE 0
  <1>1. PICK turns \in 0 .. xfer.count : UnderWay(turns) /\ ide.buf = SectorAt(disk, ide.lba)
    BY DEF DiskInv, InInv, DataIn
  <1>2. turns \in Nat /\ ide.pos \in 0 .. Words /\ ide.len \in 0 .. Words
    BY <1>1, Sizes DEF DiskInv, IdeInv, Legal, IdeChannel, Transfers
  <1>3. /\ xfer.done = turns * Words + ide.pos /\ ide.pos \in 0 .. Words - 1
        /\ ide.len # 0 /\ ~(ide.pos >= Words) /\ ide.lba = At(turns)
    BY <1>1, <1>2, Sizes DEF UnderWay
  <1>4. xfer.done \div Words = turns /\ xfer.done % Words = ide.pos
    BY <1>2, <1>3, WordOfTurn
  <1>5. WordAtPort(ide) = ide.buf[ide.pos]
    BY <1>3 DEF WordAtPort
  <1>6. Blank[ide.pos] = 0
    BY <1>3 DEF Blank
  <1> QED BY <1>1, <1>3, <1>4, <1>5, <1>6 DEF At, SectorAt

-----------------------------------------------------------------------------
(* The pusher's part of the guest.                                         *)

FifoGuest == ChannelSetUp \/ StoreGet \/ SubmitMmio \/ Pause \/ SubmitWindow \/ EnableWindow

-----------------------------------------------------------------------------
(* The pusher: the inductive invariant.                                    *)

\* The subroutines of the push buffer, and the rest of its commands.
Routines == CHOOSE routines \in SUBSET Headers : WellFormed(routines)
Outside == Headers \ Routines

\* The pusher stands at a command: outside of the subroutines, or in one of
\* them with a command to return to.
AtCommand(get, subr) ==
    \/ subr = {} /\ get \in Outside
    \/ \E back \in Outside : subr = {back} /\ get \in Routines

\* Where the trail goes through, with the fence the guest sees.
OnTrail(get, subr, refCnt) == <<get, subr, refCnt>> \in Trail

\* Once the pusher has started it stands at a command, on the trail; before,
\* the position it is to start from is so.
Sound(p) ==
    /\ p \in Pusher /\ p.put \in 0 .. RamSize /\ p.rcPut \in 0 .. RamSize
    /\ p.valid => AtCommand(p.fifoGet, p.subr) /\ OnTrail(p.fifoGet, p.subr, p.refCnt)
    /\ ~p.valid => /\ p.fifoGet = 0 /\ p.subr = {}
                   /\ p.get \in Outside /\ OnTrail(p.get, {}, p.refCnt)
                   /\ p.rcGet \in Outside /\ OnTrail(p.rcGet, {}, p.refCnt)
                   /\ p.refCnt = 0

FifoInv ==
    /\ Sound(fifo)
    /\ win \in Window /\ win.userPut \in 0 .. RamSize /\ win.fifoPut \in 0 .. RamSize

-----------------------------------------------------------------------------
(* Induction.  The library's theorem takes a predicate; this one takes the *)
(* set of the numbers that have it.                                        *)

\* Induction for a set of numbers.
LEMMA SetInduction ==
  ASSUME NEW S, 0 \in S, \A n \in Nat : n \in S => n + 1 \in S
  PROVE  Nat \subseteq S
  <1> DEFINE Bad == {n \in Nat : n \notin S}
             T == {0 .. n : n \in Bad}
             R == StrictSubsetOrdering(Nat)
  <1> SUFFICES ASSUME Bad # {} PROVE FALSE
    OBVIOUS
  <1>1. T \subseteq FiniteSubsetsOf(Nat)
    <2> SUFFICES ASSUME NEW n \in Nat PROVE 0 .. n \in FiniteSubsetsOf(Nat)
      OBVIOUS
    <2>1. IsFiniteSet(0 .. n)
      BY FS_Interval
    <2> QED BY <2>1 DEF FiniteSubsetsOf
  <1>2. T # {}
    OBVIOUS
  <1>3. IsWellFoundedOn(R, FiniteSubsetsOf(Nat))
    BY FS_StrictSubsetOrderingWellFounded
  <1>4. \E x \in T : \A y \in T : ~ (<<y, x>> \in R)
    <2> HIDE DEF T, R
    <2> QED BY <1>1, <1>2, <1>3, WFMin
  <1>5. PICK n \in Bad : \A m \in Bad : <<0 .. m, 0 .. n>> \notin R
    BY <1>4
  <1>6. n # 0 /\ n - 1 \in Nat /\ n - 1 \notin S
    OBVIOUS
  <1>7. <<0 .. n - 1, 0 .. n>> \in R
    BY <1>6 DEF StrictSubsetOrdering
  <1> QED BY <1>5, <1>6, <1>7

-----------------------------------------------------------------------------
(* The push buffer.                                                        *)

\* The buffer has subroutines as WellFormed describes them.
LEMMA BufferFacts ==
  /\ Routines \subseteq Headers /\ WellFormed(Routines)
  BY BufferAssumption DEF BufferAssumption, Routines

\* What follows a command, by the kind of the command.
LEMMA NextCommand ==
  ASSUME NEW h \in Headers
  PROVE  /\ h \in Positions /\ h \in Nat /\ h < RamSize
         /\ Ram[h].arg \in Nat /\ Ram[h].kind \in Kinds /\ Ram[h].method \in Methods
         /\ Ram[h].kind = "jump" =>
              Ram[h].arg \in Headers /\ (Ram[h].arg \in Routines <=> h \in Routines)
         /\ Ram[h].kind = "call" /\ h \in Outside => Ram[h].arg \in Routines /\ h + 1 \in Outside
         /\ Ram[h].kind = "method" => /\ h + 1 + Ram[h].arg \in Headers
                                      /\ h + 1 + Ram[h].arg \in Routines <=> h \in Routines
         /\ \/ Ram[h].kind \in {"jump", "method"}
            \/ Ram[h].kind = "call" /\ h \in Outside
            \/ Ram[h].kind = "return" /\ h \in Routines
            \/ h + 1 \in Headers /\ (h + 1 \in Routines <=> h \in Routines)
  <1> DEFINE Beside(g) == g \in Headers /\ (g \in Routines <=> h \in Routines)
  <1>1. /\ h \in Positions
        /\ CASE Ram[h].kind = "jump" -> Beside(Ram[h].arg)
             [] Ram[h].kind = "call" /\ h \in Headers \ Routines ->
                  Ram[h].arg \in Routines /\ h + 1 \in Headers \ Routines
             [] Ram[h].kind = "return" /\ h \in Routines -> TRUE
             [] Ram[h].kind = "method" -> Beside(h + 1 + Ram[h].arg)
             [] OTHER -> Beside(h + 1)
    BY BufferFacts DEF WellFormed
  <1>2. RamSize \in Nat
    BY PfifoAssumption DEF PfifoAssumption
  <1>3. h \in Nat /\ h < RamSize
    BY <1>1, <1>2 DEF Positions
  <1>4. Ram[h].arg \in Nat /\ Ram[h].kind \in Kinds /\ Ram[h].method \in Methods
    BY <1>1, PfifoAssumption DEF PfifoAssumption
  <1>5. CASE Ram[h].kind = "jump"
    BY <1>1, <1>3, <1>4, <1>5
  <1>6. CASE Ram[h].kind = "call" /\ h \in Outside
    BY <1>1, <1>3, <1>4, <1>6 DEF Outside
  <1>7. CASE Ram[h].kind = "return" /\ h \in Routines
    BY <1>1, <1>3, <1>4, <1>7
  <1>8. CASE Ram[h].kind = "method"
    BY <1>1, <1>3, <1>4, <1>8
  <1>9. CASE /\ Ram[h].kind \notin {"jump", "method"}
             /\ ~(Ram[h].kind = "call" /\ h \in Outside)
             /\ ~(Ram[h].kind = "return" /\ h \in Routines)
    BY <1>1, <1>3, <1>4, <1>9 DEF Outside
  <1> QED BY <1>5, <1>6, <1>7, <1>8, <1>9

-----------------------------------------------------------------------------
(* The loop.                                                               *)

\* The pusher while it runs.
Runner == [put : Nat, get : Nat, push : BOOLEAN, push0 : BOOLEAN,
           fifoGet : Nat, valid : BOOLEAN, idle : BOOLEAN, subr : SUBSET Nat,
           ref : Nat, refCnt : Nat, ctx : BOOLEAN, notified : BOOLEAN,
           rcPut : Nat, rcGet : Nat, used : Nat, stop : BOOLEAN]

\* It goes on at a command, and its registers stay.
Walking(p, r) ==
    /\ r \in Runner /\ r.put = p.put /\ r.rcPut = p.rcPut /\ r.valid = p.valid
    /\ AtCommand(r.fifoGet, r.subr)

\* Run d is run r at another place.
Moves(r, d, g, S) ==
    /\ d \in Runner /\ d.put = r.put /\ d.rcPut = r.rcPut /\ d.valid = r.valid
    /\ d.fifoGet = g /\ d.subr = S

\* The pusher at another address, with a datum counted, and another return
\* address.
LEMMA MoveFacts ==
  ASSUME NEW r \in Runner, NEW g \in Nat, NEW u \in Nat, NEW S \in SUBSET Nat
  PROVE  Moves(r, [r EXCEPT !.fifoGet = g, !.used = u, !.subr = S], g, S)
  <1> DEFINE d == [r EXCEPT !.fifoGet = g, !.used = u, !.subr = S]
  <1>1. d \in Runner
    BY DEF Runner
  <1>2. d.put = r.put /\ d.rcPut = r.rcPut /\ d.fifoGet = g /\ d.subr = S
    BY DEF Runner
  <1>3. d.valid = r.valid
    BY DEF Runner
  <1> HIDE DEF d
  <1>4. Moves(r, d, g, S)
    BY <1>1, <1>2, <1>3, Zenon DEF Moves
  <1> QED BY <1>4 DEF d

\* The effect of a method's datum leaves the position alone.
LEMMA EffectFacts ==
  ASSUME NEW r \in Runner, NEW method, NEW datum \in Nat
  PROVE  Moves(r, Effect(r, method, datum), r.fifoGet, r.subr)
  <1>1. CASE method = "reference"
    <2>1. Effect(r, method, datum) = [r EXCEPT !.ref = datum]
      BY <1>1 DEF Effect
    <2> QED BY <2>1 DEF Runner, Moves
  <1>2. CASE method = "set_reference"
    <2>1. Effect(r, method, datum) = [r EXCEPT !.refCnt = datum, !.stop = TRUE]
      BY <1>2 DEF Effect
    <2> QED BY <2>1 DEF Runner, Moves
  <1>3. CASE method = "context"
    <2>1. PICK b \in BOOLEAN : b = (datum # 0)
      OBVIOUS
    <2>2. Effect(r, method, datum) = [r EXCEPT !.ctx = b]
      BY <1>3, <2>1 DEF Effect
    <2> QED BY <2>2 DEF Runner, Moves
  <1>4. CASE method = "notify"
    <2>1. PICK b \in BOOLEAN : b = (r.notified \/ r.ctx)
      OBVIOUS
    <2>2. Effect(r, method, datum) = [r EXCEPT !.notified = b]
      BY <1>4, <2>1 DEF Effect
    <2> QED BY <2>2 DEF Runner, Moves
  <1>5. CASE method \notin {"reference", "set_reference", "context", "notify"}
    <2>1. Effect(r, method, datum) = r
      BY <1>5 DEF Effect
    <2> QED BY <2>1 DEF Runner, Moves
  <1> QED BY <1>1, <1>2, <1>3, <1>4, <1>5

\* A command leads to a command.
LEMMA TurnKeeps ==
  ASSUME NEW p, NEW r, Walking(p, r)
  PROVE  Walking(p, Turn(r))
  <1> DEFINE h == r.fifoGet
             S == r.subr
  <1>1. r \in Runner /\ AtCommand(h, S)
    BY DEF Walking
  <1>2. h \in Headers /\ S \in SUBSET Nat /\ r.used \in Nat
    BY <1>1, BufferFacts DEF AtCommand, Outside, Runner
  <1>3. /\ h \in Nat /\ h < RamSize /\ RamSize \in Nat
        /\ Ram[h].arg \in Nat /\ Ram[h].method \in Methods
    BY <1>2, NextCommand, PfifoAssumption DEF PfifoAssumption
  <1>4. ASSUME NEW d, NEW g, NEW T, Moves(r, d, g, T), AtCommand(g, T)
        PROVE  Walking(p, d)
    BY <1>4, Zenon DEF Moves, Walking
  <1>5. ~(h >= RamSize)
    BY <1>3
  <1> DEFINE past == [r EXCEPT !.fifoGet = @ + 1, !.used = @ + 1]
  <1>6. ASSUME NEW g \in Nat, NEW T \in SUBSET Nat
        PROVE  Moves(r, [past EXCEPT !.subr = T, !.fifoGet = g], g, T)
    <2>1. [past EXCEPT !.subr = T, !.fifoGet = g]
            = [r EXCEPT !.fifoGet = g, !.used = r.used + 1, !.subr = T]
      BY <1>1 DEF Runner
    <2>2. r.used + 1 \in Nat
      BY <1>2
    <2> QED BY <1>1, <2>1, <2>2, MoveFacts
  <1>7. ASSUME NEW g \in Nat
        PROVE  Moves(r, [past EXCEPT !.fifoGet = g], g, S)
    <2>1. [past EXCEPT !.fifoGet = g] = [past EXCEPT !.subr = S, !.fifoGet = g]
      BY <1>1 DEF Runner
    <2> QED BY <1>2, <1>6, <2>1
  <1>8. Moves(r, past, h + 1, S)
    <2>1. PICK g \in Nat : g = h + 1
      BY <1>3
    <2>2. past = [past EXCEPT !.fifoGet = g]
      BY <1>1, <2>1 DEF Runner
    <2>3. Moves(r, [past EXCEPT !.fifoGet = g], g, S)
      BY <1>7
    <2> HIDE DEF past, h, S
    <2> QED BY <2>1, <2>2, <2>3
  <1>9. past.fifoGet = h + 1
    BY <1>8 DEF Moves
  <1>10. S = {} => h \in Outside
    BY <1>1 DEF AtCommand
  <1>11. S # {} => \E back \in Outside : S = {back} /\ h \in Routines
    BY <1>1 DEF AtCommand
  <1>12. ASSUME NEW g \in Headers, g \in Routines <=> h \in Routines
         PROVE  AtCommand(g, S)
    BY <1>10, <1>11, <1>12 DEF AtCommand, Outside
  <1>13. Headers \subseteq Nat /\ Outside \subseteq Nat
    BY NextCommand DEF Outside
  <1>14. CASE Ram[h].kind = "jump"
    <2>1. Turn(r) = [past EXCEPT !.fifoGet = Ram[h].arg]
      BY <1>5, <1>14 DEF Turn
    <2>2. AtCommand(Ram[h].arg, S)
      BY <1>2, <1>12, <1>14, NextCommand
    <2> HIDE DEF past, h, S
    <2> QED BY <1>3, <1>4, <1>7, <2>1, <2>2
  <1>15. CASE Ram[h].kind = "call" /\ S = {}
    <2>1. Turn(r) = [past EXCEPT !.subr = {h + 1}, !.fifoGet = Ram[h].arg]
      BY <1>5, <1>9, <1>15 DEF Turn
    <2>2. Ram[h].arg \in Routines /\ h + 1 \in Outside
      BY <1>2, <1>10, <1>15, NextCommand
    <2>3. AtCommand(Ram[h].arg, {h + 1}) /\ {h + 1} \in SUBSET Nat
      BY <1>13, <2>2 DEF AtCommand
    <2> HIDE DEF past, h, S
    <2> QED BY <1>3, <1>4, <1>6, <2>1, <2>3
  <1>16. CASE Ram[h].kind = "return" /\ S # {}
    <2>1. Turn(r) = [past EXCEPT !.fifoGet = CHOOSE a \in S : TRUE, !.subr = {}]
      BY <1>5, <1>16 DEF Turn
    <2>2. PICK back \in Outside : S = {back} /\ h \in Routines
      BY <1>11, <1>16
    <2>3. (CHOOSE a \in S : TRUE) = back
      BY <2>2
    <2>4. AtCommand(back, {}) /\ back \in Nat
      BY <1>13 DEF AtCommand
    <2>5. Turn(r) = [past EXCEPT !.subr = {}, !.fifoGet = back]
      BY <2>1, <2>3, <1>1 DEF Runner
    <2>6. {} \in SUBSET Nat
      OBVIOUS
    <2> HIDE DEF past, h, S
    <2> QED BY <1>4, <1>6, <2>4, <2>5, <2>6
  <1>17. CASE Ram[h].kind = "method"
    <2>1. Turn(r) = Method(r, Ram[h])
      BY <1>5, <1>17 DEF Turn
    <2>2. /\ h + 1 + Ram[h].arg \in Headers
          /\ AtCommand(h + 1 + Ram[h].arg, S)
      BY <1>2, <1>12, <1>17, NextCommand
    <2>3. PICK a \in Nat : a = Ram[h].arg
      BY <1>3
    <2>4. h + 1 + a < RamSize /\ ~(h + 1 + a > RamSize) /\ h + 1 + a \in Nat
      BY <1>3, <2>2, <2>3, NextCommand
    <2>5. PICK e : e = IF a = 0 THEN r ELSE Effect(r, Ram[h].method, Ram[h + 1].arg)
      OBVIOUS
    <2>6. Moves(r, e, h, S)
      <3>1. Moves(r, r, h, S)
        BY <1>1 DEF Moves
      <3>2. a # 0 => Ram[h + 1].arg \in Nat
        <4>1. a # 0 => h + 1 \in Positions
          BY <1>3, <2>4 DEF Positions
        <4> QED BY <4>1, PfifoAssumption DEF PfifoAssumption
      <3>3. a # 0 => Moves(r, Effect(r, Ram[h].method, Ram[h + 1].arg), h, S)
        BY <1>1, <3>2, EffectFacts
      <3> QED BY <2>5, <3>1, <3>3
    <2>7. Turn(r) = [e EXCEPT !.fifoGet = h + 1 + a, !.used = @ + 1 + a]
      BY <2>1, <2>3, <2>4, <2>5 DEF Method
    <2>8. Moves(r, Turn(r), h + 1 + a, S)
      <3>1. e \in Runner /\ e.subr = S /\ e.used \in Nat
        BY <2>6 DEF Moves, Runner
      <3>2. PICK g \in Nat, u \in Nat : g = h + 1 + a /\ u = e.used + 1 + a
        BY <2>4, <3>1
      <3>3. Turn(r) = [e EXCEPT !.fifoGet = g, !.used = u, !.subr = S]
        BY <2>7, <3>1, <3>2 DEF Runner
      <3>4. Moves(e, [e EXCEPT !.fifoGet = g, !.used = u, !.subr = S], g, S)
        BY <1>2, <3>1, MoveFacts
      <3>5. Moves(e, Turn(r), g, S)
        BY <3>3, <3>4
      <3>6. Moves(r, Turn(r), g, S)
        BY <2>6, <3>5, Zenon DEF Moves
      <3> QED BY <3>2, <3>6
    <2> HIDE DEF past, h, S
    <2> QED BY <1>4, <2>2, <2>3, <2>8
  <1>18. CASE /\ Ram[h].kind \notin {"jump", "method"}
              /\ ~(Ram[h].kind = "call" /\ S = {})
              /\ ~(Ram[h].kind = "return" /\ S # {})
    <2>1. Turn(r) = past
      BY <1>5, <1>18 DEF Turn
    <2>2. h + 1 \in Headers /\ (h + 1 \in Routines <=> h \in Routines)
      <3>1. S # {} => h \notin Outside
        BY <1>11 DEF Outside
      <3>2. S = {} => h \notin Routines
        BY <1>10 DEF Outside
      <3> QED BY <1>2, <1>18, <3>1, <3>2, NextCommand
    <2>3. AtCommand(h + 1, S)
      BY <1>12, <2>2
    <2> HIDE DEF past, h, S
    <2> QED BY <1>4, <1>8, <2>1, <2>3
  <1> QED BY <1>14, <1>15, <1>16, <1>17, <1>18

\* What follows a command on the trail, by the kind of the command.
LEMMA TrailGoesOn ==
  ASSUME NEW h, NEW S, NEW n, OnTrail(h, S, n)
  PROVE  /\ Ram[h].kind = "jump" => OnTrail(Ram[h].arg, S, n)
         /\ Ram[h].kind = "call" /\ S = {} => OnTrail(Ram[h].arg, {h + 1}, n)
         /\ Ram[h].kind = "return" => \A a \in S : OnTrail(a, {}, n)
         /\ Ram[h].kind = "method" /\ ~(Ram[h].method = "set_reference" /\ Ram[h].arg # 0) =>
              OnTrail(h + 1 + Ram[h].arg, S, n)
         /\ Ram[h].kind = "method" /\ Ram[h].method = "set_reference" /\ Ram[h].arg # 0 =>
              /\ OnTrail(h + 1 + Ram[h].arg, S, Ram[h + 1].arg)
              /\ Ram[h + 1].arg # n => Ram[h + 1].arg = NextFence[n]
         /\ \/ Ram[h].kind \in {"jump", "method"}
            \/ Ram[h].kind = "call" /\ S = {}
            \/ Ram[h].kind = "return" /\ S # {}
            \/ OnTrail(h + 1, S, n)
  <1> DEFINE fence == IF Ram[h].kind = "method" /\ Ram[h].method = "set_reference" /\ Ram[h].arg # 0
                      THEN Ram[h + 1].arg ELSE n
  <1>1. /\ fence # n => fence = NextFence[n]
        /\ CASE Ram[h].kind = "jump" -> <<Ram[h].arg, S, fence>> \in Trail
             [] Ram[h].kind = "call" /\ S = {} -> <<Ram[h].arg, {h + 1}, fence>> \in Trail
             [] Ram[h].kind = "return" /\ S # {} -> \A a \in S : <<a, {}, fence>> \in Trail
             [] Ram[h].kind = "method" -> <<h + 1 + Ram[h].arg, S, fence>> \in Trail
             [] OTHER -> <<h + 1, S, fence>> \in Trail
    <2>1. PICK x \in Trail : x = <<h, S, n>>
      BY DEF OnTrail
    <2>2. x[1] = h /\ x[2] = S /\ x[3] = n
      BY <2>1
    <2> QED BY <2>2, FenceAssumption DEF FenceAssumption, FenceOrder
  <1>2. CASE Ram[h].kind = "method" /\ Ram[h].method = "set_reference" /\ Ram[h].arg # 0
    BY <1>1, <1>2 DEF OnTrail
  <1>3. CASE ~(Ram[h].kind = "method" /\ Ram[h].method = "set_reference" /\ Ram[h].arg # 0)
    <2>1. fence = n
      BY <1>3
    <2> HIDE DEF fence
    <2> QED BY <1>1, <1>3, <2>1 DEF OnTrail
  <1> QED BY <1>2, <1>3

\* The loop stays on the trail; until it leaves, the fence is the one it
\* started with, and after that it is at most the next.
Fenced(p, r) ==
    /\ OnTrail(r.fifoGet, r.subr, r.refCnt)
    /\ ~r.stop => r.refCnt = p.refCnt
    /\ r.refCnt # p.refCnt => r.refCnt = NextFence[p.refCnt]

\* A command has no other effect on REF_CNT than that of a fence.
LEMMA TurnFenced ==
  ASSUME NEW p, NEW r, Walking(p, r), Fenced(p, r), Going(r)
  PROVE  Fenced(p, Turn(r))
  <1> DEFINE h == r.fifoGet
             S == r.subr
             n == r.refCnt
  <1>1. r \in Runner /\ AtCommand(h, S) /\ OnTrail(h, S, n) /\ n = p.refCnt
    BY DEF Walking, Fenced, Going
  <1>2. h \in Headers
    BY <1>1, BufferFacts DEF AtCommand, Outside
  <1>3. h \in Nat /\ h < RamSize /\ RamSize \in Nat /\ ~(h >= RamSize) /\ Ram[h].arg \in Nat
    BY <1>2, NextCommand, PfifoAssumption DEF PfifoAssumption
  <1>4. ASSUME NEW d, d.refCnt = n, NEW g, NEW T, d.fifoGet = g, d.subr = T, OnTrail(g, T, n)
        PROVE  Fenced(p, d)
    BY <1>1, <1>4 DEF Fenced
  <1> DEFINE past == [r EXCEPT !.fifoGet = @ + 1, !.used = @ + 1]
  <1>5. past.fifoGet = h + 1 /\ past.subr = S /\ past.refCnt = n
    BY <1>1 DEF Runner
  <1>6. ASSUME NEW g, OnTrail(g, S, n)
        PROVE  Fenced(p, [past EXCEPT !.fifoGet = g])
    <2> DEFINE d == [past EXCEPT !.fifoGet = g]
    <2>1. d.fifoGet = g /\ d.subr = S /\ d.refCnt = n
      BY <1>1 DEF Runner
    <2> HIDE DEF d
    <2>2. Fenced(p, d)
      BY <1>4, <1>6, <2>1
    <2> QED BY <2>2 DEF d
  <1>7. ASSUME NEW g, NEW T, OnTrail(g, T, n)
        PROVE  Fenced(p, [past EXCEPT !.subr = T, !.fifoGet = g])
    <2> DEFINE d == [past EXCEPT !.subr = T, !.fifoGet = g]
    <2>1. d.fifoGet = g /\ d.subr = T /\ d.refCnt = n
      BY <1>1 DEF Runner
    <2> HIDE DEF d
    <2>2. Fenced(p, d)
      BY <1>4, <1>7, <2>1
    <2> QED BY <2>2 DEF d
  <1>8. CASE Ram[h].kind = "jump"
    <2>1. Turn(r) = [past EXCEPT !.fifoGet = Ram[h].arg]
      BY <1>3, <1>8 DEF Turn
    <2>2. OnTrail(Ram[h].arg, S, n)
      BY <1>1, <1>8, TrailGoesOn
    <2> HIDE DEF past, h, S, n
    <2> QED BY <1>6, <2>1, <2>2
  <1>9. CASE Ram[h].kind = "call" /\ S = {}
    <2>1. Turn(r) = [past EXCEPT !.subr = {h + 1}, !.fifoGet = Ram[h].arg]
      BY <1>3, <1>5, <1>9 DEF Turn
    <2>2. OnTrail(Ram[h].arg, {h + 1}, n)
      BY <1>1, <1>9, TrailGoesOn
    <2> HIDE DEF past, h, S, n
    <2> QED BY <1>7, <2>1, <2>2
  <1>10. CASE Ram[h].kind = "return" /\ S # {}
    <2>1. PICK a \in S : a = CHOOSE b \in S : TRUE
      BY <1>10
    <2>2. Turn(r) = [past EXCEPT !.fifoGet = a, !.subr = {}]
      BY <1>3, <1>10, <2>1 DEF Turn
    <2>3. OnTrail(a, {}, n)
      BY <1>1, <1>10, TrailGoesOn
    <2>4. Turn(r) = [past EXCEPT !.subr = {}, !.fifoGet = a]
      BY <2>2, <1>1 DEF Runner
    <2> HIDE DEF past, h, S, n
    <2> QED BY <1>7, <2>3, <2>4
  <1>11. CASE Ram[h].kind = "method"
    <2>1. Turn(r) = Method(r, Ram[h])
      BY <1>3, <1>11 DEF Turn
    <2>2. PICK a \in Nat : a = Ram[h].arg
      BY <1>3
    <2>3. h + 1 + a < RamSize /\ ~(h + 1 + a > RamSize) /\ h + 1 + a \in Nat
      BY <1>2, <1>3, <1>11, <2>2, NextCommand
    <2>4. PICK m, x : m = Ram[h].method /\ x = Ram[h + 1].arg
      OBVIOUS
    <2>5. PICK e : e = IF a = 0 THEN r ELSE Effect(r, m, x)
      OBVIOUS
    <2>6. Turn(r) = [e EXCEPT !.fifoGet = h + 1 + a, !.used = @ + 1 + a]
      BY <2>1, <2>2, <2>3, <2>4, <2>5 DEF Method
    <2>7. e \in Runner /\ e.subr = S
      <3>1. a # 0 => x \in Nat
        <4>1. a # 0 => h + 1 \in Positions
          BY <1>3, <2>3 DEF Positions
        <4> QED BY <2>4, <4>1, PfifoAssumption DEF PfifoAssumption
      <3>2. a # 0 => Moves(r, Effect(r, m, x), h, S)
        BY <1>1, <3>1, EffectFacts
      <3> QED BY <1>1, <2>5, <3>2 DEF Moves
    <2>8. PICK d, g : d = Turn(r) /\ g = h + 1 + a
      OBVIOUS
    <2>9. d.fifoGet = g /\ d.subr = S /\ d.refCnt = e.refCnt /\ d.stop = e.stop
      BY <2>6, <2>7, <2>8 DEF Runner
    <2>10. CASE m = "set_reference" /\ a # 0
      <3>1. e = [r EXCEPT !.refCnt = x, !.stop = TRUE]
        BY <2>5, <2>10 DEF Effect
      <3>2. e.refCnt = x /\ e.stop
        BY <1>1, <3>1 DEF Runner
      <3>3. OnTrail(g, S, x) /\ (x # n => x = NextFence[n])
        BY <1>1, <1>11, <2>2, <2>4, <2>8, <2>10, TrailGoesOn
      <3>4. d.stop /\ d.fifoGet = g /\ d.subr = S /\ d.refCnt = x
        BY <2>9, <3>2, Zenon
      <3>5. n = p.refCnt
        BY <1>1
      <3> HIDE DEF h, S, n
      <3>6. Fenced(p, d)
        BY <3>3, <3>4, <3>5, Zenon DEF Fenced
      <3> QED BY <2>8, <3>6
    <2>11. CASE ~(m = "set_reference" /\ a # 0)
      <3>1. e.refCnt = n
        <4>1. ASSUME NEW y PROVE [r EXCEPT !.ref = y].refCnt = n
          BY <1>1 DEF Runner
        <4>2. ASSUME NEW b PROVE [r EXCEPT !.ctx = b].refCnt = n /\ [r EXCEPT !.notified = b].refCnt = n
          BY <1>1 DEF Runner
        <4>3. m # "set_reference" => Effect(r, m, x).refCnt = n
          BY <4>1, <4>2, Zenon DEF Effect
        <4> QED BY <2>5, <2>11, <4>3
      <3>2. OnTrail(g, S, n)
        BY <1>1, <1>11, <2>2, <2>4, <2>8, <2>11, TrailGoesOn
      <3>3. d.fifoGet = g /\ d.subr = S /\ d.refCnt = n
        BY <2>9, <3>1, Zenon
      <3> HIDE DEF h, S, n
      <3>4. Fenced(p, d)
        BY <1>4, <3>2, <3>3
      <3> QED BY <2>8, <3>4
    <2> QED BY <2>10, <2>11
  <1>12. CASE /\ Ram[h].kind \notin {"jump", "method"}
              /\ ~(Ram[h].kind = "call" /\ S = {})
              /\ ~(Ram[h].kind = "return" /\ S # {})
    <2>1. Turn(r) = past
      BY <1>3, <1>12 DEF Turn
    <2>2. OnTrail(h + 1, S, n)
      BY <1>1, <1>12, TrailGoesOn
    <2> HIDE DEF past, h, S, n
    <2> QED BY <1>4, <1>5, <2>1, <2>2
  <1> QED BY <1>8, <1>9, <1>10, <1>11, <1>12

\* One turn of tick_fifo's loop, or none when it has ended.
Step(r) == IF Going(r) THEN Turn(r) ELSE r

\* The loop's runs: the pusher before each of its first m turns.
RunFrom(f, start, m) == f = [n \in 0 .. m |-> IF n = 0 THEN start ELSE Step(f[n - 1])]

\* The run of the pusher over m commands exists, as a function.
LEMMA RunExists ==
  ASSUME NEW start, NEW m \in Nat
  PROVE  \E f : RunFrom(f, start, m)
  <1> DEFINE S == {n \in Nat : \E f : RunFrom(f, start, n)}
  <1>1. 0 \in S
    <2>1. RunFrom([n \in 0 .. 0 |-> start], start, 0)
      BY DEF RunFrom
    <2> QED BY <2>1
  <1>2. ASSUME NEW n \in Nat, n \in S PROVE n + 1 \in S
    <2>1. PICK f : f = [k \in 0 .. n |-> IF k = 0 THEN start ELSE Step(f[k - 1])]
      BY <1>2 DEF RunFrom
    <2> DEFINE g == [k \in 0 .. n + 1 |-> IF k = n + 1 THEN Step(f[n]) ELSE f[k]]
               h == [k \in 0 .. n + 1 |-> IF k = 0 THEN start ELSE Step(g[k - 1])]
    <2>2. ASSUME NEW k \in 0 .. n + 1 PROVE g[k] = h[k]
      <3>1. CASE k = 0
        <4>1. f[0] = start
          BY <2>1
        <4> QED BY <3>1, <4>1
      <3>2. CASE k = n + 1
        <4>1. g[k] = Step(f[n])
          BY <3>2
        <4>2. k - 1 = n /\ g[n] = f[n]
          BY <3>2
        <4>3. h[k] = Step(g[k - 1])
          BY <3>2
        <4> QED BY <4>1, <4>2, <4>3
      <3>3. CASE k # 0 /\ k # n + 1
        <4>1. k \in 0 .. n /\ k - 1 \in 0 .. n /\ k - 1 # n + 1
          BY <3>3
        <4>2. g[k] = f[k] /\ g[k - 1] = f[k - 1]
          BY <3>3, <4>1
        <4>3. f[k] = Step(f[k - 1])
          BY <2>1, <3>3, <4>1
        <4>4. h[k] = Step(g[k - 1])
          BY <3>3
        <4> QED BY <4>2, <4>3, <4>4
      <3> QED BY <3>1, <3>2, <3>3
    <2>3. g = h
      BY <2>2
    <2> HIDE DEF g
    <2>4. RunFrom(g, start, n + 1)
      BY <2>3 DEF RunFrom
    <2> QED BY <2>4
  <1> HIDE DEF S
  <1>3. Nat \subseteq S
    BY <1>1, <1>2, SetInduction
  <1> QED BY <1>3 DEF S

\* The pusher when the loop starts.
Start(p) == [k \in DOMAIN p \cup {"used", "stop"} |->
               CASE k = "used" -> 0 [] k = "stop" -> FALSE [] OTHER -> p[k]]

\* The loop's last state is the end of a run of MaxDwords turns.
LEMMA DrainedRun ==
  ASSUME NEW p
  PROVE  \E run : RunFrom(run, Start(p), MaxDwords) /\ Drained(p) = run[MaxDwords]
  <1> DEFINE R == CHOOSE f : RunFrom(f, Start(p), MaxDwords)
  <1>1. ASSUME NEW x
        PROVE  Only({ IF Going(r) THEN Turn(r) ELSE r : r \in {x} }) = Step(x)
    BY DEF Only, Step
  <1>2. MaxDwords \in Nat
    BY PfifoAssumption DEF PfifoAssumption
  <1>3. RunFrom(R, Start(p), MaxDwords)
    BY <1>2, RunExists
  <1>4. Drained(p) = R[MaxDwords]
    <2> DEFINE Q == CHOOSE run : run = [n \in 0 .. MaxDwords |-> IF n = 0 THEN Start(p)
                      ELSE Only({ IF Going(r) THEN Turn(r) ELSE r : r \in {run[n - 1]} })]
    <2>1. Drained(p) = Q[MaxDwords]
      BY Zenon DEF Drained, Start
    <2>2. \A run : RunFrom(run, Start(p), MaxDwords)
             <=> run = [n \in 0 .. MaxDwords |-> IF n = 0 THEN Start(p)
                      ELSE Only({ IF Going(r) THEN Turn(r) ELSE r : r \in {run[n - 1]} })]
      <3> TAKE run
      <3>1. [n \in 0 .. MaxDwords |-> IF n = 0 THEN Start(p) ELSE Step(run[n - 1])]
              = [n \in 0 .. MaxDwords |-> IF n = 0 THEN Start(p)
                      ELSE Only({ IF Going(r) THEN Turn(r) ELSE r : r \in {run[n - 1]} })]
        BY <1>1, Zenon
      <3> QED BY <3>1, Zenon DEF RunFrom
    <2>3. Q = R
      BY <2>2, Zenon
    <2> QED BY <2>1, <2>3
  <1> QED BY <1>3, <1>4

\* The loop ends at a command, one fence further at most.
LEMMA DrainedKeeps ==
  ASSUME NEW p, p \in Pusher, AtCommand(p.fifoGet, p.subr),
         OnTrail(p.fifoGet, p.subr, p.refCnt)
  PROVE  Walking(p, Drained(p)) /\ Fenced(p, Drained(p))
  <1>1. PICK run : RunFrom(run, Start(p), MaxDwords) /\ Drained(p) = run[MaxDwords]
    BY DrainedRun
  <1>2. MaxDwords \in Nat
    BY PfifoAssumption DEF PfifoAssumption
  <1>3. run = [n \in 0 .. MaxDwords |-> IF n = 0 THEN Start(p) ELSE Step(run[n - 1])]
    BY <1>1 DEF RunFrom
  <1>4. Walking(p, Start(p)) /\ Fenced(p, Start(p))
    <2> DEFINE D == {"put", "get", "push", "push0", "fifoGet", "valid", "idle", "subr",
                     "ref", "refCnt", "ctx", "notified", "rcPut", "rcGet"}
    <2>1. DOMAIN p = D
      BY DEF Pusher
    <2> DEFINE q == Start(p)
    <2>2. q = [k \in D \cup {"used", "stop"} |->
                 CASE k = "used" -> 0 [] k = "stop" -> FALSE [] OTHER -> p[k]]
      BY <2>1 DEF Start
    <2>3. \A k \in D : q[k] = p[k]
      BY <2>2
    <2>4. q.used = 0 /\ q.stop = FALSE
      BY <2>2
    <2>5. DOMAIN q = D \cup {"used", "stop"}
      BY <2>2
    <2>6. q = [k \in DOMAIN q |-> q[k]]
      BY <2>2
    <2> HIDE DEF q
    <2>7. /\ q.put = p.put /\ q.get = p.get /\ q.fifoGet = p.fifoGet /\ q.subr = p.subr
          /\ q.ref = p.ref /\ q.refCnt = p.refCnt /\ q.rcPut = p.rcPut /\ q.rcGet = p.rcGet
      BY <2>3
    <2>8. /\ q.push = p.push /\ q.push0 = p.push0 /\ q.valid = p.valid /\ q.idle = p.idle
          /\ q.ctx = p.ctx /\ q.notified = p.notified
      BY <2>3, Zenon
    <2>9. q \in Runner
      <3>1. /\ q.put \in Nat /\ q.get \in Nat /\ q.fifoGet \in Nat /\ q.subr \in SUBSET Nat
            /\ q.ref \in Nat /\ q.refCnt \in Nat /\ q.rcPut \in Nat /\ q.rcGet \in Nat
            /\ q.used \in Nat
        BY <2>4, <2>7 DEF Pusher
      <3>2. /\ p.push \in BOOLEAN /\ p.push0 \in BOOLEAN /\ p.valid \in BOOLEAN
            /\ p.idle \in BOOLEAN /\ p.ctx \in BOOLEAN /\ p.notified \in BOOLEAN
        BY DEF Pusher
      <3>3. /\ q.push \in BOOLEAN /\ q.push0 \in BOOLEAN /\ q.valid \in BOOLEAN
            /\ q.idle \in BOOLEAN /\ q.ctx \in BOOLEAN /\ q.notified \in BOOLEAN
            /\ q.stop \in BOOLEAN
        BY <2>4, <2>8, <3>2, Zenon
      <3> QED BY <2>5, <2>6, <3>1, <3>3 DEF Runner
    <2>10. q.valid = p.valid
      BY <2>8
    <2> QED BY <2>7, <2>9, <2>10, Zenon DEF Walking, Fenced, q
  <1> DEFINE S == {n \in Nat : n <= MaxDwords => Walking(p, run[n]) /\ Fenced(p, run[n])}
  <1>5. 0 \in S
    <2>1. run[0] = Start(p)
      BY <1>2, <1>3
    <2> QED BY <1>4, <2>1
  <1>6. ASSUME NEW n \in Nat, n \in S PROVE n + 1 \in S
    <2>1. SUFFICES ASSUME n + 1 <= MaxDwords PROVE Walking(p, run[n + 1]) /\ Fenced(p, run[n + 1])
      OBVIOUS
    <2>2. run[n + 1] = Step(run[n])
      <3>1. n + 1 \in 0 .. MaxDwords /\ n + 1 # 0 /\ (n + 1) - 1 = n
        BY <1>2, <2>1
      <3> QED BY <1>3, <3>1
    <2>3. Walking(p, run[n]) /\ Fenced(p, run[n])
      BY <1>2, <1>6, <2>1
    <2> QED BY <2>2, <2>3, TurnKeeps, TurnFenced DEF Step
  <1> HIDE DEF S
  <1>7. Nat \subseteq S
    BY <1>5, <1>6, SetInduction
  <1>8. MaxDwords <= MaxDwords
    BY <1>2
  <1> QED BY <1>1, <1>2, <1>7, <1>8 DEF S

-----------------------------------------------------------------------------
(* tick_fifo.                                                              *)

\* What tick_fifo stores after its loop.
Stored(p, r) == [k \in DOMAIN p |->
                   CASE k \in {"get", "rcGet"} -> r.fifoGet
                     [] k = "idle" -> r.fifoGet = p.put
                     [] OTHER -> r[k]]

\* The tick stores a position at a command.
LEMMA StoredKeeps ==
  ASSUME NEW p, Sound(p), p.valid, NEW r, Walking(p, r), Fenced(p, r)
  PROVE  /\ Sound(Stored(p, r))
         /\ Stored(p, r).refCnt # p.refCnt => Stored(p, r).refCnt = NextFence[p.refCnt]
  <1> DEFINE q == Stored(p, r)
             D == {"put", "get", "push", "push0", "fifoGet", "valid", "idle", "subr",
                   "ref", "refCnt", "ctx", "notified", "rcPut", "rcGet"}
  <1>1. p \in Pusher /\ r \in Runner
    BY DEF Sound, Walking
  <1>2. DOMAIN p = D
    BY <1>1 DEF Pusher
  <1>3. q = [k \in D |-> CASE k \in {"get", "rcGet"} -> r.fifoGet
                            [] k = "idle" -> r.fifoGet = p.put
                            [] OTHER -> r[k]]
    BY <1>2 DEF Stored
  <1>4. \A k \in D \ {"get", "rcGet", "idle"} : q[k] = r[k]
    BY <1>3
  <1>5. q.get = r.fifoGet /\ q.rcGet = r.fifoGet
    BY <1>3
  <1>6. q.idle \in BOOLEAN
    BY <1>3
  <1>7. DOMAIN q = D /\ q = [k \in DOMAIN q |-> q[k]]
    BY <1>3
  <1> HIDE DEF q
  <1>8. /\ q.put = r.put /\ q.fifoGet = r.fifoGet /\ q.subr = r.subr
        /\ q.ref = r.ref /\ q.refCnt = r.refCnt /\ q.rcPut = r.rcPut
    BY <1>4
  <1>9. /\ q.push = r.push /\ q.push0 = r.push0 /\ q.valid = r.valid
        /\ q.ctx = r.ctx /\ q.notified = r.notified
    BY <1>4, Zenon
  <1>10. q \in Pusher
    <2>1. /\ q.put \in Nat /\ q.get \in Nat /\ q.fifoGet \in Nat /\ q.subr \in SUBSET Nat
          /\ q.ref \in Nat /\ q.refCnt \in Nat /\ q.rcPut \in Nat /\ q.rcGet \in Nat
      BY <1>1, <1>5, <1>8 DEF Runner
    <2>2. /\ r.push \in BOOLEAN /\ r.push0 \in BOOLEAN /\ r.valid \in BOOLEAN
          /\ r.ctx \in BOOLEAN /\ r.notified \in BOOLEAN
      BY <1>1 DEF Runner
    <2>3. /\ q.push \in BOOLEAN /\ q.push0 \in BOOLEAN /\ q.valid \in BOOLEAN
          /\ q.ctx \in BOOLEAN /\ q.notified \in BOOLEAN
      BY <1>9, <2>2, Zenon
    <2> QED BY <1>6, <1>7, <2>1, <2>3 DEF Pusher
  <1>11. q.valid
    BY <1>9, Zenon DEF Walking
  <1>12. q.put \in 0 .. RamSize /\ q.rcPut \in 0 .. RamSize
    BY <1>8 DEF Walking, Sound
  <1>13. AtCommand(q.fifoGet, q.subr)
    BY <1>8 DEF Walking
  <1>14. /\ OnTrail(q.fifoGet, q.subr, q.refCnt)
         /\ q.refCnt # p.refCnt => q.refCnt = NextFence[p.refCnt]
    BY <1>8 DEF Fenced
  <1> QED BY <1>10, <1>11, <1>12, <1>13, <1>14, Zenon DEF Sound, q

\* Pusher d is at a command again, with the fence of p.
Kept(p, d) == Sound(d) /\ d.refCnt = p.refCnt

\* The position the tick goes on from is at a command.
LEMMA StartedKeeps ==
  ASSUME NEW p, Sound(p)
  PROVE  Kept(p, Started(p))
  <1> USE DEF Kept
  <1>1. CASE p.valid \/ p.put = 0
    BY <1>1 DEF Started
  <1>2. CASE ~(p.valid \/ p.put = 0)
    <2> DEFINE q == [p EXCEPT !.fifoGet = p.get, !.valid = TRUE]
    <2>1. Started(p) = q
      BY <1>2 DEF Started
    <2>2. p \in Pusher /\ p.get \in Outside /\ p.subr = {}
      BY <1>2 DEF Sound
    <2>3. AtCommand(p.get, p.subr)
      BY <2>2 DEF AtCommand
    <2>4. /\ q \in Pusher /\ q.put = p.put /\ q.rcPut = p.rcPut /\ q.refCnt = p.refCnt
          /\ q.fifoGet = p.get /\ q.subr = p.subr
      BY <2>2 DEF Pusher
    <2>5. q.valid
      BY <2>2 DEF Pusher
    <2>6. OnTrail(p.get, p.subr, p.refCnt)
      BY <1>2, <2>2 DEF Sound
    <2> HIDE DEF q
    <2>7. Sound(q)
      BY <2>3, <2>4, <2>5, <2>6 DEF Sound
    <2> QED BY <2>1, <2>4, <2>7
  <1> QED BY <1>1, <1>2

\* tick_fifo leaves the pusher at a command, at most one fence further.
LEMMA FifoTickKeeps ==
  ASSUME NEW p, Sound(p)
  PROVE  /\ Sound(FifoTick(p))
         /\ FifoTick(p).refCnt # p.refCnt => FifoTick(p).refCnt = NextFence[p.refCnt]
  <1> DEFINE q == Started(p)
  <1>1. Sound(q) /\ q.refCnt = p.refCnt
    BY StartedKeeps DEF Kept
  <1>2. CASE ~p.push \/ ~p.push0
    BY <1>2 DEF FifoTick
  <1>3. CASE p.push /\ p.push0 /\ ~q.valid
    BY <1>1, <1>3 DEF FifoTick
  <1>4. CASE p.push /\ p.push0 /\ q.valid /\ q.fifoGet = q.put
    <2>1. FifoTick(p) = [q EXCEPT !.idle = TRUE]
      BY <1>4 DEF FifoTick
    <2> HIDE DEF q
    <2> DEFINE d == [q EXCEPT !.idle = TRUE]
    <2>2. q \in Pusher
      BY <1>1 DEF Sound
    <2>3. /\ d \in Pusher /\ d.put = q.put /\ d.rcPut = q.rcPut /\ d.refCnt = q.refCnt
          /\ d.fifoGet = q.fifoGet /\ d.subr = q.subr
      BY <2>2 DEF Pusher
    <2>4. d.valid
      BY <1>4, <2>2 DEF Pusher
    <2> HIDE DEF d
    <2>5. Sound(d)
      BY <1>1, <1>4, <2>3, <2>4 DEF Sound
    <2> QED BY <1>1, <2>1, <2>3, <2>5 DEF d
  <1>5. CASE p.push /\ p.push0 /\ q.valid /\ q.fifoGet # q.put
    <2>1. FifoTick(p) = Only({Stored(q, r) : r \in {Drained(q)}})
      BY <1>5, Zenon DEF FifoTick, Stored
    <2>2. Only({Stored(q, r) : r \in {Drained(q)}}) = Stored(q, Drained(q))
      BY DEF Only
    <2> HIDE DEF q
    <2>3. Walking(q, Drained(q)) /\ Fenced(q, Drained(q))
      BY <1>1, <1>5, DrainedKeeps DEF Sound
    <2> QED BY <1>1, <1>5, <2>1, <2>2, <2>3, StoredKeeps
  <1> QED BY <1>2, <1>3, <1>4, <1>5

-----------------------------------------------------------------------------
(* The registers.                                                          *)

\* Pusher d is p but for its enable bits, PUT and GET.
Rewritten(p, d) ==
    /\ d \in Pusher /\ d.refCnt = p.refCnt /\ d.rcPut = p.rcPut /\ d.rcGet = p.rcGet /\ d.valid = p.valid
    /\ d.fifoGet = p.fifoGet /\ d.subr = p.subr

\* Where the pusher goes on is not in those registers once it has started.
LEMMA RewrittenSound ==
  ASSUME NEW p, Sound(p), NEW d, Rewritten(p, d), d.put \in 0 .. RamSize,
         d.get = p.get \/ d.get = p.rcGet
  PROVE  Kept(p, d)
  <1> USE DEF Kept
  <1>1. d.valid = p.valid
    BY Zenon DEF Rewritten
  <1>2. CASE p.valid
    <2>1. d.valid
      BY <1>1, <1>2, Zenon
    <2> QED BY <1>2, <2>1 DEF Rewritten, Sound
  <1>3. CASE ~p.valid
    <2>1. ~d.valid
      BY <1>1, <1>3, Zenon
    <2> QED BY <1>3, <2>1 DEF Rewritten, Sound
  <1> QED BY <1>2, <1>3

\* A PUT in the buffer may be written at any time.
LEMMA WritePutKeeps ==
  ASSUME NEW p, Sound(p), NEW put \in 0 .. RamSize
  PROVE  Kept(p, WritePut(p, put))
  <1> DEFINE d == WritePut(p, put)
  <1>1. p \in Pusher /\ put \in Nat
    BY PfifoAssumption DEF Sound, PfifoAssumption
  <1>2. Rewritten(p, d) /\ d.put = put /\ d.get = p.get
    BY <1>1 DEF WritePut, Pushing, Pusher, Rewritten
  <1> HIDE DEF d
  <1>3. Kept(p, d)
    BY <1>2, RewrittenSound DEF Sound
  <1> QED BY <1>3 DEF d

\* So may the channel's context be loaded.
LEMMA LoadContextKeeps ==
  ASSUME NEW p, Sound(p)
  PROVE  Kept(p, LoadContext(p))
  <1> DEFINE d == [Pushing(p) EXCEPT !.put = p.rcPut, !.get = p.rcGet]
  <1>1. p \in Pusher
    BY DEF Sound
  <1>2. Rewritten(p, d) /\ d.put = p.rcPut /\ d.get = p.rcGet
    BY <1>1 DEF Pushing, Pusher, Rewritten
  <1>3. LoadContext(p) = p \/ LoadContext(p) = d
    BY DEF LoadContext
  <1> HIDE DEF d
  <1>4. Kept(p, d) /\ Kept(p, p)
    BY <1>2, RewrittenSound DEF Sound, Kept
  <1> QED BY <1>3, <1>4

\* The enable bits.
LEMMA EnableKeeps ==
  ASSUME NEW p, Sound(p), NEW on \in BOOLEAN
  PROVE  Kept(p, [p EXCEPT !.push0 = on]) /\ Kept(p, [p EXCEPT !.push = on])
  <1> DEFINE d == [p EXCEPT !.push0 = on]
             e == [p EXCEPT !.push = on]
  <1>1. p \in Pusher
    BY DEF Sound
  <1>2. Rewritten(p, d) /\ d.put = p.put /\ d.get = p.get
    BY <1>1 DEF Pusher, Rewritten
  <1>3. Rewritten(p, e) /\ e.put = p.put /\ e.get = p.get
    BY <1>1 DEF Pusher, Rewritten
  <1> HIDE DEF d, e
  <1>4. Kept(p, d)
    BY <1>2, RewrittenSound DEF Sound
  <1>5. Kept(p, e)
    BY <1>3, RewrittenSound DEF Sound
  <1> QED BY <1>4, <1>5 DEF d, e

\* Writing PUSH0.
LEMMA WritePush0Keeps ==
  ASSUME NEW p, Sound(p), NEW on \in BOOLEAN
  PROVE  Kept(p, WritePush0(p, on)) /\ Kept(p, WriteDmaPush(p, on))
  <1>1. Kept(p, WriteDmaPush(p, on))
    BY EnableKeeps DEF WriteDmaPush
  <1>2. CASE on
    <2>1. Kept(p, [p EXCEPT !.push0 = TRUE])
      BY EnableKeeps
    <2>2. WritePush0(p, on) = LoadContext([p EXCEPT !.push0 = TRUE])
      BY <1>2 DEF WritePush0
    <2>3. \A d : Sound(d) => Kept(d, LoadContext(d))
      BY LoadContextKeeps
    <2> QED BY <1>1, <2>1, <2>2, <2>3 DEF Kept
  <1>3. CASE ~on
    <2>1. Kept(p, [p EXCEPT !.push0 = FALSE])
      BY EnableKeeps
    <2>2. WritePush0(p, on) = [p EXCEPT !.push0 = FALSE]
      BY <1>3 DEF WritePush0
    <2> QED BY <1>1, <2>1, <2>2
  <1> QED BY <1>2, <1>3

\* A context the guest sets up starts at a command, before all fences.
LEMMA StartsOutside ==
  /\ 0 \in Outside /\ Starts \subseteq Outside
  /\ \A s \in {0} \cup Starts : OnTrail(s, {}, 0)
  /\ Starts \subseteq 0 .. RamSize /\ GuestPuts \subseteq 0 .. RamSize
  BY BufferFacts, GuestAssumption, FenceAssumption
     DEF WellFormed, Outside, GuestAssumption, FenceAssumption, FenceOrder, OnTrail

\* The guest writes a context before the pusher has started.
LEMMA WriteContextKeeps ==
  ASSUME NEW p, Sound(p), ~p.valid, NEW x \in Starts
  PROVE  Kept(p, WriteContext(p, x, x))
  <1> DEFINE d == WriteContext(p, x, x)
  <1>0. x \in Outside /\ x \in 0 .. RamSize /\ OnTrail(x, {}, 0)
    BY StartsOutside
  <1>1. p \in Pusher /\ x \in Nat
    BY <1>0, PfifoAssumption DEF Sound, PfifoAssumption
  <1>2. /\ d \in Pusher /\ d.put = p.put /\ d.get = p.get /\ d.rcPut = x /\ d.rcGet = x
        /\ d.fifoGet = p.fifoGet /\ d.subr = p.subr /\ d.refCnt = p.refCnt
    BY <1>1 DEF WriteContext, Pusher
  <1>3. ~d.valid
    BY <1>1 DEF WriteContext, Pusher
  <1> HIDE DEF d
  <1>4. Kept(p, d)
    BY <1>0, <1>2, <1>3 DEF Sound, Kept
  <1> QED BY <1>4 DEF d

\* So does a GET the guest stores, which no longer matters once the pusher
\* has started.
LEMMA WriteGetKeeps ==
  ASSUME NEW p, Sound(p), NEW x \in Starts
  PROVE  Kept(p, WriteGet(p, x))
  <1> DEFINE d == WriteGet(p, x)
  <1>0. x \in Outside /\ OnTrail(x, {}, 0)
    BY StartsOutside
  <1>1. p \in Pusher /\ x \in Nat
    BY StartsOutside, PfifoAssumption DEF Sound, PfifoAssumption
  <1>2. /\ d \in Pusher /\ d.put = p.put /\ d.get = x /\ d.rcPut = p.rcPut /\ d.rcGet = p.rcGet
        /\ d.fifoGet = p.fifoGet /\ d.subr = p.subr /\ d.refCnt = p.refCnt
    BY <1>1 DEF WriteGet, Pusher
  <1>3. d.valid = p.valid
    BY <1>1 DEF WriteGet, Pusher
  <1> HIDE DEF d
  <1>4. Kept(p, d)
    BY <1>0, <1>2, <1>3 DEF Sound, Kept
  <1> QED BY <1>4 DEF d

\* Polling the window is a series of register writes.
LEMMA PolledKeeps ==
  ASSUME NEW p, Sound(p), NEW w, w.userPut \in 0 .. RamSize, w.fifoPut \in 0 .. RamSize
  PROVE  Kept(p, Polled(p, w))
  <1>1. \A d : Kept(p, d) => Kept(p, LoadContext(d)) /\ Kept(p, WritePush0(d, TRUE))
    BY LoadContextKeeps, WritePush0Keeps DEF Kept
  <1>2. \A d : Kept(p, d) => Kept(p, WritePut(d, w.userPut)) /\ Kept(p, WritePut(d, w.fifoPut))
    BY WritePutKeeps DEF Kept
  <1>3. Kept(p, p)
    BY DEF Kept
  <1>4. Kept(p, PutPolled(p, w))
    BY <1>2, <1>3 DEF PutPolled
  <1> QED BY <1>1, <1>4 DEF Polled

\* What the tick writes back to the window.
LEMMA SyncedKeeps ==
  ASSUME NEW p, Sound(p), NEW w \in Window, w.userPut \in 0 .. RamSize
  PROVE  LET d == Synced(p, w)
         IN  d \in Window /\ d.userPut \in 0 .. RamSize /\ d.fifoPut \in 0 .. RamSize
  <1>1. p.put \in Nat /\ p.put \in 0 .. RamSize /\ p.fifoGet \in Nat /\ p.ref \in Nat
    BY DEF Sound, Pusher
  <1>2. PICK g \in Nat : g = UserGet(p)
    BY <1>1 DEF UserGet
  <1>3. PICK i \in BOOLEAN, s \in BOOLEAN : i = (g = p.put) /\ s = (w.seen0 \/ w.push0)
    OBVIOUS
  <1>4. Synced(p, w) = [w EXCEPT !.seen1 = w.push1, !.seen0 = s, !.get = g,
                                 !.ref = p.ref, !.fifoPut = p.put, !.idle = i]
    BY <1>2, <1>3 DEF Synced
  <1> QED BY <1>1, <1>4 DEF Window

-----------------------------------------------------------------------------
(* The steps of the machine.                                               *)

\* At power-on the pusher has not started.
LEMMA FifoStarts == Init => FifoInv
  <1> SUFFICES ASSUME Init PROVE FifoInv
    OBVIOUS
  <1>1. RamSize \in Nat /\ 0 \in 0 .. RamSize
    BY PfifoAssumption DEF PfifoAssumption
  <1>2. Sound(PusherPowerOn)
    BY <1>1, StartsOutside DEF PusherPowerOn, Sound, Pusher
  <1>3. /\ WindowClear \in Window
        /\ WindowClear.userPut \in 0 .. RamSize /\ WindowClear.fifoPut \in 0 .. RamSize
    BY <1>1 DEF WindowClear, Window
  <1> QED BY <1>2, <1>3 DEF Init, FifoInv

\* REF_CNT goes from one fence to the next.
NextFenceOnly == fifo'.refCnt # fifo.refCnt => fifo'.refCnt = NextFence[fifo.refCnt]

\* The clock, polling the window or not.
LEMMA FifoTicks ==
  ASSUME FifoInv, Tick
  PROVE  FifoInv' /\ NextFenceOnly
  <1> USE DEF FifoInv
  <1>1. CASE driver \in {"user", "window"}
    <2>1. fifo' = FifoTick(Polled(fifo, win)) /\ win' = Synced(Polled(fifo, win), win)
      BY <1>1 DEF Tick
    <2>2. PICK q : q = Polled(fifo, win)
      OBVIOUS
    <2>3. Sound(q) /\ q.refCnt = fifo.refCnt
      BY <2>2, PolledKeeps DEF Kept
    <2>4. /\ Sound(FifoTick(q))
          /\ FifoTick(q).refCnt # q.refCnt => FifoTick(q).refCnt = NextFence[q.refCnt]
      BY <2>3, FifoTickKeeps
    <2>5. LET d == Synced(q, win)
          IN  d \in Window /\ d.userPut \in 0 .. RamSize /\ d.fifoPut \in 0 .. RamSize
      BY <2>3, SyncedKeeps
    <2> QED BY <2>1, <2>2, <2>3, <2>4, <2>5 DEF NextFenceOnly
  <1>2. CASE driver \notin {"user", "window"}
    BY <1>2, FifoTickKeeps DEF Tick, NextFenceOnly
  <1> QED BY <1>1, <1>2

\* What the guest writes, to the registers and to the window.
LEMMA FifoGuestKeeps ==
  ASSUME FifoInv, FifoGuest
  PROVE  FifoInv' /\ NextFenceOnly
  <1> USE DEF FifoInv, NextFenceOnly, Kept
  <1>1. ASSUME ChannelSetUp PROVE FifoInv' /\ NextFenceOnly
    <2>1. ~fifo.valid
      BY <1>1 DEF ChannelSetUp
    <2>2. PICK p \in Starts :
            IF driver = "mmio" THEN fifo' = LoadContext(WriteContext(fifo, p, p)) /\ UNCHANGED win
            ELSE fifo' = WriteContext(fifo, p, p) /\ win' = [win EXCEPT !.push1 = 1]
      BY <1>1 DEF ChannelSetUp
    <2>3. PICK d : d = WriteContext(fifo, p, p)
      OBVIOUS
    <2>4. Kept(fifo, d)
      BY <2>1, <2>3, WriteContextKeeps
    <2>5. Kept(d, LoadContext(d))
      BY <2>4, LoadContextKeeps
    <2>6. LET v == [win EXCEPT !.push1 = 1]
          IN  v \in Window /\ v.userPut \in 0 .. RamSize /\ v.fifoPut \in 0 .. RamSize
      BY DEF Window
    <2> QED BY <2>2, <2>3, <2>4, <2>5, <2>6
  <1>2. ASSUME SubmitMmio PROVE FifoInv' /\ NextFenceOnly
    <2>1. PICK p \in GuestPuts : fifo' = WritePut(fifo, p) /\ UNCHANGED win
      BY <1>2 DEF SubmitMmio
    <2> QED BY <2>1, StartsOutside, WritePutKeeps
  <1>3. ASSUME Pause PROVE FifoInv' /\ NextFenceOnly
    <2>1. /\ \E on \in BOOLEAN : fifo' = WritePush0(fifo, on) \/ fifo' = WriteDmaPush(fifo, on)
          /\ UNCHANGED win
      BY <1>3 DEF Pause
    <2> QED BY <2>1, WritePush0Keeps
  <1>4. ASSUME SubmitWindow PROVE FifoInv' /\ NextFenceOnly
    <2>1. PICK p \in GuestPuts :
            /\ win' = [win EXCEPT !.userPut = p] \/ win' = [win EXCEPT !.fifoPut = p]
            /\ UNCHANGED fifo
      BY <1>4 DEF SubmitWindow
    <2>2. p \in 0 .. RamSize /\ p \in Nat
      BY StartsOutside, PfifoAssumption DEF PfifoAssumption
    <2> QED BY <2>1, <2>2 DEF Window
  <1>5. ASSUME EnableWindow PROVE FifoInv' /\ NextFenceOnly
    BY <1>5 DEF EnableWindow, Window
  <1>6. ASSUME StoreGet PROVE FifoInv' /\ NextFenceOnly
    <2>1. PICK p \in Starts : fifo' = WriteGet(fifo, p) /\ UNCHANGED win
      BY <1>6 DEF StoreGet
    <2> QED BY <2>1, WriteGetKeeps
  <1> QED BY <1>1, <1>2, <1>3, <1>4, <1>5, <1>6 DEF FifoGuest

\* All else leaves the pusher alone.
LEMMA FifoStays ==
  ASSUME FifoInv, UNCHANGED <<fifo, win>>
  PROVE  FifoInv' /\ NextFenceOnly
  BY DEF FifoInv, NextFenceOnly

\* The pusher is at a command, in the buffer.
LEMMA FifoProper ==
  ASSUME FifoInv
  PROVE  AtHeaders /\ fifo.fifoGet <= RamSize /\ fifo.put <= RamSize
  <1>1. AtHeaders
    BY BufferFacts DEF FifoInv, Sound, AtCommand, Outside, AtHeaders
  <1>2. fifo.put \in 0 .. RamSize /\ RamSize \in Nat
    BY PfifoAssumption DEF FifoInv, Sound, PfifoAssumption
  <1>3. CASE fifo.valid
    <2>1. PICK h \in Headers : h = fifo.fifoGet
      BY <1>1, <1>3 DEF AtHeaders
    <2>2. h \in Nat /\ h < RamSize
      BY NextCommand
    <2> QED BY <1>1, <1>2, <2>1, <2>2
  <1>4. CASE ~fifo.valid
    <2>1. fifo.fifoGet = 0
      BY <1>4 DEF FifoInv, Sound
    <2> QED BY <1>1, <1>2, <2>1
  <1> QED BY <1>3, <1>4

-----------------------------------------------------------------------------
(* The inductive invariant, one part for each group of devices.            *)

\* The controllers; a request of a line that follows a register is backed by
\* it, and an event of the clock is requested or being handled.
PicInv ==
    /\ master \in Chip /\ slave \in Chip /\ cpu \in {Main} \cup Irqs
    /\ 3 \in master.irr => Inta(gpu)
    /\ LinesFollowDevices

\* While a load is complete, the counter is the time that is left; 0 stands
\* for a whole turn and only occurs with a reload value of 0.
PitInv ==
    /\ pit \in Channel
    /\ pitDue \in [left : Nat, torn : BOOLEAN, late : BOOLEAN] /\ ~pitDue.late
    /\ pit.loWritten => pit.access = 3
    /\ pitDue.torn => pit.loWritten
    /\ pit.enabled /\ pit.mode # 1 /\ ~pit.loWritten =>
          /\ pitDue.left = IF pit.count = 0 THEN Modulus ELSE pit.count
          /\ pit.count = 0 => pit.reload = 0

\* Between its two bytes a read goes on with the latched count.
ReadInv ==
    /\ pitRead \in [low : Nat, want : Nat, exact : BOOLEAN] /\ pitRead.exact
    /\ pit.access = 3 /\ pit.loRead =>
          /\ pit.latched
          /\ pitRead.want = pit.latchVal
          /\ pitRead.low = Low(pit.latchVal)

GpuInv == gpu \in Gpu /\ gpu.pending = gpu.intr \cap gpu.en

FlashInv == flash \in FlashChip /\ (flash.mode = "erase" => flashLast = EraseSetup)

DeviceInv == rtc \in Clock /\ smb \in Controller /\ usb \in Ohci

IInv ==
    /\ driver \in Drivers
    /\ PicInv /\ PitInv /\ ReadInv /\ GpuInv /\ FlashInv /\ DeviceInv
    /\ DiskInv /\ FifoInv

-----------------------------------------------------------------------------
(* Which step touches which devices.                                       *)

Clocked == Tick \/ Burst
PitGuest == PitProgram \/ PitLatch \/ PitLoad \/ PitRead
RtcGuest == RtcWrite \/ RtcRead
SmbusGuest == SmbusSetUp \/ SmbusStart \/ SmbusAck \/ SmbusFifo
GpuGuest == GpuAccess \/ GpuAlarm

\* A step belongs to one group of devices and leaves the others as they are.
LEMMA Touches ==
  ASSUME [Next]_vars
  PROVE  /\ driver' = driver
         /\ Clocked \/ PitGuest \/ UNCHANGED <<pit, pitDue>>
         /\ PitGuest \/ (UNCHANGED pitRead /\ (Clocked \/ UNCHANGED pit))
         /\ Clocked \/ RtcGuest \/ UNCHANGED rtc
         /\ SmbusGuest \/ UNCHANGED smb
         /\ DiskGuest \/ UNCHANGED <<ide, disk, xfer>>
         /\ FlashAccess \/ UNCHANGED <<flash, flashLast>>
         /\ Clocked \/ UsbAccess \/ UNCHANGED usb
         /\ Tick \/ GpuGuest \/ UNCHANGED gpu
         /\ Tick \/ FifoGuest \/ UNCHANGED <<fifo, win>>
         /\ \/ Clocked \/ Deliver \/ Return \/ SmbusGuest \/ RtcGuest \/ GpuGuest
            \/ UNCHANGED <<master, slave, cpu, rtc, smb, gpu>>
  <1> USE DEF vars, timers, storage, others, chips
  <1>1. CASE Clocked
    <2>1. CASE Tick
      BY <2>1, SMTT(30) DEF Tick, Clocked
    <2>2. CASE Burst
      BY <2>2, SMTT(30) DEF Burst, Clocked
    <2> QED BY <1>1, <2>1, <2>2 DEF Clocked
  <1>2. CASE Deliver \/ Return
    BY <1>2 DEF Deliver, Return
  <1>3. CASE PitGuest
    BY <1>3 DEF PitGuest, PitProgram, PitLatch, PitLoad, PitRead
  <1>4. CASE RtcGuest
    BY <1>4 DEF RtcGuest, RtcWrite, RtcRead
  <1>5. CASE SmbusGuest
    BY <1>5 DEF SmbusGuest, SmbusSetUp, SmbusStart, SmbusAck, SmbusFifo, besideSmbus
  <1>6. CASE DiskGuest
    BY <1>6 DEF DiskGuest, TaskFile, ReadCommand, WriteCommand, OtherCommand, SendPacket,
                DataIn, DataOut, Srst, besideDisk
  <1>7. CASE FlashAccess
    BY <1>7 DEF FlashAccess
  <1>8. CASE UsbAccess
    BY <1>8 DEF UsbAccess
  <1>9. CASE GpuGuest
    BY <1>9 DEF GpuGuest, GpuAccess, GpuAlarm, besideGpu
  <1>10. CASE FifoGuest
    BY <1>10 DEF FifoGuest, ChannelSetUp, StoreGet, SubmitMmio, Pause, SubmitWindow, EnableWindow,
                 besideFifo
  <1>11. CASE UNCHANGED vars
    BY <1>11
  <1> QED BY <1>1, <1>2, <1>3, <1>4, <1>5, <1>6, <1>7, <1>8, <1>9, <1>10, <1>11
          DEF Next, Guest, Clocked, PitGuest, RtcGuest, SmbusGuest, DiskGuest, GpuGuest, FifoGuest

-----------------------------------------------------------------------------
(* Flash.                                                                  *)

\* A write: the setup of an erase is the only way to the erase mode, and only
\* its confirmation sets bits, in one page.
LEMMA FlashWriteFacts ==
  ASSUME NEW f \in FlashChip, NEW a \in Addresses, NEW byte \in SUBSET Bits,
         NEW g, g = FlashWrite(f, a, byte)
  PROVE  /\ g \in FlashChip
         /\ g.mode = "erase" => byte = EraseSetup
         /\ \A b \in Addresses :
               g.data[b] \subseteq f.data[b] \/ (f.mode = "erase" /\ byte = EraseConfirm /\ b[1] = a[1])
         /\ f.mode = "erase" => \A b \in Addresses : b[1] # a[1] => g.data[b] = f.data[b]
  <1>0. f = [data |-> f.data, mode |-> f.mode] /\ f.data \in [Addresses -> SUBSET Bits]
        /\ f.mode \in Modes
    BY DEF FlashChip
  <1>1. CASE f.mode = "program"
    <2>1. g = [data |-> [f.data EXCEPT ![a] = @ \cap byte], mode |-> "array"]
      BY <1>0, <1>1 DEF FlashWrite
    <2>2. [f.data EXCEPT ![a] = @ \cap byte] \in [Addresses -> SUBSET Bits]
      BY <1>0
    <2> QED BY <1>0, <1>1, <2>1, <2>2 DEF FlashChip, Modes
  <1>2. CASE f.mode = "erase" /\ byte = EraseConfirm
    <2>1. g = [data |-> [b \in Addresses |-> IF b[1] = a[1] THEN Bits ELSE f.data[b]],
               mode |-> "array"]
      BY <1>0, <1>2 DEF FlashWrite
    <2> QED BY <1>0, <1>2, <2>1 DEF FlashChip, Modes
  <1>3. CASE f.mode = "erase" /\ byte # EraseConfirm
    <2>1. g = [data |-> f.data, mode |-> "array"]
      BY <1>0, <1>3 DEF FlashWrite
    <2> QED BY <1>0, <1>3, <2>1 DEF FlashChip, Modes
  <1>4. CASE f.mode \notin {"program", "erase"}
    <2>1. g = [data |-> f.data, mode |-> ModeAfter(f, byte)]
      BY <1>0, <1>4 DEF FlashWrite
    <2>2. ModeAfter(f, byte) \in Modes /\ (ModeAfter(f, byte) = "erase" => byte = EraseSetup)
      BY <1>0, <1>4 DEF ModeAfter, Modes
    <2> QED BY <1>0, <1>4, <2>1, <2>2 DEF FlashChip
  <1> QED BY <1>1, <1>2, <1>3, <1>4

\* A write to the flash erases in the confirmed page only and clears bits
\* elsewhere.
LEMMA FlashAccessFacts ==
  ASSUME FlashInv, FlashAccess
  PROVE  \E a \in Addresses :
           /\ FlashInv'
           /\ \A b \in Addresses :
                 flash'.data[b] \subseteq flash.data[b]
                 \/ (flash.mode = "erase" /\ flashLast' = EraseConfirm /\ b[1] = a[1])
           /\ flash.mode = "erase" =>
                 \A b \in Addresses : b[1] # a[1] => flash'.data[b] = flash.data[b]
  <1>1. PICK a \in Addresses, byte \in Commands :
            flash' = FlashWrite(flash, a, byte) /\ flashLast' = byte
    BY DEF FlashAccess
  <1>2. byte \in SUBSET Bits
    BY GuestAssumption DEF GuestAssumption
  <1>3. /\ flash' \in FlashChip
        /\ flash'.mode = "erase" => byte = EraseSetup
        /\ \A b \in Addresses :
              flash'.data[b] \subseteq flash.data[b]
              \/ (flash.mode = "erase" /\ byte = EraseConfirm /\ b[1] = a[1])
        /\ flash.mode = "erase" =>
              \A b \in Addresses : b[1] # a[1] => flash'.data[b] = flash.data[b]
    BY <1>1, <1>2, FlashWriteFacts DEF FlashInv
  <1> QED BY <1>1, <1>3 DEF FlashInv

\* The flash waits for the confirmation only right after the erase set-up.
LEMMA FlashKeeps ==
  ASSUME FlashInv, [Next]_vars
  PROVE  FlashInv'
  <1>1. CASE FlashAccess
    BY <1>1, FlashAccessFacts
  <1>2. CASE UNCHANGED <<flash, flashLast>>
    BY <1>2 DEF FlashInv
  <1> QED BY <1>1, <1>2, Touches

\* A bit that rises is in a page whose erase was set up and confirmed.
FlashStep == \A a \in Addresses : flash'.data[a] \ flash.data[a] # {} =>
                /\ flashLast = EraseSetup /\ flashLast' = EraseConfirm
                /\ \A b \in Addresses : b[1] # a[1] => flash'.data[b] = flash.data[b]

\* No bit rises but by a confirmed erase.
LEMMA FlashRises ==
  ASSUME FlashInv, [Next]_vars
  PROVE  FlashStep
  <1>1. CASE FlashAccess
    BY <1>1, FlashAccessFacts DEF FlashInv, FlashStep
  <1>2. CASE UNCHANGED <<flash, flashLast>>
    BY <1>2 DEF FlashStep
  <1> QED BY <1>1, <1>2, Touches

-----------------------------------------------------------------------------
(* The clock, the SMBus and USB.                                           *)

\* The clock counts below its period.
LEMMA RtcFacts ==
  ASSUME NEW r \in Clock, NEW b \in BOOLEAN
  PROVE  /\ RtcTick(r) \in Clock /\ WriteA(r, b) \in Clock /\ WriteB(r, b) \in Clock
         /\ ReadC(r) \in Clock /\ WriteC(r, b) \in Clock /\ WriteC(r, b).flags = b
         /\ WriteA(r, b).flags = r.flags /\ WriteB(r, b).flags = r.flags
         /\ RtcTick(r).flags <=> r.flags \/ RtcRaises(r)
         /\ ~ReadC(r).flags
  <1>0. RtcPeriod \in Nat \ {0}
    BY RtcPeriodAssumption DEF RtcPeriodAssumption
  <1>1. /\ r.rate \in BOOLEAN /\ r.pie \in BOOLEAN /\ r.flags \in BOOLEAN
        /\ r.period \in {0, RtcPeriod} /\ r.counter \in 0 .. RtcPeriod - 1
    BY DEF Clock
  <1>2. ASSUME NEW q \in Clock PROVE UpdatePeriod(q) \in Clock /\ UpdatePeriod(q).flags = q.flags
    <2>0. 0 \in 0 .. RtcPeriod - 1
      BY <1>0
    <2>1. CASE ~q.pie
      BY <2>0, <2>1 DEF UpdatePeriod, Clock
    <2>2. CASE q.pie /\ ~q.rate
      BY <2>2 DEF UpdatePeriod, Clock
    <2>3. CASE q.pie /\ q.rate
      BY <2>0, <2>3 DEF UpdatePeriod, Clock
    <2> QED BY <2>1, <2>2, <2>3
  <1>3. /\ [r EXCEPT !.rate = b] \in Clock /\ [r EXCEPT !.rate = b].flags = r.flags
        /\ [r EXCEPT !.pie = b] \in Clock /\ [r EXCEPT !.pie = b].flags = r.flags
    BY DEF Clock
  <1>4. /\ WriteA(r, b) \in Clock /\ WriteA(r, b).flags = r.flags
        /\ WriteB(r, b) \in Clock /\ WriteB(r, b).flags = r.flags
    BY <1>2, <1>3, Zenon DEF WriteA, WriteB
  <1>5. /\ ReadC(r) \in Clock /\ ~ReadC(r).flags
        /\ WriteC(r, b) \in Clock /\ WriteC(r, b).flags = b
    BY DEF ReadC, WriteC, Clock
  <1>6. RtcTick(r) \in Clock /\ (RtcTick(r).flags <=> r.flags \/ RtcRaises(r))
    <2>1. CASE r.period = 0
      BY <2>1 DEF RtcTick, RtcRaises
    <2>2. CASE r.period # 0
      <3> DEFINE n == IF RtcRaises(r) THEN 0 ELSE r.counter + 1
                 f == r.flags \/ RtcRaises(r)
      <3>1. n \in 0 .. RtcPeriod - 1 /\ f \in BOOLEAN
        BY <1>0, <1>1, <2>2 DEF RtcRaises
      <3>2. RtcTick(r) = [r EXCEPT !.counter = n, !.flags = f]
        BY <2>2 DEF RtcTick
      <3> HIDE DEF n, f
      <3>3. [r EXCEPT !.counter = n, !.flags = f] \in Clock
        BY <3>1 DEF Clock
      <3>4. [r EXCEPT !.counter = n, !.flags = f].flags = f
        BY <3>1 DEF Clock
      <3> QED BY <3>2, <3>3, <3>4, Zenon DEF f
    <2> QED BY <2>1, <2>2
  <1> QED BY <1>4, <1>5, <1>6

\* A block read fills the FIFO, at most FifoSize bytes of it.
LEMMA BlockFacts ==
  ASSUME NEW s \in Controller, NEW len \in Data
  PROVE  Block(s, len) \in Seq(Data)
  <1>0. /\ FifoSize \in Nat \ {0} /\ Cells \in Nat \ {0} /\ Data \subseteq Nat /\ 0 \in Data
        /\ len \in Nat
    BY SmbusAssumption DEF SmbusAssumption
  <1>1. s.cmd \in Offsets /\ s.eeprom \in [Offsets -> Data]
    BY DEF Controller
  <1> DEFINE n == IF len > FifoSize THEN FifoSize ELSE len
             at(i) == IF s.cmd + i - 1 < Cells THEN s.eeprom[s.cmd + i - 1] ELSE 0
  <1>2. n \in Nat
    BY <1>0
  <1>3. \A i \in 1 .. n : at(i) \in Data
    <2> TAKE i \in 1 .. n
    <2>1. s.cmd \in Nat /\ i \in Nat /\ i >= 1
      BY <1>1, <1>2 DEF Offsets
    <2>2. CASE s.cmd + i - 1 < Cells
      <3>1. s.cmd + i - 1 \in Offsets
        BY <1>0, <2>1, <2>2 DEF Offsets
      <3> QED BY <1>1, <2>2, <3>1
    <2>3. CASE ~(s.cmd + i - 1 < Cells)
      BY <1>0, <2>3
    <2> QED BY <2>2, <2>3
  <1>4. Block(s, len) = [i \in 1 .. n |-> at(i)]
    BY DEF Block
  <1> HIDE DEF n, at
  <1>5. [i \in 1 .. n |-> at(i)] \in Seq(Data)
    BY <1>2, <1>3, IsASeq
  <1> QED BY <1>4, <1>5

\* Control, status and FIFO accesses; status is done after a transaction was
\* started.
LEMMA SmbusFacts ==
  ASSUME NEW s \in Controller, NEW b \in BOOLEAN
  PROVE  /\ WriteControl(s, b) \in Controller /\ WriteControl(s, b).done = TRUE
         /\ WriteStatus(s, b) \in Controller
         /\ AfterFifoRead(s) \in Controller /\ AfterFifoRead(s).done = s.done
  <1>0. /\ s.done \in BOOLEAN /\ s.cmd \in Offsets /\ s.data \in Data /\ s.scratch \in Data
        /\ s.fifo \in Seq(Data) /\ s.eeprom \in [Offsets -> Data] /\ 0 \in Data
    BY SmbusAssumption DEF Controller, SmbusAssumption
  <1>1. Transact(s, b) \in Controller
    <2>1. ASSUME NEW d \in Data
          PROVE  [s EXCEPT !.data = d] \in Controller
      BY DEF Controller
    <2>2. ASSUME NEW q \in Seq(Data)
          PROVE  [s EXCEPT !.fifo = q] \in Controller
      BY DEF Controller
    <2>3. [s EXCEPT !.scratch = s.data] \in Controller
      BY <1>0 DEF Controller
    <2>4. [s EXCEPT !.eeprom[s.cmd] = s.data] \in Controller
      <3>1. [s EXCEPT !.eeprom[s.cmd] = s.data]
              = [s EXCEPT !.eeprom = [s.eeprom EXCEPT ![s.cmd] = s.data]]
        OBVIOUS
      <3>2. [s.eeprom EXCEPT ![s.cmd] = s.data] \in [Offsets -> Data]
        BY <1>0
      <3>3. ASSUME NEW e \in [Offsets -> Data] PROVE [s EXCEPT !.eeprom = e] \in Controller
        BY DEF Controller
      <3> QED BY <3>1, <3>2, <3>3
    <2>5. s.eeprom[s.cmd] \in Data /\ Block(s, s.data) \in Seq(Data)
      BY <1>0, BlockFacts
    <2>6. Transact(s, b) \in {s, [s EXCEPT !.fifo = Block(s, s.data)],
                              [s EXCEPT !.data = s.eeprom[s.cmd]],
                              [s EXCEPT !.eeprom[s.cmd] = s.data],
                              [s EXCEPT !.data = s.scratch],
                              [s EXCEPT !.scratch = s.data],
                              [s EXCEPT !.data = 0]}
      <3>1. CASE s.dev = "eeprom" /\ b
        BY <3>1 DEF Transact
      <3>2. CASE s.dev = "eeprom" /\ ~b
        BY <3>2 DEF Transact
      <3>3. CASE s.dev = "smc"
        BY <3>3 DEF Transact
      <3>4. CASE s.dev \notin {"eeprom", "smc"}
        BY <3>4 DEF Transact
      <3> QED BY <3>1, <3>2, <3>3, <3>4
    <2>7. [s EXCEPT !.fifo = Block(s, s.data)] \in Controller
      BY <2>2, <2>5
    <2>8. /\ [s EXCEPT !.data = s.eeprom[s.cmd]] \in Controller
          /\ [s EXCEPT !.data = s.scratch] \in Controller
          /\ [s EXCEPT !.data = 0] \in Controller
      BY <1>0, <2>1, <2>5
    <2> HIDE DEF Controller
    <2> QED BY <2>3, <2>4, <2>6, <2>7, <2>8
  <1>2. WriteControl(s, b) \in Controller /\ WriteControl(s, b).done = TRUE
    BY <1>1 DEF WriteControl, Controller
  <1>3. WriteStatus(s, b) \in Controller
    BY DEF WriteStatus, Controller
  <1>4. AfterFifoRead(s) \in Controller /\ AfterFifoRead(s).done = s.done
    <2>1. CASE s.fifo = << >>
      <3>1. AfterFifoRead(s) = s
        BY <2>1 DEF AfterFifoRead, Controller
      <3> QED BY <3>1
    <2>2. CASE s.fifo # << >>
      <3>1. Tail(s.fifo) \in Seq(Data)
        BY <1>0, <2>2, HeadTailProperties
      <3>2. AfterFifoRead(s) = [s EXCEPT !.fifo = Tail(s.fifo)]
        BY <2>2 DEF AfterFifoRead
      <3> QED BY <3>1, <3>2 DEF Controller
    <2> QED BY <2>1, <2>2
  <1> QED BY <1>2, <1>3, <1>4

\* Setting up a transaction starts none.
LEMMA SetUpFacts ==
  ASSUME NEW s \in Controller, NEW dev \in Devices, NEW read \in BOOLEAN,
         NEW cmd \in Offsets, NEW data \in Data
  PROVE  /\ SetUp(s, dev, read, cmd, data) \in Controller
         /\ SetUp(s, dev, read, cmd, data).done = s.done
  <1>1. ASSUME NEW q \in Controller
        PROVE  [q EXCEPT !.dev = dev, !.read = read] \in Controller
    BY DEF Controller
  <1>2. ASSUME NEW q \in Controller
        PROVE  [q EXCEPT !.cmd = cmd, !.data = data] \in Controller
    BY DEF Controller
  <1>3. SetUp(s, dev, read, cmd, data)
          = [[s EXCEPT !.dev = dev, !.read = read] EXCEPT !.cmd = cmd, !.data = data]
    BY DEF SetUp
  <1>4. SetUp(s, dev, read, cmd, data).done = s.done
    BY DEF SetUp, Controller
  <1> QED BY <1>1, <1>2, <1>3, <1>4

\* The frame number wraps.
LEMMA UsbFacts ==
  ASSUME NEW u \in Ohci
  PROVE  /\ UsbTick(u) \in Ohci
         /\ \A b \in BOOLEAN : WriteUsbControl(u, b) \in Ohci /\ WriteCommandStatus(u, b) \in Ohci
         /\ \A S \in SUBSET Events : /\ AckEvents(u, S) \in Ohci
                                     /\ EnableEvents(u, S) \in Ohci
                                     /\ DisableEvents(u, S) \in Ohci
  <1>0. Frames \in Nat \ {0}
    BY FramesAssumption DEF FramesAssumption
  <1>1. u.oper \in BOOLEAN /\ u.frame \in 0 .. Frames - 1
        /\ u.status \in SUBSET Events /\ u.enabled \in SUBSET Events
    BY DEF Ohci
  <1>2. UsbTick(u) \in Ohci
    <2>1. CASE ~u.oper
      BY <2>1 DEF UsbTick
    <2>2. CASE u.oper
      <3> DEFINE events == u.status \cup {"SF"} \cup
                     (IF TopBit(u.frame) # TopBit(NextFrame(u)) THEN {"FNO"} ELSE {})
      <3>1. NextFrame(u) \in 0 .. Frames - 1
        BY <1>0, <1>1 DEF NextFrame
      <3>2. events \in SUBSET Events
        BY <1>1 DEF Events
      <3>3. UsbTick(u) = [u EXCEPT !.frame = NextFrame(u), !.status = events]
        BY <2>2 DEF UsbTick
      <3> HIDE DEF events
      <3> QED BY <3>1, <3>2, <3>3 DEF Ohci
    <2> QED BY <2>1, <2>2
  <1>3. UsbInit \in Ohci
    BY <1>0 DEF UsbInit, Ohci
  <1>4. \A b \in BOOLEAN : WriteUsbControl(u, b) \in Ohci /\ WriteCommandStatus(u, b) \in Ohci
    BY <1>3 DEF WriteUsbControl, WriteCommandStatus, Ohci
  <1>5. \A S \in SUBSET Events : /\ AckEvents(u, S) \in Ohci
                                 /\ EnableEvents(u, S) \in Ohci
                                 /\ DisableEvents(u, S) \in Ohci
    BY DEF AckEvents, EnableEvents, DisableEvents, Ohci
  <1> QED BY <1>2, <1>4, <1>5

\* The three devices stay what their registers can hold.
LEMMA DeviceKeeps ==
  ASSUME DeviceInv, [Next]_vars
  PROVE  DeviceInv'
  <1>0. rtc \in Clock /\ smb \in Controller /\ usb \in Ohci
    BY DEF DeviceInv
  <1>1. rtc' \in Clock
    <2>1. CASE Clocked
      <3>1. rtc' = RtcTick(rtc)
        BY <2>1 DEF Clocked, Tick, Burst
      <3> QED BY <1>0, <3>1, RtcFacts
    <2>2. CASE RtcGuest
      <3>1. \/ rtc' = ReadC(rtc)
            \/ \E b \in BOOLEAN :
                 rtc' = WriteA(rtc, b) \/ rtc' = WriteB(rtc, b) \/ rtc' = WriteC(rtc, b)
        BY <2>2 DEF RtcGuest, RtcWrite, RtcRead
      <3>2. TRUE \in BOOLEAN /\ ReadC(rtc) \in Clock
        BY <1>0, RtcFacts
      <3>3. \A b \in BOOLEAN :
              WriteA(rtc, b) \in Clock /\ WriteB(rtc, b) \in Clock /\ WriteC(rtc, b) \in Clock
        BY <1>0, RtcFacts
      <3> QED BY <3>1, <3>2, <3>3
    <2> QED BY <1>0, <2>1, <2>2, Touches
  <1>2. smb' \in Controller
    <2>1. CASE SmbusSetUp
      BY <1>0, <2>1, SetUpFacts DEF SmbusSetUp
    <2>2. CASE SmbusStart \/ SmbusAck \/ SmbusFifo
      <3>1. smb' = AfterFifoRead(smb) \/ \E b \in BOOLEAN : \/ smb' = WriteControl(smb, b)
                                                            \/ smb' = WriteStatus(smb, b)
        BY <2>2 DEF SmbusStart, SmbusAck, SmbusFifo
      <3> QED BY <1>0, <3>1, SmbusFacts
    <2> QED BY <1>0, <2>1, <2>2, Touches DEF SmbusGuest
  <1>3. usb' \in Ohci
    <2>1. CASE Clocked
      <3>1. usb' = UsbTick(usb)
        BY <2>1 DEF Clocked, Tick, Burst
      <3> QED BY <1>0, <3>1, UsbFacts
    <2>2. CASE UsbAccess
      <3>1. \/ \E b \in BOOLEAN : usb' \in {WriteUsbControl(usb, b), WriteCommandStatus(usb, b)}
            \/ \E S \in SUBSET Events :
                 usb' \in {AckEvents(usb, S), EnableEvents(usb, S), DisableEvents(usb, S)}
        BY <2>2 DEF UsbAccess
      <3> QED BY <1>0, <3>1, UsbFacts
    <2> QED BY <1>0, <2>1, <2>2, Touches
  <1> QED BY <1>1, <1>2, <1>3 DEF DeviceInv

-----------------------------------------------------------------------------
(* The interrupt registers of the NV2A.                                    *)

\* What update_irq computes, and what it leaves alone.
LEMMA AggregatedFacts ==
  ASSUME NEW g \in Gpu
  PROVE  /\ Aggregated(g) \in Gpu
         /\ Aggregated(g).pending = Aggregated(g).intr \cap Aggregated(g).en
         /\ Aggregated(g).intr = g.intr /\ Aggregated(g).en = g.en
  BY DEF Aggregated, Gpu

\* The interrupt registers stay interrupt registers; a timer without an alarm
\* changes no pending block.
LEMMA GpuFacts ==
  ASSUME NEW g \in Gpu
  PROVE  /\ Timed(g) \in Gpu
         /\ \A b : [g EXCEPT !.intr = @ \ {b}] \in Gpu
         /\ \A S \in SUBSET IrqBlocks : /\ [g EXCEPT !.en = S] \in Gpu
                                        /\ [g EXCEPT !.pending = @ \ S] \in Gpu
         /\ \A b \in BOOLEAN : [g EXCEPT !.master = b] \in Gpu
         /\ \A t \in 0 .. Times - 1 :
               SetAlarm(g, t) \in Gpu /\ Inta(SetAlarm(g, t)) = Inta(g)
               /\ SetAlarm(g, t).pending = g.pending /\ SetAlarm(g, t).intr = g.intr
               /\ SetAlarm(g, t).en = g.en
  <1>0. VblankPeriod \in Nat \ {0} /\ Times \in Nat \ {0}
    BY Nv2aAssumption DEF Nv2aAssumption
  <1>1. /\ g.intr \in SUBSET IrqBlocks /\ g.en \in SUBSET IrqBlocks
        /\ g.pending \in SUBSET IrqBlocks /\ g.master \in BOOLEAN
        /\ g.vblank \in 0 .. VblankPeriod - 1 /\ g.time \in 0 .. Times - 1
        /\ g.alarm \in 0 .. Times - 1
    BY DEF Gpu
  <1>2. Timed(g) \in Gpu
    <2> DEFINE now == (g.time + 1) % Times
               wrap == g.vblank + 1 >= VblankPeriod
               alarm == g.alarm # 0 /\ now >= g.alarm
               blank == wrap /\ "PCRTC" \in g.en
               v == IF wrap THEN 0 ELSE g.vblank + 1
               q == g.intr \cup (IF alarm THEN {"PTIMER"} ELSE {})
                           \cup (IF blank THEN {"PCRTC"} ELSE {})
    <2>1. Timed(g) = [g EXCEPT !.time = now, !.vblank = v, !.intr = q]
      BY DEF Timed
    <2>2. now \in 0 .. Times - 1 /\ v \in 0 .. VblankPeriod - 1
      BY <1>0, <1>1
    <2>3. q \in SUBSET IrqBlocks
      BY <1>1 DEF IrqBlocks
    <2> HIDE DEF now, wrap, alarm, blank, v, q
    <2>4. [g EXCEPT !.time = now, !.vblank = v] \in Gpu
      BY <2>2 DEF Gpu
    <2>5. ASSUME NEW d \in Gpu PROVE [d EXCEPT !.intr = q] \in Gpu
      BY <2>3 DEF Gpu
    <2>6. Timed(g) = [[g EXCEPT !.time = now, !.vblank = v] EXCEPT !.intr = q]
      BY <2>1
    <2> QED BY <2>4, <2>5, <2>6
  <1>3. \A b : [g EXCEPT !.intr = @ \ {b}] \in Gpu
    BY DEF Gpu
  <1>4. \A S \in SUBSET IrqBlocks : [g EXCEPT !.en = S] \in Gpu
    BY DEF Gpu
  <1>5. \A S \in SUBSET IrqBlocks : [g EXCEPT !.pending = @ \ S] \in Gpu
    BY DEF Gpu
  <1>6. \A b \in BOOLEAN : [g EXCEPT !.master = b] \in Gpu
    BY DEF Gpu
  <1>7. \A t \in 0 .. Times - 1 : SetAlarm(g, t) \in Gpu
    BY DEF Gpu, SetAlarm
  <1>8. \A t \in 0 .. Times - 1 :
           /\ SetAlarm(g, t).pending = g.pending /\ SetAlarm(g, t).intr = g.intr
           /\ SetAlarm(g, t).en = g.en /\ SetAlarm(g, t).master = g.master
    BY DEF Gpu, SetAlarm
  <1>9. \A t \in 0 .. Times - 1 : Inta(SetAlarm(g, t)) = Inta(g)
    BY <1>8 DEF Inta
  <1> QED BY <1>2, <1>3, <1>4, <1>5, <1>6, <1>7, <1>8, <1>9

\* PMC_INTR_0 agrees with the blocks after every step.
LEMMA GpuKeeps ==
  ASSUME GpuInv, [Next]_vars
  PROVE  GpuInv'
  <1>0. gpu \in Gpu
    BY DEF GpuInv
  <1>1. CASE Tick \/ GpuAccess
    <2>1. \E g \in Gpu : gpu' = Aggregated(g)
      <3>1. CASE Tick
        BY <1>0, <3>1, GpuFacts DEF Tick, GpuTick
      <3>2. CASE GpuAccess
        <4>1. \/ \E b \in gpu.intr : gpu' = AckBlock(gpu, b)
              \/ \E S \in SUBSET IrqBlocks : gpu' = AckPmc(gpu, S)
              \/ \E S \in SUBSET IrqBlocks : gpu' = EnableBlock(gpu, S)
              \/ \E b \in BOOLEAN : gpu' = EnablePmc(gpu, b)
          BY <3>2 DEF GpuAccess
        <4>2. CASE \E b \in gpu.intr : gpu' = AckBlock(gpu, b)
          BY <1>0, <4>2, GpuFacts DEF AckBlock
        <4>3. CASE \E S \in SUBSET IrqBlocks : gpu' = AckPmc(gpu, S)
          BY <1>0, <4>3, GpuFacts DEF AckPmc
        <4>4. CASE \E S \in SUBSET IrqBlocks : gpu' = EnableBlock(gpu, S)
          BY <1>0, <4>4, GpuFacts DEF EnableBlock
        <4>5. CASE \E b \in BOOLEAN : gpu' = EnablePmc(gpu, b)
          BY <1>0, <4>5, GpuFacts DEF EnablePmc
        <4> QED BY <4>1, <4>2, <4>3, <4>4, <4>5
      <3> QED BY <1>1, <3>1, <3>2
    <2> QED BY <2>1, AggregatedFacts DEF GpuInv
  <1>2. CASE GpuAlarm
    <2>1. PICK t \in 0 .. Times - 1 : gpu' = SetAlarm(gpu, t)
      BY <1>2 DEF GpuAlarm
    <2>2. /\ gpu' \in Gpu /\ gpu'.pending = gpu.pending /\ gpu'.intr = gpu.intr
          /\ gpu'.en = gpu.en
      BY <1>0, <2>1, GpuFacts
    <2> QED BY <2>2 DEF GpuInv
  <1>3. CASE UNCHANGED gpu
    BY <1>3 DEF GpuInv
  <1> QED BY <1>1, <1>2, <1>3, Touches DEF GpuGuest

-----------------------------------------------------------------------------
(* The interval timer.                                                     *)

\* A counter is two bytes.
LEMMA ByteFacts ==
  /\ Byte \in Nat /\ Byte > 1 /\ Modulus \in Nat /\ Modulus > 1
  /\ \A v \in Counts : /\ Low(v) \in Bytes /\ High(v) \in Bytes
                       /\ Join(High(v), Low(v)) = v
  /\ \A hi, lo \in Bytes : Join(hi, lo) \in Counts
  <1>1. Byte \in Nat /\ Byte > 1
    BY ByteAssumption DEF ByteAssumption
  <1>2. Byte * Byte \in Nat /\ Byte * Byte > 1
    BY <1>1
  <1>3. ASSUME NEW v \in Counts
        PROVE  Low(v) \in Bytes /\ High(v) \in Bytes /\ Join(High(v), Low(v)) = v
    <2>1. v \in Nat /\ v < Byte * Byte
      BY <1>2 DEF Counts, Modulus
    <2>2. v % Byte \in 0 .. Byte - 1
      BY <1>1, <2>1
    <2>3. v \div Byte \in Nat
      BY <1>1, <2>1
    <2>4. v \div Byte < Byte
      BY <1>1, <2>1
    <2>5. ((v \div Byte) * Byte) + (v % Byte) = v
      BY <1>1, <2>1
    <2> QED BY <1>1, <2>2, <2>3, <2>4, <2>5 DEF Low, High, Join, Bytes
  <1>4. ASSUME NEW hi \in Bytes, NEW lo \in Bytes PROVE Join(hi, lo) \in Counts
    <2>1. hi \in Nat /\ lo \in Nat /\ hi <= Byte - 1 /\ lo <= Byte - 1
      BY <1>1 DEF Bytes
    <2>2. hi * Byte <= (Byte - 1) * Byte
      BY <1>1, <2>1
    <2>3. hi * Byte \in Nat /\ (Byte - 1) * Byte = Byte * Byte - Byte
      BY <1>1, <2>1
    <2> QED BY <1>1, <1>2, <2>1, <2>2, <2>3 DEF Join, Counts, Modulus
  <1> QED BY <1>1, <1>2, <1>3, <1>4 DEF Modulus

\* The count after one decrement.
LEMMA CountedFacts ==
  ASSUME NEW c \in Channel
  PROVE  /\ Counted(c) \in Counts
         /\ c.count # 0 => Counted(c) = c.count - 1
         /\ c.count = 0 /\ c.reload = 0 => Counted(c) = Modulus - 1
  <1>1. c.count \in Counts /\ c.reload \in Counts /\ Modulus \in Nat /\ Modulus > 1
    BY ByteFacts DEF Channel
  <1> DEFINE v == IF c.count = 0 THEN c.reload ELSE c.count
  <1>2. v \in Nat /\ v < Modulus
    BY <1>1 DEF Counts
  <1>3. Counted(c) = (v + Modulus - 1) % Modulus
    BY DEF Counted
  <1>4. Counted(c) = IF v = 0 THEN Modulus - 1 ELSE v - 1
    <2> HIDE DEF v
    <2>1. CASE v = 0
      BY <1>1, <1>2, <1>3, <2>1
    <2>2. CASE v # 0
      <3>1. v + Modulus - 1 = 1 * Modulus + (v - 1) /\ v - 1 \in 0 .. Modulus - 1
        BY <1>1, <1>2, <2>2
      <3>2. ASSUME NEW r \in 0 .. Modulus - 1 PROVE (1 * Modulus + r) % Modulus = r
        BY <1>1
      <3> QED BY <1>3, <2>2, <3>1, <3>2
    <2> QED BY <2>1, <2>2
  <1> QED BY <1>1, <1>2, <1>4 DEF Counts

\* The fields of a PIT channel.
LEMMA ChannelFields ==
  ASSUME NEW c \in Channel
  PROVE  /\ c.reload \in Counts /\ c.count \in Counts /\ c.mode \in 0 .. 3 /\ c.access \in 0 .. 3
         /\ c.loWritten \in BOOLEAN /\ c.loRead \in BOOLEAN /\ c.enabled \in BOOLEAN
         /\ c.latchVal \in Counts /\ c.latched \in BOOLEAN
  BY DEF Channel

\* What a tick changes: the count, and in mode 0 whether it goes on.
LEMMA PitTickFacts ==
  ASSUME NEW c \in Channel, NEW d, d = PitTick(c)
  PROVE  /\ d \in Channel
         /\ d.reload = c.reload /\ d.mode = c.mode /\ d.access = c.access
         /\ d.loWritten = c.loWritten /\ d.loRead = c.loRead
         /\ d.latchVal = c.latchVal /\ d.latched = c.latched
         /\ ~c.enabled => d = c
         /\ c.enabled => /\ d.enabled <=> ~(PitRaises(c) /\ c.mode = 0)
                         /\ d.count = IF PitRaises(c) /\ c.mode # 0 THEN c.reload ELSE Counted(c)
  <1>1. CASE ~c.enabled
    <2>1. d = c
      BY <1>1 DEF PitTick
    <2> QED BY <1>1, <2>1
  <1>2. CASE c.enabled
    <2> DEFINE n == IF PitRaises(c) /\ c.mode # 0 THEN c.reload ELSE Counted(c)
               e == ~(PitRaises(c) /\ c.mode = 0)
    <2>1. n \in Counts /\ e \in BOOLEAN
      BY CountedFacts, ChannelFields
    <2>2. d = [c EXCEPT !.count = n, !.enabled = e]
      BY <1>2 DEF PitTick
    <2> HIDE DEF n, e
    <2>3. [c EXCEPT !.count = n, !.enabled = e] \in Channel
      BY <2>1 DEF Channel
    <2>4. /\ [c EXCEPT !.count = n, !.enabled = e].reload = c.reload
          /\ [c EXCEPT !.count = n, !.enabled = e].mode = c.mode
          /\ [c EXCEPT !.count = n, !.enabled = e].access = c.access
          /\ [c EXCEPT !.count = n, !.enabled = e].loWritten = c.loWritten
          /\ [c EXCEPT !.count = n, !.enabled = e].loRead = c.loRead
          /\ [c EXCEPT !.count = n, !.enabled = e].latchVal = c.latchVal
          /\ [c EXCEPT !.count = n, !.enabled = e].latched = c.latched
          /\ [c EXCEPT !.count = n, !.enabled = e].count = n
          /\ [c EXCEPT !.count = n, !.enabled = e].enabled = e
      BY <2>1 DEF Channel
    <2>5. /\ d \in Channel
          /\ d.reload = c.reload /\ d.mode = c.mode /\ d.access = c.access
          /\ d.loWritten = c.loWritten /\ d.loRead = c.loRead
          /\ d.latchVal = c.latchVal /\ d.latched = c.latched
          /\ d.count = n /\ d.enabled = e
      BY <2>2, <2>3, <2>4, Zenon
    <2> QED BY <1>2, <2>5, Zenon DEF n, e
  <1> QED BY <1>1, <1>2

\* A tick of a complete load: the interrupt comes when it is due, and the
\* time that is left follows the counter.
LEMMA ClockedKeepsPit ==
  ASSUME PitInv, Clocked
  PROVE  PitInv'
  <1>1. pit' = PitTick(pit) /\ pitDue' = DueAfterTick
    BY DEF Clocked, Tick, Burst
  <1>2. /\ pit' \in Channel
        /\ pit'.reload = pit.reload /\ pit'.mode = pit.mode /\ pit'.access = pit.access
        /\ pit'.loWritten = pit.loWritten
        /\ ~pit.enabled => pit' = pit
        /\ pit.enabled => /\ pit'.enabled <=> ~(PitRaises(pit) /\ pit.mode = 0)
                          /\ pit'.count = IF PitRaises(pit) /\ pit.mode # 0 THEN pit.reload
                                          ELSE Counted(pit)
    BY <1>1, PitTickFacts DEF PitInv
  <1> DEFINE raises == PitRaises(pit)
             left == IF ~pit.enabled \/ pit.mode = 1 THEN pitDue.left
                     ELSE IF pitDue.left > 1 THEN pitDue.left - 1
                     ELSE IF pit.mode = 0 THEN 0
                     ELSE IF pit.reload = 0 THEN Modulus ELSE pit.reload
  <1>3. /\ pitDue'.left = left
        /\ pitDue'.torn <=> pitDue.torn \/ (raises /\ pit.loWritten)
        /\ pitDue'.late <=> \/ pitDue.late
                            \/ /\ pit.enabled /\ pit.mode # 1 /\ ~pitDue.torn /\ ~pit.loWritten
                               /\ ~((pitDue.left = 1) <=> raises)
    BY <1>1 DEF DueAfterTick, PitRaises
  <1>4. /\ pit \in Channel /\ pit.count \in Nat /\ pit.count < Modulus /\ Modulus > 1
        /\ Modulus \in Nat /\ pit.mode \in 0 .. 3 /\ pit.reload \in Nat
    BY ChannelFields, ByteFacts DEF PitInv, Counts
  <1>5. ~pit.loWritten => ~pitDue.torn
    BY DEF PitInv
  <1>6. ASSUME pit.enabled, pit.mode # 1, ~pit.loWritten
        PROVE  /\ (pitDue.left = 1) <=> raises
               /\ pit'.enabled =>
                     /\ left = IF pit'.count = 0 THEN Modulus ELSE pit'.count
                     /\ pit'.count = 0 => pit'.reload = 0
    <2>1. /\ pitDue.left = IF pit.count = 0 THEN Modulus ELSE pit.count
          /\ pit.count = 0 => pit.reload = 0
      BY <1>6 DEF PitInv
    <2>2. raises <=> Counted(pit) = 0
      BY <1>4, <1>6 DEF PitRaises
    <2>3. Counted(pit) = IF pit.count = 0 THEN Modulus - 1 ELSE pit.count - 1
      BY <1>4, <2>1, CountedFacts
    <2>4. (pitDue.left = 1) <=> raises
      BY <1>4, <2>1, <2>2, <2>3
    <2>5. CASE raises
      BY <1>2, <1>4, <1>6, <2>1, <2>4, <2>5
    <2>6. CASE ~raises
      <3>1. pit'.count = Counted(pit) /\ pitDue.left > 1 /\ left = pitDue.left - 1
        BY <1>2, <1>4, <1>6, <2>1, <2>2, <2>3, <2>6
      <3> QED BY <1>2, <1>4, <2>1, <2>2, <2>3, <2>4, <2>6, <3>1
    <2> QED BY <2>4, <2>5, <2>6
  <1>10. pitDue' \in [left : Nat, torn : BOOLEAN, late : BOOLEAN]
    <2> DEFINE torn == pitDue.torn \/ (raises /\ pit.loWritten)
               late == pitDue.late \/ (pit.enabled /\ pit.mode # 1 /\ ~pitDue.torn
                                         /\ ~pit.loWritten /\ (pitDue.left = 1) # raises)
    <2>1. left \in Nat /\ torn \in BOOLEAN /\ late \in BOOLEAN
      BY <1>4 DEF PitInv
    <2>2. pitDue' = [left |-> left, torn |-> torn, late |-> late]
      BY <1>1, Zenon DEF DueAfterTick
    <2> HIDE DEF left, torn, late
    <2> QED BY <2>1, <2>2
  <1> HIDE DEF raises, left
  <1>7. ~pitDue'.late
    BY <1>3, <1>6 DEF PitInv
  <1>8. (pit'.loWritten => pit'.access = 3) /\ (pitDue'.torn => pit'.loWritten)
    BY <1>2, <1>3 DEF PitInv
  <1>9. ASSUME pit'.enabled, pit'.mode # 1, ~pit'.loWritten
        PROVE  /\ pitDue'.left = IF pit'.count = 0 THEN Modulus ELSE pit'.count
               /\ pit'.count = 0 => pit'.reload = 0
    <2>1. pit.enabled /\ pit.mode # 1 /\ ~pit.loWritten
      BY <1>2, <1>9
    <2> QED BY <1>3, <1>6, <1>9, <2>1
  <1> QED BY <1>2, <1>7, <1>8, <1>9, <1>10 DEF PitInv

\* A load is complete with its last byte; the first byte of a pair only
\* changes the reload value.
LEMMA PitWriteFacts ==
  ASSUME NEW c \in Channel, c.access # 0, c.loWritten => c.access = 3,
         NEW b \in Bytes, NEW d, d = PitWrite(c, b)
  PROVE  /\ d \in Channel /\ d.mode = c.mode /\ d.access = c.access
         /\ d.loRead = c.loRead /\ d.latchVal = c.latchVal /\ d.latched = c.latched
         /\ IF c.access = 3 /\ ~c.loWritten THEN d.loWritten
            ELSE ~d.loWritten /\ d.count = d.reload
  <1>1. /\ c.reload \in Counts /\ Low(c.reload) \in Bytes /\ High(c.reload) \in Bytes
        /\ c.access \in 1 .. 3 /\ c.loWritten \in BOOLEAN
    <2>1. c.reload \in Counts /\ c.access \in 0 .. 3 /\ c.loWritten \in BOOLEAN
      BY ChannelFields
    <2>2. c.access \in 1 .. 3
      BY <2>1
    <2> QED BY <2>1, <2>2, ByteFacts
  <1>2. Join(High(c.reload), b) \in Counts /\ Join(b, Low(c.reload)) \in Counts
    BY <1>1, ByteFacts
  <1>3. CASE c.access = 3 /\ ~c.loWritten
    <2>1. d = [c EXCEPT !.reload = Join(High(c.reload), b), !.loWritten = TRUE]
      BY <1>3 DEF PitWrite
    <2>2. [c EXCEPT !.reload = Join(High(c.reload), b), !.loWritten = TRUE] \in Channel
      BY <1>2 DEF Channel
    <2> QED BY <1>3, <2>1, <2>2 DEF Channel
  <1>4. CASE ~(c.access = 3 /\ ~c.loWritten)
    <2>1. PICK v \in Counts : d = LoadCount([c EXCEPT !.loWritten = FALSE], v)
      <3>1. CASE c.access = 3
        BY <1>2, <1>4, <3>1 DEF PitWrite
      <3>2. CASE c.access # 3
        <4>1. ~c.loWritten /\ c.access \in {1, 2}
          BY <1>1, <3>2
        <4>2. c = [c EXCEPT !.loWritten = FALSE]
          BY <1>1, <4>1 DEF Channel
        <4>3. d = LoadCount(c, Join(High(c.reload), b)) \/ d = LoadCount(c, Join(b, Low(c.reload)))
          BY <1>1, <3>2, <4>1 DEF PitWrite
        <4> QED BY <1>2, <4>2, <4>3
      <3> QED BY <3>1, <3>2
    <2>2. [c EXCEPT !.loWritten = FALSE] \in Channel
      BY DEF Channel
    <2>3. PICK e \in Channel : e = [c EXCEPT !.loWritten = FALSE]
      BY <2>2
    <2>4. /\ e.loWritten = FALSE /\ e.mode = c.mode /\ e.access = c.access /\ e.loRead = c.loRead
          /\ e.latchVal = c.latchVal /\ e.latched = c.latched
      BY <2>3 DEF Channel
    <2>5. d = [e EXCEPT !.reload = v, !.count = v, !.enabled = TRUE]
      BY <2>1, <2>3 DEF LoadCount
    <2>6. d \in Channel
      <3>1. [e EXCEPT !.reload = v, !.count = v] \in Channel
        BY DEF Channel
      <3>2. ASSUME NEW q \in Channel PROVE [q EXCEPT !.enabled = TRUE] \in Channel
        BY DEF Channel
      <3>3. d = [[e EXCEPT !.reload = v, !.count = v] EXCEPT !.enabled = TRUE]
        BY <2>5
      <3> QED BY <3>1, <3>2, <3>3
    <2>7. /\ d.mode = e.mode /\ d.access = e.access
          /\ d.loRead = e.loRead /\ d.latchVal = e.latchVal /\ d.latched = e.latched
          /\ d.loWritten = e.loWritten /\ d.count = v /\ d.reload = v
      BY <2>5 DEF Channel
    <2>8. /\ d.mode = c.mode /\ d.access = c.access
          /\ d.loRead = c.loRead /\ d.latchVal = c.latchVal /\ d.latched = c.latched
          /\ d.loWritten = FALSE /\ d.count = d.reload
      BY <2>4, <2>7, Zenon
    <2> QED BY <1>4, <2>6, <2>8
  <1> QED BY <1>3, <1>4

\* Ticks, reloads and half-written loads keep the count equal to the time that
\* is left.
LEMMA PitKeeps ==
  ASSUME PitInv, [Next]_vars
  PROVE  PitInv'
  <1>0. pit \in Channel /\ pit.access \in 0 .. 3
    BY ChannelFields DEF PitInv
  <1>1. CASE Clocked
    BY <1>1, ClockedKeepsPit
  <1>2. CASE PitProgram
    <2>1. PICK access \in 1 .. 3, mode \in PitModes : pit' = Program(pit, access, mode)
      BY <1>2 DEF PitProgram
    <2>2. mode \in 0 .. 3 /\ access \in 0 .. 3
      BY GuestAssumption DEF GuestAssumption
    <2>3. [pit EXCEPT !.access = access, !.mode = mode] \in Channel
      BY <1>0, <2>2 DEF Channel
    <2>4. ASSUME NEW c \in Channel
          PROVE  /\ [c EXCEPT !.enabled = FALSE, !.loWritten = FALSE] \in Channel
                 /\ [c EXCEPT !.loRead = FALSE] \in Channel
      BY DEF Channel
    <2>5. pit' = [[[pit EXCEPT !.access = access, !.mode = mode]
                     EXCEPT !.enabled = FALSE, !.loWritten = FALSE] EXCEPT !.loRead = FALSE]
      BY <2>1 DEF Program
    <2>6. pit' \in Channel
      BY <2>3, <2>4, <2>5
    <2>7. ~pit'.enabled /\ ~pit'.loWritten
      BY <1>0, <2>1 DEF Program, Channel
    <2>8. pitDue' = [pitDue EXCEPT !.left = 0, !.torn = FALSE]
      BY <1>2 DEF PitProgram
    <2>9. /\ pitDue' \in [left : Nat, torn : BOOLEAN, late : BOOLEAN]
          /\ ~pitDue'.torn /\ pitDue'.late = pitDue.late
      BY <2>8 DEF PitInv
    <2> QED BY <2>6, <2>7, <2>9 DEF PitInv
  <1>3. CASE PitLatch
    <2>1. pit' = [pit EXCEPT !.latchVal = pit.count, !.latched = TRUE] /\ pitDue' = pitDue
      BY <1>3 DEF PitLatch, Latch
    <2>2. pit.count \in Counts
      BY <1>0 DEF Channel
    <2>3. [pit EXCEPT !.latchVal = pit.count, !.latched = TRUE] \in Channel
      BY <1>0, <2>2 DEF Channel
    <2>4. /\ pit'.enabled = pit.enabled /\ pit'.mode = pit.mode /\ pit'.loWritten = pit.loWritten
          /\ pit'.count = pit.count /\ pit'.reload = pit.reload /\ pit'.access = pit.access
      BY <1>0, <2>1 DEF Channel
    <2> QED BY <2>1, <2>3, <2>4, Zenon DEF PitInv
  <1>4. CASE PitLoad
    <2>1. PICK b \in Bytes :
            /\ pit.access # 0 /\ pit' = PitWrite(pit, b)
            /\ pitDue' = IF pit.access = 3 /\ ~pit.loWritten THEN pitDue
                         ELSE [left |-> IF pit'.reload = 0 THEN Modulus ELSE pit'.reload,
                               torn |-> FALSE, late |-> pitDue.late]
      BY <1>4 DEF PitLoad
    <2>2. /\ pit' \in Channel /\ pit'.access = pit.access
          /\ IF pit.access = 3 /\ ~pit.loWritten THEN pit'.loWritten
             ELSE ~pit'.loWritten /\ pit'.count = pit'.reload
      BY <1>0, <2>1, PitWriteFacts DEF PitInv
    <2>3. CASE pit.access = 3 /\ ~pit.loWritten
      BY <2>1, <2>2, <2>3 DEF PitInv
    <2>4. CASE ~(pit.access = 3 /\ ~pit.loWritten)
      <3>1. pit'.reload \in Nat /\ Modulus \in Nat
        BY <2>2, ByteFacts, ChannelFields DEF Counts
      <3>2. pitDue' = [left |-> IF pit'.reload = 0 THEN Modulus ELSE pit'.reload,
                       torn |-> FALSE, late |-> pitDue.late]
        BY <2>1, <2>4
      <3>3. /\ pitDue'.left = IF pit'.reload = 0 THEN Modulus ELSE pit'.reload
            /\ ~pitDue'.torn /\ pitDue'.late = pitDue.late
            /\ pitDue' \in [left : Nat, torn : BOOLEAN, late : BOOLEAN]
        BY <3>1, <3>2 DEF PitInv
      <3> QED BY <2>2, <2>4, <3>3 DEF PitInv
    <2> QED BY <2>3, <2>4
  <1>5. CASE PitRead
    <2>1. pit' = PitAfterRead(pit) /\ pitDue' = pitDue
      BY <1>5 DEF PitRead
    <2>2. pit' \in {pit, [pit EXCEPT !.loRead = TRUE],
                    [pit EXCEPT !.loRead = FALSE, !.latched = FALSE]}
      BY <2>1 DEF PitAfterRead
    <2>3. /\ pit' \in Channel
          /\ pit'.enabled = pit.enabled /\ pit'.mode = pit.mode /\ pit'.loWritten = pit.loWritten
          /\ pit'.count = pit.count /\ pit'.reload = pit.reload /\ pit'.access = pit.access
      <3>1. CASE pit' = pit
        BY <1>0, <3>1
      <3>2. CASE pit' = [pit EXCEPT !.loRead = TRUE]
        BY <1>0, <3>2 DEF Channel
      <3>3. CASE pit' = [pit EXCEPT !.loRead = FALSE, !.latched = FALSE]
        BY <1>0, <3>3 DEF Channel
      <3> QED BY <2>2, <3>1, <3>2, <3>3
    <2> QED BY <2>1, <2>3, Zenon DEF PitInv
  <1>6. CASE UNCHANGED <<pit, pitDue>>
    BY <1>6 DEF PitInv
  <1> QED BY <1>1, <1>2, <1>3, <1>4, <1>5, <1>6, Touches DEF PitGuest

\* A latched read: the first byte keeps what the latch holds, nothing but a
\* new mode comes between, and the second byte joins it.
LEMMA ReadKeeps ==
  ASSUME PitInv, ReadInv, [Next]_vars
  PROVE  ReadInv'
  <1>0. /\ pit \in Channel /\ pit.access \in 0 .. 3 /\ pit.latchVal \in Counts
        /\ pit.loRead \in BOOLEAN
    BY ChannelFields DEF PitInv
  <1>1. CASE Clocked
    <2>1. pit' = PitTick(pit) /\ pitRead' = pitRead
      BY <1>1 DEF Clocked, Tick, Burst
    <2>2. /\ pit'.access = pit.access /\ pit'.loRead = pit.loRead
          /\ pit'.latchVal = pit.latchVal /\ pit'.latched = pit.latched
      BY <1>0, <2>1, PitTickFacts
    <2> QED BY <2>1, <2>2, Zenon DEF ReadInv
  <1>2. CASE PitProgram
    <2>1. PICK access \in 1 .. 3, mode \in PitModes : pit' = Program(pit, access, mode)
      BY <1>2 DEF PitProgram
    <2>2. ~pit'.loRead
      BY <1>0, <2>1 DEF Program, Channel
    <2>3. pitRead' = [pitRead EXCEPT !.low = 0, !.want = 0]
      BY <1>2 DEF PitProgram
    <2> QED BY <2>2, <2>3 DEF ReadInv
  <1>3. CASE PitLatch
    <2>1. /\ pit' = [pit EXCEPT !.latchVal = pit.count, !.latched = TRUE] /\ pitRead' = pitRead
          /\ pit.access = 3 => ~pit.loRead
      BY <1>3 DEF PitLatch, Latch
    <2>2. pit'.access = pit.access /\ pit'.loRead = pit.loRead
      BY <1>0, <2>1 DEF Channel
    <2>3. ~(pit'.access = 3 /\ pit'.loRead)
      BY <2>1, <2>2, Zenon
    <2> QED BY <2>1, <2>3 DEF ReadInv
  <1>4. CASE PitLoad
    <2>1. PICK b \in Bytes : pit.access # 0 /\ pit' = PitWrite(pit, b) /\ pitRead' = pitRead
      BY <1>4 DEF PitLoad, others
    <2>2. /\ pit'.access = pit.access /\ pit'.loRead = pit.loRead
          /\ pit'.latchVal = pit.latchVal /\ pit'.latched = pit.latched
      BY <1>0, <2>1, PitWriteFacts DEF PitInv
    <2> QED BY <2>1, <2>2, Zenon DEF ReadInv
  <1>5. CASE PitRead
    <2>0. /\ pit.access # 0 /\ (pit.access = 3 => pit.latched \/ pit.loRead)
          /\ pit' = PitAfterRead(pit)
          /\ pitRead' = IF pit.access # 3 THEN pitRead
                        ELSE IF ~pit.loRead
                        THEN [low |-> PitByte(pit), want |-> pit.latchVal, exact |-> TRUE]
                        ELSE [low |-> 0, want |-> 0,
                              exact |-> Join(PitByte(pit), pitRead.low) = pitRead.want]
      BY <1>5 DEF PitRead
    <2>1. CASE pit.access # 3
      <3>1. pit' = pit /\ pitRead' = pitRead
        BY <2>0, <2>1 DEF PitAfterRead
      <3> QED BY <3>1, Zenon DEF ReadInv
    <2>2. CASE pit.access = 3 /\ ~pit.loRead
      <3>1. pit' = [pit EXCEPT !.loRead = TRUE]
        BY <2>0, <2>2 DEF PitAfterRead
      <3>2. /\ pit'.access = pit.access /\ pit'.latchVal = pit.latchVal
            /\ pit'.latched = pit.latched
        BY <1>0, <3>1 DEF Channel
      <3>3. PitByte(pit) = Low(pit.latchVal) /\ pit.latched
        BY <2>0, <2>2 DEF PitByte, PitValue
      <3>4. pitRead' = [low |-> Low(pit.latchVal), want |-> pit.latchVal, exact |-> TRUE]
        BY <2>0, <2>2, <3>3
      <3>5. Low(pit.latchVal) \in Nat /\ pit.latchVal \in Nat
        BY <1>0, ByteFacts DEF Counts, Bytes
      <3>6. /\ pitRead' \in [low : Nat, want : Nat, exact : BOOLEAN] /\ pitRead'.exact
            /\ pitRead'.want = pit.latchVal /\ pitRead'.low = Low(pit.latchVal)
        BY <3>4, <3>5
      <3>7. pit'.latched
        BY <3>2, <3>3, Zenon
      <3>8. pitRead'.want = pit'.latchVal /\ pitRead'.low = Low(pit'.latchVal)
        BY <3>2, <3>6
      <3> QED BY <3>6, <3>7, <3>8, Zenon DEF ReadInv
    <2>3. CASE pit.access = 3 /\ pit.loRead
      <3>1. pit' = [pit EXCEPT !.loRead = FALSE, !.latched = FALSE]
        BY <2>0, <2>3 DEF PitAfterRead
      <3>2. ~pit'.loRead
        BY <1>0, <3>1 DEF Channel
      <3>3. pit.latched /\ pitRead.want = pit.latchVal /\ pitRead.low = Low(pit.latchVal)
        BY <2>3 DEF ReadInv
      <3>4. PitByte(pit) = High(pit.latchVal)
        BY <2>3, <3>3 DEF PitByte, PitValue
      <3>5. Join(PitByte(pit), pitRead.low) = pitRead.want
        BY <1>0, <3>3, <3>4, ByteFacts
      <3>6. pitRead' = [low |-> 0, want |-> 0, exact |-> TRUE]
        BY <2>0, <2>3, <3>5
      <3> QED BY <3>2, <3>6 DEF ReadInv
    <2> QED BY <2>1, <2>2, <2>3
  <1>6. CASE UNCHANGED <<pit, pitRead>>
    BY <1>6 DEF ReadInv
  <1> QED BY <1>1, <1>2, <1>3, <1>4, <1>5, <1>6, Touches DEF PitGuest

-----------------------------------------------------------------------------
(* The interrupt lines.                                                    *)

\* INTA#: requested only while it is asserted.
LEMMA WithIntaFacts ==
  ASSUME NEW m \in Chip, NEW s \in Chip, NEW g
  PROVE  WithInta(m, s, g) \in Chip /\ (3 \in WithInta(m, s, g).irr => Inta(g))
  <1>1. 3 \in Irqs /\ 3 < 8
    BY DEF Irqs
  <1>2. Requested(m, 3, RaiseMaster(m, 3)) /\ Withdrawn(m, 3, LowerMaster(m, s, 3))
    BY <1>1, MasterRequest
  <1>3. CASE Inta(g)
    BY <1>2, <1>3 DEF WithInta, Requested
  <1>4. CASE ~Inta(g)
    BY <1>2, <1>4 DEF WithInta, Withdrawn
  <1> QED BY <1>3, <1>4

\* The timer's and the clock's requests leave the other lines alone.
LEMMA RaiseTimers ==
  ASSUME NEW m \in Chip, NEW s \in Chip
  PROVE  /\ TickTimers(m) \in Chip /\ (3 \in TickTimers(m).irr => 3 \in m.irr)
         /\ RaiseMaster(m, 8) \in Chip /\ (3 \in RaiseMaster(m, 8).irr => 3 \in m.irr)
         /\ RaiseSlave(s, 8) \in Chip /\ RaiseSlave(s, 8).irr = s.irr \cup {0}
         /\ RaiseMaster(m, 11) \in Chip /\ (3 \in RaiseMaster(m, 11).irr => 3 \in m.irr)
         /\ RaiseSlave(s, 11) \in Chip /\ RaiseSlave(s, 11).irr = s.irr \cup {3}
  <1>1. 0 \in Irqs /\ 0 < 8 /\ 0 \in Lines /\ 3 \in Lines /\ Cascade # 3 /\ 8 = 8 + 0 /\ 11 = 8 + 3
    BY DEF Irqs, Lines, Cascade
  <1>2. Requested(m, 0, RaiseMaster(m, 0))
    BY <1>1, MasterRequest
  <1>3. Requested(m, Cascade, RaiseMaster(m, 8)) /\ Requested(s, 0, RaiseSlave(s, 8))
    BY <1>1, SlaveRequest
  <1>4. Requested(m, Cascade, RaiseMaster(m, 11)) /\ Requested(s, 3, RaiseSlave(s, 11))
    BY <1>1, SlaveRequest
  <1>5. TickTimers(m) \in Chip /\ (3 \in TickTimers(m).irr => 3 \in m.irr)
    BY <1>2 DEF TickTimers, Requested
  <1> QED BY <1>1, <1>3, <1>4, <1>5 DEF Requested

\* An acknowledged line had its cause, which stays until the handler clears it.
LEMMA DeliverKeepsPic ==
  ASSUME PicInv, Deliver
  PROVE  PicInv'
  <1>1. PICK a : a = PairAck(master, slave)
    OBVIOUS
  <1>2. /\ cpu = Main /\ PairPending(master, slave)
        /\ master' = a.master /\ slave' = a.slave /\ cpu' = a.irq
        /\ UNCHANGED <<rtc, smb, gpu>>
    BY <1>1 DEF Deliver, Running, chips
  <1>3. master \in Chip /\ slave \in Chip
    BY DEF PicInv
  <1>4. /\ a.irq \in Irqs \ {Cascade}
        /\ AfterService(master, MasterLine(a.irq), a.master)
        /\ a.irq < 8 => a.slave = slave
        /\ a.irq >= 8 => /\ a.irq - 8 \in Pending(slave)
                         /\ AfterService(slave, a.irq - 8, a.slave)
    BY <1>1, <1>2, <1>3, AckFacts
  <1>5. a.irq \in Nat /\ (a.irq < 8 \/ (a.irq >= 8 /\ ~(a.irq < 8)))
    BY <1>4 DEF Irqs
  <1>6. master' \in Chip /\ master'.irr \subseteq master.irr
    BY <1>2, <1>4 DEF AfterService
  <1>7. /\ slave' \in Chip /\ slave'.irr \subseteq slave.irr
        /\ a.irq # 8 /\ 0 \in slave.irr => 0 \in slave'.irr
    <2>1. CASE a.irq < 8
      BY <1>2, <1>3, <1>4, <2>1
    <2>2. CASE a.irq >= 8
      <3>1. /\ slave' \in Chip /\ slave'.irr \subseteq slave.irr \ {a.irq - 8}
            /\ slave.irr \ {a.irq - 8, Cascade} \subseteq slave'.irr
        BY <1>2, <1>4, <2>2 DEF AfterService
      <3>2. a.irq # 8 => 0 \notin {a.irq - 8, Cascade}
        BY <1>5 DEF Cascade
      <3>3. /\ slave' \in Chip /\ slave'.irr \subseteq slave.irr
            /\ a.irq # 8 /\ 0 \in slave.irr => 0 \in slave'.irr
        BY <3>1, <3>2, Zenon
      <3> QED BY <3>3
    <2> QED BY <1>5, <2>1, <2>2
  <1>8. cpu' \in {Main} \cup Irqs /\ cpu # 8
    BY <1>2, <1>4 DEF Main
  <1>9. 3 \in master'.irr => Inta(gpu')
    BY <1>2, <1>6 DEF PicInv
  <1>10. LinesFollowDevices'
    <2>1. rtc'.flags => 0 \in slave'.irr \/ cpu' = 8
      BY <1>2, <1>7, <1>8 DEF PicInv, LinesFollowDevices, InHandler
    <2>2. 3 \in slave'.irr => smb'.done
      BY <1>2, <1>7 DEF PicInv, LinesFollowDevices
    <2> QED BY <2>1, <2>2 DEF LinesFollowDevices, InHandler
  <1> QED BY <1>6, <1>7, <1>8, <1>9, <1>10 DEF PicInv

\* The handler's EOI and its IRETD end the handling of the line.
LEMMA ReturnKeepsPic ==
  ASSUME PicInv, Return
  PROVE  PicInv'
  <1>1. /\ Served
        /\ slave' = IF cpu >= 8 THEN EoiSpecific(slave, cpu - 8) ELSE slave
        /\ master' = EoiSpecific(master, IF cpu >= 8 THEN Cascade ELSE cpu)
        /\ cpu' = Main /\ UNCHANGED <<rtc, smb, gpu>>
    BY DEF Return, chips
  <1>2. master \in Chip /\ slave \in Chip
    BY DEF PicInv
  <1>3. \A line : /\ EoiSpecific(master, line) \in Chip
                  /\ EoiSpecific(master, line).irr = master.irr
                  /\ EoiSpecific(slave, line) \in Chip
                  /\ EoiSpecific(slave, line).irr = slave.irr
    BY <1>2, EoiSpecificFacts
  <1>4. master' \in Chip /\ master'.irr = master.irr /\ slave' \in Chip /\ slave'.irr = slave.irr
    BY <1>1, <1>2, <1>3
  <1>5. cpu = 8 => ~rtc.flags
    BY <1>1 DEF Served
  <1>6. LinesFollowDevices'
    BY <1>1, <1>4, <1>5 DEF PicInv, LinesFollowDevices, InHandler
  <1> QED BY <1>1, <1>4, <1>6 DEF PicInv

\* A tick sets a status and raises its line in one.
LEMMA ClockedKeepsPic ==
  ASSUME PicInv, DeviceInv, Clocked
  PROVE  PicInv'
  <1>1. PICK m : /\ m \in Chip /\ (3 \in m.irr => Inta(gpu'))
                 /\ master' = IF RtcRaises(rtc) THEN RaiseMaster(m, 8) ELSE m
    <2>1. TickTimers(master) \in Chip /\ (3 \in TickTimers(master).irr => Inta(gpu))
          /\ slave \in Chip
      BY RaiseTimers DEF PicInv
    <2>2. CASE Tick
      BY <2>1, <2>2, WithIntaFacts DEF Tick
    <2>3. CASE Burst
      BY <2>1, <2>3 DEF Burst
    <2> QED BY <2>2, <2>3 DEF Clocked
  <1>2. /\ slave' = IF RtcRaises(rtc) THEN RaiseSlave(slave, 8) ELSE slave
        /\ rtc' = RtcTick(rtc) /\ UNCHANGED <<cpu, smb>>
    BY DEF Clocked, Tick, Burst
  <1>3. slave \in Chip /\ rtc \in Clock
    BY DEF PicInv, DeviceInv
  <1>4. /\ RaiseMaster(m, 8) \in Chip /\ (3 \in RaiseMaster(m, 8).irr => 3 \in m.irr)
        /\ RaiseSlave(slave, 8) \in Chip /\ RaiseSlave(slave, 8).irr = slave.irr \cup {0}
    BY <1>1, <1>3, RaiseTimers
  <1>5. master' \in Chip /\ (3 \in master'.irr => Inta(gpu'))
    BY <1>1, <1>4
  <1>6. /\ slave' \in Chip /\ slave.irr \subseteq slave'.irr
        /\ RtcRaises(rtc) => 0 \in slave'.irr
        /\ 3 \in slave'.irr => 3 \in slave.irr
    BY <1>2, <1>3, <1>4
  <1>7. rtc'.flags <=> rtc.flags \/ RtcRaises(rtc)
    <2>1. TRUE \in BOOLEAN
      OBVIOUS
    <2>2. RtcTick(rtc).flags <=> rtc.flags \/ RtcRaises(rtc)
      BY <1>3, <2>1, RtcFacts
    <2> QED BY <1>2, <2>2, Zenon
  <1>8. LinesFollowDevices'
    BY <1>2, <1>6, <1>7 DEF PicInv, LinesFollowDevices, InHandler
  <1> QED BY <1>2, <1>5, <1>6, <1>8 DEF PicInv

\* A transaction sets the status and raises the line in one.
LEMMA SmbusKeepsPic ==
  ASSUME PicInv, DeviceInv, SmbusGuest
  PROVE  PicInv'
  <1>0. /\ UNCHANGED <<cpu, rtc, gpu>> /\ master \in Chip /\ slave \in Chip
        /\ smb \in Controller
    BY DEF SmbusGuest, SmbusSetUp, SmbusStart, SmbusAck, SmbusFifo, besideSmbus, PicInv, DeviceInv
  <1>1. CASE SmbusSetUp \/ SmbusFifo
    <2>1. UNCHANGED <<master, slave>> /\ smb'.done = smb.done
      <3>1. CASE SmbusSetUp
        BY <1>0, <3>1, SetUpFacts DEF SmbusSetUp
      <3>2. CASE SmbusFifo
        <4>1. TRUE \in BOOLEAN /\ smb' = AfterFifoRead(smb) /\ UNCHANGED <<master, slave>>
          BY <3>2 DEF SmbusFifo
        <4> QED BY <1>0, <4>1, SmbusFacts
      <3> QED BY <1>1, <3>1, <3>2
    <2> QED BY <1>0, <2>1, Zenon DEF PicInv, LinesFollowDevices, InHandler
  <1>2. CASE SmbusStart
    <2>1. /\ smb'.done
          /\ master' = RaiseMaster(master, 11) /\ slave' = RaiseSlave(slave, 11)
      <3>1. PICK b \in BOOLEAN : smb' = WriteControl(smb, b)
        BY <1>2 DEF SmbusStart
      <3>2. WriteControl(smb, b).done = TRUE
        BY <1>0, SmbusFacts
      <3> QED BY <1>2, <3>1, <3>2, Zenon DEF SmbusStart
    <2>2. /\ master' \in Chip /\ (3 \in master'.irr => 3 \in master.irr)
          /\ slave' \in Chip /\ slave'.irr = slave.irr \cup {3}
      BY <1>0, <2>1, RaiseTimers
    <2> QED BY <1>0, <2>1, <2>2 DEF PicInv, LinesFollowDevices, InHandler
  <1>3. CASE SmbusAck
    <2>1. IF smb'.done THEN UNCHANGED <<master, slave>>
          ELSE master' = LowerMaster(master, slave, 11) /\ slave' = LowerSlave(slave, 11)
      BY <1>3 DEF SmbusAck
    <2>2. CASE smb'.done
      BY <1>0, <2>1, <2>2 DEF PicInv, LinesFollowDevices, InHandler
    <2>3. CASE ~smb'.done
      <3>1. master' = LowerMaster(master, slave, 11) /\ slave' = LowerSlave(slave, 11)
        BY <2>1, <2>3
      <3>2. 3 \in Lines /\ 11 = 8 + 3
        BY DEF Lines
      <3>3. /\ \/ LowerMaster(master, slave, 11) = master
               \/ Withdrawn(master, Cascade, LowerMaster(master, slave, 11))
            /\ Withdrawn(slave, 3, LowerSlave(slave, 11))
        BY <1>0, <3>2, SlaveRequest
      <3>4. /\ master' \in Chip /\ master'.irr \subseteq master.irr
            /\ slave' \in Chip /\ slave'.irr = slave.irr \ {3}
        BY <1>0, <3>1, <3>3 DEF Withdrawn
      <3> QED BY <1>0, <3>4 DEF PicInv, LinesFollowDevices, InHandler
    <2> QED BY <2>2, <2>3
  <1> QED BY <1>1, <1>2, <1>3 DEF SmbusGuest

\* Every step keeps the lines in agreement with the devices.
LEMMA PicKeeps ==
  ASSUME PicInv, DeviceInv, GpuInv, [Next]_vars
  PROVE  PicInv'
  <1>1. CASE Clocked
    BY <1>1, ClockedKeepsPic
  <1>2. CASE Deliver
    BY <1>2, DeliverKeepsPic
  <1>3. CASE Return
    BY <1>3, ReturnKeepsPic
  <1>4. CASE SmbusGuest
    BY <1>4, SmbusKeepsPic
  <1>5. CASE RtcGuest
    <2>1. UNCHANGED <<master, slave, cpu, smb, gpu>>
      BY <1>5 DEF RtcGuest, RtcWrite, RtcRead
    <2>2. rtc'.flags => rtc.flags
      <3>1. rtc \in Clock /\ TRUE \in BOOLEAN
        BY DEF DeviceInv
      <3>2. CASE RtcWrite
        <4>1. PICK b \in BOOLEAN : \/ rtc' = WriteA(rtc, b) \/ rtc' = WriteB(rtc, b)
                                   \/ (b => rtc.flags) /\ rtc' = WriteC(rtc, b)
          BY <3>2 DEF RtcWrite
        <4>2. /\ WriteA(rtc, b).flags = rtc.flags /\ WriteB(rtc, b).flags = rtc.flags
              /\ WriteC(rtc, b).flags = b
          BY <3>1, RtcFacts
        <4> QED BY <4>1, <4>2
      <3>3. CASE RtcRead
        BY <3>1, <3>3, RtcFacts DEF RtcRead
      <3> QED BY <1>5, <3>2, <3>3 DEF RtcGuest
    <2> QED BY <2>1, <2>2 DEF PicInv, LinesFollowDevices, InHandler
  <1>6. CASE GpuAccess
    <2>1. master' = WithInta(master, slave, gpu') /\ UNCHANGED <<slave, cpu, rtc, smb>>
      BY <1>6 DEF GpuAccess, besideGpu
    <2>2. master' \in Chip /\ (3 \in master'.irr => Inta(gpu'))
      BY <2>1, WithIntaFacts DEF PicInv
    <2> QED BY <2>1, <2>2 DEF PicInv, LinesFollowDevices, InHandler
  <1>7. CASE GpuAlarm
    <2>1. PICK t \in 0 .. Times - 1 : gpu' = SetAlarm(gpu, t)
      BY <1>7 DEF GpuAlarm
    <2>2. UNCHANGED <<master, slave, cpu, rtc, smb>> /\ Inta(gpu') = Inta(gpu)
      <3>1. Inta(gpu') = Inta(gpu)
        BY <2>1, GpuFacts DEF GpuInv
      <3> QED BY <1>7, <3>1 DEF GpuAlarm, besideGpu
    <2> QED BY <2>2, Zenon DEF PicInv, LinesFollowDevices, InHandler
  <1>8. CASE UNCHANGED <<master, slave, cpu, rtc, smb, gpu>>
    BY <1>8 DEF PicInv, LinesFollowDevices, InHandler
  <1> QED BY <1>1, <1>2, <1>3, <1>4, <1>5, <1>6, <1>7, <1>8, Touches DEF GpuGuest

-----------------------------------------------------------------------------
(* The theorems.                                                           *)

\* The machine starts with the controllers free and the devices at power-on.
LEMMA InitHolds == Init => IInv
  <1> SUFFICES ASSUME Init PROVE IInv
    OBVIOUS
  <1>1. PicInv
    <2>1. Ready \in Chip /\ Ready.irr = {}
      <3>1. PowerOn \in Chip /\ PowerOn.irr = {}
        BY DEF PowerOn, Chip
      <3>2. ASSUME NEW c \in Chip
            PROVE  [c EXCEPT !.imr = {}] \in Chip /\ [c EXCEPT !.imr = {}].irr = c.irr
        BY DEF Chip
      <3> QED BY <3>1, <3>2 DEF Ready
    <2>2. ~RtcPowerOn.flags
      BY DEF RtcPowerOn
    <2>3. master = Ready /\ slave = Ready /\ cpu = Main /\ rtc = RtcPowerOn
      BY DEF Init
    <2> QED BY <2>1, <2>2, <2>3 DEF PicInv, LinesFollowDevices
  <1>2. PitInv /\ ReadInv
    <2>1. Byte \in Nat /\ Byte * Byte \in Nat /\ 0 \in 0 .. Byte * Byte - 1
      <3>1. Byte \in Nat /\ Byte >= 2
        BY ByteAssumption DEF ByteAssumption
      <3>2. ASSUME NEW b \in Nat, b >= 2 PROVE b * b \in Nat /\ b * b >= 1
        BY <3>2
      <3>3. PICK m \in Nat : m = Byte * Byte /\ m >= 1
        BY <3>1, <3>2
      <3> QED BY <3>1, <3>3
    <2>2. PitPowerOn \in Channel
      BY <2>1 DEF PitPowerOn, Channel, Counts, Modulus
    <2>3. /\ pit = PitPowerOn /\ pitDue = [left |-> 0, torn |-> FALSE, late |-> FALSE]
          /\ pitRead = [low |-> 0, want |-> 0, exact |-> TRUE]
      BY DEF Init
    <2>4. ~pit.enabled /\ ~pit.loWritten /\ pit.access = 0
      BY <2>3 DEF PitPowerOn
    <2>5. PitInv
      BY <2>2, <2>3, <2>4 DEF PitInv
    <2>6. ReadInv
      BY <2>3, <2>4 DEF ReadInv
    <2> QED BY <2>5, <2>6
  <1>3. GpuInv
    BY Nv2aAssumption DEF Init, GpuInv, Gpu, GpuPowerOn, Nv2aAssumption
  <1>4. FlashInv
    BY DEF Init, FlashInv, FlashChip, FlashPowerOn, Modes
  <1>5. DeviceInv
    <2>1. RtcPowerOn \in Clock
      BY RtcPeriodAssumption DEF RtcPowerOn, Clock, RtcPeriodAssumption
    <2>2. SmbusPowerOn([o \in Offsets |-> 0]) \in Controller
      <3>1. /\ 0 \in Data /\ 0 \in Offsets /\ [o \in Offsets |-> 0] \in [Offsets -> Data]
            /\ << >> \in Seq(Data) /\ "encoder" \in Devices
        BY SmbusAssumption DEF SmbusAssumption, Offsets, Devices
      <3> QED BY <3>1 DEF SmbusPowerOn, Controller
    <2>3. UsbInit \in Ohci
      BY FramesAssumption DEF UsbInit, Ohci, FramesAssumption
    <2> QED BY <2>1, <2>2, <2>3 DEF Init, DeviceInv
  <1>6. DiskInv /\ FifoInv
    BY DiskStarts, FifoStarts
  <1>7. driver \in Drivers
    BY DEF Init
  <1> QED BY <1>1, <1>2, <1>3, <1>4, <1>5, <1>6, <1>7 DEF IInv

\* Every step keeps every part of the invariant.
LEMMA NextKeeps ==
  ASSUME IInv, [Next]_vars
  PROVE  IInv'
  <1>1. PicInv' /\ PitInv' /\ ReadInv' /\ GpuInv' /\ FlashInv' /\ DeviceInv'
    BY PicKeeps, PitKeeps, ReadKeeps, GpuKeeps, FlashKeeps, DeviceKeeps DEF IInv
  <1>2. DiskInv'
    <2>1. CASE DiskGuest
      BY <2>1, DiskGuestKeeps DEF IInv
    <2>2. CASE UNCHANGED <<ide, disk, xfer>>
      BY <2>2, DiskStays DEF IInv, storage
    <2> QED BY <2>1, <2>2, Touches
  <1>3. FifoInv'
    <2>1. CASE Tick
      BY <2>1, FifoTicks DEF IInv
    <2>2. CASE FifoGuest
      BY <2>2, FifoGuestKeeps DEF IInv
    <2>3. CASE UNCHANGED <<fifo, win>>
      BY <2>3, FifoStays DEF IInv
    <2> QED BY <2>1, <2>2, <2>3, Touches
  <1>4. driver' \in Drivers
    BY Touches DEF IInv
  <1> QED BY <1>1, <1>2, <1>3, <1>4 DEF IInv

\* The invariant is one, for every guest and every size of the devices.
THEOREM Invariant == Spec => []IInv
  <1>1. Init => IInv
    BY InitHolds
  <1>2. IInv /\ [Next]_vars => IInv'
    BY NextKeeps
  <1> QED BY <1>1, <1>2, PTL DEF Spec

\* Every device stays in a state its registers can hold.
THEOREM TypeCorrect == Spec => []TypeOK
  <1>1. IInv => TypeOK
    <2> SUFFICES ASSUME IInv PROVE TypeOK
      OBVIOUS
    <2>1. fifo.fifoGet <= RamSize /\ fifo.put <= RamSize
      BY FifoProper DEF IInv
    <2>2. smb.fifo \in Seq(Data) /\ smb.eeprom \in [Offsets -> Data] /\ smb.data \in Data
      BY DEF IInv, DeviceInv, Controller
    <2>3. ide \in IdeChannel(Word) /\ disk \in Disk(Word)
      BY DEF IInv, DiskInv, IdeInv, Legal
    <2>4. /\ master \in Chip /\ slave \in Chip /\ cpu \in {Main} \cup Irqs
          /\ pit \in Channel /\ rtc \in Clock
          /\ flash \in FlashChip /\ usb \in Ohci /\ gpu \in Gpu /\ driver \in Drivers
      BY DEF IInv, PicInv, PitInv, GpuInv, FlashInv, DeviceInv
    <2> QED BY <2>1, <2>2, <2>3, <2>4 DEF TypeOK
  <1> QED BY <1>1, Invariant, PTL

\* The timer's interrupt is never at another tick than the one it is due.
THEOREM TimerOnTime == Spec => []PitOnTime
  <1>1. IInv => PitOnTime
    BY DEF IInv, PitInv, PitOnTime
  <1> QED BY <1>1, Invariant, PTL

\* The two bytes of a latched read are of one count.
THEOREM ReadWhole == Spec => []PitReadNotTorn
  <1>1. IInv => PitReadNotTorn
    BY DEF IInv, ReadInv, PitReadNotTorn
  <1> QED BY <1>1, Invariant, PTL

\* IRQ 8 and IRQ 11 are requested as the registers behind them say.
THEOREM LinesAgree == Spec => []LinesFollowDevices
  <1>1. IInv => LinesFollowDevices
    BY DEF IInv, PicInv
  <1> QED BY <1>1, Invariant, PTL

\* IRQ 3 is requested only for a block of the NV2A that is pending.
THEOREM IntaAgrees == Spec => []IntaFollows
  <1>1. IInv => IntaFollows
    BY DEF IInv, PicInv, GpuInv, IntaFollows
  <1> QED BY <1>1, Invariant, PTL

\* The sectors of the image are those the guest wrote, in the order it did.
THEOREM DiskHoldsWrites == Spec => []WriteReachesDisk
  <1>1. IInv => WriteReachesDisk
    BY WrittenReach DEF IInv
  <1> QED BY <1>1, Invariant, PTL

\* A WRITE SECTORS that ended stored every sector, unlike a READ SECTORS,
\* which delivers one fewer than it is asked for.
THEOREM WritesComplete == Spec => []WriteDeliversAll
  <1>1. IInv => WriteDeliversAll
    BY WholeWrites DEF IInv
  <1> QED BY <1>1, Invariant, PTL

\* The pusher never takes a method's data, or what is beyond the buffer, for
\* a command.
THEOREM PusherAtCommands == Spec => []AtHeaders
  <1>1. IInv => AtHeaders
    BY FifoProper DEF IInv
  <1> QED BY <1>1, Invariant, PTL

\* Each word the guest reads is that of the disk image.
THEOREM ReadsAreOfDisk == Spec => ReadsReturnDisk
  <1> DEFINE Reads == DataIn /\ xfer.dir = "in" =>
                LET s == (xfer.first + xfer.done \div Words) % Blocks
                IN  WordAtPort(ide) = IF s < Sectors THEN disk[s][xfer.done % Words] ELSE 0
  <1>1. IInv /\ [Next]_vars => [Reads]_vars
    BY ReadsDisk DEF IInv
  <1> QED BY <1>1, Invariant, PTL DEF Spec, ReadsReturnDisk

\* The guest sees every fence: from tick to tick REF_CNT takes the values of
\* the fences one by one, in the order of the buffer.
THEOREM FencesSeen == Spec => FencesInOrder
  <1>1. ASSUME IInv, [Next]_vars
        PROVE  NextFenceOnly
    <2>1. CASE Tick
      BY <1>1, <2>1, FifoTicks DEF IInv
    <2>2. CASE FifoGuest
      BY <1>1, <2>2, FifoGuestKeeps DEF IInv
    <2>3. CASE UNCHANGED <<fifo, win>>
      BY <2>3 DEF NextFenceOnly
    <2> QED BY <1>1, <2>1, <2>2, <2>3, Touches
  <1>2. IInv /\ [Next]_vars => [NextFenceOnly]_vars
    BY <1>1
  <1> QED BY <1>2, Invariant, PTL DEF Spec, FencesInOrder, NextFenceOnly

\* A bit of the flash rises only in a page whose erase was confirmed.
THEOREM FlashErases == Spec => FlashBitsRise
  <1>1. IInv /\ [Next]_vars => [FlashStep]_vars
    BY FlashRises DEF IInv
  <1> QED BY <1>1, Invariant, PTL DEF Spec, FlashBitsRise, FlashStep
=============================================================================
