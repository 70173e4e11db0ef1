----------------------------- MODULE PicProofs ------------------------------
(***************************************************************************)
(* What the operations of the interrupt controllers return, as lemmas for  *)
(* the proofs about the modules that are built on them.                    *)
(***************************************************************************)
EXTENDS Pic, Integers, TLAPS

-----------------------------------------------------------------------------
(* Lines.                                                                  *)

\* A set of lines has a lowest one (highest_pending, non-specific EOI).
LEMMA LowestLine ==
  ASSUME NEW S \in SUBSET Lines, S # {}
  PROVE  Lowest(S) \in S /\ \A j \in S : Lowest(S) <= j
  <1>1. \E i \in S : \A j \in S : i <= j
    <2>1. \A i \in S : i \in Nat /\ i <= 7
      BY DEF Lines
    <2> DEFINE Below(n) == \E i \in S : i < n
    <2>2. ASSUME NEW n \in 0 .. 7, ~Below(n), Below(n + 1)
          PROVE  \E i \in S : \A j \in S : i <= j
      BY <2>1, <2>2
    <2>3. ~Below(0) /\ Below(8)
      BY <2>1
    <2> HIDE DEF Below
    <2>4. \E n \in 0 .. 7 : ~Below(n) /\ Below(n + 1)
      <3>1. (~Below(0) /\ Below(0 + 1)) \/ ~Below(1)
        BY <2>3
      <3>2. (~Below(1) /\ Below(1 + 1)) \/ Below(1) \/ ~Below(2)
        OBVIOUS
      <3>3. (~Below(2) /\ Below(2 + 1)) \/ Below(2) \/ ~Below(3)
        OBVIOUS
      <3>4. (~Below(3) /\ Below(3 + 1)) \/ Below(3) \/ ~Below(4)
        OBVIOUS
      <3>5. (~Below(4) /\ Below(4 + 1)) \/ Below(4) \/ ~Below(5)
        OBVIOUS
      <3>6. (~Below(5) /\ Below(5 + 1)) \/ Below(5) \/ ~Below(6)
        OBVIOUS
      <3>7. (~Below(6) /\ Below(6 + 1)) \/ Below(6) \/ ~Below(7)
        OBVIOUS
      <3>8. (~Below(7) /\ Below(7 + 1)) \/ Below(7)
        BY <2>3
      <3>9. 0 \in 0 .. 7 /\ 1 \in 0 .. 7 /\ 2 \in 0 .. 7 /\ 3 \in 0 .. 7
            /\ 4 \in 0 .. 7 /\ 5 \in 0 .. 7 /\ 6 \in 0 .. 7 /\ 7 \in 0 .. 7
        OBVIOUS
      <3> QED BY <3>1, <3>2, <3>3, <3>4, <3>5, <3>6, <3>7, <3>8, <3>9
    <2> QED BY <2>2, <2>4
  <1> QED BY <1>1 DEF Lowest

\* What a chip has.
LEMMA ChipFields ==
  ASSUME NEW c \in Chip
  PROVE  /\ c.irr \in SUBSET Lines /\ c.imr \in SUBSET Lines /\ c.isr \in SUBSET Lines
         /\ c.aeoi \in BOOLEAN /\ c.icw4 \in BOOLEAN /\ c.single \in BOOLEAN
         /\ c.step \in 0 .. 3
         /\ Pending(c) \subseteq c.irr /\ Pending(c) \cap c.isr = {} /\ Pending(c) \cap c.imr = {}
  BY DEF Chip, Pending

\* The highest pending line is the one with the lowest number.
LEMMA HighestLine ==
  ASSUME NEW c \in Chip, ChipPending(c)
  PROVE  /\ Highest(c) \in Pending(c) /\ Highest(c) \in Lines
         /\ \A j \in Pending(c) : Highest(c) <= j
  <1>1. Pending(c) \in SUBSET Lines /\ Pending(c) # {}
    BY ChipFields DEF ChipPending
  <1> QED BY <1>1, LowestLine DEF Highest

-----------------------------------------------------------------------------
(* One chip.                                                               *)

\* A served line leaves the requests and, without auto-EOI, is in service.
LEMMA ServeFacts ==
  ASSUME NEW c \in Chip, NEW line \in Lines
  PROVE  /\ Serve(c, line) \in Chip
         /\ Serve(c, line).irr = c.irr \ {line}
         /\ Serve(c, line).isr = IF c.aeoi THEN c.isr \ {line} ELSE c.isr \cup {line}
         /\ Serve(c, line).imr = c.imr /\ Serve(c, line).aeoi = c.aeoi
         /\ Serve(c, line).step = c.step
  BY DEF Serve, Chip

\* Chip d is chip c after it has served the line.
AfterService(c, line, d) ==
    /\ d \in Chip
    /\ d.irr \subseteq c.irr \ {line}
    /\ c.irr \ {line, Cascade} \subseteq d.irr
    /\ d.isr = IF c.aeoi THEN c.isr \ {line} ELSE c.isr \cup {line}
    /\ d.imr = c.imr /\ d.aeoi = c.aeoi
    /\ d.step = c.step

\* ack() of one chip takes the request and puts the line in service.
LEMMA ServeIsService ==
  ASSUME NEW c \in Chip, NEW line \in Lines
  PROVE  AfterService(c, line, Serve(c, line))
  BY ServeFacts, Zenon DEF AfterService

\* An end of interrupt takes one line out of service.
LEMMA EoiFacts ==
  ASSUME NEW c \in Chip
  PROVE  /\ Eoi(c) \in Chip
         /\ c.isr = {} => Eoi(c).isr = {}
         /\ c.isr # {} => \E line \in c.isr : Eoi(c).isr = c.isr \ {line}
         /\ Eoi(c).irr = c.irr /\ Eoi(c).imr = c.imr /\ Eoi(c).aeoi = c.aeoi
         /\ Eoi(c).step = c.step
  <1>1. c.isr # {} => Lowest(c.isr) \in c.isr
    BY ChipFields, LowestLine
  <1> QED BY <1>1 DEF Eoi, Chip

\* A specific EOI takes one line out of service and leaves the rest.
LEMMA EoiSpecificFacts ==
  ASSUME NEW c \in Chip, NEW line
  PROVE  /\ EoiSpecific(c, line) \in Chip
         /\ EoiSpecific(c, line).isr = c.isr \ {line}
         /\ EoiSpecific(c, line).irr = c.irr /\ EoiSpecific(c, line).imr = c.imr
         /\ EoiSpecific(c, line).aeoi = c.aeoi
         /\ EoiSpecific(c, line).step = c.step
  BY DEF EoiSpecific, Chip

\* The initialisation: nothing is requested, masked or in service.
LEMMA Icw1Facts ==
  ASSUME NEW c \in Chip, NEW icw4 \in BOOLEAN, NEW single \in BOOLEAN
  PROVE  /\ Icw1(c, icw4, single) \in Chip
         /\ Icw1(c, icw4, single).isr = {}
         /\ Icw1(c, icw4, single).aeoi = c.aeoi
  <1> DEFINE idle == [c EXCEPT !.irr = {}, !.imr = {}]
             cleared == [idle EXCEPT !.isr = {}, !.step = 1]
  <1>0. idle \in Chip /\ idle.aeoi = c.aeoi
    BY DEF Chip
  <1>8. cleared = [c EXCEPT !.irr = {}, !.imr = {}, !.isr = {}, !.step = 1]
    OBVIOUS
  <1> HIDE DEF idle
  <1>1. cleared \in Chip
    <2>1. ASSUME NEW d \in Chip, NEW n \in 0 .. 3
          PROVE  [d EXCEPT !.isr = {}, !.step = n] \in Chip
      BY DEF Chip
    <2>2. 1 \in 0 .. 3
      OBVIOUS
    <2> QED BY <1>0, <2>1, <2>2, Zenon
  <1>2. cleared.isr = {}
    BY <1>0 DEF Chip
  <1>3. cleared.aeoi = c.aeoi
    BY <1>0 DEF Chip
  <1>4. Icw1(c, icw4, single) = [cleared EXCEPT !.icw4 = icw4, !.single = single]
    BY <1>8 DEF Icw1
  <1> HIDE DEF cleared
  <1>5. ASSUME NEW d \in Chip PROVE [d EXCEPT !.icw4 = icw4, !.single = single] \in Chip
    BY DEF Chip
  <1>6. ASSUME NEW d \in Chip
        PROVE  [d EXCEPT !.icw4 = icw4, !.single = single].isr = d.isr
    BY DEF Chip
  <1>7. ASSUME NEW d \in Chip
        PROVE  [d EXCEPT !.icw4 = icw4, !.single = single].aeoi = d.aeoi
    BY DEF Chip
  <1> QED BY <1>1, <1>2, <1>3, <1>4, <1>5, <1>6, <1>7

\* The data port touches neither requests nor lines in service, and changes
\* auto_eoi only while the chip is being initialised.
LEMMA DataWriteFacts ==
  ASSUME NEW c \in Chip, NEW mask \in SUBSET Lines, NEW aeoi \in BOOLEAN
  PROVE  /\ DataWrite(c, mask, aeoi) \in Chip
         /\ DataWrite(c, mask, aeoi).irr = c.irr
         /\ DataWrite(c, mask, aeoi).isr = c.isr
         /\ c.step = 0 => /\ DataWrite(c, mask, aeoi).step = 0
                          /\ DataWrite(c, mask, aeoi).aeoi = c.aeoi
  <1>1. CASE c.step = 0
    <2>1. DataWrite(c, mask, aeoi) = [c EXCEPT !.imr = mask]
      BY <1>1 DEF DataWrite
    <2>2. [c EXCEPT !.imr = mask] \in Chip
      BY DEF Chip
    <2>3. /\ [c EXCEPT !.imr = mask].irr = c.irr
          /\ [c EXCEPT !.imr = mask].isr = c.isr
          /\ [c EXCEPT !.imr = mask].aeoi = c.aeoi
          /\ [c EXCEPT !.imr = mask].step = c.step
      BY DEF Chip
    <2> QED BY <1>1, <2>1, <2>2, <2>3
  <1>2. CASE c.step = 3
    <2>1. DataWrite(c, mask, aeoi) = [c EXCEPT !.aeoi = aeoi, !.step = 0]
      BY <1>2 DEF DataWrite
    <2>2. [c EXCEPT !.aeoi = aeoi, !.step = 0] \in Chip
      <3>1. ASSUME NEW n \in 0 .. 3 PROVE [c EXCEPT !.aeoi = aeoi, !.step = n] \in Chip
        BY DEF Chip
      <3> QED BY <3>1
    <2>3. /\ [c EXCEPT !.aeoi = aeoi, !.step = 0].irr = c.irr
          /\ [c EXCEPT !.aeoi = aeoi, !.step = 0].isr = c.isr
      BY DEF Chip
    <2> QED BY <1>2, <2>1, <2>2, <2>3
  <1>3. CASE c.step \notin {0, 3}
    <2>1. PICK n \in 0 .. 3 : DataWrite(c, mask, aeoi) = [c EXCEPT !.step = n]
      <3>1. /\ 0 \in 0 .. 3 /\ 2 \in 0 .. 3 /\ 3 \in 0 .. 3
            /\ c.step # 0 /\ c.step # 3
        BY <1>3
      <3>2. CASE c.step = 1 /\ ~c.single
        BY <3>1, <3>2 DEF DataWrite
      <3>3. CASE ~(c.step = 1 /\ ~c.single) /\ c.icw4
        BY <3>1, <3>3 DEF DataWrite
      <3>4. CASE ~(c.step = 1 /\ ~c.single) /\ ~c.icw4
        BY <3>1, <3>4 DEF DataWrite
      <3> QED BY <3>2, <3>3, <3>4
    <2>2. /\ [c EXCEPT !.step = n] \in Chip
          /\ [c EXCEPT !.step = n].irr = c.irr
          /\ [c EXCEPT !.step = n].isr = c.isr
      BY DEF Chip
    <2>3. c.step # 0
      BY <1>3
    <2> QED BY <2>1, <2>2, <2>3
  <1> QED BY <1>1, <1>2, <1>3

-----------------------------------------------------------------------------
(* The pair.                                                               *)

\* A line that is raised or lowered changes requests only.
LEMMA RaiseFacts ==
  ASSUME NEW m \in Chip, NEW s \in Chip, NEW irq \in Irqs
  PROVE  /\ RaiseMaster(m, irq) \in Chip /\ RaiseSlave(s, irq) \in Chip
         /\ RaiseMaster(m, irq).irr = m.irr \cup {IF irq < 8 THEN irq ELSE Cascade}
         /\ RaiseSlave(s, irq).irr = IF irq < 8 THEN s.irr ELSE s.irr \cup {irq - 8}
         /\ RaiseMaster(m, irq).isr = m.isr /\ RaiseSlave(s, irq).isr = s.isr
         /\ RaiseMaster(m, irq).aeoi = m.aeoi /\ RaiseSlave(s, irq).aeoi = s.aeoi
         /\ RaiseMaster(m, irq).step = m.step /\ RaiseSlave(s, irq).step = s.step
  <1>1. (IF irq < 8 THEN irq ELSE Cascade) \in Lines /\ (irq < 8 \/ irq - 8 \in Lines)
    BY DEF Irqs, Lines, Cascade
  <1>2. /\ RaiseMaster(m, irq) \in Chip
        /\ RaiseMaster(m, irq).irr = m.irr \cup {IF irq < 8 THEN irq ELSE Cascade}
        /\ RaiseMaster(m, irq).isr = m.isr /\ RaiseMaster(m, irq).aeoi = m.aeoi
        /\ RaiseMaster(m, irq).step = m.step
    BY <1>1 DEF RaiseMaster, Chip
  <1>3. /\ RaiseSlave(s, irq) \in Chip
        /\ RaiseSlave(s, irq).irr = IF irq < 8 THEN s.irr ELSE s.irr \cup {irq - 8}
        /\ RaiseSlave(s, irq).isr = s.isr /\ RaiseSlave(s, irq).aeoi = s.aeoi
        /\ RaiseSlave(s, irq).step = s.step
    BY <1>1 DEF RaiseSlave, Chip
  <1> QED BY <1>2, <1>3

\* lower_irq withdraws requests only: the line's, and perhaps the cascade's.
LEMMA LowerFacts ==
  ASSUME NEW m \in Chip, NEW s \in Chip, NEW irq \in Irqs
  PROVE  /\ LowerMaster(m, s, irq) \in Chip /\ LowerSlave(s, irq) \in Chip
         /\ LowerSlave(s, irq).irr = IF irq < 8 THEN s.irr ELSE s.irr \ {irq - 8}
         /\ LowerMaster(m, s, irq).irr \subseteq m.irr
         /\ irq < 8 => LowerMaster(m, s, irq).irr = m.irr \ {irq}
         /\ irq >= 8 => m.irr \ {Cascade} \subseteq LowerMaster(m, s, irq).irr
         /\ LowerMaster(m, s, irq).isr = m.isr /\ LowerSlave(s, irq).isr = s.isr
         /\ LowerMaster(m, s, irq).aeoi = m.aeoi /\ LowerSlave(s, irq).aeoi = s.aeoi
         /\ LowerMaster(m, s, irq).step = m.step /\ LowerSlave(s, irq).step = s.step
  <1>1. /\ LowerSlave(s, irq) \in Chip
        /\ LowerSlave(s, irq).irr = IF irq < 8 THEN s.irr ELSE s.irr \ {irq - 8}
        /\ LowerSlave(s, irq).isr = s.isr /\ LowerSlave(s, irq).aeoi = s.aeoi
        /\ LowerSlave(s, irq).step = s.step
    BY DEF LowerSlave, Chip
  <1>2. ASSUME NEW line PROVE /\ [m EXCEPT !.irr = @ \ {line}] \in Chip
                              /\ [m EXCEPT !.irr = @ \ {line}].irr = m.irr \ {line}
                              /\ [m EXCEPT !.irr = @ \ {line}].isr = m.isr
                              /\ [m EXCEPT !.irr = @ \ {line}].aeoi = m.aeoi
                              /\ [m EXCEPT !.irr = @ \ {line}].step = m.step
    BY DEF Chip
  <1>3. irq \in Int
    BY DEF Irqs
  <1>4. CASE irq < 8
    <2>1. LowerMaster(m, s, irq) = [m EXCEPT !.irr = @ \ {irq}]
      BY <1>4 DEF LowerMaster
    <2> QED BY <1>1, <1>2, <1>3, <1>4, <2>1
  <1>5. CASE irq >= 8
    <2>1. \/ LowerMaster(m, s, irq) = m
          \/ LowerMaster(m, s, irq) = [m EXCEPT !.irr = @ \ {Cascade}]
      BY <1>3, <1>5 DEF LowerMaster
    <2>2. CASE LowerMaster(m, s, irq) = m
      BY <1>1, <1>3, <1>5, <2>2
    <2>3. CASE LowerMaster(m, s, irq) = [m EXCEPT !.irr = @ \ {Cascade}]
      BY <1>1, <1>2, <1>3, <1>5, <2>3
    <2> QED BY <2>1, <2>2, <2>3
  <1> QED BY <1>3, <1>4, <1>5

\* Chip d is chip c with a line requested, or no longer requested.
Requested(c, line, d) == d \in Chip /\ d.irr = c.irr \cup {line}
Withdrawn(c, line, d) == d \in Chip /\ d.irr = c.irr \ {line}

\* raise_irq and lower_irq of the master's own lines.
LEMMA MasterRequest ==
  ASSUME NEW m \in Chip, NEW s \in Chip, NEW irq \in Irqs, irq < 8
  PROVE  /\ Requested(m, irq, RaiseMaster(m, irq))
         /\ Withdrawn(m, irq, LowerMaster(m, s, irq))
  <1>1. irq \in Lines
    BY DEF Irqs, Lines
  <1>2. RaiseMaster(m, irq) = [m EXCEPT !.irr = @ \cup {irq}]
    BY DEF RaiseMaster
  <1>3. LowerMaster(m, s, irq) = [m EXCEPT !.irr = @ \ {irq}]
    BY DEF LowerMaster
  <1>4. Requested(m, irq, RaiseMaster(m, irq))
    BY <1>1, <1>2 DEF Chip, Requested
  <1>5. Withdrawn(m, irq, LowerMaster(m, s, irq))
    BY <1>3 DEF Chip, Withdrawn
  <1> QED BY <1>4, <1>5

\* raise_irq and lower_irq of the slave's lines: raising one requests the
\* cascade too, lowering it may withdraw that.
LEMMA SlaveRequest ==
  ASSUME NEW m \in Chip, NEW s \in Chip, NEW line \in Lines, NEW irq, irq = 8 + line
  PROVE  /\ Requested(m, Cascade, RaiseMaster(m, irq))
         /\ Requested(s, line, RaiseSlave(s, irq))
         /\ LowerMaster(m, s, irq) = m \/ Withdrawn(m, Cascade, LowerMaster(m, s, irq))
         /\ Withdrawn(s, line, LowerSlave(s, irq))
  <1>1. ~(irq < 8) /\ irq - 8 = line /\ Cascade \in Lines
    BY DEF Lines, Cascade
  <1>2. RaiseMaster(m, irq) = [m EXCEPT !.irr = @ \cup {Cascade}]
    BY <1>1 DEF RaiseMaster
  <1>3. RaiseSlave(s, irq) = [s EXCEPT !.irr = @ \cup {line}]
    BY <1>1 DEF RaiseSlave
  <1>4. LowerSlave(s, irq) = [s EXCEPT !.irr = @ \ {line}]
    BY <1>1 DEF LowerSlave
  <1>5. \/ LowerMaster(m, s, irq) = m
        \/ LowerMaster(m, s, irq) = [m EXCEPT !.irr = @ \ {Cascade}]
    BY <1>1 DEF LowerMaster
  <1>6. ASSUME NEW c \in Chip, NEW l \in Lines
        PROVE  /\ Requested(c, l, [c EXCEPT !.irr = @ \cup {l}])
               /\ Withdrawn(c, l, [c EXCEPT !.irr = @ \ {l}])
    BY DEF Chip, Requested, Withdrawn
  <1>7. Requested(m, Cascade, RaiseMaster(m, irq))
    BY <1>1, <1>2, <1>6
  <1>8. Requested(s, line, RaiseSlave(s, irq))
    BY <1>3, <1>6
  <1>9. LowerMaster(m, s, irq) = m \/ Withdrawn(m, Cascade, LowerMaster(m, s, irq))
    BY <1>1, <1>5, <1>6
  <1>10. Withdrawn(s, line, LowerSlave(s, irq))
    BY <1>4, <1>6
  <1> QED BY <1>7, <1>8, <1>9, <1>10

\* The line of the master that IRQ irq comes through.
MasterLine(irq) == IF irq < 8 THEN irq ELSE Cascade

\* ack() after has_pending(): a line that is pending and not masked, of the
\* highest priority on the master unless that is a cascade nobody is behind,
\* and on a slave the highest there; it is served on every chip it passes.
LEMMA AckFacts ==
  ASSUME NEW m \in Chip, NEW s \in Chip, PairPending(m, s),
         NEW a, a = PairAck(m, s)
  PROVE  /\ a.irq \in Irqs \ {Cascade}
         /\ MasterLine(a.irq) \in Pending(m)
         /\ \A i \in Pending(m) \ {Cascade} : MasterLine(a.irq) <= i
         /\ AfterService(m, MasterLine(a.irq), a.master)
         /\ a.irq < 8 => a.slave = s
         /\ a.irq >= 8 => /\ a.irq - 8 \in Pending(s)
                          /\ AfterService(s, a.irq - 8, a.slave)
  <1>0. ChipPending(m) /\ Highest(m) \in Pending(m) /\ Highest(m) \in Lines
        /\ \A j \in Pending(m) : Highest(m) <= j
    BY HighestLine DEF PairPending
  <1>1. CASE Highest(m) # Cascade
    <2> DEFINE i == Highest(m)
    <2>1. a = [master |-> Serve(m, i), slave |-> s, irq |-> i]
      BY <1>0, <1>1 DEF PairAck, AckChip, AckLine
    <2> HIDE DEF i
    <2>2. a.master = Serve(m, i) /\ a.slave = s /\ a.irq = i
      BY <2>1
    <2>3. i \in Lines /\ i \in Irqs \ {Cascade} /\ i < 8 /\ ~(i >= 8) /\ MasterLine(i) = i
          /\ i \in Pending(m) /\ \A j \in Pending(m) : i <= j
      BY <1>0, <1>1 DEF i, Lines, Irqs, MasterLine
    <2>4. AfterService(m, i, a.master)
      BY <2>2, <2>3, ServeIsService
    <2> QED BY <2>2, <2>3, <2>4
  <1>2. CASE Highest(m) = Cascade /\ ChipPending(s)
    <2> DEFINE i == Highest(s)
    <2>1. a = [master |-> Serve(m, Cascade), slave |-> Serve(s, i), irq |-> 8 + i]
      BY <1>0, <1>2 DEF PairAck, AckChip, AckLine
    <2>2. i \in Pending(s) /\ i \in Lines /\ Cascade \in Lines /\ Cascade \in Pending(m)
      BY <1>0, <1>2, HighestLine
    <2> HIDE DEF i
    <2>3. a.master = Serve(m, Cascade) /\ a.slave = Serve(s, i) /\ a.irq = 8 + i
      BY <2>1
    <2>4. a.irq \in Irqs \ {Cascade} /\ ~(a.irq < 8) /\ a.irq >= 8 /\ a.irq - 8 = i
          /\ MasterLine(a.irq) = Cascade
      BY <2>2, <2>3 DEF Lines, Irqs, Cascade, MasterLine
    <2>5. \A j \in Pending(m) \ {Cascade} : Cascade <= j
      BY <1>0, <1>2
    <2>6. AfterService(m, Cascade, a.master)
      BY <2>2, <2>3, ServeIsService
    <2>7. AfterService(s, i, a.slave)
      BY <2>2, <2>3, ServeIsService
    <2> QED BY <2>2, <2>4, <2>5, <2>6, <2>7
  <1>3. CASE Highest(m) = Cascade /\ ~ChipPending(s)
    <2> DEFINE n == [m EXCEPT !.irr = @ \ {Cascade}]
    <2>1. n \in Chip /\ n.irr = m.irr \ {Cascade} /\ n.isr = m.isr /\ n.imr = m.imr
          /\ n.aeoi = m.aeoi /\ n.step = m.step
      BY DEF Chip
    <2>2. a = [master |-> AckChip(n), slave |-> s, irq |-> AckLine(n)]
      BY <1>0, <1>3 DEF PairAck
    <2> HIDE DEF n
    <2>3. Pending(n) = Pending(m) \ {Cascade}
      BY <2>1 DEF Pending
    <2>4. ChipPending(n)
      BY <1>0, <1>3, <2>3 DEF PairPending, ChipPending
    <2> DEFINE i == Highest(n)
    <2>5. i \in Pending(n) /\ i \in Lines /\ \A j \in Pending(n) : i <= j
      BY <2>1, <2>4, HighestLine
    <2>6. a = [master |-> Serve(n, i), slave |-> s, irq |-> i]
      BY <2>2, <2>4 DEF AckChip, AckLine
    <2> HIDE DEF i
    <2>7. a.master = Serve(n, i) /\ a.slave = s /\ a.irq = i
      BY <2>6
    <2>8. i \in Irqs \ {Cascade} /\ i < 8 /\ ~(i >= 8) /\ MasterLine(i) = i /\ i \in Pending(m)
      BY <2>3, <2>5 DEF Lines, Irqs, MasterLine
    <2>9. AfterService(m, i, a.master)
      <3>1. AfterService(n, i, a.master)
        BY <2>1, <2>5, <2>7, ServeIsService
      <3>2. n.irr = m.irr \ {Cascade} /\ n.isr = m.isr /\ n.imr = m.imr
            /\ n.aeoi = m.aeoi /\ n.step = m.step
        BY <2>1
      <3>3. a.master.irr \subseteq n.irr \ {i} /\ n.irr \ {i, Cascade} \subseteq a.master.irr
        BY <3>1 DEF AfterService
      <3>4. a.master.irr \subseteq m.irr \ {i} /\ m.irr \ {i, Cascade} \subseteq a.master.irr
        BY <3>2, <3>3
      <3> QED BY <3>1, <3>2, <3>4, Zenon DEF AfterService
    <2> QED BY <2>1, <2>3, <2>5, <2>7, <2>8, <2>9
  <1> QED BY <1>1, <1>2, <1>3
=============================================================================
