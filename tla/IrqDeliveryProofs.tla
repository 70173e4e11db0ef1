------------------------- MODULE IrqDeliveryProofs --------------------------
(***************************************************************************)
(* Theorems about IrqDelivery, for every wiring, every guest programming   *)
(* of the two chips and every nesting depth.                               *)
(*                                                                         *)
(* The argument.  A handler owes a chip an end of interrupt from the       *)
(* delivery until it sends it; MasterDue and SlaveDue are the handlers     *)
(* that do.  A chip has in service what it is owed: with specific EOI      *)
(* commands exactly the lines of those handlers, each handler its own,     *)
(* and with non-specific commands, which end whatever line is highest, as  *)
(* many lines as there are handlers.  With no handler nothing is owed, and *)
(* then nothing is in service.                                             *)
(***************************************************************************)
EXTENDS IrqDelivery, PicProofs, FiniteSetTheorems, SequenceTheorems

-----------------------------------------------------------------------------
(* The inductive invariant.                                                *)

Active == 1 .. Len(frames)

MasterDue == IF master.aeoi THEN {}
             ELSE {i \in Active : frames[i].next \in {"slave", "master"}}
SlaveDue == IF slave.aeoi THEN {} ELSE {i \in Active : frames[i].next = "slave"}

MasterLines == [i \in Active |-> MasterLine(frames[i].irq)]
SlaveLines == [i \in Active |-> frames[i].irq - 8]

\* The lines in service are the ones that the handlers in due will end.
Matches(isr, due, lines, specific) ==
    IF specific
    THEN /\ isr = {lines[i] : i \in due}
         /\ \A i, j \in due : lines[i] = lines[j] => i = j
    ELSE Cardinality(isr) = Cardinality(due)

\* A handler sends an end of interrupt only to a chip that it owes one.
FrameInv == \A i \in Active : /\ frames[i].irq # Cascade
                              /\ frames[i].next = "slave" => frames[i].irq >= 8 /\ ~slave.aeoi
                              /\ frames[i].next = "master" => ~master.aeoi

\* A chip is being initialised only with interrupts off and no handler.
StepInv == master.step # 0 \/ slave.step # 0 => frames = <<>> /\ ~vif

MasterInv == Matches(master.isr, MasterDue, MasterLines, MasterSpecific)
SlaveInv == Matches(slave.isr, SlaveDue, SlaveLines, SlaveSpecific)

IInv == TypeOK /\ FrameInv /\ StepInv /\ MasterInv /\ SlaveInv

-----------------------------------------------------------------------------
(* What is owed to a chip.                                                 *)

\* A register is a finite set.
LEMMA LinesFinite ==
  ASSUME NEW S \in SUBSET Lines
  PROVE  IsFiniteSet(S)
  <1>1. 0 \in Int /\ 7 \in Int
    OBVIOUS
  <1>2. IsFiniteSet(0 .. 7)
    BY <1>1, FS_Interval, Zenon
  <1> QED BY <1>2, FS_Subset DEF Lines

\* Nothing is in service of a chip that is owed nothing.
LEMMA NothingDue ==
  ASSUME NEW isr \in SUBSET Lines, NEW lines, NEW specific \in BOOLEAN
  PROVE  Matches(isr, {}, lines, specific) <=> isr = {}
  <1>1. IsFiniteSet(isr) /\ (Cardinality(isr) = 0 <=> isr = {}) /\ Cardinality({}) = 0
    <2>1. IsFiniteSet(isr)
      BY LinesFinite
    <2> QED BY <2>1, FS_EmptySet
  <1>2. CASE specific
    BY <1>2 DEF Matches
  <1>3. CASE ~specific
    BY <1>1, <1>3 DEF Matches
  <1> QED BY <1>2, <1>3

\* A delivery: one more handler, one more line in service.
LEMMA OneMoreDue ==
  ASSUME NEW isr \in SUBSET Lines, NEW due \in SUBSET Nat, IsFiniteSet(due),
         NEW lines, NEW specific \in BOOLEAN,
         Matches(isr, due, lines, specific),
         NEW n, n \notin due, NEW line, line \notin isr,
         NEW lines2, lines2[n] = line, \A i \in due : lines2[i] = lines[i]
  PROVE  Matches(isr \cup {line}, due \cup {n}, lines2, specific)
  <1>1. CASE specific
    <2>1. isr = {lines[i] : i \in due} /\ \A i, j \in due : lines[i] = lines[j] => i = j
      BY <1>1 DEF Matches
    <2>2. isr \cup {line} = {lines2[i] : i \in due \cup {n}}
      BY <2>1
    <2>3. \A i, j \in due \cup {n} : lines2[i] = lines2[j] => i = j
      BY <2>1
    <2> QED BY <1>1, <2>2, <2>3 DEF Matches
  <1>2. CASE ~specific
    <2>1. IsFiniteSet(isr)
      BY LinesFinite
    <2>2. Cardinality(isr) = Cardinality(due)
      BY <1>2 DEF Matches
    <2>3. Cardinality(isr \cup {line}) = Cardinality(isr) + 1
      BY <2>1, FS_AddElement
    <2>4. Cardinality(due \cup {n}) = Cardinality(due) + 1
      BY FS_AddElement
    <2> QED BY <1>2, <2>2, <2>3, <2>4 DEF Matches
  <1> QED BY <1>1, <1>2

\* An end of interrupt: the handler owes nothing any more, and the line that
\* leaves service is its own or, with a non-specific command, some line.
LEMMA OneLessDue ==
  ASSUME NEW isr \in SUBSET Lines, NEW due \in SUBSET Nat, IsFiniteSet(due),
         NEW lines, NEW specific \in BOOLEAN,
         Matches(isr, due, lines, specific),
         NEW n \in due, NEW isr2,
         specific => isr2 = isr \ {lines[n]},
         ~specific => (isr # {} => \E line \in isr : isr2 = isr \ {line}),
         NEW lines2, \A i \in due \ {n} : lines2[i] = lines[i]
  PROVE  Matches(isr2, due \ {n}, lines2, specific)
  <1>1. CASE specific
    <2>1. isr = {lines[i] : i \in due} /\ \A i, j \in due : lines[i] = lines[j] => i = j
      BY <1>1 DEF Matches
    <2>2. isr2 = {lines2[i] : i \in due \ {n}}
      BY <1>1, <2>1
    <2>3. \A i, j \in due \ {n} : lines2[i] = lines2[j] => i = j
      BY <2>1
    <2> QED BY <1>1, <2>2, <2>3 DEF Matches
  <1>2. CASE ~specific
    <2>1. IsFiniteSet(isr)
      BY LinesFinite
    <2>2. Cardinality(isr) = Cardinality(due)
      BY <1>2 DEF Matches
    <2>3. Cardinality(due \ {n}) = Cardinality(due) - 1
      BY FS_RemoveElement
    <2>4. isr # {}
      BY <2>2, FS_EmptySet
    <2>5. PICK line \in isr : isr2 = isr \ {line}
      BY <1>2, <2>4
    <2>6. Cardinality(isr2) = Cardinality(isr) - 1
      BY <2>1, <2>5, FS_RemoveElement
    <2> QED BY <1>2, <2>2, <2>3, <2>6 DEF Matches
  <1> QED BY <1>1, <1>2

\* Only the handlers that owe something count.
LEMMA SameDue ==
  ASSUME NEW isr, NEW due, NEW lines, NEW specific \in BOOLEAN,
         Matches(isr, due, lines, specific),
         NEW lines2, \A i \in due : lines2[i] = lines[i]
  PROVE  Matches(isr, due, lines2, specific)
  <1>1. CASE specific
    <2>1. {lines2[i] : i \in due} = {lines[i] : i \in due}
      OBVIOUS
    <2> QED BY <1>1, <2>1 DEF Matches
  <1>2. CASE ~specific
    BY <1>2 DEF Matches
  <1> QED BY <1>1, <1>2

\* The handlers that owe a chip something are finitely many; a handler's
\* fields, and the frame on top.
LEMMA FrameFacts ==
  ASSUME TypeOK
  PROVE  /\ master \in Chip /\ slave \in Chip /\ vif \in BOOLEAN
         /\ frames \in Seq(Frame) /\ Len(frames) \in Nat /\ Len(frames) <= MaxNest
         /\ \A i \in Active : /\ frames[i].irq \in Irqs /\ frames[i].saved \in BOOLEAN
                              /\ frames[i].next \in {"slave", "master", "iret"}
         /\ MasterDue \in SUBSET Nat /\ IsFiniteSet(MasterDue) /\ MasterDue \subseteq Active
         /\ SlaveDue \in SUBSET Nat /\ IsFiniteSet(SlaveDue) /\ SlaveDue \subseteq Active
         /\ Nested => Len(frames) \in Active
         /\ ~Nested => frames = <<>> /\ MasterDue = {} /\ SlaveDue = {}
  <1>1. /\ master \in Chip /\ slave \in Chip /\ vif \in BOOLEAN
        /\ frames \in Seq(Frame) /\ Len(frames) \in Nat /\ Len(frames) <= MaxNest
    BY DEF TypeOK
  <1>2. \A i \in Active : frames[i] \in Frame
    BY <1>1 DEF Active
  <1>3. \A i \in Active : /\ frames[i].irq \in Irqs /\ frames[i].saved \in BOOLEAN
                          /\ frames[i].next \in {"slave", "master", "iret"}
    BY <1>2 DEF Frame
  <1>4. IsFiniteSet(Active) /\ Active \in SUBSET Nat
    <2>1. 1 \in Int /\ Len(frames) \in Int
      BY <1>1
    <2>2. IsFiniteSet(1 .. Len(frames))
      BY <2>1, FS_Interval, Zenon
    <2> QED BY <1>1, <2>2 DEF Active
  <1>5. MasterDue \subseteq Active /\ SlaveDue \subseteq Active
    BY DEF MasterDue, SlaveDue
  <1>6. Nested => Len(frames) \in Active
    BY <1>1 DEF Nested, Active
  <1>7. ~Nested => frames = <<>> /\ Active = {}
    BY <1>1 DEF Nested, Active
  <1>8. IsFiniteSet(MasterDue) /\ IsFiniteSet(SlaveDue)
    BY <1>4, <1>5, FS_Subset
  <1> QED BY <1>1, <1>3, <1>4, <1>5, <1>6, <1>7, <1>8

\* With no handler, nothing is in service.
LEMMA IdleFacts ==
  ASSUME IInv, IrqAssumption, ~Nested
  PROVE  master.isr = {} /\ slave.isr = {}
  <1>1. /\ MasterDue = {} /\ SlaveDue = {}
        /\ master.isr \in SUBSET Lines /\ slave.isr \in SUBSET Lines
    BY FrameFacts, ChipFields DEF IInv
  <1>2. MasterSpecific \in BOOLEAN /\ SlaveSpecific \in BOOLEAN
    BY DEF IrqAssumption
  <1>3. /\ Matches(master.isr, {}, MasterLines, MasterSpecific)
        /\ Matches(slave.isr, {}, SlaveLines, SlaveSpecific)
    BY <1>1 DEF IInv, MasterInv, SlaveInv
  <1> QED BY <1>1, <1>2, <1>3, NothingDue

-----------------------------------------------------------------------------
(* The steps.                                                              *)

\* A chip of which the service, auto_eoi and init_step stay.
Quiet(c, d) == d \in Chip /\ d.isr = c.isr /\ d.aeoi = c.aeoi /\ d.step = c.step

\* A step that raises or lowers a line, masks lines or changes IF.
LEMMA QuietStep ==
  ASSUME IInv, Quiet(master, master'), Quiet(slave, slave'), UNCHANGED frames,
         vif' \in BOOLEAN, vif' => vif \/ (master.step = 0 /\ slave.step = 0)
  PROVE  IInv'
  <1>1. Active' = Active /\ MasterLines' = MasterLines /\ SlaveLines' = SlaveLines
    BY DEF Active, MasterLines, SlaveLines
  <1>2. MasterDue' = MasterDue
    BY Zenon DEF Quiet, MasterDue, Active
  <1>3. SlaveDue' = SlaveDue
    BY Zenon DEF Quiet, SlaveDue, Active
  <1>4. TypeOK'
    BY DEF IInv, TypeOK, Quiet
  <1>5. FrameInv'
    BY Zenon DEF IInv, FrameInv, Quiet, Active
  <1>6. StepInv'
    BY DEF IInv, StepInv, Quiet
  <1>7. MasterInv'
    BY <1>1, <1>2 DEF IInv, MasterInv, Quiet
  <1>8. SlaveInv'
    BY <1>1, <1>3 DEF IInv, SlaveInv, Quiet
  <1> QED BY <1>4, <1>5, <1>6, <1>7, <1>8 DEF IInv

\* A step of the initialisation, with interrupts off and outside of any
\* handler.
LEMMA IdleStep ==
  ASSUME IInv, IrqAssumption, ~Nested, ~vif, UNCHANGED <<frames, vif>>,
         master' \in Chip, slave' \in Chip, master'.isr = {}, slave'.isr = {}
  PROVE  IInv'
  <1>1. frames = <<>> /\ frames' = <<>> /\ ~vif' /\ Len(frames) = 0
    BY FrameFacts DEF IInv
  <1>2. TypeOK'
    BY DEF IInv, TypeOK
  <1>3. Active' = {}
    BY <1>1 DEF Active
  <1>4. FrameInv' /\ StepInv'
    BY <1>1, <1>3 DEF FrameInv, StepInv
  <1>5. MasterDue' = {} /\ SlaveDue' = {}
    BY <1>3 DEF MasterDue, SlaveDue
  <1>6. MasterSpecific \in BOOLEAN /\ SlaveSpecific \in BOOLEAN /\ {} \in SUBSET Lines
    BY DEF IrqAssumption
  <1>7. \A lines : /\ Matches({}, {}, lines, MasterSpecific)
                   /\ Matches({}, {}, lines, SlaveSpecific)
    BY <1>6, NothingDue
  <1>8. MasterInv' /\ SlaveInv'
    BY <1>5, <1>7 DEF MasterInv, SlaveInv
  <1> QED BY <1>2, <1>4, <1>8 DEF IInv

\* A device raises its line: a request is added, on the slave with the
\* cascade's.
LEMMA RaiseKeeps ==
  ASSUME IInv, IrqAssumption, NEW irq \in DeviceIrqs, Raise(irq)
  PROVE  IInv'
  <1>1. irq \in Irqs /\ master \in Chip /\ slave \in Chip /\ vif \in BOOLEAN
    BY FrameFacts DEF IInv, IrqAssumption
  <1>2. Quiet(master, RaiseMaster(master, irq)) /\ Quiet(slave, RaiseSlave(slave, irq))
    <2>1. Quiet(master, RaiseMaster(master, irq))
      BY <1>1, RaiseFacts, Zenon DEF Quiet
    <2>2. Quiet(slave, RaiseSlave(slave, irq))
      BY <1>1, RaiseFacts, Zenon DEF Quiet
    <2> QED BY <2>1, <2>2
  <1>3. Quiet(master, master') /\ Quiet(slave, slave') /\ UNCHANGED <<vif, frames>>
    BY <1>2 DEF Raise
  <1> QED BY <1>1, <1>3, QuietStep

\* A device lowers its line: requests are withdrawn, none is put in service.
LEMMA LowerKeeps ==
  ASSUME IInv, IrqAssumption, NEW irq \in DeviceIrqs, Lower(irq)
  PROVE  IInv'
  <1>1. irq \in Irqs /\ master \in Chip /\ slave \in Chip /\ vif \in BOOLEAN
    BY FrameFacts DEF IInv, IrqAssumption
  <1>2. /\ Quiet(master, LowerMaster(master, slave, irq))
        /\ Quiet(slave, LowerSlave(slave, irq))
    BY <1>1, LowerFacts DEF Quiet
  <1>3. Quiet(master, master') /\ Quiet(slave, slave') /\ UNCHANGED <<vif, frames>>
    BY <1>2 DEF Lower
  <1> QED BY <1>1, <1>3, QuietStep

\* CLI and STI touch no chip.
LEMMA SetIfKeeps ==
  ASSUME IInv, NEW b \in BOOLEAN, SetIf(b)
  PROVE  IInv'
  <1>1. Quiet(master, master) /\ Quiet(slave, slave)
    BY FrameFacts DEF IInv, Quiet
  <1>2. Quiet(master, master') /\ Quiet(slave, slave') /\ UNCHANGED frames
    BY <1>1 DEF SetIf
  <1>3. vif' \in BOOLEAN /\ (vif' => vif \/ (master.step = 0 /\ slave.step = 0))
    BY DEF SetIf
  <1> QED BY <1>2, <1>3, QuietStep

\* ICW1 empties a chip while no handler is active.
LEMMA StartKeeps ==
  ASSUME IInv, IrqAssumption, NEW mode \in InitModes,
         StartMaster(mode) \/ StartSlave(mode)
  PROVE  IInv'
  <1>1. mode.icw4 \in BOOLEAN /\ mode.single \in BOOLEAN
    BY DEF IrqAssumption
  <1>2. /\ ~Nested /\ ~vif /\ UNCHANGED <<frames, vif>>
        /\ master' \in {master, Icw1(master, mode.icw4, mode.single)}
        /\ slave' \in {slave, Icw1(slave, mode.icw4, mode.single)}
    BY DEF StartMaster, StartSlave
  <1>3. /\ master \in Chip /\ slave \in Chip
        /\ master.isr = {} /\ slave.isr = {}
    BY <1>2, FrameFacts, IdleFacts DEF IInv
  <1>4. /\ Icw1(master, mode.icw4, mode.single) \in Chip
        /\ Icw1(master, mode.icw4, mode.single).isr = {}
        /\ Icw1(slave, mode.icw4, mode.single) \in Chip
        /\ Icw1(slave, mode.icw4, mode.single).isr = {}
    BY <1>1, <1>3, Icw1Facts
  <1>5. master' \in Chip /\ master'.isr = {}
    BY <1>2, <1>3, <1>4
  <1>6. slave' \in Chip /\ slave'.isr = {}
    BY <1>2, <1>3, <1>4
  <1> QED BY <1>2, <1>5, <1>6, IdleStep

\* The data port of the master: a command word of the initialisation, or the
\* mask.
LEMMA DataMasterKeeps ==
  ASSUME IInv, IrqAssumption, NEW mask \in Masks, NEW b \in AutoEoi, DataMaster(mask, b)
  PROVE  IInv'
  <1>1. /\ mask \in SUBSET Lines /\ b \in BOOLEAN
        /\ master \in Chip /\ slave \in Chip /\ vif \in BOOLEAN
    BY FrameFacts DEF IInv, IrqAssumption
  <1>2. /\ DataWrite(master, mask, b) \in Chip
        /\ DataWrite(master, mask, b).isr = master.isr
        /\ master.step = 0 => /\ DataWrite(master, mask, b).step = 0
                              /\ DataWrite(master, mask, b).aeoi = master.aeoi
    BY <1>1, DataWriteFacts, Zenon
  <1>3. master' = DataWrite(master, mask, b) /\ UNCHANGED <<slave, frames, vif>>
    BY DEF DataMaster
  <1>4. CASE master.step = 0
    <2>1. Quiet(master, master')
      BY <1>2, <1>3, <1>4, Zenon DEF Quiet
    <2>2. Quiet(slave, slave')
      BY <1>1, <1>3 DEF Quiet
    <2> QED BY <1>1, <1>3, <2>1, <2>2, QuietStep
  <1>5. CASE master.step # 0
    <2>1. ~Nested /\ ~vif
      BY <1>5 DEF IInv, StepInv, Nested
    <2>2. master.isr = {} /\ slave.isr = {}
      BY <2>1, IdleFacts
    <2>3. master' \in Chip /\ master'.isr = {} /\ slave' \in Chip /\ slave'.isr = {}
      BY <1>1, <1>2, <1>3, <2>2
    <2> QED BY <1>3, <2>1, <2>3, IdleStep
  <1> QED BY <1>4, <1>5

\* The same for the slave.
LEMMA DataSlaveKeeps ==
  ASSUME IInv, IrqAssumption, NEW mask \in Masks, NEW b \in AutoEoi, DataSlave(mask, b)
  PROVE  IInv'
  <1>1. /\ mask \in SUBSET Lines /\ b \in BOOLEAN
        /\ master \in Chip /\ slave \in Chip /\ vif \in BOOLEAN
    BY FrameFacts DEF IInv, IrqAssumption
  <1>2. /\ DataWrite(slave, mask, b) \in Chip
        /\ DataWrite(slave, mask, b).isr = slave.isr
        /\ slave.step = 0 => /\ DataWrite(slave, mask, b).step = 0
                             /\ DataWrite(slave, mask, b).aeoi = slave.aeoi
    BY <1>1, DataWriteFacts, Zenon
  <1>3. slave' = DataWrite(slave, mask, b) /\ UNCHANGED <<master, frames, vif>>
    BY DEF DataSlave
  <1>4. CASE slave.step = 0
    <2>1. Quiet(slave, slave')
      BY <1>2, <1>3, <1>4, Zenon DEF Quiet
    <2>2. Quiet(master, master')
      BY <1>1, <1>3 DEF Quiet
    <2> QED BY <1>1, <1>3, <2>1, <2>2, QuietStep
  <1>5. CASE slave.step # 0
    <2>1. ~Nested /\ ~vif
      BY <1>5 DEF IInv, StepInv, Nested
    <2>2. master.isr = {} /\ slave.isr = {}
      BY <2>1, IdleFacts
    <2>3. master' \in Chip /\ master'.isr = {} /\ slave' \in Chip /\ slave'.isr = {}
      BY <1>1, <1>2, <1>3, <2>2
    <2> QED BY <1>3, <2>1, <2>3, IdleStep
  <1> QED BY <1>4, <1>5

\* What a handler's end of interrupt does to the frames.
LEMMA SetNext ==
  ASSUME TypeOK, Nested, NEW x \in {"slave", "master", "iret"},
         frames' = [frames EXCEPT ![Len(frames)].next = x]
  PROVE  /\ frames' \in Seq(Frame) /\ Len(frames') = Len(frames) /\ Active' = Active
         /\ \A i \in Active : /\ frames'[i].irq = frames[i].irq
                              /\ i # Len(frames) => frames'[i].next = frames[i].next
         /\ frames'[Len(frames)].next = x
         /\ MasterLines' = MasterLines /\ SlaveLines' = SlaveLines
         /\ Len(frames) \in Active
  <1>1. frames \in Seq(Frame) /\ Len(frames) \in Nat /\ Len(frames) \in Active
    BY FrameFacts
  <1>2. \A i \in Active : frames[i] \in Frame
    BY <1>1 DEF Active
  <1>3. Len(frames') = Len(frames) /\ Active' = Active
    BY <1>1 DEF Active
  <1>4. [frames[Len(frames)] EXCEPT !.next = x] \in Frame
    BY <1>1, <1>2 DEF Frame
  <1>5. frames' = [frames EXCEPT ![Len(frames)] = [frames[Len(frames)] EXCEPT !.next = x]]
    OBVIOUS
  <1>6. frames' \in Seq(Frame)
    BY <1>1, <1>4, <1>5, ExceptSeq DEF Active
  <1>7. /\ frames'[Len(frames)] = [frames[Len(frames)] EXCEPT !.next = x]
        /\ \A i \in Active : i # Len(frames) => frames'[i] = frames[i]
    BY <1>1, <1>5 DEF Active
  <1>8. /\ [frames[Len(frames)] EXCEPT !.next = x].irq = frames[Len(frames)].irq
        /\ [frames[Len(frames)] EXCEPT !.next = x].next = x
    BY <1>1, <1>2 DEF Frame
  <1>9. \A i \in Active : /\ frames'[i].irq = frames[i].irq
                          /\ i # Len(frames) => frames'[i].next = frames[i].next
    BY <1>7, <1>8
  <1>10. MasterLines' = MasterLines /\ SlaveLines' = SlaveLines
    BY <1>3, <1>9 DEF MasterLines, SlaveLines
  <1> QED BY <1>1, <1>3, <1>6, <1>7, <1>8, <1>9, <1>10

\* A handler's EOI to the slave, by number or not, ends the line the handler is
\* for.
LEMMA EndSlaveKeeps ==
  ASSUME IInv, IrqAssumption, EndSlave
  PROVE  IInv'
  <1> DEFINE n == Len(frames)
  <1>1. /\ Nested /\ Top = frames[n] /\ frames[n].next = "slave"
        /\ slave' = IF SlaveSpecific THEN EoiSpecific(slave, frames[n].irq - 8) ELSE Eoi(slave)
        /\ frames' = [frames EXCEPT ![n].next = MasterEnd]
        /\ master' = master /\ vif' = vif
    BY DEF EndSlave, Top
  <1>2. MasterEnd \in {"slave", "master", "iret"}
    BY DEF MasterEnd
  <1>3. TypeOK /\ n \in Active
    BY <1>1, FrameFacts DEF IInv
  <1>4. /\ frames' \in Seq(Frame) /\ Len(frames') = n /\ Active' = Active
        /\ \A i \in Active : /\ frames'[i].irq = frames[i].irq
                             /\ i # n => frames'[i].next = frames[i].next
        /\ frames'[n].next = MasterEnd
        /\ MasterLines' = MasterLines /\ SlaveLines' = SlaveLines
    BY <1>1, <1>2, <1>3, SetNext
  <1>5. frames[n].irq >= 8 /\ ~slave.aeoi /\ frames # <<>> /\ n > 0
    BY <1>1, <1>3 DEF IInv, FrameInv, Nested
  <1>6. master.step = 0 /\ slave.step = 0
    BY <1>5 DEF IInv, StepInv
  <1>7. /\ slave' \in Chip /\ slave'.step = slave.step /\ slave'.aeoi = slave.aeoi
        /\ SlaveSpecific => slave'.isr = slave.isr \ {frames[n].irq - 8}
        /\ ~SlaveSpecific => (slave.isr # {} => \E line \in slave.isr :
                                                   slave'.isr = slave.isr \ {line})
    <2>1. slave \in Chip
      BY FrameFacts DEF IInv
    <2>2. CASE SlaveSpecific
      <3>1. slave' = EoiSpecific(slave, frames[n].irq - 8)
        BY <1>1, <2>2
      <3> QED BY <2>1, <2>2, <3>1, EoiSpecificFacts
    <2>3. CASE ~SlaveSpecific
      <3>1. slave' = Eoi(slave)
        BY <1>1, <2>3
      <3> QED BY <2>1, <2>3, <3>1, EoiFacts
    <2> QED BY <2>2, <2>3
  <1>8. ~slave'.aeoi
    BY <1>5, <1>7
  <1> HIDE DEF n
  <1>9. TypeOK'
    BY <1>1, <1>3, <1>4, <1>7 DEF TypeOK, n
  <1>10. StepInv'
    BY <1>1, <1>6, <1>7 DEF StepInv
  <1>11. FrameInv'
    BY <1>1, <1>4, <1>8 DEF IInv, FrameInv, MasterEnd
  <1>12. MasterDue' = MasterDue
    BY <1>1, <1>4 DEF MasterDue, MasterEnd
  <1>13. MasterInv'
    BY <1>1, <1>4, <1>12 DEF IInv, MasterInv
  <1>14. SlaveDue' = SlaveDue \ {n}
    BY <1>4, <1>5, <1>8, <1>3 DEF SlaveDue, MasterEnd
  <1>15. n \in SlaveDue /\ SlaveLines[n] = frames[n].irq - 8
    BY <1>1, <1>3, <1>5 DEF SlaveDue, SlaveLines
  <1>16. /\ slave.isr \in SUBSET Lines /\ SlaveDue \in SUBSET Nat /\ IsFiniteSet(SlaveDue)
         /\ SlaveSpecific \in BOOLEAN
         /\ Matches(slave.isr, SlaveDue, SlaveLines, SlaveSpecific)
    BY <1>3, FrameFacts, ChipFields DEF IInv, SlaveInv, IrqAssumption
  <1>17. SlaveSpecific => slave'.isr = slave.isr \ {SlaveLines[n]}
    BY <1>7, <1>15
  <1>18. Matches(slave'.isr, SlaveDue \ {n}, SlaveLines, SlaveSpecific)
    BY <1>7, <1>15, <1>16, <1>17, OneLessDue
  <1>19. SlaveInv'
    BY <1>4, <1>14, <1>18 DEF SlaveInv
  <1> QED BY <1>9, <1>10, <1>11, <1>13, <1>19 DEF IInv

\* A handler's EOI to the master ends the line the handler is for, or the
\* cascade.
LEMMA EndMasterKeeps ==
  ASSUME IInv, IrqAssumption, EndMaster
  PROVE  IInv'
  <1> DEFINE n == Len(frames)
  <1>1. /\ Nested /\ Top = frames[n] /\ frames[n].next = "master"
        /\ master' = IF MasterSpecific THEN EoiSpecific(master, MasterLine(frames[n].irq))
                     ELSE Eoi(master)
        /\ frames' = [frames EXCEPT ![n].next = "iret"]
        /\ slave' = slave /\ vif' = vif
    BY DEF EndMaster, Top, MasterLine
  <1>3. TypeOK /\ n \in Active
    BY <1>1, FrameFacts DEF IInv
  <1>4. /\ frames' \in Seq(Frame) /\ Len(frames') = n /\ Active' = Active
        /\ \A i \in Active : /\ frames'[i].irq = frames[i].irq
                             /\ i # n => frames'[i].next = frames[i].next
        /\ frames'[n].next = "iret"
        /\ MasterLines' = MasterLines /\ SlaveLines' = SlaveLines
    BY <1>1, <1>3, SetNext
  <1>5. ~master.aeoi /\ frames # <<>> /\ n > 0
    BY <1>1, <1>3 DEF IInv, FrameInv, Nested
  <1>6. master.step = 0 /\ slave.step = 0
    BY <1>5 DEF IInv, StepInv
  <1>7. /\ master' \in Chip /\ master'.step = master.step /\ master'.aeoi = master.aeoi
        /\ MasterSpecific => master'.isr = master.isr \ {MasterLine(frames[n].irq)}
        /\ ~MasterSpecific => (master.isr # {} => \E line \in master.isr :
                                                     master'.isr = master.isr \ {line})
    <2>1. master \in Chip
      BY FrameFacts DEF IInv
    <2>2. CASE MasterSpecific
      <3>1. master' = EoiSpecific(master, MasterLine(frames[n].irq))
        BY <1>1, <2>2
      <3> QED BY <2>1, <2>2, <3>1, EoiSpecificFacts
    <2>3. CASE ~MasterSpecific
      <3>1. master' = Eoi(master)
        BY <1>1, <2>3
      <3> QED BY <2>1, <2>3, <3>1, EoiFacts
    <2> QED BY <2>2, <2>3
  <1>8. ~master'.aeoi
    BY <1>5, <1>7
  <1> HIDE DEF n
  <1>9. TypeOK'
    BY <1>1, <1>3, <1>4, <1>7 DEF TypeOK, n
  <1>10. StepInv'
    BY <1>1, <1>6, <1>7 DEF StepInv
  <1>11. FrameInv'
    BY <1>1, <1>4, <1>8 DEF IInv, FrameInv
  <1>12. SlaveDue' = SlaveDue
    BY <1>1, <1>4 DEF SlaveDue
  <1>13. SlaveInv'
    BY <1>1, <1>4, <1>12 DEF IInv, SlaveInv
  <1>14. MasterDue' = MasterDue \ {n}
    BY <1>4, <1>5, <1>8, <1>3 DEF MasterDue
  <1>15. n \in MasterDue /\ MasterLines[n] = MasterLine(frames[n].irq)
    BY <1>1, <1>3, <1>5 DEF MasterDue, MasterLines
  <1>16. /\ master.isr \in SUBSET Lines /\ MasterDue \in SUBSET Nat /\ IsFiniteSet(MasterDue)
         /\ MasterSpecific \in BOOLEAN
         /\ Matches(master.isr, MasterDue, MasterLines, MasterSpecific)
    BY <1>3, FrameFacts, ChipFields DEF IInv, MasterInv, IrqAssumption
  <1>17. MasterSpecific => master'.isr = master.isr \ {MasterLines[n]}
    BY <1>7, <1>15
  <1>18. Matches(master'.isr, MasterDue \ {n}, MasterLines, MasterSpecific)
    BY <1>7, <1>15, <1>16, <1>17, OneLessDue
  <1>19. MasterInv'
    BY <1>4, <1>14, <1>18 DEF MasterInv
  <1> QED BY <1>9, <1>10, <1>11, <1>13, <1>19 DEF IInv

\* IRETD: the handler has ended its lines, and the one it interrupted goes on.
LEMMA IretKeeps ==
  ASSUME IInv, IrqAssumption, Iret
  PROVE  IInv'
  <1> DEFINE n == Len(frames)
  <1>1. /\ Nested /\ frames[n].next = "iret" /\ vif' = frames[n].saved
        /\ frames' = SubSeq(frames, 1, n - 1)
        /\ master' = master /\ slave' = slave
    BY DEF Iret, Top
  <1>2. /\ TypeOK /\ n \in Active /\ n \in Nat /\ n > 0 /\ n <= MaxNest /\ frames \in Seq(Frame)
        /\ vif' \in BOOLEAN
    BY <1>1, FrameFacts DEF IInv, Nested
  <1>3. \A i \in 1 .. n - 1 : frames[i] \in Frame
    BY <1>2
  <1> HIDE DEF n
  <1>4. /\ frames' \in Seq(Frame) /\ Len(frames') = n - 1
        /\ \A i \in 1 .. n - 1 : frames'[i] = frames[i]
    <2>1. 1 \in Int /\ n - 1 \in Int
      BY <1>2
    <2>2. /\ SubSeq(frames, 1, n - 1) \in Seq(Frame)
          /\ Len(SubSeq(frames, 1, n - 1)) = IF 1 <= n - 1 THEN (n - 1) - 1 + 1 ELSE 0
          /\ \A i \in 1 .. (n - 1) - 1 + 1 : SubSeq(frames, 1, n - 1)[i] = frames[1 + i - 1]
      BY <1>3, <2>1, SubSeqProperties
    <2> QED BY <1>1, <1>2, <2>2
  <1>5. Active = 1 .. n /\ Active' = 1 .. n - 1
    BY <1>4 DEF Active, n
  <1>6. \A i \in Active' : i \in Active /\ i # n /\ frames'[i] = frames[i]
    BY <1>2, <1>4, <1>5
  <1>7. \A i \in Active : i # n => i \in Active'
    BY <1>2, <1>5
  <1>8. TypeOK'
    BY <1>1, <1>2, <1>4 DEF TypeOK, IrqAssumption
  <1>9. master.step = 0 /\ slave.step = 0
    BY <1>2 DEF IInv, StepInv, n
  <1>10. StepInv'
    BY <1>1, <1>9 DEF StepInv
  <1>11. FrameInv'
    BY <1>1, <1>6 DEF IInv, FrameInv
  <1>12. MasterDue' = MasterDue /\ SlaveDue' = SlaveDue
    BY <1>1, <1>6, <1>7 DEF MasterDue, SlaveDue
  <1>13. \A i \in MasterDue : MasterLines'[i] = MasterLines[i]
    BY <1>1, <1>6, <1>7 DEF MasterDue, MasterLines
  <1>14. \A i \in SlaveDue : SlaveLines'[i] = SlaveLines[i]
    BY <1>1, <1>6, <1>7 DEF SlaveDue, SlaveLines
  <1>15. MasterSpecific \in BOOLEAN /\ SlaveSpecific \in BOOLEAN
    BY DEF IrqAssumption
  <1>16. MasterInv'
    BY <1>1, <1>12, <1>13, <1>15, SameDue DEF IInv, MasterInv
  <1>17. SlaveInv'
    BY <1>1, <1>12, <1>14, <1>15, SameDue DEF IInv, SlaveInv
  <1> QED BY <1>8, <1>10, <1>11, <1>16, <1>17 DEF IInv

\* A delivery, as the acknowledgement and the new frame.
LEMMA DeliverFacts ==
  ASSUME TypeOK, IrqAssumption, Deliver, NEW a, a = PairAck(master, slave)
  PROVE  /\ PairPending(master, slave) /\ vif /\ Len(frames) < MaxNest
         /\ master' = a.master /\ slave' = a.slave /\ vif' \in BOOLEAN
         /\ a.irq \in Irqs \ {Cascade}
         /\ MasterLine(a.irq) \in Pending(master)
         /\ \A i \in Pending(master) \ {Cascade} : MasterLine(a.irq) <= i
         /\ AfterService(master, MasterLine(a.irq), a.master)
         /\ a.irq < 8 => a.slave = slave
         /\ a.irq >= 8 => /\ a.irq - 8 \in Pending(slave)
                          /\ AfterService(slave, a.irq - 8, a.slave)
         /\ frames' \in Seq(Frame) /\ Len(frames') = Len(frames) + 1
         /\ \A i \in Active : frames'[i] = frames[i]
         /\ frames'[Len(frames) + 1].irq = a.irq
         /\ frames'[Len(frames) + 1].next = IF a.irq < 8 THEN MasterEnd ELSE SlaveEnd
  <1>1. master \in Chip /\ slave \in Chip /\ vif \in BOOLEAN /\ frames \in Seq(Frame)
    BY FrameFacts
  <1> DEFINE next == IF a.irq < 8 THEN MasterEnd ELSE SlaveEnd
             frame == [irq |-> a.irq, saved |-> vif, next |-> next]
  <1>2. /\ PairPending(master, slave) /\ vif /\ Len(frames) < MaxNest
        /\ master' = a.master /\ slave' = a.slave
        /\ frames' = Append(frames, frame)
        /\ vif' = (a.irq \in TrapIrqs)
    BY DEF Deliver, Interruptible
  <1>3. /\ a.irq \in Irqs \ {Cascade}
        /\ MasterLine(a.irq) \in Pending(master)
        /\ \A i \in Pending(master) \ {Cascade} : MasterLine(a.irq) <= i
        /\ AfterService(master, MasterLine(a.irq), a.master)
        /\ a.irq < 8 => a.slave = slave
        /\ a.irq >= 8 => /\ a.irq - 8 \in Pending(slave)
                         /\ AfterService(slave, a.irq - 8, a.slave)
    BY <1>1, <1>2, AckFacts
  <1>4. next \in {"slave", "master", "iret"}
    BY DEF MasterEnd, SlaveEnd
  <1> HIDE DEF next
  <1>5. frame \in Frame /\ frame.irq = a.irq /\ frame.next = next
    BY <1>1, <1>3, <1>4 DEF Frame
  <1> HIDE DEF frame
  <1>6. /\ Append(frames, frame) \in Seq(Frame)
        /\ Len(Append(frames, frame)) = Len(frames) + 1
        /\ \A i \in 1 .. Len(frames) : Append(frames, frame)[i] = frames[i]
        /\ Append(frames, frame)[Len(frames) + 1] = frame
    BY <1>1, <1>5, AppendProperties
  <1>7. vif' \in BOOLEAN
    BY <1>2
  <1> QED BY <1>2, <1>3, <1>5, <1>6, <1>7 DEF Active, next

\* A delivery puts in service only what the new handler has to end.
LEMMA DeliverKeeps ==
  ASSUME IInv, IrqAssumption, Deliver
  PROVE  IInv'
  <1> DEFINE n == Len(frames) + 1
  <1>1. PICK a : a = PairAck(master, slave)
    OBVIOUS
  <1>2. TypeOK /\ Len(frames) \in Nat /\ MaxNest \in Nat
    BY FrameFacts DEF IInv, IrqAssumption
  <1>3. /\ vif /\ Len(frames) < MaxNest
        /\ master' = a.master /\ slave' = a.slave /\ vif' \in BOOLEAN
        /\ a.irq \in Irqs \ {Cascade}
        /\ MasterLine(a.irq) \in Pending(master)
        /\ AfterService(master, MasterLine(a.irq), a.master)
        /\ a.irq < 8 => a.slave = slave
        /\ a.irq >= 8 => /\ a.irq - 8 \in Pending(slave)
                         /\ AfterService(slave, a.irq - 8, a.slave)
        /\ frames' \in Seq(Frame) /\ Len(frames') = n
        /\ \A i \in Active : frames'[i] = frames[i]
        /\ frames'[n].irq = a.irq
        /\ frames'[n].next = IF a.irq < 8 THEN MasterEnd ELSE SlaveEnd
    BY <1>1, <1>2, DeliverFacts
  <1>4. a.irq \in Nat /\ (a.irq < 8 \/ a.irq >= 8) /\ a.irq # Cascade
    BY <1>3 DEF Irqs
  <1>5. Active' = Active \cup {n} /\ n \notin Active
    BY <1>2, <1>3 DEF Active
  <1> HIDE DEF n
  <1>6. master.step = 0 /\ slave.step = 0 /\ master \in Chip /\ slave \in Chip
    BY <1>2, <1>3, FrameFacts DEF IInv, StepInv
  <1>7. /\ master' \in Chip /\ master'.aeoi = master.aeoi /\ master'.step = 0
        /\ master.aeoi => master'.isr = master.isr \ {MasterLine(a.irq)}
        /\ ~master.aeoi => master'.isr = master.isr \cup {MasterLine(a.irq)}
    BY <1>3, <1>6, Zenon DEF AfterService
  <1>8. /\ slave' \in Chip /\ slave'.aeoi = slave.aeoi /\ slave'.step = 0
        /\ a.irq < 8 => slave'.isr = slave.isr
        /\ a.irq >= 8 => /\ slave.aeoi => slave'.isr = slave.isr \ {a.irq - 8}
                         /\ ~slave.aeoi => slave'.isr = slave.isr \cup {a.irq - 8}
    <2>1. CASE a.irq < 8
      <3>1. slave' = slave /\ ~(a.irq >= 8)
        BY <1>3, <1>4, <2>1
      <3> QED BY <1>6, <3>1, Zenon
    <2>2. CASE a.irq >= 8
      <3>1. AfterService(slave, a.irq - 8, slave') /\ ~(a.irq < 8)
        BY <1>3, <1>4, <2>2
      <3> QED BY <1>6, <3>1, Zenon DEF AfterService
    <2> QED BY <1>4, <2>1, <2>2
  <1>9. TypeOK'
    BY <1>2, <1>3, <1>7, <1>8 DEF TypeOK, n
  <1>10. StepInv'
    BY <1>7, <1>8 DEF StepInv
  <1>11. FrameInv'
    <2>1. \A i \in Active : /\ frames'[i].irq # Cascade
                            /\ frames'[i].next = "slave" => frames'[i].irq >= 8 /\ ~slave'.aeoi
                            /\ frames'[i].next = "master" => ~master'.aeoi
      BY <1>3, <1>7, <1>8 DEF IInv, FrameInv
    <2>2. /\ frames'[n].next = "slave" => a.irq >= 8 /\ ~slave'.aeoi
          /\ frames'[n].next = "master" => ~master'.aeoi
      BY <1>3, <1>4, <1>7, <1>8 DEF MasterEnd, SlaveEnd
    <2> QED BY <1>3, <1>4, <1>5, <2>1, <2>2 DEF FrameInv
  <1>12. MasterInv'
    <2>1. MasterSpecific \in BOOLEAN
      BY DEF IrqAssumption
    <2>2. CASE master.aeoi
      <3>1. MasterDue = {} /\ MasterDue' = {} /\ master.isr \in SUBSET Lines
        BY <1>6, <1>7, <2>2, ChipFields DEF MasterDue
      <3>2. master.isr = {}
        BY <2>1, <3>1, NothingDue DEF IInv, MasterInv
      <3>3. master'.isr = {} /\ {} \in SUBSET Lines
        BY <1>7, <2>2, <3>2
      <3>4. \A lines : Matches({}, {}, lines, MasterSpecific)
        BY <2>1, <3>3, NothingDue
      <3> QED BY <3>1, <3>3, <3>4 DEF MasterInv
    <2>3. CASE ~master.aeoi
      <3>1. frames'[n].next \in {"slave", "master"} /\ ~master'.aeoi
        BY <1>3, <1>7, <2>3 DEF MasterEnd, SlaveEnd
      <3>2. MasterDue' = MasterDue \cup {n} /\ n \notin MasterDue
        BY <1>3, <1>5, <2>3, <3>1 DEF MasterDue
      <3>3. MasterLines'[n] = MasterLine(a.irq)
        BY <1>3, <1>5 DEF MasterLines
      <3>4. \A i \in MasterDue : MasterLines'[i] = MasterLines[i]
        BY <1>3, <1>5, <2>3 DEF MasterDue, MasterLines
      <3>5. /\ master.isr \in SUBSET Lines /\ MasterLine(a.irq) \notin master.isr
            /\ MasterDue \in SUBSET Nat /\ IsFiniteSet(MasterDue)
            /\ Matches(master.isr, MasterDue, MasterLines, MasterSpecific)
        BY <1>2, <1>3, <1>6, ChipFields, FrameFacts DEF IInv, MasterInv
      <3>6. Matches(master.isr \cup {MasterLine(a.irq)}, MasterDue \cup {n},
                    MasterLines', MasterSpecific)
        <4>1. PICK line, lines2 : line = MasterLine(a.irq) /\ lines2 = MasterLines'
          OBVIOUS
        <4>2. /\ n \notin MasterDue /\ lines2[n] = line /\ line \notin master.isr
              /\ \A i \in MasterDue : lines2[i] = MasterLines[i]
          BY <3>2, <3>3, <3>4, <3>5, <4>1
        <4>3. Matches(master.isr \cup {line}, MasterDue \cup {n}, lines2, MasterSpecific)
          BY <2>1, <3>5, <4>2, OneMoreDue
        <4> QED BY <4>1, <4>3
      <3> QED BY <1>7, <2>3, <3>2, <3>6 DEF MasterInv
    <2> QED BY <2>2, <2>3
  <1>13. SlaveInv'
    <2>1. SlaveSpecific \in BOOLEAN
      BY DEF IrqAssumption
    <2>2. CASE slave.aeoi
      <3>1. SlaveDue = {} /\ SlaveDue' = {} /\ slave.isr \in SUBSET Lines
        BY <1>6, <1>8, <2>2, ChipFields DEF SlaveDue
      <3>2. slave.isr = {}
        BY <2>1, <3>1, NothingDue DEF IInv, SlaveInv
      <3>3. slave'.isr = {} /\ {} \in SUBSET Lines
        BY <1>4, <1>8, <2>2, <3>2
      <3>4. \A lines : Matches({}, {}, lines, SlaveSpecific)
        BY <2>1, <3>3, NothingDue
      <3> QED BY <3>1, <3>3, <3>4 DEF SlaveInv
    <2>3. CASE ~slave.aeoi /\ a.irq < 8
      <3>1. frames'[n].next # "slave" /\ ~slave'.aeoi
        BY <1>3, <1>8, <2>3 DEF MasterEnd
      <3>2. SlaveDue' = SlaveDue
        BY <1>3, <1>5, <2>3, <3>1 DEF SlaveDue
      <3>3. \A i \in SlaveDue : SlaveLines'[i] = SlaveLines[i]
        BY <1>3, <1>5, <2>3 DEF SlaveDue, SlaveLines
      <3>4. slave'.isr = slave.isr
        BY <1>8, <2>3
      <3> QED BY <2>1, <3>2, <3>3, <3>4, SameDue DEF IInv, SlaveInv
    <2>4. CASE ~slave.aeoi /\ a.irq >= 8
      <3>1. frames'[n].next = "slave" /\ ~slave'.aeoi
        BY <1>3, <1>4, <1>8, <2>4 DEF SlaveEnd
      <3>2. SlaveDue' = SlaveDue \cup {n} /\ n \notin SlaveDue
        BY <1>3, <1>5, <2>4, <3>1 DEF SlaveDue
      <3>3. SlaveLines'[n] = a.irq - 8
        BY <1>3, <1>5 DEF SlaveLines
      <3>4. \A i \in SlaveDue : SlaveLines'[i] = SlaveLines[i]
        BY <1>3, <1>5, <2>4 DEF SlaveDue, SlaveLines
      <3>5. /\ slave.isr \in SUBSET Lines /\ a.irq - 8 \notin slave.isr
            /\ SlaveDue \in SUBSET Nat /\ IsFiniteSet(SlaveDue)
            /\ Matches(slave.isr, SlaveDue, SlaveLines, SlaveSpecific)
        BY <1>2, <1>3, <1>6, <2>4, ChipFields, FrameFacts DEF IInv, SlaveInv
      <3>6. Matches(slave.isr \cup {a.irq - 8}, SlaveDue \cup {n},
                    SlaveLines', SlaveSpecific)
        BY <2>1, <3>2, <3>3, <3>4, <3>5, OneMoreDue
      <3> QED BY <1>8, <2>4, <3>2, <3>6 DEF SlaveInv
    <2> QED BY <1>4, <2>2, <2>3, <2>4
  <1> QED BY <1>9, <1>10, <1>11, <1>12, <1>13 DEF IInv

-----------------------------------------------------------------------------
(* The theorems.                                                           *)

\* After power-on nothing is owed and nothing is in service.
LEMMA InitHolds ==
  ASSUME IrqAssumption, Init
  PROVE  IInv
  <1>1. PowerOn \in Chip /\ PowerOn.isr = {} /\ PowerOn.step = 0
    BY DEF PowerOn, Chip
  <1>2. frames = <<>> /\ Len(frames) = 0 /\ master = PowerOn /\ slave = PowerOn /\ vif = TRUE
    BY DEF Init
  <1>3. TypeOK
    BY <1>1, <1>2, EmptySeq DEF TypeOK, IrqAssumption
  <1>4. Active = {}
    BY <1>2 DEF Active
  <1>5. FrameInv /\ StepInv
    BY <1>1, <1>2, <1>4 DEF FrameInv, StepInv
  <1>6. MasterDue = {} /\ SlaveDue = {}
    BY <1>4 DEF MasterDue, SlaveDue
  <1>7. MasterSpecific \in BOOLEAN /\ SlaveSpecific \in BOOLEAN /\ {} \in SUBSET Lines
    BY DEF IrqAssumption
  <1>8. MasterInv /\ SlaveInv
    BY <1>1, <1>2, <1>6, <1>7, NothingDue DEF MasterInv, SlaveInv
  <1> QED BY <1>3, <1>5, <1>8 DEF IInv

\* Every step keeps the invariant.
LEMMA NextKeeps ==
  ASSUME IrqAssumption, IInv, [Next]_vars
  PROVE  IInv'
  <1>1. CASE \E irq \in DeviceIrqs : Raise(irq) \/ Lower(irq)
    BY <1>1, RaiseKeeps, LowerKeeps
  <1>2. CASE Deliver
    BY <1>2, DeliverKeeps
  <1>3. CASE \E b \in BOOLEAN : SetIf(b)
    BY <1>3, SetIfKeeps
  <1>4. CASE \E mode \in InitModes : StartMaster(mode) \/ StartSlave(mode)
    BY <1>4, StartKeeps
  <1>5. CASE \E mask \in Masks, b \in AutoEoi : DataMaster(mask, b) \/ DataSlave(mask, b)
    BY <1>5, DataMasterKeeps, DataSlaveKeeps
  <1>6. CASE Handler
    BY <1>6, EndSlaveKeeps, EndMasterKeeps, IretKeeps DEF Handler
  <1>7. CASE UNCHANGED vars
    <2>1. UNCHANGED <<master, slave, vif, frames>>
      BY <1>7 DEF vars
    <2>2. Quiet(master, master') /\ Quiet(slave, slave') /\ vif' \in BOOLEAN
      BY <2>1, FrameFacts DEF IInv, Quiet
    <2> QED BY <2>1, <2>2, QuietStep
  <1> QED BY <1>1, <1>2, <1>3, <1>4, <1>5, <1>6, <1>7 DEF Next

\* The invariant of the two chips and the frames holds in every state.
THEOREM Invariant == Spec => []IInv
  <1>1. Init => IInv
    BY IrqAssumption, InitHolds
  <1>2. IInv /\ [Next]_vars => IInv'
    BY IrqAssumption, NextKeeps
  <1> QED BY <1>1, <1>2, PTL DEF Spec

\* The registers stay within their eight lines, the initialisation sequence of
\* a chip within its four steps (write_command and write_data of pic.hpp), and
\* the handlers within the nesting bound.
THEOREM TypeCorrect == Spec => []TypeOK
  <1>1. IInv => TypeOK
    BY DEF IInv
  <1> QED BY <1>1, Invariant, PTL

\* With no handler active no line is in service, whether the handlers send
\* specific or non-specific EOI commands to either chip, with auto-EOI or
\* without, and however deep they nest.
THEOREM IdleIsUnblocked == Spec => []IdleNotInService
  <1>1. IInv => IdleNotInService
    <2> SUFFICES ASSUME IInv, frames = <<>>
                 PROVE  master.isr = {} /\ slave.isr = {}
      BY DEF IdleNotInService
    <2>1. ~Nested
      BY DEF Nested
    <2> QED BY <2>1, IrqAssumption, IdleFacts
  <1> QED BY <1>1, Invariant, PTL

\* Only a delivery adds a frame.
LEMMA OnlyDeliverNests ==
  ASSUME IInv, [Next]_vars, Len(frames') > Len(frames)
  PROVE  Deliver
  <1>1. /\ frames \in Seq(Frame) /\ Len(frames) \in Nat
        /\ Nested => Len(frames) > 0
    BY FrameFacts DEF IInv, Nested
  <1>2. CASE frames' = frames
    BY <1>1, <1>2
  <1>3. CASE EndSlave \/ EndMaster
    <2>1. Len(frames') = Len(frames)
      BY <1>1, <1>3 DEF EndSlave, EndMaster
    <2> QED BY <1>1, <2>1
  <1>4. CASE Iret
    <2>1. frames' = SubSeq(frames, 1, Len(frames) - 1) /\ Len(frames) > 0
      BY <1>1, <1>4 DEF Iret
    <2>2. /\ 1 \in Int /\ Len(frames) - 1 \in Int
          /\ \A i \in 1 .. Len(frames) - 1 : frames[i] \in Frame
      BY <1>1
    <2>3. Len(frames') = IF 1 <= Len(frames) - 1 THEN Len(frames) - 1 - 1 + 1 ELSE 0
      BY <2>1, <2>2, SubSeqProperties
    <2> QED BY <1>1, <2>1, <2>3
  <1>5. frames' = frames \/ Deliver \/ Handler
    BY DEF Next, vars, Raise, Lower, SetIf, StartMaster, StartSlave, DataMaster, DataSlave
  <1> QED BY <1>2, <1>3, <1>4, <1>5 DEF Handler

\* What has_pending() lets through, ack() finds: the vector that is delivered
\* is of a line that a device has raised, that is not masked on its way to the
\* CPU and that is not in service, the spurious cascade included.
THEOREM NoSpurious == Spec => NoSpuriousVector
  <1>1. ASSUME IInv, [Next]_vars, Len(frames') > Len(frames)
        PROVE  Deliverable(frames'[Len(frames')].irq)
    <2>1. Deliver /\ TypeOK /\ IrqAssumption
      BY <1>1, OnlyDeliverNests, IrqAssumption DEF IInv
    <2>2. PICK a : a = PairAck(master, slave)
      OBVIOUS
    <2>3. /\ a.irq \in Irqs \ {Cascade}
          /\ MasterLine(a.irq) \in Pending(master)
          /\ a.irq >= 8 => a.irq - 8 \in Pending(slave)
          /\ frames'[Len(frames')].irq = a.irq
      BY <2>1, <2>2, DeliverFacts
    <2>4. a.irq < 8 \/ (a.irq >= 8 /\ ~(a.irq < 8))
      BY <2>3 DEF Irqs
    <2>5. Deliverable(a.irq)
      BY <2>3, <2>4 DEF Deliverable, MasterLine, Pending
    <2> QED BY <2>3, <2>5
  <1>2. IInv /\ [Next]_vars =>
          [Len(frames') > Len(frames) => Deliverable(frames'[Len(frames')].irq)]_vars
    BY <1>1
  <1> QED BY <1>2, Invariant, PTL DEF Spec, NoSpuriousVector

\* No line that waits on the master is overtaken by one of lower priority.
THEOREM PriorityKept == Spec => MasterPriority
  <1> DEFINE Step == Len(frames') > Len(frames) =>
                       LET irq == frames'[Len(frames')].irq
                           at == IF irq < 8 THEN irq ELSE Cascade
                       IN  \A i \in Pending(master) \ {Cascade} : at <= i
  <1>1. ASSUME IInv, [Next]_vars PROVE Step
    <2> SUFFICES ASSUME Len(frames') > Len(frames)
                 PROVE  \A i \in Pending(master) \ {Cascade} :
                            MasterLine(frames'[Len(frames')].irq) <= i
      BY DEF MasterLine
    <2>1. Deliver /\ TypeOK /\ IrqAssumption
      BY <1>1, OnlyDeliverNests, IrqAssumption DEF IInv
    <2>2. PICK a : a = PairAck(master, slave)
      OBVIOUS
    <2> QED BY <2>1, <2>2, DeliverFacts
  <1>2. IInv /\ [Next]_vars => [Step]_vars
    BY <1>1
  <1> HIDE DEF Step
  <1>3. Spec => [][Step]_vars
    BY <1>2, Invariant, PTL DEF Spec
  <1> QED BY <1>3 DEF MasterPriority, Step
=============================================================================
