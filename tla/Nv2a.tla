-------------------------------- MODULE Nv2a --------------------------------
(***************************************************************************)
(* The interrupt registers of the NV2A (nv2a.hpp) as operators on their    *)
(* state.  Two blocks have an interrupt anything sets: PCRTC (the vertical *)
(* blank) and PTIMER (the alarm); the enable registers of the two, and the *)
(* master enable of PMC, gate the line of PCI INTA#, which is IRQ 3.       *)
(* PFIFO, PVIDEO and PBUS have the same shape but no step sets their bits. *)
(* The time is taken modulo Times (2^32 / 800 ns steps).                   *)
(***************************************************************************)
EXTENDS Naturals

CONSTANTS VblankPeriod, Times

ASSUME Nv2aAssumption == {VblankPeriod, Times} \subseteq Nat \ {0}

IrqBlocks == {"PCRTC", "PTIMER"}

Gpu == [intr : SUBSET IrqBlocks,       \* the INTR register of each block
        en : SUBSET IrqBlocks,         \* its INTR_EN register
        pending : SUBSET IrqBlocks,    \* PMC_INTR_0
        master : BOOLEAN,            \* bit 0 of PMC_INTR_EN
        vblank : 0 .. VblankPeriod - 1,
        time : 0 .. Times - 1,
        alarm : 0 .. Times - 1]      \* 0: no alarm

GpuPowerOn == [intr |-> {}, en |-> {}, pending |-> {}, master |-> FALSE,
               vblank |-> 0, time |-> 0, alarm |-> 0]

\* Mutant of Aggregated: bits are only ever added to PMC_INTR_0.
AggregatedSticky(g) == [g EXCEPT !.pending = @ \cup (g.intr \cap g.en)]

\* update_irq: PMC_INTR_0 is computed again from the blocks...
Aggregated(g) == [g EXCEPT !.pending = g.intr \cap g.en]

\* ... and INTA# follows it.
Inta(g) == g.pending # {} /\ g.master

\* tick_timer, up to its call of update_irq.
Timed(g) ==
    LET now == (g.time + 1) % Times
        wrap == g.vblank + 1 >= VblankPeriod
        alarm == g.alarm # 0 /\ now >= g.alarm
        blank == wrap /\ "PCRTC" \in g.en
    IN  [g EXCEPT !.time = now,
                  !.vblank = IF wrap THEN 0 ELSE @ + 1,
                  !.intr = @ \cup (IF alarm THEN {"PTIMER"} ELSE {})
                             \cup (IF blank THEN {"PCRTC"} ELSE {})]

GpuTick(g) == Aggregated(Timed(g))

\* nv2a_write: a write of 1 to a block's INTR, of a block's INTR_EN, of
\* PMC_INTR_0, of PMC_INTR_EN and of the alarm.  All but the last end in
\* update_irq, which undoes what was cleared in PMC_INTR_0 alone.
AckBlock(g, b) == Aggregated([g EXCEPT !.intr = @ \ {b}])
EnableBlock(g, S) == Aggregated([g EXCEPT !.en = S])
AckPmc(g, S) == Aggregated([g EXCEPT !.pending = @ \ S])
EnablePmc(g, master) == Aggregated([g EXCEPT !.master = master])
SetAlarm(g, t) == [g EXCEPT !.alarm = t]
=============================================================================
