-------------------------------- MODULE Rtc ---------------------------------
(***************************************************************************)
(* The periodic interrupt of the CMOS clock (cmos.hpp), as operators on    *)
(* its state.  Of register A the model keeps whether the rate is nonzero,  *)
(* of register B the enable bit, of register C the two flags that are set  *)
(* together.  The clock and RAM bytes and ELCR only return what was put.   *)
(***************************************************************************)
EXTENDS Naturals

CONSTANT RtcPeriod   \* 8 in the code

ASSUME RtcPeriodAssumption == RtcPeriod \in Nat \ {0}

Clock == [rate : BOOLEAN, pie : BOOLEAN, flags : BOOLEAN,
          period : {0, RtcPeriod}, counter : 0 .. RtcPeriod - 1]

RtcPowerOn == [rate |-> TRUE, pie |-> FALSE, flags |-> FALSE,
               period |-> 0, counter |-> 0]

\* CmosState::tick.
RtcRaises(r) == r.period # 0 /\ r.counter + 1 >= r.period

RtcTick(r) ==
    IF r.period = 0 THEN r
    ELSE [r EXCEPT !.counter = IF RtcRaises(r) THEN 0 ELSE @ + 1,
                   !.flags = @ \/ RtcRaises(r)]

\* CmosState::update_period: with rate 0 the counter stays where it is.
UpdatePeriod(r) ==
    IF ~r.pie THEN [r EXCEPT !.period = 0, !.counter = 0]
    ELSE IF ~r.rate THEN [r EXCEPT !.period = 0]
    ELSE [r EXCEPT !.period = RtcPeriod, !.counter = 0]

WriteA(r, rate) == UpdatePeriod([r EXCEPT !.rate = rate])
WriteB(r, pie) == UpdatePeriod([r EXCEPT !.pie = pie])

\* Register C is stored like any other; no interrupt is raised or withdrawn.
WriteC(r, flags) == [r EXCEPT !.flags = flags]

\* Mutant of ReadC: the flags stay.
ReadCKeepsFlags(r) == r

\* Reading register C clears its flags.
ReadC(r) == [r EXCEPT !.flags = FALSE]
=============================================================================
