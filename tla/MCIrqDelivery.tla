--------------------------- MODULE MCIrqDelivery ----------------------------
(***************************************************************************)
(* Instances of IrqDelivery for TLC, with the wiring of setup.hpp.         *)
(***************************************************************************)
EXTENDS IrqDelivery

\* PIT 0, NV2A 3, RTC 8 and SMBus 11, and guests that mask either everything
\* above the cascade or nothing.
MCMasks == {{}, {3}}

\* The initialisation of tests/pic.asm, and one without ICW4.
MCModes == [icw4 : BOOLEAN, single : {FALSE}]
=============================================================================
