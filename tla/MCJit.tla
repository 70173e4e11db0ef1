------------------------------- MODULE MCJit --------------------------------
(* Every form followed by every terminator, by every other form and a Jcc on *)
(* either flag, and by the end of the page.                                  *)
EXTENDS Jit

Bodies == Forms \ Terminators
MCTraces ==
    { <<f>> : f \in Forms }
      \cup { <<f, t>> : f \in Bodies, t \in Terminators }
      \cup { <<f, g, t>> : f \in Bodies, g \in Bodies, t \in {"jz", "jc"} }
=============================================================================
