----------------------------- MODULE MCMachine ------------------------------
(***************************************************************************)
(* Instances of Machine for TLC: a flash whose commands are also data, and *)
(* a push buffer that is a ring with a subroutine and two fences.          *)
(***************************************************************************)
EXTENDS Machine, TLC

MCBits == {0, 1, 2}
MCReadArray == {0, 1, 2}
MCReadId == {0}
MCReadStatus == {1}
MCClearStatus == {2}
MCByteProgram == {0, 1}
MCEraseSetup == {0, 2}
MCEraseConfirm == {1, 2}
MCCommands == SUBSET MCBits

Cmd(kind, arg) == [kind |-> kind, arg |-> arg, method |-> "other"]
Meth(method, count) == [kind |-> "method", arg |-> count, method |-> method]

MCRam == 0 :> Meth("reference", 1)     @@ 1 :> Cmd("data", 7)
      @@ 2 :> Cmd("call", 13)
      @@ 3 :> Meth("set_reference", 1) @@ 4 :> Cmd("data", 1)
      @@ 5 :> Meth("other", 2)         @@ 6 :> Cmd("data", 3) @@ 7 :> Cmd("data", 3)
      @@ 8 :> Meth("context", 1)       @@ 9 :> Cmd("data", 1)
      @@ 10 :> Meth("set_reference", 1) @@ 11 :> Cmd("data", 2)
      @@ 12 :> Cmd("jump", 0)
      @@ 13 :> Meth("notify", 1)       @@ 14 :> Cmd("data", 0)
      @@ 15 :> Cmd("return", 0)

MCHeaders == {0, 2, 3, 5, 8, 10, 12, 13, 15}
MCNextFence == 0 :> 1 @@ 1 :> 2 @@ 2 :> 1
MCTrail == {0, 2, 3} \X {{}} \X {0, 2} \cup {13, 15} \X {{3}} \X {0, 2}
           \cup {5, 8, 10} \X {{}} \X {1} \cup {<<12, {}, 2>>}
=============================================================================
