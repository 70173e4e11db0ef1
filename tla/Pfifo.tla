------------------------------- MODULE Pfifo --------------------------------
(***************************************************************************)
(* The DMA pusher of the NV2A (nv2a.hpp: tick_fifo, the PFIFO and USER     *)
(* registers) and the committed register window the tick polls instead of  *)
(* taking MMIO faults (setup.hpp).  Addresses count dwords from the base   *)
(* of the push buffer's DMA object.  Ram is what the guest put there: a    *)
(* word is a command, or data a command carries along.                     *)
(***************************************************************************)
EXTENDS Naturals

CONSTANTS RamSize, Ram, MaxDwords

Positions == 0 .. RamSize - 1

Kinds == {"nop", "jump", "call", "return", "method", "data"}

\* Methods the pusher itself looks at; all others are "other".
Methods == {"reference", "set_reference", "context", "notify", "other"}

ASSUME PfifoAssumption ==
    /\ RamSize \in Nat \ {0}
    /\ MaxDwords \in Nat \ {0}
    /\ \A p \in Positions :
        /\ Ram[p].kind \in Kinds
        /\ Ram[p].arg \in Nat        \* the target, the data count or the datum
        /\ Ram[p].method \in Methods

Pusher == [put : Nat, get : Nat,            \* CACHE1_DMA_PUT and DMA_GET
           push : BOOLEAN, push0 : BOOLEAN, \* CACHE1_DMA_PUSH and PUSH0
           fifoGet : Nat, valid : BOOLEAN,  \* the tick's own position
           idle : BOOLEAN,                  \* CACHE1_STATUS
           subr : SUBSET Nat,               \* CACHE1_DMA_SUBROUTINE, if active
           ref : Nat, refCnt : Nat,         \* CACHE1_REF and PGRAPH REF_CNT
           ctx : BOOLEAN, notified : BOOLEAN,
           rcPut : Nat, rcGet : Nat]        \* the channel's context in RAMFC

PusherPowerOn == [put |-> 0, get |-> 0, push |-> FALSE, push0 |-> FALSE,
                  fifoGet |-> 0, valid |-> FALSE, idle |-> TRUE, subr |-> {},
                  ref |-> 0, refCnt |-> 0, ctx |-> FALSE, notified |-> FALSE,
                  rcPut |-> 0, rcGet |-> 0]

-----------------------------------------------------------------------------
(* The loop of tick_fifo: r is the pusher while it runs, with fifoGet its  *)
(* position, used the dwords it consumed and stop set when it must leave.  *)

Going(r) == ~r.stop /\ r.fifoGet # r.put /\ r.used < MaxDwords

\* Mutant of Effect: the loop goes on after a fence.
EffectRunsOn(r, method, datum) ==
    CASE method = "reference" -> [r EXCEPT !.ref = datum]
      [] method = "set_reference" -> [r EXCEPT !.refCnt = datum]
      [] method = "context" -> [r EXCEPT !.ctx = datum # 0]
      [] method = "notify" -> [r EXCEPT !.notified = @ \/ r.ctx]
      [] OTHER -> r

\* What a method does besides being skipped, given its first datum.
Effect(r, method, datum) ==
    CASE method = "reference" -> [r EXCEPT !.ref = datum]
      [] method = "set_reference" -> [r EXCEPT !.refCnt = datum, !.stop = TRUE]
      [] method = "context" -> [r EXCEPT !.ctx = datum # 0]
      [] method = "notify" -> [r EXCEPT !.notified = @ \/ r.ctx]
      [] OTHER -> r

\* Mutant of Method: the header's data are not skipped.
MethodNoSkip(r, cmd) ==
    LET at == r.fifoGet + 1
    IN  IF at + cmd.arg > RamSize THEN [r EXCEPT !.fifoGet = at, !.used = @ + 1, !.stop = TRUE]
        ELSE [Effect(r, cmd.method, IF cmd.arg > 0 THEN Ram[at].arg ELSE 0)
                EXCEPT !.fifoGet = at, !.used = @ + 1]

\* A method whose data end beyond RAM leaves after its header.
Method(r, cmd) ==
    LET at == r.fifoGet + 1
    IN  IF at + cmd.arg > RamSize
        THEN [r EXCEPT !.fifoGet = at, !.used = @ + 1, !.stop = TRUE]
        ELSE [(IF cmd.arg = 0 THEN r ELSE Effect(r, cmd.method, Ram[at].arg))
                EXCEPT !.fifoGet = at + cmd.arg, !.used = @ + 1 + cmd.arg]

\* Mutant of Turn: a RETURN ends the loop where it stands.
TurnStaysAtReturn(r) ==
    IF r.fifoGet >= RamSize THEN [r EXCEPT !.stop = TRUE]
    ELSE LET cmd == Ram[r.fifoGet]
             past == [r EXCEPT !.fifoGet = @ + 1, !.used = @ + 1]
         IN  CASE cmd.kind = "jump" -> [past EXCEPT !.fifoGet = cmd.arg]
               [] cmd.kind = "call" /\ r.subr = {} ->
                    [past EXCEPT !.subr = {past.fifoGet}, !.fifoGet = cmd.arg]
               [] cmd.kind = "return" /\ r.subr # {} -> [r EXCEPT !.stop = TRUE]
               [] cmd.kind = "method" -> Method(r, cmd)
               [] OTHER -> past

\* One turn of the loop.  A CALL inside a subroutine and a RETURN outside
\* of one are skipped, like a word that is no command.
Turn(r) ==
    IF r.fifoGet >= RamSize THEN [r EXCEPT !.stop = TRUE]
    ELSE LET cmd == Ram[r.fifoGet]
             past == [r EXCEPT !.fifoGet = @ + 1, !.used = @ + 1]
         IN  CASE cmd.kind = "jump" -> [past EXCEPT !.fifoGet = cmd.arg]
               [] cmd.kind = "call" /\ r.subr = {} ->
                    [past EXCEPT !.subr = {past.fifoGet}, !.fifoGet = cmd.arg]
               [] cmd.kind = "return" /\ r.subr # {} ->
                    [past EXCEPT !.fifoGet = CHOOSE a \in r.subr : TRUE, !.subr = {}]
               [] cmd.kind = "method" -> Method(r, cmd)
               [] OTHER -> past

\* The element of a set of one: f applied to a value computed once.
Only(S) == CHOOSE x \in S : TRUE

Drained(p) ==
    LET start == [k \in DOMAIN p \cup {"used", "stop"} |->
                    CASE k = "used" -> 0 [] k = "stop" -> FALSE [] OTHER -> p[k]]
        run[n \in 0 .. MaxDwords] ==
            IF n = 0 THEN start
            ELSE Only({ IF Going(r) THEN Turn(r) ELSE r : r \in {run[n - 1]} })
    IN  run[MaxDwords]

\* The position the tick goes on from: GET, the first time PUT is nonzero.
Started(p) ==
    IF p.valid \/ p.put = 0 THEN p ELSE [p EXCEPT !.fifoGet = p.get, !.valid = TRUE]

\* tick_fifo.  GET goes to the register and to the channel's context.
FifoTick(p0) ==
    IF ~p0.push \/ ~p0.push0 THEN p0
    ELSE LET p == Started(p0)
         IN  IF ~p.valid THEN p
             ELSE IF p.fifoGet = p.put THEN [p EXCEPT !.idle = TRUE]
             ELSE Only({ [k \in DOMAIN p |->
                            CASE k \in {"get", "rcGet"} -> r.fifoGet
                              [] k = "idle" -> r.fifoGet = p.put
                              [] OTHER -> r[k]] : r \in {Drained(p)} })

-----------------------------------------------------------------------------
(* Registers.                                                             *)

Pushing(p) == [p EXCEPT !.push = TRUE, !.push0 = TRUE]

\* USER DMA_PUT and CACHE1_DMA_PUT: both also enable the pusher.
WritePut(p, put) == [Pushing(p) EXCEPT !.put = put]

\* Writing CACHE1_PUSH1, or 1 to PUSH0, loads the channel's context unless
\* it is empty; the tick's own position is not part of it.
LoadContext(p) ==
    IF p.rcPut = 0 /\ p.rcGet = 0 THEN p
    ELSE [Pushing(p) EXCEPT !.put = p.rcPut, !.get = p.rcGet]

WritePush0(p, on) == IF on THEN LoadContext([p EXCEPT !.push0 = TRUE])
                     ELSE [p EXCEPT !.push0 = FALSE]
WriteDmaPush(p, on) == [p EXCEPT !.push = on]

\* CACHE1_DMA_GET is only stored: it counts until the pusher starts.
WriteGet(p, get) == [p EXCEPT !.get = get]

\* The guest kernel writes the channel's context to instance memory.
WriteContext(p, put, get) == [p EXCEPT !.rcPut = put, !.rcGet = get]

\* USER DMA_GET, as the guest reads it.  The position of the compute shader,
\* which the code reports where it is further on, is left out with the shader.
UserGet(p) == IF p.valid THEN p.fifoGet ELSE p.put

-----------------------------------------------------------------------------
(* The committed window: plain memory the guest writes, polled by a tick.  *)
(* seen0 and seen1 are the last PUSH0 and PUSH1 the tick acted on.  ref is *)
(* what the guest reads there as CACHE1_REF, as USER REF and also as the   *)
(* PGRAPH counter at 0x400B10: always CACHE1_REF, never REF_CNT.           *)

Window == [userPut : Nat, fifoPut : Nat, push0 : BOOLEAN, push1 : Nat,
           seen0 : BOOLEAN, seen1 : Nat, get : Nat, ref : Nat, idle : BOOLEAN]

WindowClear == [userPut |-> 0, fifoPut |-> 0, push0 |-> FALSE, push1 |-> 0,
                seen0 |-> FALSE, seen1 |-> 0, get |-> 0, ref |-> 0, idle |-> FALSE]

\* The PUT of the USER page wins; that of the PFIFO block counts if it
\* differs from both.
PutPolled(p, w) ==
    LET q == IF w.userPut # 0 /\ w.userPut # p.put THEN WritePut(p, w.userPut) ELSE p
    IN  IF w.fifoPut # 0 /\ w.fifoPut # p.put /\ w.fifoPut # w.userPut
        THEN WritePut(q, w.fifoPut) ELSE q

Polled(p, w) ==
    LET q == IF w.push1 # w.seen1 THEN LoadContext(PutPolled(p, w)) ELSE PutPolled(p, w)
    IN  IF w.push0 /\ ~w.seen0 THEN WritePush0(q, TRUE) ELSE q

\* What the tick stores back, before it runs the pusher.
Synced(q, w) ==
    [w EXCEPT !.seen1 = w.push1, !.seen0 = @ \/ w.push0, !.get = UserGet(q),
              !.ref = q.ref, !.fifoPut = q.put, !.idle = UserGet(q) = q.put]
=============================================================================
