--------------------------- MODULE JitStateProofs ---------------------------
(***************************************************************************)
(* Proofs about Jit, for every set of traces: on every path through the    *)
(* generated code the guest's registers, memory and flags are where they   *)
(* belong when an instruction is done, a link is followed or the trace     *)
(* returns.                                                                *)
(***************************************************************************)
EXTENDS JitProofs

-----------------------------------------------------------------------------
(* Claims: what is known of the values while the code of an instruction    *)
(* runs.  A claim names the places that hold what they held before the     *)
(* instruction (o), those that hold what it leaves there, or "lost" (n),   *)
(* and the stop reason.                                                    *)

\* The two values in R14 and on the host stack; "va" and "pa": R14 holds a
\* virtual address, or one to access memory with; "whole": nothing is lost.
Extra == {"r14.1", "r14.2", "st.1", "st.2", "va", "pa", "whole"}
Places == Locations \cup Extra

Val(l) ==
    CASE l = "r14.1" -> r14[1]
      [] l = "r14.2" -> r14[Len(r14)]
      [] l = "st.1" -> stack[1][1]
      [] l = "st.2" -> stack[1][2]
      [] l = "va" -> IF physical THEN "junk" ELSE "old"
      [] l = "pa" -> IF physical = paging THEN "old" ELSE "junk"
      [] l = "whole" -> IF \E k \in Locations : v[k] = "lost" THEN "junk" ELSE "old"
      [] OTHER -> v[l]

Claims == [o : SUBSET Places, n : SUBSET Places, stop : Reasons]

Holds(A) ==
    /\ \A l \in A.o : Val(l) = "old"
    /\ \A l \in A.n : Val(l) \in {"new", "lost"}
    /\ stop = A.stop

Known(o, n) == [o |-> o, n |-> n, stop |-> "none"]

\* The claim behind a return.
Impossible == Known({"a"}, {"a"})

\* What code is to do: an instruction, and the flags alive before it.
Contracts == [form : Forms, live : SUBSET Flags]

Base == {"a", "c", "ctx.sp", "mem"}
Start(c) == Known(Base \cup c.live \cup {"whole"}, {})

\* What the end of an instruction's code owes to the next one.
Owed(c) ==
    IF c.form \in LosesFlags THEN Guest \ Flags
    ELSE (Guest \ Flags) \cup c.live \cup Writes(c.form)

Finish(c) ==
    IF c.form = "movzx16" THEN Known({}, {})
    ELSE Known({ InTrace[g] : g \in Owed(c) \ Writes(c.form) },
               { InTrace[g] : g \in Owed(c) \cap Writes(c.form) })

-----------------------------------------------------------------------------
(* Operations: from what may be claimed before to what may be after.       *)

\* What is claimed outside of w was claimed before; what of to, of from.
Keeps(A, B, w) ==
    /\ \A l \in B.o : l \in w \/ l \in A.o
    /\ \A l \in B.n : l \in w \/ l \in A.n
    /\ B.stop = A.stop

Gets(A, B, to, from) == (to \in B.o => from \in A.o) /\ (to \in B.n => from \in A.n)

Drops(B, w) == \A l \in w : l \notin B.o /\ l \notin B.n

\* R14 and what is known of the address in it.
InR14 == {"r14.1", "r14.2", "va", "pa"}
NewR14(B) == ("pa" \in B.o => ~paging) /\ "pa" \notin B.n /\ "va" \notin B.n

Parts(s) == (s \ {"r14"}) \cup IF "r14" \in s THEN {"r14.1", "r14.2"} ELSE {}

\* A computation from old and new at the address addr; it gives out, destroys
\* bad, and may lose what is in lose.
Effect(old, new, out, bad, lose, addr, A, B) ==
    LET w == Parts(out \cup bad)
        r == "r14" \in out \cup bad
        given == /\ Parts(old) \subseteq A.o /\ Parts(new) \subseteq A.n
                 /\ addr # "none" => addr \in A.o
    IN  /\ old \cup new \cup out \cup bad \subseteq Locations \cup {"r14"} /\ lose \subseteq out
        /\ addr \in {"none", "va", "pa"}
        /\ Keeps(A, B, w \cup IF r THEN InR14 ELSE {})
        /\ r => NewR14(B)
        /\ \A l \in w : l \notin B.o
        /\ \A l \in w : l \in B.n => l \in Parts(out) /\ given
        /\ "whole" \in B.o => lose = {} /\ "r14" \notin old \cup new

Computed(o, A, B) == Effect(o.old, o.new, o.out, o.bad, o.lose, o.addr, A, B)

\* Both the return and the link need the registers, ESP and memory in place.
InPlace(c, A) ==
    c.form # "movzx16" =>
        /\ \A g \in (Guest \ Flags) \cap Writes(c.form) : InTrace[g] \in A.n
        /\ \A g \in (Guest \ Flags) \ Writes(c.form) : InTrace[g] \in A.o

\* A return to the run loop.
RetOk(c, A) ==
    /\ A.stop = "none" =>
          InPlace(c, A) /\ "ctx.eip" \in A.n /\ (c.form = "iret" => Flags \subseteq A.n)
    /\ A.stop # "none" =>
          /\ \A g \in (Guest \ Flags) \cup c.live :
                \/ InTrace[g] \in A.o
                \/ g \in Flags /\ c.form \in LosesFlags
                \/ g = "sp" /\ A.stop = "page_fault" /\ c.form \in MovesEsp
          /\ "ctx.eip" \in A.o

\* A jump to another trace.
Branches == {"jz", "jc", "jecxz", "loop", "loope"}
LinkOk(c, A) ==
    /\ A.stop = "none" /\ InPlace(c, A)
    /\ c.form \in Branches => "br" \in A.n /\ "whole" \in A.o

\* Operation o, which only moves or computes values, leads from A to B.
Moves(o, A, B) ==
    \/ o.op = "exec" /\ Computed(o, A, B)
    \/ /\ o.op = "save_gp" /\ Keeps(A, B, {"ctx.a", "ctx.c"})
       /\ Gets(A, B, "ctx.a", "a") /\ Gets(A, B, "ctx.c", "c")
    \/ /\ o.op = "load_gp" /\ Keeps(A, B, {"a", "c"})
       /\ Gets(A, B, "a", "ctx.a") /\ Gets(A, B, "c", "ctx.c")
    \/ /\ o.op = "pushfq" /\ Keeps(A, B, {"st.1", "st.2"})
       /\ Gets(A, B, "st.1", "cf") /\ Gets(A, B, "st.2", "zf")
    \/ /\ o.op = "push_r14" /\ Keeps(A, B, {"st.1", "st.2"})
       /\ Gets(A, B, "st.1", "r14.1") /\ Gets(A, B, "st.2", "r14.2")
    \/ /\ o.op = "popfq" /\ Keeps(A, B, Flags) /\ Drops(B, {"st.1", "st.2", "whole"})
       /\ Gets(A, B, "cf", "st.1") /\ Gets(A, B, "zf", "st.2")
    \/ /\ o.op = "pop_r14" /\ Keeps(A, B, InR14) /\ Drops(B, {"st.1", "st.2"}) /\ NewR14(B)
       /\ Gets(A, B, "r14.1", "st.1") /\ Gets(A, B, "r14.2", "st.2")
    \/ /\ o.op = "eflags_r14" /\ Keeps(A, B, {"ctx.cf", "ctx.zf"}) /\ Drops(B, {"whole"})
       /\ Gets(A, B, "ctx.cf", "r14.1") /\ Gets(A, B, "ctx.zf", "r14.2")
    \/ /\ o.op = "r14_eflags" /\ Keeps(A, B, InR14) /\ NewR14(B)
       /\ Gets(A, B, "r14.1", "ctx.cf") /\ Gets(A, B, "r14.2", "ctx.zf")
    \/ /\ o.op = "copy"
       /\ \E from, to \in Locations :
            \/ o.old = {from} /\ o.out = {to} /\ Keeps(A, B, {to}) /\ Gets(A, B, to, from)
            \/ /\ o.old = {from} /\ o.out = {"r14"} /\ Keeps(A, B, InR14) /\ NewR14(B)
               /\ Gets(A, B, "r14.1", from) /\ Gets(A, B, "r14.2", from)
            \/ /\ o.old = {"r14"} /\ o.out = {to} /\ Keeps(A, B, {to}) /\ Drops(B, {"whole"})
               /\ Gets(A, B, to, "r14.1") /\ Gets(A, B, to, "r14.2")
    \/ /\ o.op = "restart" /\ Keeps(A, B, InR14 \cup {"ctx.eip"}) /\ NewR14(B)
       /\ Drops(B, {"r14.1", "r14.2"}) /\ "ctx.eip" \notin B.n
    \/ /\ o.op = "stop" /\ o.out = {B.stop}
       /\ B.o \subseteq A.o /\ B.n \subseteq A.n

\* What an operation without alternatives may do under contract c.
OpStraight(c, o, A, B) ==
    \/ Moves(o, A, B)
    \/ o.op = "link" /\ LinkOk(c, A) /\ Keeps(A, B, {})
    \/ o.op = "ret" /\ RetOk(c, A)

\* The code s leads from A to B.
Straight(c, s, A, B) ==
    \E h : WalkIn(Claims, s, h, A, B) /\ \A k \in 1 .. Len(s) : OpStraight(c, s[k], h[k], h[k + 1])

\* Both ways of a fork lead to B; the fault exit keeps the contract.
OpDoes(c, o, A, B) ==
    \/ OpStraight(c, o, A, B)
    \/ /\ o.op \in {"site", "fork"}
       /\ \E M \in Claims : /\ Computed(o, A, M)
                            /\ Straight(c, o.alt[1], M, B) /\ Straight(c, o.alt[2], M, B)
    \/ /\ o.op = "translate" /\ A.stop = "none" /\ "va" \in A.o /\ o.bad \subseteq Registers
       /\ Keeps(A, B, {"pa"}) /\ Drops(B, o.bad \cup {"va", "whole"})
       /\ ("pa" \in B.o => paging) /\ "pa" \notin B.n
       /\ \E M \in Claims : /\ M.o \subseteq A.o \ (o.bad \cup {"whole"}) /\ M.n \subseteq A.n \ o.bad
                            /\ M.stop = "page_fault" /\ Straight(c, o.alt[1], M, Impossible)

Does(c, s, A, B) ==
    \E h : WalkIn(Claims, s, h, A, B) /\ \A k \in 1 .. Len(s) : OpDoes(c, s[k], h[k], h[k + 1])

-----------------------------------------------------------------------------
(* Putting code together.                                                  *)

\* Code that follows code, without alternatives ...
LEMMA StraightConcat ==
  ASSUME NEW c, NEW s, NEW t, NEW A, NEW M, NEW B, Straight(c, s, A, M), Straight(c, t, M, B)
  PROVE  Straight(c, s \o t, A, B)
  <1>1. PICK h : /\ WalkIn(Claims, s, h, A, M)
                 /\ \A k \in 1 .. Len(s) : OpStraight(c, s[k], h[k], h[k + 1])
    BY DEF Straight
  <1>2. PICK g : /\ WalkIn(Claims, t, g, M, B)
                 /\ \A k \in 1 .. Len(t) : OpStraight(c, t[k], g[k], g[k + 1])
    BY DEF Straight
  <1> DEFINE u == s \o t
  <1>3. PICK f : /\ WalkIn(Claims, u, f, A, B)
                 /\ \A k \in 1 .. Len(u) :
                      \/ \E j \in 1 .. Len(s) : u[k] = s[j] /\ f[k] = h[j] /\ f[k + 1] = h[j + 1]
                      \/ \E j \in 1 .. Len(t) : u[k] = t[j] /\ f[k] = g[j] /\ f[k + 1] = g[j + 1]
    BY <1>1, <1>2, WalkOn
  <1> HIDE DEF u
  <1>4. \A k \in 1 .. Len(u) : OpStraight(c, u[k], f[k], f[k + 1])
    BY <1>1, <1>2, <1>3
  <1>5. Straight(c, u, A, B)
    BY <1>3, <1>4 DEF Straight
  <1>6. QED
    BY <1>5 DEF u

\* ... and with them.
LEMMA DoesConcat ==
  ASSUME NEW c, NEW s, NEW t, NEW A, NEW M, NEW B, Does(c, s, A, M), Does(c, t, M, B)
  PROVE  Does(c, s \o t, A, B)
  <1>1. PICK h : /\ WalkIn(Claims, s, h, A, M)
                 /\ \A k \in 1 .. Len(s) : OpDoes(c, s[k], h[k], h[k + 1])
    BY DEF Does
  <1>2. PICK g : /\ WalkIn(Claims, t, g, M, B)
                 /\ \A k \in 1 .. Len(t) : OpDoes(c, t[k], g[k], g[k + 1])
    BY DEF Does
  <1> DEFINE u == s \o t
  <1>3. PICK f : /\ WalkIn(Claims, u, f, A, B)
                 /\ \A k \in 1 .. Len(u) :
                      \/ \E j \in 1 .. Len(s) : u[k] = s[j] /\ f[k] = h[j] /\ f[k + 1] = h[j + 1]
                      \/ \E j \in 1 .. Len(t) : u[k] = t[j] /\ f[k] = g[j] /\ f[k + 1] = g[j + 1]
    BY <1>1, <1>2, WalkOn
  <1> HIDE DEF u
  <1>4. \A k \in 1 .. Len(u) : OpDoes(c, u[k], f[k], f[k + 1])
    BY <1>1, <1>2, <1>3
  <1>5. Does(c, u, A, B)
    BY <1>3, <1>4 DEF Does
  <1>6. QED
    BY <1>5 DEF u

\* Code without alternatives is code.
LEMMA StraightDoes ==
  ASSUME NEW c, NEW s, NEW A, NEW B, Straight(c, s, A, B)
  PROVE  Does(c, s, A, B)
  BY DEF Straight, Does, OpDoes

\* One operation is code.
LEMMA SingleStraight ==
  ASSUME NEW c, NEW o, NEW A \in Claims, NEW B \in Claims, OpStraight(c, o, A, B)
  PROVE  Straight(c, <<o>>, A, B)
  <1> DEFINE h == [k \in 1 .. 2 |-> IF k = 1 THEN A ELSE B]
  <1>1. /\ Len(<<o>>) = 1 /\ <<o>> \in Seq({o}) /\ <<o>>[1] = o
        /\ 1 .. Len(<<o>>) = {1} /\ Len(<<o>>) + 1 = 2
    OBVIOUS
  <1>2. h \in [1 .. 2 -> Claims] /\ h[1] = A /\ h[2] = B
    OBVIOUS
  <1> HIDE DEF h
  <1>3. WalkIn(Claims, <<o>>, h, A, B)
    BY <1>1, <1>2 DEF WalkIn
  <1>4. \A k \in 1 .. Len(<<o>>) : OpStraight(c, <<o>>[k], h[k], h[k + 1])
    BY <1>1, <1>2
  <1>5. QED
    BY <1>3, <1>4 DEF Straight

\* The same with alternatives.
LEMMA SingleDoes ==
  ASSUME NEW c, NEW o, NEW A \in Claims, NEW B \in Claims, OpDoes(c, o, A, B)
  PROVE  Does(c, <<o>>, A, B)
  <1> DEFINE h == [k \in 1 .. 2 |-> IF k = 1 THEN A ELSE B]
  <1>1. /\ Len(<<o>>) = 1 /\ <<o>> \in Seq({o}) /\ <<o>>[1] = o
        /\ 1 .. Len(<<o>>) = {1} /\ Len(<<o>>) + 1 = 2
    OBVIOUS
  <1>2. h \in [1 .. 2 -> Claims] /\ h[1] = A /\ h[2] = B
    OBVIOUS
  <1> HIDE DEF h
  <1>3. WalkIn(Claims, <<o>>, h, A, B)
    BY <1>1, <1>2 DEF WalkIn
  <1>4. \A k \in 1 .. Len(<<o>>) : OpDoes(c, <<o>>[k], h[k], h[k + 1])
    BY <1>1, <1>2
  <1>5. QED
    BY <1>3, <1>4 DEF Does

\* Two operations written as one sequence.
LEMMA PairStraight ==
  ASSUME NEW c, NEW p, NEW q, NEW A \in Claims, NEW M \in Claims, NEW B \in Claims,
         OpStraight(c, p, A, M), OpStraight(c, q, M, B)
  PROVE  Straight(c, <<p, q>>, A, B)
  <1>1. Straight(c, <<p>> \o <<q>>, A, B)
    BY SingleStraight, StraightConcat
  <1>2. <<p>> \o <<q>> = <<p, q>>
    <2>1. /\ <<p>> \in Seq({p, q}) /\ <<q>> \in Seq({p, q}) /\ <<p, q>> \in Seq({p, q})
          /\ Len(<<p>>) = 1 /\ Len(<<q>>) = 1 /\ Len(<<p, q>>) = 2
      OBVIOUS
    <2>2. /\ <<p>> \o <<q>> \in Seq({p, q}) /\ Len(<<p>> \o <<q>>) = 2
          /\ (<<p>> \o <<q>>)[1] = p /\ (<<p>> \o <<q>>)[2] = q
      BY <2>1
    <2>3. \A k \in 1 .. 2 : (<<p>> \o <<q>>)[k] = <<p, q>>[k]
      BY <2>2
    <2>4. QED
      BY <2>1, <2>2, <2>3, SeqEqual
  <1>3. QED
    BY <1>1, <1>2

\* No code leaves the claim as it is.
LEMMA NoneDoes ==
  ASSUME NEW c, NEW A \in Claims
  PROVE  Straight(c, <<>>, A, A) /\ Does(c, <<>>, A, A)
  <1> DEFINE h == [k \in 1 .. 1 |-> A]
  <1>1. Len(<<>>) = 0 /\ <<>> \in Seq({})
    OBVIOUS
  <1>2. h \in [1 .. 1 -> Claims] /\ h[1] = A
    OBVIOUS
  <1> HIDE DEF h
  <1>3. WalkIn(Claims, <<>>, h, A, A)
    BY <1>1, <1>2 DEF WalkIn
  <1>4. Straight(c, <<>>, A, A)
    BY <1>1, <1>3 DEF Straight
  <1>5. QED
    BY <1>4, StraightDoes

\* Where code ends, the claim is the last.
LEMMA DoesEmpty ==
  ASSUME NEW c, NEW A, NEW B, Does(c, <<>>, A, B)
  PROVE  A = B
  <1>1. PICK h : WalkIn(Claims, <<>>, h, A, B)
    BY DEF Does
  <1>2. Len(<<>>) = 0
    OBVIOUS
  <1>3. QED
    BY <1>1, <1>2 DEF WalkIn

\* The first operation of code, and the rest.
LEMMA DoesHead ==
  ASSUME NEW c, NEW s, NEW A, NEW B, Does(c, s, A, B), s # <<>>
  PROVE  \E M \in Claims : OpDoes(c, Head(s), A, M) /\ Does(c, Tail(s), M, B)
  <1>1. PICK h : /\ WalkIn(Claims, s, h, A, B)
                 /\ \A k \in 1 .. Len(s) : OpDoes(c, s[k], h[k], h[k + 1])
    BY DEF Does
  <1>2. PICK S : s \in Seq(S)
    BY <1>1 DEF WalkIn
  <1>3. /\ Len(s) \in Nat /\ Len(s) > 0 /\ Head(s) = s[1]
        /\ Tail(s) \in Seq(S) /\ Len(Tail(s)) = Len(s) - 1
        /\ \A k \in 1 .. Len(s) - 1 : Tail(s)[k] = s[k + 1]
    BY <1>2
  <1>4. h \in [1 .. Len(s) + 1 -> Claims] /\ h[1] = A /\ h[Len(s) + 1] = B
    BY <1>1 DEF WalkIn
  <1> DEFINE g == [k \in 1 .. Len(s) |-> h[k + 1]]
             t == Tail(s)
  <1>5. /\ g \in [1 .. Len(t) + 1 -> Claims] /\ g[1] = h[2] /\ g[Len(t) + 1] = B
        /\ \A k \in 1 .. Len(t) : g[k] = h[k + 1] /\ g[k + 1] = h[k + 2]
    BY <1>3, <1>4
  <1> HIDE DEF g, t
  <1>6. WalkIn(Claims, t, g, h[2], B)
    BY <1>3, <1>5 DEF WalkIn, t
  <1>7. \A k \in 1 .. Len(t) : OpDoes(c, t[k], g[k], g[k + 1])
    <2> SUFFICES ASSUME NEW k \in 1 .. Len(t) PROVE OpDoes(c, t[k], g[k], g[k + 1])
      OBVIOUS
    <2>1. k + 1 \in 1 .. Len(s) /\ k \in 1 .. Len(s) - 1
      BY <1>3 DEF t
    <2>2. t[k] = s[k + 1]
      BY <1>3, <2>1 DEF t
    <2>3. g[k] = h[k + 1] /\ g[k + 1] = h[k + 2] /\ k + 2 = (k + 1) + 1
      BY <1>5, <2>1
    <2>4. QED
      BY <1>1, <2>1, <2>2, <2>3
  <1>8. Does(c, t, h[2], B)
    BY <1>6, <1>7 DEF Does
  <1>9. OpDoes(c, Head(s), A, h[2]) /\ h[2] \in Claims
    BY <1>1, <1>3, <1>4
  <1>10. QED
    BY <1>8, <1>9 DEF t

-----------------------------------------------------------------------------
(* Single operations.                                                      *)

\* The places by name.
LEMMA PlaceFacts ==
  /\ Base \cup Flags \cup {"ctx.a", "ctx.c", "ctx.cf", "ctx.zf", "br", "ctx.eip"} \subseteq Locations
  /\ Locations = Base \cup Flags \cup {"ctx.a", "ctx.c", "ctx.cf", "ctx.zf", "br", "ctx.eip"}
  /\ "r14" \notin Locations /\ Locations \cap Extra = {} /\ Locations \subseteq Places
  /\ Extra \subseteq Places
  BY DEF Locations, Registers, InCtx, Guest, Flags, Base, Extra, Places

\* Where the guest's state is in a trace and at its end.
LEMMA ViewFacts ==
  /\ InTrace["a"] = "a" /\ InTrace["c"] = "c" /\ InTrace["cf"] = "cf" /\ InTrace["zf"] = "zf"
  /\ InTrace["sp"] = "ctx.sp" /\ InTrace["mem"] = "mem"
  /\ InCtx["a"] = "ctx.a" /\ InCtx["c"] = "ctx.c" /\ InCtx["cf"] = "ctx.cf"
  /\ InCtx["zf"] = "ctx.zf" /\ InCtx["sp"] = "ctx.sp" /\ InCtx["mem"] = "mem"
  /\ Guest = {"a", "c", "sp", "mem", "cf", "zf"} /\ Guest \ Flags = {"a", "c", "sp", "mem"}
  /\ \A g \in Flags : g \in {"cf", "zf"} /\ InTrace[g] = g
  BY DEF InTrace, InCtx, Guest, Flags

\* A claim before any stop reason is set.
LEMMA KnownClaims ==
  ASSUME NEW o \in SUBSET Places, NEW n \in SUBSET Places
  PROVE  /\ Known(o, n) \in Claims
         /\ Known(o, n).o = o /\ Known(o, n).n = n /\ Known(o, n).stop = "none"
  BY DEF Known, Claims, Reasons

\* The operations that are always the same, but for link and return.
LEMMA FixedMoves ==
  ASSUME NEW c, NEW A \in Claims, NEW B \in Claims
  PROVE  /\ Keeps(A, B, {"ctx.a", "ctx.c"}) /\ Gets(A, B, "ctx.a", "a") /\ Gets(A, B, "ctx.c", "c")
            => Straight(c, SaveGp, A, B)
         /\ Keeps(A, B, {"a", "c"}) /\ Gets(A, B, "a", "ctx.a") /\ Gets(A, B, "c", "ctx.c")
            => Straight(c, LoadGp, A, B)
         /\ Keeps(A, B, {"st.1", "st.2"}) /\ Gets(A, B, "st.1", "cf") /\ Gets(A, B, "st.2", "zf")
            => Straight(c, PushFlags, A, B)
         /\ /\ Keeps(A, B, Flags) /\ Drops(B, {"st.1", "st.2", "whole"})
            /\ Gets(A, B, "cf", "st.1") /\ Gets(A, B, "zf", "st.2")
            => Straight(c, PopFlags, A, B)
  <1>1. /\ Op("save_gp").op = "save_gp" /\ Op("load_gp").op = "load_gp"
        /\ Op("pushfq").op = "pushfq" /\ Op("popfq").op = "popfq"
    BY DEF Op
  <1>2. /\ Keeps(A, B, {"ctx.a", "ctx.c"}) /\ Gets(A, B, "ctx.a", "a") /\ Gets(A, B, "ctx.c", "c")
           => OpStraight(c, Op("save_gp"), A, B)
        /\ Keeps(A, B, {"a", "c"}) /\ Gets(A, B, "a", "ctx.a") /\ Gets(A, B, "c", "ctx.c")
           => OpStraight(c, Op("load_gp"), A, B)
        /\ Keeps(A, B, {"st.1", "st.2"}) /\ Gets(A, B, "st.1", "cf") /\ Gets(A, B, "st.2", "zf")
           => OpStraight(c, Op("pushfq"), A, B)
        /\ /\ Keeps(A, B, Flags) /\ Drops(B, {"st.1", "st.2", "whole"})
           /\ Gets(A, B, "cf", "st.1") /\ Gets(A, B, "zf", "st.2")
           => OpStraight(c, Op("popfq"), A, B)
    BY <1>1 DEF OpStraight, Moves
  <1>3. QED
    BY <1>2, SingleStraight DEF SaveGp, LoadGp, PushFlags, PopFlags

\* Those on R14.
LEMMA R14Moves ==
  ASSUME NEW c, NEW A \in Claims, NEW B \in Claims
  PROVE  /\ /\ Keeps(A, B, InR14) /\ Drops(B, {"st.1", "st.2"}) /\ NewR14(B)
            /\ Gets(A, B, "r14.1", "st.1") /\ Gets(A, B, "r14.2", "st.2")
            => Straight(c, <<Op("pop_r14")>>, A, B)
         /\ /\ Keeps(A, B, {"st.1", "st.2"})
            /\ Gets(A, B, "st.1", "r14.1") /\ Gets(A, B, "st.2", "r14.2")
            => Straight(c, <<Op("push_r14")>>, A, B)
         /\ /\ Keeps(A, B, {"ctx.cf", "ctx.zf"}) /\ Drops(B, {"whole"})
            /\ Gets(A, B, "ctx.cf", "r14.1") /\ Gets(A, B, "ctx.zf", "r14.2")
            => Straight(c, <<Op("eflags_r14")>>, A, B)
         /\ /\ Keeps(A, B, InR14) /\ NewR14(B)
            /\ Gets(A, B, "r14.1", "ctx.cf") /\ Gets(A, B, "r14.2", "ctx.zf")
            => OpStraight(c, Op("r14_eflags"), A, B)
  <1>1. /\ Op("pop_r14").op = "pop_r14" /\ Op("push_r14").op = "push_r14"
        /\ Op("eflags_r14").op = "eflags_r14" /\ Op("r14_eflags").op = "r14_eflags"
    BY DEF Op
  <1>2. /\ Keeps(A, B, InR14) /\ Drops(B, {"st.1", "st.2"}) /\ NewR14(B)
        /\ Gets(A, B, "r14.1", "st.1") /\ Gets(A, B, "r14.2", "st.2")
        => OpStraight(c, Op("pop_r14"), A, B)
    BY <1>1 DEF OpStraight, Moves
  <1>3. /\ Keeps(A, B, {"st.1", "st.2"})
        /\ Gets(A, B, "st.1", "r14.1") /\ Gets(A, B, "st.2", "r14.2")
        => OpStraight(c, Op("push_r14"), A, B)
    BY <1>1 DEF OpStraight, Moves
  <1>4. /\ Keeps(A, B, {"ctx.cf", "ctx.zf"}) /\ Drops(B, {"whole"})
        /\ Gets(A, B, "ctx.cf", "r14.1") /\ Gets(A, B, "ctx.zf", "r14.2")
        => OpStraight(c, Op("eflags_r14"), A, B)
    BY <1>1 DEF OpStraight, Moves
  <1>5. /\ Keeps(A, B, InR14) /\ NewR14(B)
        /\ Gets(A, B, "r14.1", "ctx.cf") /\ Gets(A, B, "r14.2", "ctx.zf")
        => OpStraight(c, Op("r14_eflags"), A, B)
    BY <1>1 DEF OpStraight, Moves
  <1>6. QED
    BY <1>2, <1>3, <1>4, <1>5, SingleStraight

\* Leaving: a jump to the next trace, a return, and what precedes it.
LEMMA LeavingMoves ==
  ASSUME NEW c, NEW A \in Claims, NEW B \in Claims
  PROVE  /\ LinkOk(c, A) /\ Keeps(A, B, {}) => Straight(c, <<Op("link")>>, A, B)
         /\ LinkOk(c, A) /\ Keeps(A, B, {}) => OpStraight(c, Op("link"), A, B)
         /\ RetOk(c, A) => Straight(c, Ret, A, B)
         /\ /\ Keeps(A, B, InR14 \cup {"ctx.eip"}) /\ NewR14(B)
            /\ Drops(B, {"r14.1", "r14.2"}) /\ "ctx.eip" \notin B.n
            => Straight(c, <<Op("restart")>>, A, B) /\ Straight(c, NextEipThis, A, B)
         /\ B.o \subseteq A.o /\ B.n \subseteq A.n => Straight(c, StopReason(B.stop), A, B)
  <1>1. Op("link").op = "link" /\ Op("ret").op = "ret" /\ Op("restart").op = "restart"
    BY DEF Op
  <1>2. Clobbering(Op("restart"), {"r14"}).op = "restart"
    BY DEF Op, Clobbering
  <1>3. \A r : [Op("stop") EXCEPT !.out = {r}].op = "stop" /\ [Op("stop") EXCEPT !.out = {r}].out = {r}
    BY DEF Op
  <1>4. LinkOk(c, A) /\ Keeps(A, B, {}) => OpStraight(c, Op("link"), A, B)
    BY <1>1 DEF OpStraight
  <1>5. RetOk(c, A) => OpStraight(c, Op("ret"), A, B)
    BY <1>1 DEF OpStraight
  <1>6. ASSUME NEW o, o.op = "restart", Keeps(A, B, InR14 \cup {"ctx.eip"}), NewR14(B),
               Drops(B, {"r14.1", "r14.2"}), "ctx.eip" \notin B.n
        PROVE  OpStraight(c, o, A, B)
    BY <1>6 DEF OpStraight, Moves
  <1>7. ASSUME B.o \subseteq A.o /\ B.n \subseteq A.n
        PROVE  OpStraight(c, [Op("stop") EXCEPT !.out = {B.stop}], A, B)
    <2> DEFINE o == [Op("stop") EXCEPT !.out = {B.stop}]
    <2>1. o.op = "stop" /\ o.out = {B.stop}
      BY <1>3
    <2> HIDE DEF o
    <2>2. OpStraight(c, o, A, B)
      BY <1>7, <2>1 DEF OpStraight, Moves
    <2>3. QED
      BY <2>2 DEF o
  <1>8. LinkOk(c, A) /\ Keeps(A, B, {}) => Straight(c, <<Op("link")>>, A, B)
    BY <1>4, SingleStraight
  <1>9. RetOk(c, A) => Straight(c, Ret, A, B)
    BY <1>5, SingleStraight DEF Ret
  <1>10. /\ Keeps(A, B, InR14 \cup {"ctx.eip"}) /\ NewR14(B)
         /\ Drops(B, {"r14.1", "r14.2"}) /\ "ctx.eip" \notin B.n
         => Straight(c, <<Op("restart")>>, A, B) /\ Straight(c, NextEipThis, A, B)
    BY <1>1, <1>2, <1>6, SingleStraight DEF NextEipThis
  <1>11. B.o \subseteq A.o /\ B.n \subseteq A.n => Straight(c, StopReason(B.stop), A, B)
    BY <1>7, SingleStraight DEF StopReason
  <1>12. QED
    BY <1>4, <1>8, <1>9, <1>10, <1>11

\* The fields of an operation that computes.
Fields(o, old, new, out, bad, lose, addr) ==
    /\ o.op = "exec" /\ o.old = old /\ o.new = new /\ o.out = out /\ o.bad = bad
    /\ o.lose = lose /\ o.addr = addr
    /\ {"op", "old", "new", "out", "bad", "lose", "addr", "alt"} \subseteq DOMAIN o

\* Whatever it is told to need, to give, to destroy and to access.
LEMMA ComputingFields ==
  /\ \A old, new, out : Fields(Native(old, new, out), old, new, out, {}, {}, "none")
  /\ \A old, new, out, lose :
        Fields(CallAbs(old, new, out, lose), old, new, out, {"a", "c"} \cup Flags, lose, "none")
  /\ \A o, old, new, out, bad, lose, addr : Fields(o, old, new, out, bad, lose, addr) =>
        /\ \A w : Fields(Clobbering(o, w), old, new, out, w, lose, addr)
        /\ Fields(Access(o, "new"), old \cup {}, new \cup {"r14"}, out, bad, lose, "pa")
        /\ Fields(Access(o, "old"), old \cup {"r14"}, new \cup {}, out, bad, lose, "pa")
        /\ Fields(WithPa(o), old \cup {}, new \cup {"r14"}, out, bad, lose, "pa")
        /\ Fields(WithVa(o), old, new \cup {"r14"}, out, bad, lose, "va")
  <1>1. \A old, new, out : Fields(Native(old, new, out), old, new, out, {}, {}, "none")
    BY DEF Fields, Native, Op
  <1>2. \A old, new, out, lose :
          Fields(CallAbs(old, new, out, lose), old, new, out, {"a", "c"} \cup Flags, lose, "none")
    BY DEF Fields, Native, CallAbs, Op
  <1>3. ASSUME NEW o, NEW old, NEW new, NEW out, NEW bad, NEW lose, NEW addr,
               Fields(o, old, new, out, bad, lose, addr)
        PROVE  /\ \A w : Fields(Clobbering(o, w), old, new, out, w, lose, addr)
               /\ Fields(WithVa(o), old, new \cup {"r14"}, out, bad, lose, "va")
    BY <1>3 DEF Fields, Clobbering, WithVa
  <1>4. ASSUME NEW o, NEW old, NEW new, NEW out, NEW bad, NEW lose, NEW addr,
               Fields(o, old, new, out, bad, lose, addr)
        PROVE  /\ Fields(Access(o, "new"), old \cup {}, new \cup {"r14"}, out, bad, lose, "pa")
               /\ Fields(Access(o, "old"), old \cup {"r14"}, new \cup {}, out, bad, lose, "pa")
    BY <1>4 DEF Fields, Access
  <1>5. \A o : WithPa(o) = Access(o, "new")
    BY DEF WithPa
  <1>6. ASSUME NEW o, NEW old, NEW new, NEW out, NEW bad, NEW lose, NEW addr,
               Fields(o, old, new, out, bad, lose, addr)
        PROVE  /\ \A w : Fields(Clobbering(o, w), old, new, out, w, lose, addr)
               /\ Fields(Access(o, "new"), old \cup {}, new \cup {"r14"}, out, bad, lose, "pa")
               /\ Fields(Access(o, "old"), old \cup {"r14"}, new \cup {}, out, bad, lose, "pa")
               /\ Fields(WithPa(o), old \cup {}, new \cup {"r14"}, out, bad, lose, "pa")
               /\ Fields(WithVa(o), old, new \cup {"r14"}, out, bad, lose, "va")
    BY <1>3, <1>4, <1>5, <1>6
  <1>7. QED
    BY <1>1, <1>2, <1>6

\* It leads from A to B if its effect does.
LEMMA FieldsStraight ==
  ASSUME NEW c, NEW o, NEW old, NEW new, NEW out, NEW bad, NEW lose, NEW addr,
         NEW A \in Claims, NEW B \in Claims,
         Fields(o, old, new, out, bad, lose, addr), Effect(old, new, out, bad, lose, addr, A, B)
  PROVE  OpStraight(c, o, A, B) /\ Straight(c, <<o>>, A, B) /\ Does(c, <<o>>, A, B)
  <1>1. OpStraight(c, o, A, B)
    BY DEF Fields, OpStraight, Moves, Computed
  <1>2. QED
    BY <1>1, SingleStraight, StraightDoes

-----------------------------------------------------------------------------
(* emitter.hpp: translation.                                               *)

\* What is known on the way to a fault exit.
Faulted(o) == [o |-> o, n |-> {}, stop |-> "page_fault"]

\* Where the flags of f are while they are saved; what a fault exit of the
\* contract must restore.
Saved(f) ==
    (IF "cf" \in f THEN {"st.1"} ELSE {}) \cup (IF "zf" \in f THEN {"st.2"} ELSE {})
Needed(c) == IF c.form \in LosesFlags THEN {} ELSE c.live
Unmoved(c) == IF c.form \in MovesEsp THEN {} ELSE {"ctx.sp"}

\* Claims that are made on the way, with the ESP of the contract.
LEMMA FaultClaims ==
  ASSUME NEW o \in SUBSET Places
  PROVE  /\ Faulted(o) \in Claims
         /\ Faulted(o).o = o /\ Faulted(o).n = {} /\ Faulted(o).stop = "page_fault"
  BY DEF Faulted, Claims, Reasons

\* The fault exit: the registers are reloaded and the trace is left.
LEMMA FaultPathDoes ==
  ASSUME NEW c \in Contracts
  PROVE  Straight(c, FaultPath,
                  Faulted({"ctx.a", "ctx.c", "mem"} \cup Unmoved(c) \cup Saved(Needed(c))),
                  Impossible)
  <1> DEFINE K == {"ctx.a", "ctx.c", "mem"} \cup Unmoved(c)
             f == Needed(c)
             M0 == Faulted(K \cup Saved(f))
             M1 == Faulted(K \cup Saved(f) \cup {"ctx.eip"})
             M2 == Faulted(K \cup Saved(f) \cup {"ctx.eip", "a", "c"})
             M3 == Faulted(K \cup f \cup {"ctx.eip", "a", "c"})
  <1>1. f \subseteq Flags /\ f \subseteq c.live
    BY DEF Needed, Contracts
  <1>2. K \subseteq {"ctx.a", "ctx.c", "mem", "ctx.sp"} /\ Saved(f) \subseteq {"st.1", "st.2"}
    BY DEF Unmoved, Saved
  <1>3. /\ K \cup Saved(f) \in SUBSET Places /\ K \cup Saved(f) \cup {"ctx.eip"} \in SUBSET Places
        /\ K \cup Saved(f) \cup {"ctx.eip", "a", "c"} \in SUBSET Places
        /\ K \cup f \cup {"ctx.eip", "a", "c"} \in SUBSET Places
    BY <1>1, <1>2, PlaceFacts DEF Extra, Base
  <1>4. M0 \in Claims /\ M1 \in Claims /\ M2 \in Claims /\ M3 \in Claims /\ Impossible \in Claims
    BY <1>3, FaultClaims, KnownClaims, PlaceFacts DEF Base, Impossible
  <1> HIDE DEF K, f
  <1>5. Straight(c, <<Op("restart")>>, M0, M1)
    <2>1. /\ Keeps(M0, M1, InR14 \cup {"ctx.eip"}) /\ NewR14(M1)
          /\ Drops(M1, {"r14.1", "r14.2"}) /\ "ctx.eip" \notin M1.n
      BY <1>2 DEF Keeps, NewR14, Drops, InR14, Faulted
    <2>2. QED
      BY <1>4, <2>1, LeavingMoves
  <1>6. Straight(c, LoadGp, M1, M2)
    <2>1. Keeps(M1, M2, {"a", "c"}) /\ Gets(M1, M2, "a", "ctx.a") /\ Gets(M1, M2, "c", "ctx.c")
      BY <1>2 DEF Keeps, Gets, Faulted, K
    <2>2. QED
      BY <1>4, <2>1, FixedMoves
  <1>7. Straight(c, PopFlags, M2, M3)
    <2>1. Keeps(M2, M3, Flags)
      BY <1>1, <1>2 DEF Keeps, Faulted
    <2>2. Drops(M3, {"st.1", "st.2", "whole"})
      BY <1>1, <1>2 DEF Drops, Faulted, Flags
    <2>3. Gets(M2, M3, "cf", "st.1") /\ Gets(M2, M3, "zf", "st.2")
      BY <1>1, <1>2 DEF Gets, Faulted, Saved
    <2>4. QED
      BY <1>4, <2>1, <2>2, <2>3, FixedMoves
  <1>8. Straight(c, Ret, M3, Impossible)
    <2>1. RetOk(c, M3)
      <3>1. ASSUME NEW g \in (Guest \ Flags) \cup c.live
            PROVE  \/ InTrace[g] \in M3.o
                   \/ g \in Flags /\ c.form \in LosesFlags
                   \/ g = "sp" /\ M3.stop = "page_fault" /\ c.form \in MovesEsp
        <4>1. CASE g \in Flags
          <5>1. g \in c.live /\ InTrace[g] = g
            BY <3>1, <4>1, ViewFacts
          <5>2. QED
            BY <4>1, <5>1 DEF f, Needed, Faulted
        <4>2. CASE g \in {"a", "c", "mem"}
          BY <4>2, ViewFacts DEF Faulted, K
        <4>3. CASE g = "sp"
          BY <4>3, ViewFacts DEF Faulted, K, Unmoved
        <4>4. QED
          BY <3>1, <4>1, <4>2, <4>3, ViewFacts DEF Contracts
      <3>2. "ctx.eip" \in M3.o /\ M3.stop = "page_fault"
        BY DEF Faulted
      <3> HIDE DEF M3
      <3>3. QED
        BY <3>1, <3>2 DEF RetOk
    <2>2. QED
      BY <1>4, <2>1, LeavingMoves
  <1> HIDE DEF M0, M1, M2, M3
  <1>9. Straight(c, <<Op("restart")>> \o LoadGp, M0, M2)
    BY <1>5, <1>6, StraightConcat
  <1>10. Straight(c, <<Op("restart")>> \o LoadGp \o PopFlags, M0, M3)
    BY <1>7, <1>9, StraightConcat
  <1>11. Straight(c, <<Op("restart")>> \o LoadGp \o PopFlags \o Ret, M0, Impossible)
    BY <1>8, <1>10, StraightConcat
  <1>12. QED
    BY <1>11 DEF FaultPath, M0, K, f

\* A translation: the old values in o stay, the address becomes one to access
\* memory with, and the fault exit finds what it must restore.
LEMMA TranslateDoes ==
  ASSUME NEW c \in Contracts, paging = TRUE,
         NEW o \in SUBSET (Base \cup Flags \cup {"ctx.a", "r14.1", "r14.2"}),
         NEW n \in SUBSET {"r14.1", "r14.2", "ctx.sp"},
         {"a", "c", "mem"} \cup Unmoved(c) \cup Needed(c) \subseteq o
  PROVE  Does(c, TranslateR14, Known(o \cup {"va"}, n), Known(o \cup {"pa"}, n))
  <1> DEFINE k == (o \ Registers) \cup Saved(o) \cup {"ctx.a", "ctx.c"}
             t == [Op("translate") EXCEPT !.bad = {"a", "c"} \cup Flags, !.alt = <<FaultPath>>]
             A0 == Known(o \cup {"va"}, n)
             A1 == Known(o \cup {"va"} \cup Saved(o), n)
             A2 == Known(o \cup {"va"} \cup Saved(o) \cup {"ctx.a", "ctx.c"}, n)
             A3 == Known(k \cup {"pa"}, n)
             A4 == Known(k \cup {"pa", "a", "c"}, n)
             A5 == Known(o \cup {"pa"}, n)
             M == Faulted({"ctx.a", "ctx.c", "mem"} \cup Unmoved(c) \cup Saved(Needed(c)))
  <1>1. Saved(o) \subseteq {"st.1", "st.2"} /\ Saved(Needed(c)) \subseteq Saved(o)
    BY DEF Saved
  <1>2. Registers = {"a", "c", "cf", "zf"} /\ Unmoved(c) \subseteq {"ctx.sp"}
    BY DEF Registers, Flags, Unmoved
  <1>3. o \subseteq Places /\ Saved(o) \subseteq Places /\ {"ctx.a", "ctx.c", "pa", "va", "a", "c"} \subseteq Places
        /\ n \subseteq Places
    BY <1>1, PlaceFacts DEF Extra, Base
  <1>4. k \subseteq Places
    BY <1>3
  <1>5. A0 \in Claims /\ A1 \in Claims /\ A2 \in Claims /\ A3 \in Claims /\ A4 \in Claims /\ A5 \in Claims
    BY <1>3, <1>4, KnownClaims
  <1>6. M \in Claims
    BY <1>1, <1>3, FaultClaims, PlaceFacts DEF Unmoved, Base
  <1>7. Does(c, PushFlags, A0, A1)
    <2>1. Keeps(A0, A1, {"st.1", "st.2"}) /\ Gets(A0, A1, "st.1", "cf") /\ Gets(A0, A1, "st.2", "zf")
      BY <1>1 DEF Keeps, Gets, Known, Saved, Base, Flags
    <2>2. QED
      BY <1>5, <2>1, FixedMoves, StraightDoes
  <1>8. Does(c, SaveGp, A1, A2)
    <2>1. /\ Keeps(A1, A2, {"ctx.a", "ctx.c"})
          /\ Gets(A1, A2, "ctx.a", "a") /\ Gets(A1, A2, "ctx.c", "c")
      BY DEF Keeps, Gets, Known
    <2>2. QED
      BY <1>5, <2>1, FixedMoves, StraightDoes
  <1>9. Does(c, <<t>>, A2, A3)
    <2>1. t.op = "translate" /\ t.bad = Registers /\ t.alt[1] = FaultPath
      BY DEF Op, Registers
    <2>2. A2.stop = "none" /\ "va" \in A2.o /\ t.bad \subseteq Registers
      BY <2>1 DEF Known
    <2>3. Keeps(A2, A3, {"pa"})
      BY DEF Keeps, Known
    <2>4. Drops(A3, t.bad \cup {"va", "whole"})
      BY <1>1, <1>2, <2>1 DEF Drops, Known, Base, Flags
    <2>5. ("pa" \in A3.o => paging) /\ "pa" \notin A3.n
      BY DEF Known
    <2>6. M.o \subseteq A2.o \ (t.bad \cup {"whole"}) /\ M.n \subseteq A2.n \ t.bad
          /\ M.stop = "page_fault"
      BY <1>1, <1>2, <2>1 DEF Known, Faulted
    <2>7. Straight(c, t.alt[1], M, Impossible)
      BY <2>1, FaultPathDoes
    <2> HIDE DEF t, A2, A3, M
    <2>8. OpDoes(c, t, A2, A3)
      BY <1>6, <2>1, <2>2, <2>3, <2>4, <2>5, <2>6, <2>7 DEF OpDoes
    <2>9. QED
      BY <1>5, <2>8, SingleDoes
  <1>10. Does(c, LoadGp, A3, A4)
    <2>1. Keeps(A3, A4, {"a", "c"}) /\ Gets(A3, A4, "a", "ctx.a") /\ Gets(A3, A4, "c", "ctx.c")
      BY DEF Keeps, Gets, Known
    <2>2. QED
      BY <1>5, <2>1, FixedMoves, StraightDoes
  <1>11. Does(c, PopFlags, A4, A5)
    <2>1. Keeps(A4, A5, Flags)
      BY <1>2 DEF Keeps, Known, Flags
    <2>2. Drops(A5, {"st.1", "st.2", "whole"})
      BY DEF Drops, Known, Base, Flags
    <2>3. Gets(A4, A5, "cf", "st.1") /\ Gets(A4, A5, "zf", "st.2")
      BY DEF Gets, Known, Saved
    <2>4. QED
      BY <1>5, <2>1, <2>2, <2>3, FixedMoves, StraightDoes
  <1> HIDE DEF A0, A1, A2, A3, A4, A5, t
  <1>12. Does(c, PushFlags \o SaveGp, A0, A2)
    BY <1>7, <1>8, DoesConcat
  <1>13. Does(c, PushFlags \o SaveGp \o <<t>>, A0, A3)
    BY <1>9, <1>12, DoesConcat
  <1>14. Does(c, PushFlags \o SaveGp \o <<t>> \o LoadGp, A0, A4)
    BY <1>10, <1>13, DoesConcat
  <1>15. Does(c, PushFlags \o SaveGp \o <<t>> \o LoadGp \o PopFlags, A0, A5)
    BY <1>11, <1>14, DoesConcat
  <1>16. QED
    BY <1>15 DEF TranslateR14, t, A0, A5

\* What R14 holds before the translation that paging may ask for.
Raw == IF paging THEN "va" ELSE "pa"

\* With paging on the address is translated, else it stays as it is.
LEMMA PagingTranslateDoes ==
  ASSUME NEW c \in Contracts, paging \in BOOLEAN,
         NEW o \in SUBSET (Base \cup Flags \cup {"ctx.a", "r14.1", "r14.2"}),
         NEW n \in SUBSET {"r14.1", "r14.2", "ctx.sp"},
         {"a", "c", "mem"} \cup Unmoved(c) \cup Needed(c) \subseteq o
  PROVE  Does(c, PagingTranslate, Known(o \cup {Raw}, n), Known(o \cup {"pa"}, n))
  <1>1. CASE paging = TRUE
    BY <1>1, TranslateDoes DEF PagingTranslate, Raw
  <1>2. CASE paging = FALSE
    <2>1. Known(o \cup {"pa"}, n) \in Claims
      BY KnownClaims, PlaceFacts DEF Extra, Base
    <2>2. PagingTranslate = <<>> /\ Raw = "pa"
      BY <1>2 DEF PagingTranslate, Raw
    <2>3. QED
      BY <2>1, <2>2, NoneDoes
  <1>3. QED
    BY <1>1, <1>2

-----------------------------------------------------------------------------
(* emitter.hpp: calls of C functions, accesses.                            *)

Plain4 == {"a", "c", "sp", "mem"}

\* Where w is in a trace, and in ctx; and the rest of registers and memory.
Here(w) == { InTrace[g] : g \in w }
There(w) == { InCtx[g] : g \in w }

\* The guest's registers, stack pointer and memory by name.
LEMMA ImageFacts ==
  ASSUME NEW w \in SUBSET Plain4
  PROVE  /\ Here(w) \subseteq Base /\ There(w) \subseteq {"ctx.a", "ctx.c", "ctx.sp", "mem"}
         /\ "a" \in Here(w) <=> "a" \in w
         /\ "c" \in Here(w) <=> "c" \in w
         /\ "ctx.sp" \in Here(w) <=> "sp" \in w
         /\ "mem" \in Here(w) <=> "mem" \in w
         /\ "ctx.a" \in There(w) <=> "a" \in w
         /\ "ctx.c" \in There(w) <=> "c" \in w
         /\ "ctx.sp" \in There(w) <=> "sp" \in w
         /\ "mem" \in There(w) <=> "mem" \in w
         /\ Here(w) \subseteq Places /\ There(w) \subseteq Places
  <1>1. \A g \in w : g \in {"a", "c", "sp", "mem"}
    BY DEF Plain4
  <1>2. Here(w) \subseteq Base /\ There(w) \subseteq {"ctx.a", "ctx.c", "ctx.sp", "mem"}
    BY <1>1, ViewFacts DEF Here, There, Base
  <1>3. /\ "a" \in Here(w) <=> "a" \in w
        /\ "c" \in Here(w) <=> "c" \in w
        /\ "ctx.sp" \in Here(w) <=> "sp" \in w
        /\ "mem" \in Here(w) <=> "mem" \in w
    BY <1>1, ViewFacts DEF Here
  <1>4. /\ "ctx.a" \in There(w) <=> "a" \in w
        /\ "ctx.c" \in There(w) <=> "c" \in w
        /\ "ctx.sp" \in There(w) <=> "sp" \in w
        /\ "mem" \in There(w) <=> "mem" \in w
    BY <1>1, ViewFacts DEF There
  <1>5. QED
    BY <1>2, <1>3, <1>4, PlaceFacts DEF Base

\* What an instruction that writes w leaves: its results, the rest, and the
\* flags f.
Left(w, f) == Known(Here(Plain4 \ w) \cup f, Here(w))

\* A call between emit_save_all_gp and emit_load_all_gp; s is where the flags
\* are saved.
LEMMA CallDoes ==
  ASSUME NEW c, NEW f \in SUBSET Flags, NEW h, NEW old, NEW new, NEW lose, NEW addr,
         NEW w \in SUBSET Plain4, NEW s \in SUBSET {"st.1", "st.2", "r14.1", "r14.2"},
         NEW p \in SUBSET {"pa", "va", "whole"}, NEW n \in SUBSET {"r14.1", "r14.2"},
         Fields(h, old, new, There(w), {"a", "c"} \cup Flags, lose, addr),
         old \subseteq {"ctx.a", "ctx.c", "ctx.sp", "mem"}, new \subseteq {"r14"}, Parts(new) \subseteq n,
         lose \subseteq There(w), addr \in {"none", "pa", "va"}, addr # "none" => addr \in p
  PROVE  Straight(c, SaveGp \o <<h>> \o LoadGp,
                  Known(Base \cup f \cup p \cup s, n), Left(w, s))
  <1> DEFINE A0 == Known(Base \cup f \cup p \cup s, n)
             A1 == Known({"ctx.a", "ctx.c", "ctx.sp", "mem"} \cup p \cup s, n)
             A2 == Known(There(Plain4 \ w) \cup s, There(w))
             A3 == Left(w, s)
  <1>1. f \subseteq Flags /\ Plain4 \ w \in SUBSET Plain4 /\ Flags = {"cf", "zf"}
    BY DEF Flags
  <1>2. /\ Here(w) \subseteq Base /\ There(w) \subseteq {"ctx.a", "ctx.c", "ctx.sp", "mem"}
        /\ Here(Plain4 \ w) \subseteq Base
        /\ There(Plain4 \ w) \subseteq {"ctx.a", "ctx.c", "ctx.sp", "mem"}
        /\ Here(w) \subseteq Places /\ There(w) \subseteq Places
        /\ Here(Plain4 \ w) \subseteq Places /\ There(Plain4 \ w) \subseteq Places
    BY <1>1, ImageFacts
  <1>3. A0 \in Claims /\ A1 \in Claims /\ A2 \in Claims /\ A3 \in Claims
    <2>1. /\ Base \cup f \cup p \cup s \in SUBSET Places
          /\ {"ctx.a", "ctx.c", "ctx.sp", "mem"} \cup p \cup s \in SUBSET Places
          /\ There(Plain4 \ w) \cup s \in SUBSET Places /\ Here(Plain4 \ w) \cup s \in SUBSET Places
          /\ n \in SUBSET Places /\ Here(w) \in SUBSET Places /\ There(w) \in SUBSET Places
      BY <1>1, <1>2, PlaceFacts DEF Extra, Base
    <2>2. QED
      BY <2>1, KnownClaims DEF Left
  <1>4. Straight(c, SaveGp, A0, A1)
    <2>1. /\ Keeps(A0, A1, {"ctx.a", "ctx.c"})
          /\ Gets(A0, A1, "ctx.a", "a") /\ Gets(A0, A1, "ctx.c", "c")
      BY DEF Keeps, Gets, Known, Base
    <2>2. QED
      BY <1>3, <2>1, FixedMoves
  <1>5. Straight(c, <<h>>, A1, A2)
    <2> DEFINE out == There(w)
               bad == {"a", "c"} \cup Flags
    <2>1. /\ Parts(out) = out /\ Parts(out \cup bad) = out \cup bad /\ Parts(old) = old
          /\ "r14" \notin out \cup bad
      BY <1>1, <1>2 DEF Parts
    <2>2. old \cup new \cup out \cup bad \subseteq Locations \cup {"r14"}
      BY <1>1, <1>2, PlaceFacts DEF Base
    <2>3. \A l \in There(Plain4 \ w) : l \notin out
      <3>1. w \in SUBSET Plain4 /\ Plain4 \ w \in SUBSET Plain4
        OBVIOUS
      <3>2. \A l \in {"ctx.a", "ctx.c", "ctx.sp", "mem"} : l \in There(Plain4 \ w) => l \notin out
        BY <3>1, ImageFacts
      <3>3. QED
        BY <1>2, <3>2
    <2> HIDE DEF out, bad
    <2>4. Keeps(A1, A2, out \cup bad)
      BY <1>2 DEF Keeps, Known, out
    <2>5. \A l \in out \cup bad : l \notin A2.o
      BY <1>1, <1>2, <2>3 DEF Known, bad, out
    <2>6. \A l \in out \cup bad : l \in A2.n => l \in Parts(out)
      BY <2>1 DEF Known, out
    <2>7. Parts(old) \subseteq A1.o /\ Parts(new) \subseteq A1.n /\ (addr # "none" => addr \in A1.o)
      BY <2>1 DEF Known
    <2>8. "whole" \notin A2.o
      BY <1>2 DEF Known
    <2> HIDE DEF A1, A2
    <2>9. Effect(old, new, out, bad, lose, addr, A1, A2)
      BY <2>1, <2>2, <2>4, <2>5, <2>6, <2>7, <2>8 DEF Effect, out
    <2>10. QED
      BY <1>3, <2>9, FieldsStraight DEF out, bad
  <1>6. Straight(c, LoadGp, A2, A3)
    <2>1. \A l \in Here(Plain4 \ w) : l \in {"a", "c"} \/ l \in There(Plain4 \ w)
      <3>1. \A l \in Base : l \in Here(Plain4 \ w) => l \in {"a", "c"} \/ l \in There(Plain4 \ w)
        BY <1>1, ImageFacts DEF Base
      <3>2. QED
        BY <1>2, <3>1
    <2>2. \A l \in Here(w) : l \in {"a", "c"} \/ l \in There(w)
      <3>1. \A l \in Base : l \in Here(w) => l \in {"a", "c"} \/ l \in There(w)
        BY <1>1, ImageFacts DEF Base
      <3>2. QED
        BY <1>2, <3>1
    <2>3. Keeps(A2, A3, {"a", "c"})
      BY <2>1, <2>2 DEF Keeps, Known, Left
    <2>4. /\ "a" \in Here(w) => "ctx.a" \in There(w)
          /\ "c" \in Here(w) => "ctx.c" \in There(w)
          /\ "a" \in Here(Plain4 \ w) => "ctx.a" \in There(Plain4 \ w)
          /\ "c" \in Here(Plain4 \ w) => "ctx.c" \in There(Plain4 \ w)
      BY <1>1, ImageFacts
    <2>5. Gets(A2, A3, "a", "ctx.a") /\ Gets(A2, A3, "c", "ctx.c")
      BY <2>4 DEF Gets, Known, Left
    <2>6. QED
      BY <1>3, <2>3, <2>5, FixedMoves
  <1> HIDE DEF A0, A1, A2, A3
  <1>7. Straight(c, SaveGp \o <<h>>, A0, A2)
    BY <1>4, <1>5, StraightConcat
  <1>8. Straight(c, SaveGp \o <<h>> \o LoadGp, A0, A3)
    BY <1>6, <1>7, StraightConcat
  <1>9. QED
    BY <1>8 DEF A0, A3

\* Saved flags are back behind the code that has left them in s.
LEMMA PopDoes ==
  ASSUME NEW c, NEW f \in SUBSET Flags, NEW w \in SUBSET Plain4
  PROVE  Straight(c, PopFlags, Left(w, Saved(f)), Left(w, f))
  <1> DEFINE A == Left(w, Saved(f))
             B == Left(w, f)
  <1>1. f \subseteq Flags /\ Saved(f) \subseteq {"st.1", "st.2"} /\ Plain4 \ w \in SUBSET Plain4
    BY DEF Saved
  <1>2. Here(w) \subseteq Base /\ Here(Plain4 \ w) \subseteq Base
    BY <1>1, ImageFacts
  <1>3. /\ Here(w) \in SUBSET Places /\ Here(Plain4 \ w) \cup f \in SUBSET Places
        /\ Here(Plain4 \ w) \cup Saved(f) \in SUBSET Places
    BY <1>1, <1>2, PlaceFacts DEF Extra
  <1>4. A \in Claims /\ B \in Claims
    BY <1>3, KnownClaims DEF Left
  <1>5. Keeps(A, B, Flags)
    BY <1>1 DEF Keeps, Left, Known
  <1>6. Drops(B, {"st.1", "st.2", "whole"})
    BY <1>1, <1>2 DEF Drops, Left, Known, Base, Flags
  <1>7. Gets(A, B, "cf", "st.1") /\ Gets(A, B, "zf", "st.2")
    BY <1>2 DEF Gets, Left, Known, Saved, Base
  <1>8. QED
    BY <1>4, <1>5, <1>6, <1>7, FixedMoves

\* Pushing flags that are alive.
LEMMA PushDoes ==
  ASSUME NEW c, NEW f \in SUBSET Flags, NEW p \in SUBSET {"pa", "va", "whole"}, NEW n \in SUBSET {"r14.1", "r14.2"}
  PROVE  Straight(c, PushFlags, Known(Base \cup f \cup p, n),
                  Known(Base \cup f \cup p \cup Saved(f), n))
  <1> DEFINE A == Known(Base \cup f \cup p, n)
             B == Known(Base \cup f \cup p \cup Saved(f), n)
  <1>1. f \subseteq Flags /\ Saved(f) \subseteq {"st.1", "st.2"}
    BY DEF Saved
  <1>2. /\ n \in SUBSET Places /\ Base \cup f \cup p \in SUBSET Places
        /\ Base \cup f \cup p \cup Saved(f) \in SUBSET Places
    BY <1>1, PlaceFacts DEF Extra
  <1>3. A \in Claims /\ B \in Claims
    BY <1>2, KnownClaims
  <1>4. Keeps(A, B, {"st.1", "st.2"}) /\ Gets(A, B, "st.1", "cf") /\ Gets(A, B, "st.2", "zf")
    BY <1>1 DEF Keeps, Gets, Known, Saved, Base, Flags
  <1>5. QED
    BY <1>3, <1>4, FixedMoves

\* How code is parenthesised does not matter.
LEMMA ConcatAssoc ==
  ASSUME NEW S, NEW x \in Seq(S), NEW y \in Seq(S), NEW z \in Seq(S)
  PROVE  (x \o y) \o z = x \o (y \o z)
  OBVIOUS

\* A helper: under saved flags, or where none is alive.
LEMMA HelperDoes ==
  ASSUME NEW c, NEW f \in SUBSET Flags, NEW h, NEW old, NEW new, NEW lose, NEW addr,
         NEW w \in SUBSET Plain4,
         NEW p \in SUBSET {"pa", "va", "whole"}, NEW n \in SUBSET {"r14.1", "r14.2"},
         Fields(h, old, new, There(w), {"a", "c"} \cup Flags, lose, addr),
         old \subseteq {"ctx.a", "ctx.c", "ctx.sp", "mem"}, new \subseteq {"r14"}, Parts(new) \subseteq n,
         lose \subseteq There(w), addr \in {"none", "pa", "va"}, addr # "none" => addr \in p,
         NEW save \in BOOLEAN, save \/ f = {}
  PROVE  /\ Straight(c, Helper(save, h), Known(Base \cup f \cup p, n), Left(w, f))
         /\ Does(c, Helper(save, h), Known(Base \cup f \cup p, n), Left(w, f))
         /\ save => Straight(c, PushFlags \o SaveGp \o <<h>> \o LoadGp \o PopFlags,
                             Known(Base \cup f \cup p, n), Left(w, f))
  <1> DEFINE A0 == Known(Base \cup f \cup p, n)
             A1 == Known(Base \cup f \cup p \cup Saved(f), n)
             A2 == Left(w, Saved(f))
             A3 == Left(w, f)
             body == SaveGp \o <<h>> \o LoadGp
  <1>1. CASE save = TRUE
    <2>1. Saved(f) \in SUBSET {"st.1", "st.2"}
      BY DEF Saved
    <2>2. Straight(c, PushFlags, A0, A1)
      BY PushDoes
    <2>3. Straight(c, body, A1, A2)
      BY <2>1, CallDoes
    <2>4. Straight(c, PopFlags, A2, A3)
      BY PopDoes
    <2>5. Straight(c, PushFlags \o body \o PopFlags, A0, A3)
      <3> HIDE DEF A0, A1, A2, A3, body
      <3>1. Straight(c, PushFlags \o body, A0, A2)
        BY <2>2, <2>3, StraightConcat
      <3>2. QED
        BY <2>4, <3>1, StraightConcat
    <2>6. PushFlags \o SaveGp \o <<h>> \o LoadGp = PushFlags \o body
      <3>1. /\ PushFlags \in Seq({Op("pushfq")}) /\ SaveGp \in Seq({Op("save_gp")})
            /\ LoadGp \in Seq({Op("load_gp")})
        BY DEF PushFlags, SaveGp, LoadGp
      <3> DEFINE S == {Op("pushfq"), Op("save_gp"), Op("load_gp"), h}
      <3>2. PushFlags \in Seq(S) /\ SaveGp \in Seq(S) /\ LoadGp \in Seq(S) /\ <<h>> \in Seq(S)
        BY <3>1
      <3> HIDE DEF S
      <3> DEFINE b == SaveGp \o <<h>>
      <3>3. b \in Seq(S)
        BY <3>2
      <3>4. PushFlags \o SaveGp \o <<h>> = PushFlags \o b
        BY <3>2, ConcatAssoc
      <3> HIDE DEF b
      <3>5. PushFlags \o b \o LoadGp = PushFlags \o (b \o LoadGp)
        BY <3>2, <3>3, ConcatAssoc
      <3>6. QED
        BY <3>4, <3>5 DEF b
    <2>7. Helper(save, h) = PushFlags \o body \o PopFlags
      BY <1>1 DEF Helper, Saving, SaveFlags, RestoreFlags
    <2>8. Straight(c, Helper(save, h), A0, A3)
      BY <2>5, <2>7
    <2>9. Straight(c, PushFlags \o SaveGp \o <<h>> \o LoadGp \o PopFlags, A0, A3)
      BY <2>5, <2>6
    <2>10. QED
      BY <2>8, <2>9, StraightDoes
  <1>2. CASE save = FALSE
    <2>1. f = {} /\ {} \in SUBSET {"st.1", "st.2"}
      BY <1>2
    <2>2. Base \cup f \cup p \cup {} = Base \cup f \cup p /\ Left(w, {}) = Left(w, f)
      BY <2>1
    <2>3. Straight(c, body, Known(Base \cup f \cup p \cup {}, n), Left(w, {}))
      BY <2>1, CallDoes
    <2>4. Straight(c, body, A0, A3)
      BY <2>2, <2>3
    <2>5. Helper(save, h) = body
      BY <1>2 DEF Helper, Saving
    <2>6. QED
      BY <1>2, <2>4, <2>5, StraightDoes
  <1>3. QED
    BY <1>1, <1>2

InR14New == {"r14.1", "r14.2"}

\* The address of an operand is in R14: with the flags f, and s on the stack.
Addressed(f, s) == Known(Base \cup f \cup s \cup {"pa"}, InR14New)

\* What an access leaves that writes w and the flags g.
Accessed(w, f, g, s) == Known(Here(Plain4 \ w) \cup (f \ g) \cup s, Here(w) \cup g)

\* LEA; with a segment base it loses the flags.
LEMMA EaDoes ==
  ASSUME NEW c \in Contracts, NEW f \in SUBSET c.live, NEW seg \in BOOLEAN, seg => f = {},
         paging \in BOOLEAN, NEW r \in {"va", Raw}
  PROVE  Does(c, EaToR14("a", seg), Start(c), Known(Base \cup f \cup {r}, InR14New))
  <1> DEFINE A == Start(c)
             B == Known(Base \cup f \cup {r}, InR14New)
             bad == IF seg THEN Flags ELSE {}
             o == Clobbering(Native({"a"}, {}, {"r14"}), bad)
  <1>1. f \subseteq Flags /\ r \in {"va", "pa"} /\ (r = "pa" => ~paging) /\ c.live \subseteq Flags
    BY DEF Contracts, Raw
  <1>2. Fields(o, {"a"}, {}, {"r14"}, bad, {}, "none")
    BY ComputingFields
  <1>3. A \in Claims /\ B \in Claims
    <2>1. /\ Base \cup c.live \cup {"whole"} \in SUBSET Places /\ {} \in SUBSET Places
          /\ Base \cup f \cup {r} \in SUBSET Places /\ InR14New \in SUBSET Places
      BY <1>1, PlaceFacts DEF Extra, InR14New
    <2>2. QED
      BY <2>1, KnownClaims DEF Start
  <1>4. /\ Parts({"a"}) = {"a"} /\ Parts({}) = {} /\ Parts({"r14"}) = InR14New
        /\ Parts({"r14"} \cup bad) = InR14New \cup bad
    BY DEF Parts, Flags, InR14New
  <1>5. Effect({"a"}, {}, {"r14"}, bad, {}, "none", A, B)
    <2>1. {"a"} \cup {} \cup {"r14"} \cup bad \subseteq Locations \cup {"r14"}
      BY PlaceFacts DEF Base, Flags
    <2>2. Keeps(A, B, InR14New \cup bad \cup InR14)
      BY <1>1 DEF Keeps, Known, Start, InR14, InR14New
    <2>3. NewR14(B)
      BY <1>1 DEF NewR14, Known, InR14New, Base, Flags
    <2>4. \A l \in InR14New \cup bad : l \notin B.o
      BY <1>1 DEF Known, InR14New, Base, Flags
    <2>5. \A l \in InR14New \cup bad : l \in B.n => l \in InR14New
      BY DEF Known
    <2>6. "a" \in A.o /\ "whole" \notin B.o
      BY <1>1 DEF Known, Start, Base, Flags
    <2> HIDE DEF A, B, bad
    <2>7. QED
      BY <1>4, <2>1, <2>2, <2>3, <2>4, <2>5, <2>6 DEF Effect
  <1>6. Does(c, <<o>>, A, B)
    BY <1>2, <1>3, <1>5, FieldsStraight
  <1>7. QED
    BY <1>6 DEF EaToR14

\* The address of an operand, translated where paging asks for it.
LEMMA DataEaDoes ==
  ASSUME NEW c \in Contracts, NEW f \in SUBSET c.live, NEW seg \in BOOLEAN, seg => f = {},
         paging \in BOOLEAN, Needed(c) \subseteq f
  PROVE  Does(c, EaToR14("a", seg) \o PagingTranslate, Start(c), Addressed(f, {}))
  <1>1. Does(c, EaToR14("a", seg), Start(c), Known(Base \cup f \cup {Raw}, InR14New))
    BY EaDoes
  <1>2. Does(c, PagingTranslate, Known(Base \cup f \cup {Raw}, InR14New),
             Known(Base \cup f \cup {"pa"}, InR14New))
    <2> DEFINE o == Base \cup f
    <2>1. /\ o \in SUBSET (Base \cup Flags \cup {"ctx.a", "r14.1", "r14.2"})
          /\ InR14New \in SUBSET {"r14.1", "r14.2", "ctx.sp"}
          /\ {"a", "c", "mem"} \cup Unmoved(c) \cup Needed(c) \subseteq o
      BY DEF Contracts, InR14New, Base, Unmoved
    <2> HIDE DEF o
    <2>2. Does(c, PagingTranslate, Known(o \cup {Raw}, InR14New), Known(o \cup {"pa"}, InR14New))
      BY <2>1, PagingTranslateDoes
    <2>3. QED
      BY <2>2 DEF o
  <1>3. Addressed(f, {}) = Known(Base \cup f \cup {"pa"}, InR14New)
    BY DEF Addressed
  <1>4. QED
    BY <1>1, <1>2, <1>3, DoesConcat

\* A plain access, which may write flags, of z, of which nothing is claimed.
LEMMA AccessDoes ==
  ASSUME NEW c, NEW f \in SUBSET Flags, NEW s \in SUBSET {"st.1", "st.2"}, NEW x, NEW old, NEW new,
         NEW w \in SUBSET Plain4, NEW g \in SUBSET Flags, NEW addr \in {"none", "pa"},
         NEW z \in SUBSET Flags, g \subseteq z, f \cap z \subseteq g,
         Fields(x, old, new, Here(w) \cup z, {}, {}, addr),
         old \subseteq Base \cup f, new \subseteq {"r14"}
  PROVE  Straight(c, <<x>>, Addressed(f, s), Accessed(w, f, g, s))
  <1> DEFINE A == Addressed(f, s)
             B == Accessed(w, f, g, s)
             out == Here(w) \cup z
  <1>1. Here(w) \subseteq Base /\ Here(Plain4 \ w) \subseteq Base /\ Plain4 \ w \in SUBSET Plain4
    BY ImageFacts
  <1>2. \A l \in Here(Plain4 \ w) : l \notin Here(w)
    <2>1. \A l \in Base : l \in Here(Plain4 \ w) => l \notin Here(w)
      BY <1>1, ImageFacts DEF Base
    <2>2. QED
      BY <1>1, <2>1
  <1>3. A \in Claims /\ B \in Claims
    <2>1. /\ Base \cup f \cup s \cup {"pa"} \in SUBSET Places /\ InR14New \in SUBSET Places
          /\ Here(Plain4 \ w) \cup (f \ g) \cup s \in SUBSET Places
          /\ Here(w) \cup g \in SUBSET Places
      BY <1>1, PlaceFacts DEF Extra, InR14New
    <2>2. QED
      BY <2>1, KnownClaims DEF Addressed, Accessed
  <1>4. /\ Parts(old) = old /\ Parts(out) = out /\ Parts(out \cup {}) = out /\ "r14" \notin out \cup {}
        /\ "r14" \notin old
    BY <1>1, PlaceFacts DEF Parts, Flags, Base
  <1>5. Parts(new) \subseteq InR14New
    BY DEF Parts, InR14New
  <1>6. old \cup new \cup out \cup {} \subseteq Locations \cup {"r14"}
    BY <1>1, PlaceFacts
  <1>7. Keeps(A, B, out)
    BY <1>1 DEF Keeps, Addressed, Accessed, Known
  <1>8. \A l \in out : l \notin B.o
    BY <1>1, <1>2 DEF Accessed, Known, Base, Flags
  <1>9. old \subseteq A.o /\ Parts(new) \subseteq A.n /\ "pa" \in A.o
    BY <1>5 DEF Addressed, Known
  <1>10. "whole" \notin B.o
    BY <1>1 DEF Accessed, Known, Base, Flags
  <1> HIDE DEF A, B, out
  <1>11. Effect(old, new, out, {}, {}, addr, A, B)
    BY <1>4, <1>6, <1>7, <1>8, <1>9, <1>10 DEF Effect
  <1>12. QED
    BY <1>3, <1>11, FieldsStraight DEF A, B, out

\* Code under saved flags, which then are what they were; or where none is alive.
LEMMA SavingDoes ==
  ASSUME NEW c, NEW f \in SUBSET Flags, NEW w \in SUBSET Plain4, NEW g \in SUBSET Flags, NEW x,
         \A s \in SUBSET {"st.1", "st.2"} : Does(c, x, Addressed(f, s), Accessed(w, f, g, s)),
         NEW save \in BOOLEAN, save \/ f = {}, NEW k \in SUBSET f
  PROVE  Does(c, Saving(save, x), Addressed(f, {}), IF save THEN Left(w, k) ELSE Accessed(w, f, g, {}))
  <1>1. CASE save = TRUE
    <2>1. Saved(f) \in SUBSET {"st.1", "st.2"} /\ InR14New \in SUBSET {"r14.1", "r14.2"}
          /\ {"pa"} \in SUBSET {"pa", "va", "whole"}
      BY DEF Saved, InR14New
    <2>2. Straight(c, PushFlags, Known(Base \cup f \cup {"pa"}, InR14New),
                   Known(Base \cup f \cup {"pa"} \cup Saved(f), InR14New))
      BY <2>1, PushDoes
    <2>3. /\ Addressed(f, {}) = Known(Base \cup f \cup {"pa"}, InR14New)
          /\ Addressed(f, Saved(f)) = Known(Base \cup f \cup {"pa"} \cup Saved(f), InR14New)
      <3>1. /\ Base \cup f \cup {} \cup {"pa"} = Base \cup f \cup {"pa"}
            /\ Base \cup f \cup Saved(f) \cup {"pa"} = Base \cup f \cup {"pa"} \cup Saved(f)
        OBVIOUS
      <3>2. QED
        BY <3>1 DEF Addressed
    <2>4. Does(c, PushFlags, Addressed(f, {}), Addressed(f, Saved(f)))
      BY <2>2, <2>3, StraightDoes
    <2>5. Does(c, x, Addressed(f, Saved(f)), Accessed(w, f, g, Saved(f)))
      BY <2>1
    <2>6. Does(c, PopFlags, Accessed(w, f, g, Saved(f)), Left(w, k))
      <3> DEFINE A == Accessed(w, f, g, Saved(f))
                 B == Left(w, k)
      <3>1. Here(w) \subseteq Base /\ Here(Plain4 \ w) \subseteq Base
        BY ImageFacts
      <3>2. A \in Claims /\ B \in Claims
        <4>1. /\ Here(w) \in SUBSET Places /\ Here(Plain4 \ w) \cup k \in SUBSET Places
              /\ Here(Plain4 \ w) \cup (f \ g) \cup Saved(f) \in SUBSET Places
              /\ Here(w) \cup g \in SUBSET Places
          BY <2>1, <3>1, PlaceFacts DEF Extra
        <4>2. QED
          BY <4>1, KnownClaims DEF Left, Accessed
      <3>3. Keeps(A, B, Flags)
        BY DEF Keeps, Left, Accessed, Known
      <3>4. Drops(B, {"st.1", "st.2", "whole"})
        BY <3>1 DEF Drops, Left, Known, Base, Flags
      <3>5. Gets(A, B, "cf", "st.1") /\ Gets(A, B, "zf", "st.2")
        BY <3>1 DEF Gets, Left, Accessed, Known, Saved, Base
      <3>6. QED
        BY <3>2, <3>3, <3>4, <3>5, FixedMoves, StraightDoes
    <2>7. Does(c, PushFlags \o x, Addressed(f, {}), Accessed(w, f, g, Saved(f)))
      BY <2>4, <2>5, DoesConcat
    <2>8. Does(c, PushFlags \o x \o PopFlags, Addressed(f, {}), Left(w, k))
      BY <2>6, <2>7, DoesConcat
    <2>9. QED
      BY <1>1, <2>8 DEF Saving, SaveFlags, RestoreFlags
  <1>2. CASE save = FALSE
    <2>1. {} \in SUBSET {"st.1", "st.2"}
      OBVIOUS
    <2>2. QED
      BY <1>2, <2>1 DEF Saving
  <1>3. QED
    BY <1>1, <1>2

\* Two alternatives that leave the same.
LEMMA AlternativesDo ==
  ASSUME NEW c, NEW A \in Claims, NEW B \in Claims, NEW x, NEW y,
         Straight(c, x, A, B), Straight(c, y, A, B)
  PROVE  Does(c, <<[Op("site") EXCEPT !.alt = <<x, y>>]>>, A, B)
  <1> DEFINE o == [Op("site") EXCEPT !.alt = <<x, y>>]
  <1>1. /\ o.op = "site" /\ o.alt[1] = x /\ o.alt[2] = y
        /\ o.old = {} /\ o.new = {} /\ o.out = {} /\ o.bad = {} /\ o.lose = {} /\ o.addr = "none"
    BY DEF Op
  <1> HIDE DEF o
  <1>2. Computed(o, A, A)
    <2>1. Parts({}) = {} /\ Keeps(A, A, {})
      BY DEF Parts, Keeps
    <2>2. Effect({}, {}, {}, {}, {}, "none", A, A)
      BY <2>1 DEF Effect, Keeps
    <2>3. QED
      BY <1>1, <2>2 DEF Computed
  <1>3. OpDoes(c, o, A, B)
    BY <1>1, <1>2 DEF OpDoes
  <1>4. QED
    BY <1>3, SingleDoes DEF o

\* Claims about accesses.
LEMMA AccessClaims ==
  ASSUME NEW f \in SUBSET Flags, NEW s \in SUBSET {"st.1", "st.2"}, NEW w \in SUBSET Plain4,
         NEW g \in SUBSET Flags
  PROVE  /\ Addressed(f, s) \in Claims /\ Accessed(w, f, g, s) \in Claims /\ Left(w, f) \in Claims
         /\ Accessed(w, f, {}, {}) = Left(w, f)
         /\ Addressed(f, s).o = Base \cup f \cup s \cup {"pa"} /\ Addressed(f, s).stop = "none"
         /\ Addressed(f, {}) = Known(Base \cup f \cup {"pa"}, InR14New)
  <1>1. Here(w) \subseteq Base /\ Here(Plain4 \ w) \subseteq Base
    BY ImageFacts
  <1>2. /\ Base \cup f \cup s \cup {"pa"} \in SUBSET Places /\ InR14New \in SUBSET Places
        /\ Here(Plain4 \ w) \cup (f \ g) \cup s \in SUBSET Places
        /\ Here(Plain4 \ w) \cup f \in SUBSET Places
        /\ Here(w) \cup g \in SUBSET Places /\ Here(w) \in SUBSET Places
    BY <1>1, PlaceFacts DEF Extra, InR14New
  <1>3. /\ Here(Plain4 \ w) \cup (f \ {}) \cup {} = Here(Plain4 \ w) \cup f
        /\ Here(w) \cup {} = Here(w) /\ Base \cup f \cup {} \cup {"pa"} = Base \cup f \cup {"pa"}
    OBVIOUS
  <1>4. /\ Addressed(f, s) \in Claims /\ Accessed(w, f, g, s) \in Claims /\ Left(w, f) \in Claims
        /\ Addressed(f, s).o = Base \cup f \cup s \cup {"pa"} /\ Addressed(f, s).stop = "none"
    <2> DEFINE o1 == Base \cup f \cup s \cup {"pa"}
               o2 == Here(Plain4 \ w) \cup (f \ g) \cup s
               o3 == Here(Plain4 \ w) \cup f
               n2 == Here(w) \cup g
    <2>1. Addressed(f, s) = Known(o1, InR14New) /\ Accessed(w, f, g, s) = Known(o2, n2)
          /\ Left(w, f) = Known(o3, Here(w))
      BY DEF Addressed, Accessed, Left
    <2> HIDE DEF o1, o2, o3, n2
    <2>2. /\ Known(o1, InR14New) \in Claims /\ Known(o1, InR14New).o = o1
          /\ Known(o1, InR14New).stop = "none"
      BY <1>2, KnownClaims DEF o1
    <2>3. Known(o2, n2) \in Claims /\ Known(o3, Here(w)) \in Claims
      BY <1>2, KnownClaims DEF o2, o3, n2
    <2>4. QED
      BY <2>1, <2>2, <2>3 DEF o1
  <1>5. /\ Accessed(w, f, {}, {}) = Left(w, f)
        /\ Addressed(f, {}) = Known(Base \cup f \cup {"pa"}, InR14New)
    BY <1>3 DEF Accessed, Left, Addressed
  <1>6. QED
    BY <1>4, <1>5

\* The access of an instruction at the address in R14.
LEMMA NativeAccess ==
  ASSUME NEW old, NEW out
  PROVE  Fields(Access(Native(old, {}, out), "new"), old, {"r14"}, out, {}, {}, "pa")
  <1>1. Fields(Native(old, {}, out), old, {}, out, {}, {}, "none")
    BY ComputingFields
  <1>2. Fields(Access(Native(old, {}, out), "new"), old \cup {}, {} \cup {"r14"}, out, {}, {}, "pa")
    BY <1>1, ComputingFields
  <1>3. old \cup {} = old /\ {} \cup {"r14"} = {"r14"}
    OBVIOUS
  <1>4. QED
    BY <1>2, <1>3

\* A C function that accesses memory at the address in R14.
LEMMA CallAccess ==
  ASSUME NEW old, NEW out, NEW lose
  PROVE  /\ Fields(WithPa(CallAbs(old, {}, out, lose)),
                   old, {"r14"}, out, {"a", "c"} \cup Flags, lose, "pa")
         /\ Fields(WithVa(CallAbs(old, {}, out, lose)),
                   old, {"r14"}, out, {"a", "c"} \cup Flags, lose, "va")
  <1>1. Fields(CallAbs(old, {}, out, lose), old, {}, out, {"a", "c"} \cup Flags, lose, "none")
    BY ComputingFields
  <1>2. /\ Fields(WithPa(CallAbs(old, {}, out, lose)),
                  old \cup {}, {} \cup {"r14"}, out, {"a", "c"} \cup Flags, lose, "pa")
        /\ Fields(WithVa(CallAbs(old, {}, out, lose)),
                  old, {} \cup {"r14"}, out, {"a", "c"} \cup Flags, lose, "va")
    BY <1>1, ComputingFields
  <1>3. old \cup {} = old /\ {} \cup {"r14"} = {"r14"}
    OBVIOUS
  <1>4. QED
    BY <1>2, <1>3

\* A patchable access: plain and patched it does the same.
LEMMA SiteDoes ==
  ASSUME NEW c, NEW f \in SUBSET Flags, NEW w \in SUBSET Plain4, NEW old \in SUBSET Base,
         NEW hold \in SUBSET {"ctx.a", "ctx.c", "ctx.sp", "mem"}
  PROVE  Does(c, Site(Native(old, {}, Here(w)), CallAbs(hold, {}, There(w), {})),
              Addressed(f, {}), Left(w, f))
  <1> DEFINE x == Access(Native(old, {}, Here(w)), "new")
             h == WithPa(CallAbs(hold, {}, There(w), {}))
  <1>1. {} \in SUBSET {"st.1", "st.2"} /\ {} \in SUBSET Flags /\ Here(w) \cup {} = Here(w)
    OBVIOUS
  <1>2. /\ Addressed(f, {}) \in Claims /\ Left(w, f) \in Claims
        /\ Accessed(w, f, {}, {}) = Left(w, f)
        /\ Addressed(f, {}) = Known(Base \cup f \cup {"pa"}, InR14New)
    BY <1>1, AccessClaims
  <1>3. Straight(c, <<x>>, Addressed(f, {}), Left(w, f))
    <2>1. Fields(x, old, {"r14"}, Here(w) \cup {}, {}, {}, "pa")
      BY <1>1, NativeAccess
    <2> HIDE DEF x
    <2>2. Straight(c, <<x>>, Addressed(f, {}), Accessed(w, f, {}, {}))
      BY <1>1, <2>1, AccessDoes
    <2>3. QED
      BY <1>2, <2>2
  <1>4. Straight(c, PushFlags \o SaveGp \o <<h>> \o LoadGp \o PopFlags, Addressed(f, {}), Left(w, f))
    <2> DEFINE p == {"pa"}
               r == {"r14"}
               lose == {}
               b == {"a", "c"} \cup Flags
    <2>1. Fields(h, hold, r, There(w), b, lose, "pa")
      BY CallAccess
    <2>2. /\ p \in SUBSET {"pa", "va", "whole"} /\ InR14New \in SUBSET {"r14.1", "r14.2"}
          /\ Parts(r) \subseteq InR14New
      BY DEF InR14New, Parts
    <2>3. /\ hold \subseteq {"ctx.a", "ctx.c", "ctx.sp", "mem"} /\ r \subseteq {"r14"}
          /\ lose \subseteq There(w) /\ "pa" \in {"none", "pa", "va"} /\ "pa" \in p
          /\ TRUE \in BOOLEAN
      OBVIOUS
    <2> HIDE DEF h, p, r, lose
    <2>4. Straight(c, PushFlags \o SaveGp \o <<h>> \o LoadGp \o PopFlags,
                   Known(Base \cup f \cup p, InR14New), Left(w, f))
      BY <2>1, <2>2, <2>3, HelperDoes
    <2>5. QED
      BY <1>2, <2>4 DEF p
  <1> HIDE DEF x, h
  <1>5. Does(c, <<[Op("site") EXCEPT !.alt = << <<x>>, PushFlags \o SaveGp \o <<h>> \o LoadGp \o PopFlags >>]>>,
             Addressed(f, {}), Left(w, f))
    BY <1>2, <1>3, <1>4, AlternativesDo
  <1>6. QED
    BY <1>5 DEF Site, Patched, MmioHelper, SaveFlags, RestoreFlags, x, h

\* A return with a stop reason that no translation sets.
LEMMA ErrorRet ==
  ASSUME NEW c \in Contracts, NEW A \in Claims, A.stop # "none",
         Base \cup Needed(c) \cup {"ctx.eip"} \subseteq A.o
  PROVE  RetOk(c, A)
  <1>1. ASSUME NEW g \in (Guest \ Flags) \cup c.live
        PROVE  InTrace[g] \in A.o \/ (g \in Flags /\ c.form \in LosesFlags)
    <2>1. CASE g \in Flags
      <3>1. g \in c.live /\ InTrace[g] = g
        BY <1>1, <2>1, ViewFacts
      <3>2. QED
        BY <2>1, <3>1 DEF Needed
    <2>2. CASE g \in {"a", "c", "sp", "mem"}
      BY <2>2, ViewFacts DEF Base
    <2>3. QED
      BY <1>1, <2>1, <2>2, ViewFacts DEF Contracts
  <1>2. QED
    BY <1>1 DEF RetOk

\* A divide error and a halt leave the state before the instruction.
LEMMA ErrorDoes ==
  ASSUME NEW c \in Contracts, NEW f \in SUBSET Flags, Needed(c) \subseteq f,
         NEW r \in {"divide_error", "halted"},
         NEW A \in Claims, Base \cup f \subseteq A.o, A.stop = "none", NEW B \in Claims
  PROVE  Straight(c, <<Op("restart")>> \o StopReason(r) \o SaveGp \o Ret, A, B)
  <1> DEFINE o == Base \cup f \cup {"ctx.eip"}
             E1 == Known(o, {})
             E2 == [o |-> o, n |-> {}, stop |-> r]
  <1>1. o \in SUBSET Places
    BY PlaceFacts
  <1>2. E1 \in Claims /\ E2 \in Claims
    BY <1>1, KnownClaims DEF Claims, Reasons
  <1>3. E2.stop = r /\ E2.o = o /\ E2.n = {} /\ E1.o = o /\ E1.n = {} /\ E1.stop = "none"
    BY DEF Known
  <1>4. "pa" \notin o /\ "r14.1" \notin o /\ "r14.2" \notin o
    BY DEF Base, Flags
  <1>5. Base \cup Needed(c) \cup {"ctx.eip"} \subseteq o
    OBVIOUS
  <1>6. o \subseteq A.o \cup {"ctx.eip"}
    OBVIOUS
  <1> HIDE DEF o, E1, E2
  <1>7. Straight(c, <<Op("restart")>>, A, E1)
    <2>1. /\ Keeps(A, E1, InR14 \cup {"ctx.eip"}) /\ NewR14(E1)
          /\ Drops(E1, {"r14.1", "r14.2"}) /\ "ctx.eip" \notin E1.n
      BY <1>3, <1>4, <1>6 DEF Keeps, NewR14, Drops
    <2>2. QED
      BY <1>2, <2>1, LeavingMoves
  <1>8. Straight(c, StopReason(r), E1, E2)
    BY <1>2, <1>3, LeavingMoves
  <1>9. Straight(c, SaveGp, E2, E2)
    <2>1. "ctx.a" \notin o /\ "ctx.c" \notin o
      BY DEF o, Base, Flags
    <2>2. Keeps(E2, E2, {"ctx.a", "ctx.c"}) /\ Gets(E2, E2, "ctx.a", "a") /\ Gets(E2, E2, "ctx.c", "c")
      BY <1>3, <2>1 DEF Keeps, Gets
    <2>3. QED
      BY <1>2, <2>2, FixedMoves
  <1>10. Straight(c, Ret, E2, B)
    <2>1. RetOk(c, E2)
      BY <1>2, <1>3, <1>5, ErrorRet
    <2>2. QED
      BY <1>2, <2>1, LeavingMoves
  <1>11. Straight(c, <<Op("restart")>> \o StopReason(r), A, E2)
    BY <1>7, <1>8, StraightConcat
  <1>12. Straight(c, <<Op("restart")>> \o StopReason(r) \o SaveGp, A, E2)
    BY <1>9, <1>11, StraightConcat
  <1>13. QED
    BY <1>10, <1>12, StraightConcat

\* An access that is not patchable is done, emulated, or halts the CPU.
LEMMA UnpatchedDoes ==
  ASSUME NEW c \in Contracts, NEW f \in SUBSET Flags, Needed(c) \subseteq f, NEW form,
         NEW s \in SUBSET {"st.1", "st.2"}, NEW old \in SUBSET (Base \cup f),
         NEW w \in SUBSET Plain4, NEW g \in SUBSET Flags,
         NEW z \in SUBSET Flags, g \subseteq z, f \cap z \subseteq g
  PROVE  Does(c, Unpatched(form, Native(old, {}, Here(w) \cup z)), Addressed(f, s), Accessed(w, f, g, s))
  <1> DEFINE x == Access(Native(old, {}, Here(w) \cup z), "new")
             A == Addressed(f, s)
             B == Accessed(w, f, g, s)
  <1>1. A \in Claims /\ B \in Claims /\ A.o = Base \cup f \cup s \cup {"pa"} /\ A.stop = "none"
    BY AccessClaims
  <1>2. Straight(c, <<x>>, A, B)
    <2>1. Fields(x, old, {"r14"}, Here(w) \cup z, {}, {}, "pa")
      BY NativeAccess
    <2> HIDE DEF x
    <2>2. QED
      BY <2>1, AccessDoes
  <1> HIDE DEF x, A, B
  <1>3. Straight(c, Halt, A, B)
    BY <1>1, ErrorDoes DEF Halt
  <1>4. Does(c, <<[Op("site") EXCEPT !.alt = << <<x>>, Halt >>]>>, A, B)
    BY <1>1, <1>2, <1>3, AlternativesDo
  <1>5. Does(c, <<x>>, A, B)
    BY <1>2, StraightDoes
  <1>6. QED
    BY <1>4, <1>5 DEF Unpatched, x, A, B


-----------------------------------------------------------------------------
(* What an instruction's code is to leave.                                 *)

\* The flags a contract may have alive: those the form does not write, and
\* those it tests.
LiveOk(c) ==
    /\ Insns[c.form].t \subseteq c.live
    /\ c.live \subseteq (Flags \ Writes(c.form)) \cup Insns[c.form].t

\* The end of an instruction that writes w and the flags g.
LEMMA FinishIs ==
  ASSUME NEW c \in Contracts, c.form # "movzx16",
         NEW w \in SUBSET Plain4, NEW g \in SUBSET Flags, Writes(c.form) = w \cup g
  PROVE  /\ c.form \notin LosesFlags => Finish(c) = Accessed(w, c.live, g, {})
         /\ c.form \notin LosesFlags /\ g = {} => Finish(c) = Left(w, c.live)
         /\ c.form \in LosesFlags => Finish(c) = Left(w, {})
  <1> DEFINE own == Guest \ Flags
             O(s) == { InTrace[x] : x \in s \ Writes(c.form) }
             N(s) == { InTrace[x] : x \in s \cap Writes(c.form) }
  <1>1. /\ own = Plain4 /\ c.live \subseteq Flags /\ g \subseteq Flags /\ w \subseteq Plain4
        /\ \A x \in Plain4 : x \notin Flags
    BY ViewFacts DEF Contracts, Plain4, Flags
  <1>2. \A x \in Flags : InTrace[x] = x
    BY ViewFacts
  <1>3. O(own) = Here(Plain4 \ w) /\ N(own) = Here(w)
    <2>1. own \ Writes(c.form) = Plain4 \ w /\ own \cap Writes(c.form) = w
      BY <1>1
    <2>2. QED
      BY <2>1 DEF Here
  <1>4. CASE c.form \in LosesFlags
    <2>1. Owed(c) = own
      BY <1>4 DEF Owed
    <2>2. Finish(c) = Known(O(own), N(own))
      BY <2>1 DEF Finish
    <2>3. Here(Plain4 \ w) \cup {} = Here(Plain4 \ w)
      OBVIOUS
    <2>4. QED
      BY <1>3, <1>4, <2>2, <2>3 DEF Left
  <1>5. CASE c.form \notin LosesFlags
    <2> DEFINE all == own \cup c.live \cup Writes(c.form)
    <2>1. Owed(c) = all
      BY <1>5 DEF Owed
    <2>2. all \ Writes(c.form) = (Plain4 \ w) \cup (c.live \ g)
      BY <1>1
    <2>3. all \cap Writes(c.form) = w \cup g
      BY <1>1
    <2>4. O(all) = Here(Plain4 \ w) \cup (c.live \ g)
      <3>1. O(all) = { InTrace[x] : x \in (Plain4 \ w) \cup (c.live \ g) }
        BY <2>2
      <3>2. \A x \in c.live \ g : InTrace[x] = x
        BY <1>1, <1>2
      <3> HIDE DEF O, all
      <3>3. { InTrace[x] : x \in (Plain4 \ w) \cup (c.live \ g) } = Here(Plain4 \ w) \cup (c.live \ g)
        BY <3>2 DEF Here
      <3>4. QED
        BY <3>1, <3>3
    <2>5. N(all) = Here(w) \cup g
      <3>1. N(all) = { InTrace[x] : x \in w \cup g }
        BY <2>3
      <3>2. \A x \in g : InTrace[x] = x
        BY <1>1, <1>2
      <3> HIDE DEF N, all
      <3>3. { InTrace[x] : x \in w \cup g } = Here(w) \cup g
        BY <3>2 DEF Here
      <3>4. QED
        BY <3>1, <3>3
    <2>6. Finish(c) = Known(O(all), N(all))
      BY <2>1 DEF Finish
    <2> HIDE DEF O, N, all
    <2>7. Finish(c) = Known(Here(Plain4 \ w) \cup (c.live \ g), Here(w) \cup g)
      BY <2>4, <2>5, <2>6
    <2>8. /\ Here(Plain4 \ w) \cup (c.live \ g) \cup {} = Here(Plain4 \ w) \cup (c.live \ g)
          /\ c.live \ {} = c.live /\ Here(w) \cup {} = Here(w)
      OBVIOUS
    <2>9. QED
      BY <1>5, <2>7, <2>8 DEF Accessed, Left
  <1>6. QED
    BY <1>4, <1>5

\* Code that meets its contract.
Fulfils(c, s) == Does(c, s, Start(c), Finish(c))

\* The instruction's need_save.
Saves(c) == c.form \in HasDispatch /\ c.live # {}

\* What an instruction writes, by name.
LEMMA ImagesAre ==
  /\ Here({}) = {} /\ Here({"a"}) = {"a"} /\ Here({"c"}) = {"c"} /\ Here({"sp"}) = {"ctx.sp"}
  /\ Here({"mem"}) = {"mem"} /\ Here({"a", "mem"}) = {"a", "mem"}
  /\ Here(Plain4) = Base
  /\ There({}) = {} /\ There({"a"}) = {"ctx.a"} /\ There({"c"}) = {"ctx.c"}
  /\ There({"sp"}) = {"ctx.sp"} /\ There({"mem"}) = {"mem"}
  /\ There({"sp", "mem"}) = {"ctx.sp", "mem"} /\ There({"c", "mem"}) = {"ctx.c", "mem"}
  /\ There({"a", "c"}) = {"ctx.a", "ctx.c"}
  /\ There({"sp", "c", "mem"}) = {"ctx.sp", "ctx.c", "mem"}
  /\ There({"sp", "a", "c"}) = {"ctx.sp", "ctx.a", "ctx.c"}
  <1>1. /\ Here({}) = {} /\ Here({"a"}) = {"a"} /\ Here({"c"}) = {"c"} /\ Here({"sp"}) = {"ctx.sp"}
        /\ Here({"mem"}) = {"mem"} /\ Here({"a", "mem"}) = {"a", "mem"}
    BY ViewFacts DEF Here
  <1>2. Here(Plain4) = Base
    BY ViewFacts DEF Here, Plain4, Base
  <1>3. /\ There({}) = {} /\ There({"a"}) = {"ctx.a"} /\ There({"c"}) = {"ctx.c"}
        /\ There({"sp"}) = {"ctx.sp"} /\ There({"mem"}) = {"mem"}
    BY ViewFacts DEF There
  <1>4. /\ There({"sp", "mem"}) = {"ctx.sp", "mem"} /\ There({"c", "mem"}) = {"ctx.c", "mem"}
        /\ There({"a", "c"}) = {"ctx.a", "ctx.c"}
    BY ViewFacts DEF There
  <1>5. /\ There({"sp", "c", "mem"}) = {"ctx.sp", "ctx.c", "mem"}
        /\ There({"sp", "a", "c"}) = {"ctx.sp", "ctx.a", "ctx.c"}
    BY ViewFacts DEF There
  <1>6. QED
    BY <1>1, <1>2, <1>3, <1>4, <1>5

\* The claims at both ends are claims.
LEMMA EndClaims ==
  ASSUME NEW c \in Contracts
  PROVE  /\ Start(c) \in Claims /\ Finish(c) \in Claims /\ Impossible \in Claims
         /\ Start(c).o = Base \cup c.live \cup {"whole"} /\ Start(c).n = {}
         /\ Start(c).stop = "none" /\ Finish(c).stop = "none"
  <1>1. c.live \subseteq Flags /\ Base \cup c.live \cup {"whole"} \in SUBSET Places /\ {} \in SUBSET Places
    BY PlaceFacts DEF Contracts, Extra
  <1>2. \A g \in Guest : InTrace[g] \in Base \cup Flags
    BY ViewFacts DEF Base, Flags
  <1>3. Owed(c) \subseteq Guest
    BY FormsAre DEF Owed, Contracts, Guest, Flags, Writes, Insns
  <1> DEFINE o == { InTrace[g] : g \in Owed(c) \ Writes(c.form) }
             n == { InTrace[g] : g \in Owed(c) \cap Writes(c.form) }
  <1>4. o \in SUBSET Places /\ n \in SUBSET Places /\ {"a"} \in SUBSET Places
    BY <1>2, <1>3, PlaceFacts DEF Base
  <1>5. Finish(c) = Known({}, {}) \/ Finish(c) = Known(o, n)
    BY DEF Finish
  <1> HIDE DEF o, n
  <1>6. Finish(c) \in Claims /\ Finish(c).stop = "none" /\ Impossible \in Claims
    BY <1>1, <1>4, <1>5, KnownClaims DEF Impossible
  <1>7. QED
    BY <1>1, <1>6, KnownClaims DEF Start

\* A computation outside of R14.
LEMMA ComputingDoes ==
  ASSUME NEW c, NEW A \in Claims, NEW B \in Claims, NEW x, NEW old, NEW new, NEW out, NEW bad,
         NEW lose, NEW addr, Fields(x, old, new, out, bad, lose, addr),
         out \cup bad \subseteq Locations, old \cup new \subseteq Locations \cup {"r14"},
         lose \subseteq out, addr \in {"none", "va", "pa"}, addr # "none" => addr \in A.o,
         Parts(old) \subseteq A.o, Parts(new) \subseteq A.n,
         B.stop = A.stop, B.o \subseteq A.o \ (out \cup bad),
         B.n \subseteq (A.n \ (out \cup bad)) \cup out,
         "whole" \in B.o => lose = {} /\ "r14" \notin old \cup new
  PROVE  OpStraight(c, x, A, B) /\ Straight(c, <<x>>, A, B) /\ Does(c, <<x>>, A, B)
  <1>1. "r14" \notin out \cup bad
    BY PlaceFacts
  <1>2. Parts(out) = out /\ Parts(out \cup bad) = out \cup bad
    BY <1>1 DEF Parts
  <1>3. Keeps(A, B, out \cup bad)
    BY DEF Keeps
  <1>4. Effect(old, new, out, bad, lose, addr, A, B)
    BY <1>1, <1>2, <1>3 DEF Effect, Keeps
  <1>5. QED
    BY <1>4, FieldsStraight

-----------------------------------------------------------------------------
(* Handlers of memory operands.                                            *)

\* The address first.
LEMMA DataThenDoes ==
  ASSUME NEW c \in Contracts, paging \in BOOLEAN, NEW s, NEW B, Does(c, s, Addressed(c.live, {}), B)
  PROVE  Does(c, DataEa \o s, Start(c), B)
  <1> DEFINE f == c.live
  <1>1. f \in SUBSET c.live /\ FALSE \in BOOLEAN /\ (FALSE => f = {}) /\ Needed(c) \subseteq f
    BY DEF Needed
  <1> HIDE DEF f
  <1>2. Does(c, EaToR14("a", FALSE) \o PagingTranslate, Start(c), Addressed(f, {}))
    BY <1>1, DataEaDoes
  <1>3. Does(c, DataEa, Start(c), Addressed(c.live, {}))
    BY <1>2 DEF DataEa, f
  <1>4. QED
    BY <1>3, DoesConcat

\* A patchable access.
LEMMA DataSite ==
  ASSUME NEW c \in Contracts, paging \in BOOLEAN, c.form \notin LosesFlags \cup {"movzx16"},
         NEW w \in SUBSET Plain4, Writes(c.form) = w, NEW old \in SUBSET Base,
         NEW hold \in SUBSET {"ctx.a", "ctx.c", "ctx.sp", "mem"}
  PROVE  Fulfils(c, DataEa \o Site(Native(old, {}, Here(w)), CallAbs(hold, {}, There(w), {})))
  <1> DEFINE s == Site(Native(old, {}, Here(w)), CallAbs(hold, {}, There(w), {}))
  <1>1. c.live \in SUBSET Flags /\ {} \in SUBSET Flags /\ Writes(c.form) = w \cup {}
    BY DEF Contracts
  <1>2. Does(c, s, Addressed(c.live, {}), Left(w, c.live))
    BY <1>1, SiteDoes
  <1> HIDE DEF s
  <1>3. Does(c, DataEa \o s, Start(c), Left(w, c.live))
    BY <1>2, DataThenDoes
  <1>4. Finish(c) = Left(w, c.live)
    BY <1>1, FinishIs
  <1>5. QED
    BY <1>3, <1>4 DEF Fulfils, s

\* A helper at the address.
LEMMA DataHelper ==
  ASSUME NEW c \in Contracts, paging \in BOOLEAN, c.form \notin LosesFlags \cup {"movzx16"},
         c.form \in HasDispatch, NEW w \in SUBSET Plain4, Writes(c.form) = w,
         NEW hold \in SUBSET {"ctx.a", "ctx.c", "ctx.sp", "mem"},
         NEW lose \in SUBSET There(w)
  PROVE  Fulfils(c, DataEa \o Helper(Saves(c), WithPa(CallAbs(hold, {}, There(w), lose))))
  <1> DEFINE h == WithPa(CallAbs(hold, {}, There(w), lose))
             s == Helper(Saves(c), h)
             f == c.live
             p == {"pa"}
             r == {"r14"}
             b == {"a", "c"} \cup Flags
  <1>1. f \in SUBSET Flags /\ {} \in SUBSET Flags /\ {} \in SUBSET {"st.1", "st.2"}
        /\ Writes(c.form) = w \cup {}
    BY DEF Contracts
  <1>2. Fields(h, hold, r, There(w), b, lose, "pa")
    BY CallAccess
  <1>3. /\ p \in SUBSET {"pa", "va", "whole"} /\ InR14New \in SUBSET {"r14.1", "r14.2"}
        /\ Parts(r) \subseteq InR14New
    BY DEF InR14New, Parts
  <1>4. /\ hold \subseteq {"ctx.a", "ctx.c", "ctx.sp", "mem"} /\ r \subseteq {"r14"}
        /\ lose \subseteq There(w) /\ "pa" \in {"none", "pa", "va"} /\ "pa" \in p
    OBVIOUS
  <1>5. Saves(c) \in BOOLEAN /\ (Saves(c) \/ f = {})
    BY DEF Saves
  <1>6. Addressed(f, {}) = Known(Base \cup f \cup p, InR14New)
    BY <1>1, AccessClaims
  <1>7. Finish(c) = Left(w, f)
    BY <1>1, FinishIs
  <1> HIDE DEF h, f, p, r
  <1>8. Does(c, s, Known(Base \cup f \cup p, InR14New), Left(w, f))
    BY <1>1, <1>2, <1>3, <1>4, <1>5, HelperDoes
  <1> HIDE DEF s
  <1>9. Does(c, s, Addressed(c.live, {}), Left(w, f))
    BY <1>6, <1>8 DEF f
  <1>10. Does(c, DataEa \o s, Start(c), Left(w, f))
    BY <1>9, DataThenDoes
  <1>11. QED
    BY <1>7, <1>10 DEF Fulfils, s, h

\* An access of the instruction itself, which writes w and the flags g.
LEMMA DataUnpatched ==
  ASSUME NEW c \in Contracts, paging \in BOOLEAN, c.form # "movzx16",
         c.form \in HasDispatch, NEW w \in SUBSET Plain4, NEW g \in SUBSET Flags,
         Writes(c.form) = w \cup g, c.form \in LosesFlags \/ g = {} \/ c.live = {},
         NEW old \in SUBSET (Base \cup c.live)
  PROVE  /\ Fulfils(c, DataEa \o Saving(Saves(c), Unpatched(c.form, Native(old, {}, Here(w) \cup g))))
         /\ c.form \notin LosesFlags /\ g = {} =>
               Fulfils(c, DataEa \o Unpatched(c.form, Native(old, {}, Here(w))))
  <1> DEFINE u == Unpatched(c.form, Native(old, {}, Here(w) \cup g))
             f == c.live
             q == IF c.form \in LosesFlags /\ ~Saves(c) THEN {} ELSE g
             k == IF c.form \in LosesFlags THEN {} ELSE f
  <1>1. /\ f \in SUBSET Flags /\ {} \in SUBSET {"st.1", "st.2"} /\ q \in SUBSET Flags /\ q \subseteq g
        /\ Needed(c) \subseteq f /\ Saves(c) \in BOOLEAN /\ (Saves(c) \/ f = {}) /\ k \in SUBSET f
        /\ f \cap g \subseteq q
    BY DEF Contracts, Needed, Saves
  <1>2. ASSUME NEW s \in SUBSET {"st.1", "st.2"}
        PROVE  Does(c, u, Addressed(f, s), Accessed(w, f, q, s))
    <2>1. old \in SUBSET (Base \cup f)
      OBVIOUS
    <2> HIDE DEF f, q
    <2>2. QED
      BY <1>1, <2>1, UnpatchedDoes
  <1>3. IF Saves(c) THEN Left(w, k) = Finish(c) ELSE Accessed(w, f, q, {}) = Finish(c)
    <2>1. /\ c.form \notin LosesFlags => Finish(c) = Accessed(w, f, g, {})
          /\ c.form \notin LosesFlags /\ g = {} => Finish(c) = Left(w, f)
          /\ c.form \in LosesFlags => Finish(c) = Left(w, {})
      BY FinishIs
    <2>2. c.form \notin LosesFlags /\ Saves(c) => g = {}
      BY DEF Saves
    <2>3. ~Saves(c) => Accessed(w, f, {}, {}) = Left(w, {})
      <3>1. ~Saves(c) => f = {}
        BY <1>1
      <3>2. {} \in SUBSET Flags
        OBVIOUS
      <3>3. Accessed(w, {}, {}, {}) = Left(w, {})
        BY <1>1, <3>2, AccessClaims
      <3>4. QED
        BY <3>1, <3>3
    <2>4. QED
      BY <2>1, <2>2, <2>3
  <1> HIDE DEF u, f, q, k
  <1>4. Does(c, Saving(Saves(c), u), Addressed(f, {}), IF Saves(c) THEN Left(w, k) ELSE Accessed(w, f, q, {}))
    BY <1>1, <1>2, SavingDoes
  <1>5. Does(c, Saving(Saves(c), u), Addressed(f, {}), Finish(c))
    BY <1>3, <1>4
  <1>6. Does(c, DataEa \o Saving(Saves(c), u), Start(c), Finish(c))
    BY <1>5, DataThenDoes DEF f
  <1>7. ASSUME c.form \notin LosesFlags, g = {}
        PROVE  Does(c, DataEa \o u, Start(c), Finish(c))
    <2>1. q = g
      BY <1>7 DEF q
    <2>2. Accessed(w, f, q, {}) = Finish(c)
      BY <1>7, <2>1, FinishIs DEF f
    <2>3. Does(c, u, Addressed(f, {}), Finish(c))
      BY <1>1, <1>2, <2>2
    <2>4. QED
      BY <2>3, DataThenDoes DEF f
  <1>8. ASSUME g = {}
        PROVE  u = Unpatched(c.form, Native(old, {}, Here(w)))
    <2>1. Here(w) \cup g = Here(w)
      BY <1>8
    <2>2. QED
      BY <2>1 DEF u
  <1>9. QED
    BY <1>6, <1>7, <1>8 DEF Fulfils, u

-----------------------------------------------------------------------------
(* Handlers of register forms.                                             *)

\* A computation into R14 and out.
LEMMA R14Does ==
  ASSUME NEW c, NEW A \in Claims, NEW B \in Claims, NEW x, NEW old, NEW new, NEW out, NEW bad,
         Fields(x, old, new, out, bad, {}, "none"),
         out \cup bad \subseteq Locations \cup {"r14"}, "r14" \in out \cup bad,
         old \cup new \subseteq Locations \cup {"r14"},
         Parts(old) \subseteq A.o, Parts(new) \subseteq A.n,
         B.stop = A.stop, B.o \subseteq (A.o \ Parts(out \cup bad)) \ {"va", "pa", "whole"},
         B.n \subseteq ((A.n \ Parts(out \cup bad)) \cup Parts(out)) \ {"va", "pa"}
  PROVE  OpStraight(c, x, A, B) /\ Straight(c, <<x>>, A, B) /\ Does(c, <<x>>, A, B)
  <1>1. InR14 = {"r14.1", "r14.2", "va", "pa"}
    BY DEF InR14
  <1> DEFINE w == Parts(out \cup bad)
             u == Parts(out)
  <1>5. u \subseteq w
    BY DEF Parts
  <1>6. B.o \subseteq (A.o \ w) \ {"va", "pa", "whole"} /\ B.n \subseteq ((A.n \ w) \cup u) \ {"va", "pa"}
    OBVIOUS
  <1> HIDE DEF w, u
  <1>7. Keeps(A, B, w \cup InR14)
    BY <1>5, <1>6 DEF Keeps
  <1>8. NewR14(B)
    BY <1>6 DEF NewR14
  <1>9. \A l \in w : l \notin B.o /\ (l \in B.n => l \in u)
    BY <1>6
  <1>10. "whole" \notin B.o
    BY <1>6
  <1>2. Keeps(A, B, Parts(out \cup bad) \cup InR14) /\ NewR14(B)
    BY <1>7, <1>8 DEF w
  <1>3. Effect(old, new, out, bad, {}, "none", A, B)
    BY <1>2, <1>9, <1>10 DEF Effect, w, u
  <1>4. QED
    BY <1>3, FieldsStraight

\* Copies to R14 and from it.
LEMMA CopyDoes ==
  ASSUME NEW c, NEW A \in Claims, NEW B \in Claims, NEW l \in Locations
  PROVE  /\ /\ Keeps(A, B, InR14) /\ NewR14(B) /\ Gets(A, B, "r14.1", l) /\ Gets(A, B, "r14.2", l)
            => Straight(c, <<Copy(l, "r14")>>, A, B)
         /\ /\ Keeps(A, B, {l}) /\ Drops(B, {"whole"})
            /\ Gets(A, B, l, "r14.1") /\ Gets(A, B, l, "r14.2")
            => Straight(c, <<Copy("r14", l)>>, A, B)
         /\ \A m \in Locations : Keeps(A, B, {m}) /\ Gets(A, B, m, l) => Straight(c, <<Copy(l, m)>>, A, B)
  <1>1. \A from, to : LET o == Copy(from, to) IN o.op = "copy" /\ o.old = {from} /\ o.out = {to}
    BY DEF Copy, Op
  <1>2. ASSUME NEW o, o.op = "copy", o.old = {l}, o.out = {"r14"},
               Keeps(A, B, InR14), NewR14(B), Gets(A, B, "r14.1", l), Gets(A, B, "r14.2", l)
        PROVE  Straight(c, <<o>>, A, B)
    <2>1. Moves(o, A, B)
      BY <1>2 DEF Moves
    <2>2. QED
      BY <2>1, SingleStraight DEF OpStraight
  <1>3. ASSUME NEW o, o.op = "copy", o.old = {"r14"}, o.out = {l},
               Keeps(A, B, {l}), Drops(B, {"whole"}), Gets(A, B, l, "r14.1"), Gets(A, B, l, "r14.2")
        PROVE  Straight(c, <<o>>, A, B)
    <2>1. Moves(o, A, B)
      BY <1>3 DEF Moves
    <2>2. QED
      BY <2>1, SingleStraight DEF OpStraight
  <1>4. ASSUME NEW m \in Locations, NEW o, o.op = "copy", o.old = {l}, o.out = {m},
               Keeps(A, B, {m}), Gets(A, B, m, l)
        PROVE  Straight(c, <<o>>, A, B)
    <2>1. Moves(o, A, B)
      BY <1>4 DEF Moves
    <2>2. QED
      BY <2>1, SingleStraight DEF OpStraight
  <1>5. QED
    BY <1>1, <1>2, <1>3, <1>4

\* What an instruction leaves that computes w and the flags g.
LEMMA FinishOf ==
  ASSUME NEW c \in Contracts, c.form \notin LosesFlags \cup {"movzx16"},
         NEW w \in SUBSET Plain4, NEW g \in SUBSET Flags, Writes(c.form) = w \cup g
  PROVE  Finish(c) = Known(Here(Plain4 \ w) \cup (c.live \ g), Here(w) \cup g)
  <1>1. Finish(c) = Accessed(w, c.live, g, {})
    BY FinishIs
  <1>2. Here(Plain4 \ w) \cup (c.live \ g) \cup {} = Here(Plain4 \ w) \cup (c.live \ g)
    OBVIOUS
  <1>3. QED
    BY <1>1, <1>2 DEF Accessed

\* What it writes, and what not.
LEMMA HereSplit ==
  ASSUME NEW w \in SUBSET Plain4
  PROVE  /\ Here(w) \subseteq Base /\ Here(Plain4 \ w) \subseteq Base
         /\ \A l \in Here(Plain4 \ w) : l \notin Here(w)
  <1>1. Here(w) \subseteq Base /\ Here(Plain4 \ w) \subseteq Base /\ Plain4 \ w \in SUBSET Plain4
    BY ImageFacts
  <1>2. \A l \in Base : l \in Here(Plain4 \ w) => l \notin Here(w)
    BY <1>1, ImageFacts DEF Base
  <1>3. QED
    BY <1>1, <1>2

\* One host instruction.
LEMMA CleanDoes ==
  ASSUME NEW c \in Contracts, c.form \notin LosesFlags \cup {"movzx16"},
         NEW w \in SUBSET Plain4, NEW g \in SUBSET Flags, Writes(c.form) = w \cup g,
         NEW old \in SUBSET (Base \cup c.live), NEW out, out = Here(w) \cup g
  PROVE  Straight(c, <<Native(old, {}, out)>>, Start(c), Finish(c))
  <1>0. /\ Finish(c).o \subseteq (Base \cup c.live) \ (Here(w) \cup g)
        /\ Finish(c).n = Here(w) \cup g /\ Here(w) \subseteq Base
    <2>1. Finish(c) = Known(Here(Plain4 \ w) \cup (c.live \ g), Here(w) \cup g)
      BY FinishOf
    <2>2. \A l \in Base : l \notin g
      BY DEF Base, Flags
    <2>3. \A l \in c.live : l \notin Base
      BY DEF Contracts, Base, Flags
    <2>4. QED
      BY <2>1, <2>2, <2>3, HereSplit DEF Known
  <1> DEFINE A == Start(c)
             B == Finish(c)
             x == Native(old, {}, out)
  <1>1. /\ A \in Claims /\ B \in Claims /\ B.stop = A.stop /\ A.o = Base \cup c.live \cup {"whole"}
        /\ A.n = {}
    BY EndClaims
  <1>2. B.o \subseteq (Base \cup c.live) \ out /\ B.n \subseteq out /\ out \subseteq Base \cup Flags
    BY <1>0
  <1>3. "whole" \notin Base \cup c.live /\ c.live \subseteq Flags
    BY DEF Contracts, Base, Flags
  <1>4. /\ out \cup {} \subseteq Locations /\ old \cup {} \subseteq Locations \cup {"r14"}
        /\ "r14" \notin old
    BY <1>2, <1>3, PlaceFacts
  <1>5. Parts(old) = old /\ Parts({}) = {}
    BY <1>4 DEF Parts
  <1>6. Fields(x, old, {}, out, {}, {}, "none")
    BY ComputingFields
  <1> HIDE DEF A, B, x
  <1>7. /\ Parts(old) \subseteq A.o /\ Parts({}) \subseteq A.n /\ B.o \subseteq A.o \ (out \cup {})
        /\ B.n \subseteq (A.n \ (out \cup {})) \cup out /\ "whole" \notin B.o
    BY <1>1, <1>2, <1>3, <1>5
  <1>8. Straight(c, <<x>>, A, B)
    BY <1>1, <1>4, <1>6, <1>7, ComputingDoes
  <1>9. QED
    BY <1>8 DEF A, B, x

\* A divide, plain or at the address in R14.
LEMMA DivideDoes ==
  ASSUME NEW c \in Contracts, paging \in BOOLEAN, c.form \in {"div", "div_mem"}, c.live = {}
  PROVE  /\ c.form = "div" => Fulfils(c, Divide(Native({"a", "c"}, {}, {"a"} \cup Flags)))
         /\ c.form = "div_mem" =>
               Fulfils(c, DataEa \o Divide(Access(Native({"a"}, {}, {"a"} \cup Flags), "new")))
  <1> DEFINE B == Finish(c)
             f == c.live
  <1>1. /\ Writes(c.form) = {"a"} \cup Flags /\ c.form \notin LosesFlags \cup {"movzx16"}
        /\ {"a"} \in SUBSET Plain4 /\ Flags \in SUBSET Flags /\ Here({"a"}) = {"a"}
    BY ImagesAre DEF Writes, Insns, LosesFlags, Plain4
  <1>2. B = Accessed({"a"}, f, Flags, {}) /\ B \in Claims
    BY <1>1, FinishIs, EndClaims
  <1>3. f \in SUBSET Flags /\ Needed(c) \subseteq f /\ {} \in SUBSET {"st.1", "st.2"}
        /\ {"a", "c"} \in SUBSET (Base \cup c.live) /\ "divide_error" \in {"divide_error", "halted"}
    BY DEF Needed, Base
  <1>4. /\ Start(c) \in Claims /\ Start(c).stop = "none" /\ Base \cup f \subseteq Start(c).o
    BY EndClaims
  <1>5. ASSUME NEW A \in Claims, A.stop = "none", Base \cup f \subseteq A.o, NEW x,
               Straight(c, <<x>>, A, B)
        PROVE  Does(c, Divide(x), A, B)
    <2> HIDE DEF B, f
    <2>1. Straight(c, DivideError, A, B)
      BY <1>2, <1>3, <1>5, ErrorDoes DEF DivideError
    <2>2. QED
      BY <1>2, <1>5, <2>1, AlternativesDo DEF Divide
  <1>6. CASE c.form = "div"
    <2>1. Straight(c, <<Native({"a", "c"}, {}, {"a"} \cup Flags)>>, Start(c), B)
      BY <1>1, <1>3, CleanDoes
    <2>2. QED
      BY <1>4, <1>5, <1>6, <2>1 DEF Fulfils
  <1>7. CASE c.form = "div_mem"
    <2> DEFINE x == Access(Native({"a"}, {}, {"a"} \cup Flags), "new")
               A == Addressed(f, {})
    <2>1. Fields(x, {"a"}, {"r14"}, {"a"} \cup Flags, {}, {}, "pa")
      BY NativeAccess
    <2>2. {"a"} \subseteq Base \cup f /\ {"r14"} \subseteq {"r14"} /\ Flags \subseteq Flags
          /\ f \cap Flags \subseteq Flags /\ "pa" \in {"none", "pa"}
      BY DEF Base
    <2>3. A \in Claims /\ A.stop = "none" /\ Base \cup f \subseteq A.o
      <3>1. Addressed(f, {}) \in Claims /\ Addressed(f, {}) = Known(Base \cup f \cup {"pa"}, InR14New)
        BY <1>1, <1>3, AccessClaims
      <3>2. QED
        BY <3>1 DEF Known
    <2> HIDE DEF x, f, B
    <2>4. Straight(c, <<x>>, Addressed(f, {}), Accessed({"a"}, f, Flags, {}))
      <3> DEFINE r == {"r14"}
                 old == {"a"}
                 w == {"a"}
                 none == {}
      <3>1. /\ Fields(x, old, r, Here(w) \cup Flags, none, none, "pa")
            /\ old \subseteq Base \cup f /\ r \subseteq {"r14"} /\ w \in SUBSET Plain4
            /\ none \in SUBSET {"st.1", "st.2"} /\ none = {}
        BY <1>1, <2>1, <2>2
      <3> HIDE DEF r, old, w, none
      <3>2. Straight(c, <<x>>, Addressed(f, none), Accessed(w, f, Flags, none))
        BY <1>1, <1>3, <2>2, <3>1, AccessDoes
      <3>3. QED
        BY <3>1, <3>2 DEF w
    <2>5. Does(c, Divide(x), A, B)
      BY <1>2, <1>5, <2>3, <2>4
    <2>6. Does(c, DataEa \o Divide(x), Start(c), B)
      BY <2>5, DataThenDoes DEF f
    <2>7. QED
      BY <1>7, <2>6 DEF Fulfils, B, x
  <1>8. QED
    BY <1>6, <1>7

\* LEA.
LEMMA LeaDoes ==
  ASSUME NEW c \in Contracts, c.form \in {"lea", "lea_sp"}, paging \in BOOLEAN
  PROVE  Fulfils(c, EmitLea(c.form))
  <1> DEFINE f == c.live
             w == IF c.form = "lea" THEN {"a"} ELSE {"sp"}
             l == IF c.form = "lea" THEN "a" ELSE "ctx.sp"
             A == Known(Base \cup f \cup {"va"}, InR14New)
             B == Finish(c)
  <1>1. /\ w \in SUBSET Plain4 /\ c.form \notin LosesFlags \cup {"movzx16"} /\ Here(w) = {l}
        /\ Writes(c.form) = w \cup {} /\ {} \in SUBSET Flags /\ l \in Locations
        /\ l \in Base
    <2>1. c.form \notin LosesFlags \cup {"movzx16"} /\ {} \in SUBSET Flags
      BY DEF LosesFlags
    <2>2. Writes("lea") = {"a"} /\ Writes("lea_sp") = {"sp"}
      BY DEF Writes, Insns
    <2>3. /\ {"a"} \in SUBSET Plain4 /\ {"sp"} \in SUBSET Plain4 /\ Base \subseteq Locations
          /\ "a" \in Base /\ "ctx.sp" \in Base
      BY PlaceFacts DEF Plain4, Base
    <2>4. CASE c.form = "lea"
      BY <2>1, <2>2, <2>3, <2>4, ImagesAre
    <2>5. CASE c.form = "lea_sp"
      BY <2>1, <2>2, <2>3, <2>5, ImagesAre
    <2>6. QED
      BY <2>4, <2>5
  <1>2. f \in SUBSET c.live /\ f \subseteq Flags /\ FALSE \in BOOLEAN /\ (FALSE => f = {}) /\ "va" \in {"va", Raw}
    BY DEF Contracts
  <1>3. B = Known(Here(Plain4 \ w) \cup f, {l})
    <2>1. B = Known(Here(Plain4 \ w) \cup (f \ {}), Here(w) \cup {})
      BY <1>1, FinishOf
    <2>2. f \ {} = f /\ Here(w) \cup {} = {l}
      BY <1>1
    <2>3. QED
      BY <2>1, <2>2
  <1>4. B \in Claims /\ A \in Claims
    <2>1. Base \cup f \cup {"va"} \in SUBSET Places /\ InR14New \in SUBSET Places
      BY <1>2, PlaceFacts DEF Extra, InR14New
    <2>2. QED
      BY <2>1, KnownClaims, EndClaims
  <1> HIDE DEF w, f, l
  <1>5. Does(c, EaToR14("a", FALSE), Start(c), A)
    BY <1>2, EaDoes
  <1>6. Keeps(A, B, {l}) /\ Drops(B, {"whole"}) /\ Gets(A, B, l, "r14.1") /\ Gets(A, B, l, "r14.2")
    <2>1. Here(Plain4 \ w) \subseteq Base /\ l \notin Here(Plain4 \ w)
      BY <1>1, HereSplit
    <2>2. Keeps(A, B, {l})
      BY <1>3, <2>1 DEF Keeps, Known
    <2>3. Drops(B, {"whole"})
      BY <1>1, <1>2, <1>3, <2>1 DEF Drops, Known, Base, Flags
    <2>4. l \notin Flags
      BY <1>1 DEF Base, Flags
    <2>7. B.o = Here(Plain4 \ w) \cup f
      BY <1>3 DEF Known
    <2>8. l \notin B.o
      BY <1>2, <2>1, <2>4, <2>7
    <2>9. "r14.1" \in A.n /\ "r14.2" \in A.n
      BY DEF Known, InR14New
    <2>5. Gets(A, B, l, "r14.1") /\ Gets(A, B, l, "r14.2")
      BY <2>8, <2>9 DEF Gets
    <2>6. QED
      BY <2>2, <2>3, <2>5
  <1> HIDE DEF A, B
  <1>7. Straight(c, <<Copy("r14", l)>>, A, B)
    BY <1>1, <1>4, <1>6, CopyDoes
  <1>8. Does(c, EaToR14("a", FALSE) \o <<Copy("r14", l)>>, Start(c), B)
    BY <1>5, <1>7, StraightDoes, DoesConcat
  <1>9. EmitLea(c.form) = EaToR14("a", FALSE) \o <<Copy("r14", l)>>
    BY DEF EmitLea, StoreR14ToEsp, l
  <1>10. QED
    BY <1>8, <1>9 DEF Fulfils, B

\* Computing on ESP in R14.
LEMMA AluEspDoes ==
  ASSUME NEW c \in Contracts, c.form \notin LosesFlags \cup {"movzx16"},
         NEW g \in SUBSET Flags, Writes(c.form) = {"sp"} \cup g,
         NEW old \in SUBSET ({"a"} \cup c.live)
  PROVE  Fulfils(c, EmitAluEspReg(old, g))
  <1> DEFINE f == c.live
             K == {"a", "c", "mem"}
             A0 == Start(c)
             A1 == Known(K \cup f \cup {"r14.1", "r14.2"}, {})
             A2 == Known(K \cup (f \ g), {"r14.1", "r14.2"} \cup g)
             A3 == Finish(c)
             x == Native({"r14"} \cup old, {}, {"r14"} \cup g)
  <1>1. f \subseteq Flags /\ Flags = {"cf", "zf"} /\ {"sp"} \in SUBSET Plain4 /\ Here({"sp"}) = {"ctx.sp"}
    BY ImagesAre DEF Contracts, Flags, Plain4
  <1>2. A0 \in Claims /\ A1 \in Claims /\ A2 \in Claims /\ A3 \in Claims
    <2>1. /\ K \cup f \cup {"r14.1", "r14.2"} \in SUBSET Places /\ {} \in SUBSET Places
          /\ K \cup (f \ g) \in SUBSET Places /\ {"r14.1", "r14.2"} \cup g \in SUBSET Places
      BY <1>1, PlaceFacts DEF Extra, Base
    <2>2. QED
      BY <2>1, KnownClaims, EndClaims
  <1>3. A3 = Known(Here(Plain4 \ {"sp"}) \cup (f \ g), {"ctx.sp"} \cup g)
    BY <1>1, FinishOf
  <1>4. Here(Plain4 \ {"sp"}) \subseteq K
    <2>1. Here(Plain4 \ {"sp"}) \subseteq Base /\ "ctx.sp" \notin Here(Plain4 \ {"sp"})
      BY <1>1, HereSplit
    <2>2. QED
      BY <2>1 DEF Base
  <1> HIDE DEF f
  <1>5. Straight(c, LoadEspToR14, A0, A1)
    <2>1. "ctx.sp" \in Locations
      BY PlaceFacts DEF Base
    <2>2. A0.o = Base \cup f \cup {"whole"} /\ A0.n = {} /\ A0.stop = "none"
      BY EndClaims DEF f
    <2> HIDE DEF A0
    <2>3. Keeps(A0, A1, InR14)
      BY <2>2 DEF Keeps, Known, InR14, Base
    <2>4. NewR14(A1)
      BY <1>1 DEF NewR14, Known
    <2>5. Gets(A0, A1, "r14.1", "ctx.sp") /\ Gets(A0, A1, "r14.2", "ctx.sp")
      BY <2>2 DEF Gets, Known, Base
    <2> HIDE DEF A1
    <2>6. QED
      BY <1>2, <2>1, <2>3, <2>4, <2>5, CopyDoes DEF LoadEspToR14, A0
  <1>6. Straight(c, <<x>>, A1, A2)
    <2> DEFINE p == {"r14"} \cup old
               q == {"r14"} \cup g
    <2>1. Fields(x, p, {}, q, {}, {}, "none")
      BY ComputingFields
    <2>2. old \subseteq {"a", "cf", "zf"} /\ g \subseteq {"cf", "zf"} /\ old \subseteq {"a"} \cup f
      BY <1>1 DEF f
    <2>3. /\ q \cup {} \subseteq Locations \cup {"r14"} /\ "r14" \in q \cup {}
          /\ p \cup {} \subseteq Locations \cup {"r14"}
      BY <1>1, <2>2, PlaceFacts DEF Base
    <2>4. /\ Parts(p) = {"r14.1", "r14.2"} \cup old /\ Parts({}) = {}
          /\ Parts(q) = {"r14.1", "r14.2"} \cup g /\ Parts(q \cup {}) = Parts(q)
      BY <2>2 DEF Parts
    <2>5. A1.o = K \cup f \cup {"r14.1", "r14.2"} /\ A1.n = {} /\ A1.stop = "none"
      BY DEF Known
    <2>6. A2.o = K \cup (f \ g) /\ A2.n = {"r14.1", "r14.2"} \cup g /\ A2.stop = "none"
      BY DEF Known
    <2> HIDE DEF x, p, q, A1, A2
    <2>7. /\ Parts(p) \subseteq A1.o /\ Parts({}) \subseteq A1.n /\ A2.stop = A1.stop
          /\ A2.o \subseteq (A1.o \ Parts(q \cup {})) \ {"va", "pa", "whole"}
      BY <1>1, <2>2, <2>4, <2>5, <2>6
    <2>8. A2.n \subseteq ((A1.n \ Parts(q \cup {})) \cup Parts(q)) \ {"va", "pa"}
      BY <2>2, <2>4, <2>5, <2>6
    <2>9. QED
      BY <1>2, <2>1, <2>3, <2>7, <2>8, R14Does
  <1>7. Straight(c, StoreR14ToEsp, A2, A3)
    <2>1. "ctx.sp" \in Locations
      BY PlaceFacts DEF Base
    <2>2. /\ Keeps(A2, A3, {"ctx.sp"}) /\ Drops(A3, {"whole"})
          /\ Gets(A2, A3, "ctx.sp", "r14.1") /\ Gets(A2, A3, "ctx.sp", "r14.2")
      <3>1. Keeps(A2, A3, {"ctx.sp"})
        BY <1>3, <1>4 DEF Keeps, Known
      <3>5. A3.o = Here(Plain4 \ {"sp"}) \cup (f \ g) /\ A3.n = {"ctx.sp"} \cup g
        BY <1>3 DEF Known
      <3>6. f \subseteq Flags
        BY <1>1 DEF f
      <3> HIDE DEF A3
      <3>2. Drops(A3, {"whole"})
        BY <1>1, <1>4, <3>5, <3>6 DEF Drops
      <3>7. "ctx.sp" \notin A3.o /\ "r14.1" \in A2.n /\ "r14.2" \in A2.n
        BY <1>1, <1>4, <3>5, <3>6 DEF Known
      <3>3. Gets(A2, A3, "ctx.sp", "r14.1") /\ Gets(A2, A3, "ctx.sp", "r14.2")
        BY <3>7 DEF Gets
      <3>4. QED
        BY <3>1, <3>2, <3>3
    <2> HIDE DEF A2, A3
    <2>3. QED
      BY <1>2, <2>1, <2>2, CopyDoes DEF StoreR14ToEsp
  <1> HIDE DEF A0, A1, A2, A3, x
  <1>8. Straight(c, LoadEspToR14 \o <<x>>, A0, A2)
    BY <1>5, <1>6, StraightConcat
  <1>9. Straight(c, LoadEspToR14 \o <<x>> \o StoreR14ToEsp, A0, A3)
    BY <1>7, <1>8, StraightConcat
  <1>10. QED
    BY <1>9, StraightDoes DEF Fulfils, EmitAluEspReg, A0, A3, x

-----------------------------------------------------------------------------
(* The handlers that move data and compute.                                *)

\* Classes with a handler.
LEMMA Dispatched ==
  ASSUME NEW k \in {"mov_mem", "alu_mem", "test_mem", "flagmem", "movx_mem", "push", "pop",
                    "frame", "helper", "string"}
  PROVE  /\ IntegerClass[k] \subseteq HasDispatch
         /\ "fst" \in HasDispatch
  <1>1. DOMAIN IntegerClass = {"lea", "mov_mem", "alu_mem", "test_mem", "flagmem", "movx_mem",
                               "push", "pop", "frame", "helper", "string", "privileged"}
    BY DEF IntegerClass
  <1>2. k \in DOMAIN IntegerClass \ {"lea", "privileged"}
    BY <1>1
  <1>3. "fst" \in MediaClass.fpu_mem
    BY DEF MediaClass
  <1> DEFINE S == { IntegerClass[j] : j \in DOMAIN IntegerClass \ {"lea", "privileged"} }
             X == IntegerClass[k]
  <1>4. X \in S
    BY <1>2
  <1>5. HasDispatch = (UNION S) \cup MediaClass.fpu_mem
    BY DEF HasDispatch
  <1> HIDE DEF S, X
  <1>6. X \subseteq UNION S
    BY <1>4
  <1>7. X \subseteq HasDispatch
    BY <1>5, <1>6
  <1>8. "fst" \in HasDispatch
    BY <1>3, <1>5
  <1>9. QED
    BY <1>7, <1>8 DEF X

\* What the forms of MOV write.
LEMMA MovWrites ==
  /\ Writes("mov") = {"a"} /\ Writes("mov_sp_r") = {"sp"} /\ Writes("mov_r_sp") = {"a"}
  /\ Writes("load") = {"a"} /\ Writes("load_fs") = {"a"} /\ Writes("load_hi") = {"a"}
  /\ Writes("load_sp") = {"sp"} /\ Writes("store") = {"mem"} /\ Writes("store_imm") = {"mem"}
  /\ Writes("store_sp") = {"mem"}
  BY DEF Writes, Insns

\* The singletons of what is written.
LEMMA SingleWrites ==
  /\ {} \in SUBSET Flags /\ {} \in SUBSET Plain4 /\ {"a"} \in SUBSET Plain4 /\ {"c"} \in SUBSET Plain4
  /\ {"sp"} \in SUBSET Plain4 /\ {"mem"} \in SUBSET Plain4
  /\ {"a"} = {"a"} \cup {} /\ {"sp"} = {"sp"} \cup {} /\ {"mem"} = {"mem"} \cup {}
  /\ {} \in SUBSET Base /\ {"a"} \in SUBSET Base /\ {"c"} \in SUBSET Base /\ {"ctx.sp"} \in SUBSET Base
  /\ {} \in SUBSET {"ctx.a", "ctx.c", "ctx.sp", "mem"}
  /\ {"ctx.a"} \in SUBSET {"ctx.a", "ctx.c", "ctx.sp", "mem"}
  /\ {"ctx.sp"} \in SUBSET {"ctx.a", "ctx.c", "ctx.sp", "mem"}
  BY DEF Plain4, Base

\* The patchable accesses and the helpers of MOV and MOVX.
LEMMA AccessForms ==
  ASSUME NEW c \in Contracts, paging \in BOOLEAN, c.form \notin LosesFlags \cup {"movzx16"}
  PROVE  /\ Writes(c.form) = {"a"} => Fulfils(c, DataEa \o Load)
         /\ Writes(c.form) = {"mem"} => Fulfils(c, DataEa \o Store) /\ Fulfils(c, DataEa \o StoreImm)
         /\ Writes(c.form) = {"sp"} =>
               Fulfils(c, DataEa \o Site(Native({}, {}, {"ctx.sp"}), MmioRead("ctx.sp")))
         /\ Writes(c.form) = {"a"} /\ c.form \in HasDispatch =>
               Fulfils(c, DataEa \o Helper(Saves(c), HighByteFromMem))
         /\ Writes(c.form) = {"sp"} /\ c.form \in HasDispatch =>
               Fulfils(c, DataEa \o Helper(Saves(c), EspFromMem))
         /\ Writes(c.form) = {"mem"} /\ c.form \in HasDispatch =>
               Fulfils(c, DataEa \o Helper(Saves(c), EspToMem))
  <1>1. ASSUME NEW w \in SUBSET Plain4, Writes(c.form) = w, NEW old \in SUBSET Base,
               NEW hold \in SUBSET {"ctx.a", "ctx.c", "ctx.sp", "mem"},
               NEW here, NEW there, here = Here(w), there = There(w)
        PROVE  Fulfils(c, DataEa \o Site(Native(old, {}, here), CallAbs(hold, {}, there, {})))
    BY <1>1, DataSite
  <1>2. ASSUME NEW w \in SUBSET Plain4, Writes(c.form) = w, c.form \in HasDispatch,
               NEW hold \in SUBSET {"ctx.a", "ctx.c", "ctx.sp", "mem"}, NEW there, there = There(w)
        PROVE  Fulfils(c, DataEa \o Helper(Saves(c), WithPa(CallAbs(hold, {}, there, {}))))
    <2>1. {} \in SUBSET There(w)
      OBVIOUS
    <2>2. QED
      BY <1>2, <2>1, DataHelper
  <1>3. Writes(c.form) = {"a"} => Fulfils(c, DataEa \o Load)
    BY <1>1, ImagesAre, SingleWrites DEF Load, MmioRead
  <1>4. Writes(c.form) = {"mem"} => Fulfils(c, DataEa \o Store)
    BY <1>1, ImagesAre, SingleWrites DEF Store, MmioWrite
  <1>5. Writes(c.form) = {"mem"} => Fulfils(c, DataEa \o StoreImm)
    BY <1>1, ImagesAre, SingleWrites DEF StoreImm, MmioWriteImm
  <1>6. Writes(c.form) = {"sp"} =>
           Fulfils(c, DataEa \o Site(Native({}, {}, {"ctx.sp"}), MmioRead("ctx.sp")))
    BY <1>1, ImagesAre, SingleWrites DEF MmioRead
  <1>7. Writes(c.form) = {"a"} /\ c.form \in HasDispatch =>
           Fulfils(c, DataEa \o Helper(Saves(c), HighByteFromMem))
    BY <1>2, ImagesAre, SingleWrites DEF HighByteFromMem
  <1>8. Writes(c.form) = {"sp"} /\ c.form \in HasDispatch =>
           Fulfils(c, DataEa \o Helper(Saves(c), EspFromMem))
    BY <1>2, ImagesAre, SingleWrites DEF EspFromMem
  <1>9. Writes(c.form) = {"mem"} /\ c.form \in HasDispatch =>
           Fulfils(c, DataEa \o Helper(Saves(c), EspToMem))
    BY <1>2, ImagesAre, SingleWrites DEF EspToMem
  <1>10. QED
    BY <1>3, <1>4, <1>5, <1>6, <1>7, <1>8, <1>9

\* An FS operand: no flags are kept.
LEMMA SegmentDoes ==
  ASSUME NEW c \in Contracts, paging \in BOOLEAN, c.form = "load_fs"
  PROVE  Fulfils(c, EaToR14("a", TRUE) \o PagingTranslate \o Load)
  <1> DEFINE f == {}
             w == {"a"}
  <1>1. f \in SUBSET c.live /\ TRUE \in BOOLEAN /\ (TRUE => f = {}) /\ Needed(c) \subseteq f
        /\ c.form \in LosesFlags /\ c.form # "movzx16"
    BY DEF Needed, LosesFlags
  <1>2. /\ w \in SUBSET Plain4 /\ Writes(c.form) = w \cup {} /\ {} \in SUBSET Flags
        /\ Here(w) = {"a"} /\ There(w) = {"ctx.a"} /\ {} \in SUBSET Base
        /\ {} \in SUBSET {"ctx.a", "ctx.c", "ctx.sp", "mem"} /\ f \in SUBSET Flags
    BY SingleWrites, MovWrites, ImagesAre
  <1>3. Finish(c) = Left(w, {})
    BY <1>1, <1>2, FinishIs
  <1>4. Does(c, Load, Addressed(f, {}), Left(w, f))
    <2>1. Does(c, Site(Native({}, {}, Here(w)), CallAbs({}, {}, There(w), {})), Addressed(f, {}), Left(w, f))
      <3> HIDE DEF f, w
      <3>1. QED
        BY <1>2, SiteDoes
    <2>2. QED
      BY <1>2, <2>1 DEF Load, MmioRead
  <1> HIDE DEF f, w
  <1>5. Does(c, EaToR14("a", TRUE) \o PagingTranslate, Start(c), Addressed(f, {}))
    BY <1>1, DataEaDoes
  <1>6. Does(c, EaToR14("a", TRUE) \o PagingTranslate \o Load, Start(c), Left(w, f))
    BY <1>4, <1>5, DoesConcat
  <1>7. QED
    BY <1>3, <1>6 DEF Fulfils, f

\* MOV.
LEMMA MovDoes ==
  ASSUME NEW c \in Contracts, paging \in BOOLEAN, c.form \in IntegerClass.mov_mem \ {"mov_cr"}
  PROVE  Fulfils(c, EmitMov(c.form, Saves(c)))
  <1>1. c.form \in {"mov", "mov_sp_r", "mov_r_sp", "load", "load_fs", "load_hi", "load_sp",
                    "store", "store_imm", "store_sp"}
    BY DEF IntegerClass
  <1>2. c.form \in HasDispatch /\ c.form # "movzx16" /\ (c.form # "load_fs" => c.form \notin LosesFlags)
    BY <1>1, Dispatched DEF LosesFlags
  <1>3. ASSUME NEW w \in SUBSET Plain4, Writes(c.form) = w, NEW old \in SUBSET Base, NEW here,
               here = Here(w), c.form # "load_fs"
        PROVE  Fulfils(c, <<Native(old, {}, here)>>)
    <2>1. Writes(c.form) = w \cup {} /\ old \in SUBSET (Base \cup c.live) /\ here = Here(w) \cup {}
          /\ {} \in SUBSET Flags /\ c.form \notin LosesFlags \cup {"movzx16"}
      BY <1>2, <1>3
    <2>2. QED
      BY <2>1, CleanDoes, StraightDoes DEF Fulfils
  <1>4. CASE c.form = "mov"
    BY <1>3, <1>4, ImagesAre, MovWrites, SingleWrites DEF EmitMov, CleanInsn
  <1>5. CASE c.form = "mov_sp_r"
    BY <1>3, <1>5, ImagesAre, MovWrites, SingleWrites DEF EmitMov
  <1>6. CASE c.form = "mov_r_sp"
    BY <1>3, <1>6, ImagesAre, MovWrites, SingleWrites DEF EmitMov
  <1>7. CASE c.form \in {"load", "store", "store_imm"}
    BY <1>2, <1>7, AccessForms, MovWrites DEF EmitMov
  <1>8. CASE c.form \in {"load_hi", "load_sp", "store_sp"}
    BY <1>2, <1>8, AccessForms, MovWrites DEF EmitMov
  <1>9. CASE c.form = "load_fs"
    BY <1>9, SegmentDoes DEF EmitMov
  <1>10. QED
    BY <1>1, <1>4, <1>5, <1>6, <1>7, <1>8, <1>9

\* What the forms of arithmetic write and test.
LEMMA AluTable ==
  /\ Writes("alu") = {"a"} \cup Flags /\ Writes("inc") = {"a"} \cup {"zf"}
  /\ Writes("adc") = {"a"} \cup Flags /\ Insns["adc"].t = {"cf"}
  /\ Writes("div") = {"a"} \cup Flags /\ Insns["div"].t = {}
  /\ Writes("div_mem") = {"a"} \cup Flags /\ Insns["div_mem"].t = {}
  /\ Writes("alu_sp") = {"sp"} \cup Flags
  /\ Writes("alu_mem") = {"mem"} \cup Flags /\ Insns["alu_mem"].t = {}
  /\ Writes("not_mem") = {"mem"} \cup {} /\ Writes("inc_mem") = {"mem"} \cup {"zf"}
  /\ Writes("adc_mem") = {"a"} \cup Flags /\ Insns["adc_mem"].t = {"cf"}
  /\ Writes("bts_mem") = {"mem"} \cup {"cf"}
  /\ Writes("shl_mem") = {"mem"} \cup Flags /\ Insns["shl_mem"].t = {}
  /\ Writes("xchg_mem") = {"a", "mem"} \cup {}
  /\ Writes("alu_sp_mem") = {"sp"} \cup Flags /\ Insns["alu_sp_mem"].t = {}
  /\ Writes("test_mem") = {} \cup Flags /\ Insns["test_mem"].t = {}
  /\ Writes("cmov") = {"a"} \cup {} /\ Insns["cmov"].t = {"zf"}
  /\ Writes("cmov_sp") = {"sp"} \cup {} /\ Insns["cmov_sp"].t = {"zf"}
  /\ Writes("setcc_mem") = {"mem"} \cup {} /\ Insns["setcc_mem"].t = {"zf"}
  /\ Writes("cmov_sp_mem") = {"sp"} \cup {} /\ Insns["cmov_sp_mem"].t = {"zf"}
  /\ Writes("fst") = {"mem"} \cup {}
  BY DEF Writes, Insns, Flags

\* What is alive before a form that tests a flag, and one that writes both.
LEMMA LiveFlags ==
  ASSUME NEW c \in Contracts, LiveOk(c)
  PROVE  /\ \A x \in Flags : Insns[c.form].t = {x} => x \in c.live
         /\ Flags \subseteq Writes(c.form) /\ Insns[c.form].t = {} => c.live = {}
  BY DEF LiveOk

\* The instruction computes out from old: what it writes, w and the flags g.
Plainly(c, w, g, old, out) ==
    /\ w \in SUBSET Plain4 /\ g \in SUBSET Flags /\ Writes(c.form) = w \cup g
    /\ old \in SUBSET (Base \cup c.live) /\ out = Here(w) \cup g

\* In registers, and at the address of an operand.
LEMMA PlainlyDoes ==
  ASSUME NEW c \in Contracts, LiveOk(c), paging \in BOOLEAN, c.form # "movzx16",
         NEW w, NEW g, NEW old, NEW out, Plainly(c, w, g, old, out)
  PROVE  /\ c.form \notin LosesFlags => Fulfils(c, <<Native(old, {}, out)>>)
         /\ c.form \in HasDispatch /\ (c.form \in LosesFlags \/ g = {} \/ c.live = {}) =>
               Fulfils(c, DataEa \o Saving(Saves(c), Unpatched(c.form, Native(old, {}, out))))
         /\ c.form \in HasDispatch \ LosesFlags /\ g = {} =>
               Fulfils(c, DataEa \o Unpatched(c.form, Native(old, {}, out)))
  <1>1. /\ w \in SUBSET Plain4 /\ g \in SUBSET Flags /\ Writes(c.form) = w \cup g
        /\ old \in SUBSET (Base \cup c.live) /\ out = Here(w) \cup g
    BY DEF Plainly
  <1>2. ASSUME c.form \notin LosesFlags
        PROVE  Fulfils(c, <<Native(old, {}, out)>>)
    <2>1. c.form \notin LosesFlags \cup {"movzx16"}
      BY <1>2
    <2>2. QED
      BY <1>1, <2>1, CleanDoes, StraightDoes DEF Fulfils
  <1>3. ASSUME c.form \in HasDispatch, c.form \in LosesFlags \/ g = {} \/ c.live = {}
        PROVE  Fulfils(c, DataEa \o Saving(Saves(c), Unpatched(c.form, Native(old, {}, out))))
    BY <1>1, <1>3, DataUnpatched
  <1>4. ASSUME c.form \in HasDispatch, c.form \notin LosesFlags, g = {}
        PROVE  Fulfils(c, DataEa \o Unpatched(c.form, Native(old, {}, out)))
    <2>1. out = Here(w)
      BY <1>1, <1>4
    <2>2. QED
      BY <1>1, <1>4, <2>1, DataUnpatched
  <1>5. QED
    BY <1>2, <1>3, <1>4

\* The forms that compute so, in registers and in memory.
LEMMA PlainForms ==
  ASSUME NEW c \in Contracts, LiveOk(c)
  PROVE  /\ c.form = "alu" => Plainly(c, {"a"}, Flags, {"a"}, {"a"} \cup Flags)
         /\ c.form = "inc" => Plainly(c, {"a"}, {"zf"}, {"a"}, {"a", "zf"})
         /\ c.form = "adc" => Plainly(c, {"a"}, Flags, {"a", "c", "cf"}, {"a"} \cup Flags)
         /\ c.form = "alu_mem" => Plainly(c, {"mem"}, Flags, {"a"}, {"mem"} \cup Flags) /\ c.live = {}
         /\ c.form = "not_mem" => Plainly(c, {"mem"}, {}, {}, {"mem"})
         /\ c.form = "inc_mem" => Plainly(c, {"mem"}, {"zf"}, {}, {"mem", "zf"})
         /\ c.form = "adc_mem" => Plainly(c, {"a"}, Flags, {"a", "cf"}, {"a"} \cup Flags)
         /\ c.form = "bts_mem" => Plainly(c, {"mem"}, {"cf"}, {"a"}, {"mem", "cf"})
         /\ c.form = "shl_mem" => Plainly(c, {"mem"}, Flags, {"c"}, {"mem"} \cup Flags) /\ c.live = {}
         /\ c.form = "xchg_mem" => Plainly(c, {"a", "mem"}, {}, {"a"}, {"a", "mem"})
         /\ c.form = "alu_sp_mem" =>
               Plainly(c, {"sp"}, Flags, {"ctx.sp"}, {"ctx.sp"} \cup Flags) /\ c.live = {}
         /\ c.form = "test_mem" => Plainly(c, {}, Flags, {"a"}, Flags) /\ c.live = {}
         /\ c.form = "fst" => Plainly(c, {"mem"}, {}, {}, {"mem"})
         /\ c.form = "cmov" => Plainly(c, {"a"}, {}, {"a", "c", "zf"}, {"a"})
         /\ c.form = "setcc_mem" => Plainly(c, {"mem"}, {}, {"zf"}, {"mem"})
         /\ c.form = "cmov_sp_mem" => Plainly(c, {"sp"}, {}, {"zf", "ctx.sp"}, {"ctx.sp"})
  <1>1. /\ Base = {"a", "c", "ctx.sp", "mem"} /\ Plain4 = {"a", "c", "sp", "mem"}
        /\ Flags = {"cf", "zf"}
    BY DEF Base, Plain4, Flags
  <1>2. ASSUME c.form = "alu"
        PROVE  Plainly(c, {"a"}, Flags, {"a"}, {"a"} \cup Flags)
    <2>1. Writes(c.form) = {"a"} \cup Flags /\ {"a"} \cup Flags = Here({"a"}) \cup Flags
      BY <1>2, AluTable, ImagesAre
    <2>2. QED
      BY <1>1, <2>1 DEF Plainly
  <1>3. ASSUME c.form = "inc"
        PROVE  Plainly(c, {"a"}, {"zf"}, {"a"}, {"a", "zf"})
    <2>1. Writes(c.form) = {"a"} \cup {"zf"} /\ {"a", "zf"} = Here({"a"}) \cup {"zf"}
      BY <1>3, AluTable, ImagesAre
    <2>2. QED
      BY <1>1, <2>1 DEF Plainly
  <1>4. ASSUME c.form = "adc"
        PROVE  Plainly(c, {"a"}, Flags, {"a", "c", "cf"}, {"a"} \cup Flags)
    <2>1. Writes(c.form) = {"a"} \cup Flags /\ {"a"} \cup Flags = Here({"a"}) \cup Flags
      BY <1>4, AluTable, ImagesAre
    <2>2. "cf" \in c.live
      BY <1>1, <1>4, AluTable, LiveFlags
    <2>3. QED
      BY <1>1, <2>1, <2>2 DEF Plainly
  <1>5. ASSUME c.form = "alu_mem"
        PROVE  Plainly(c, {"mem"}, Flags, {"a"}, {"mem"} \cup Flags) /\ c.live = {}
    <2>1. Writes(c.form) = {"mem"} \cup Flags /\ {"mem"} \cup Flags = Here({"mem"}) \cup Flags
      BY <1>5, AluTable, ImagesAre
    <2>2. c.live = {}
      BY <1>5, AluTable, LiveFlags
    <2>3. QED
      BY <1>1, <2>1, <2>2 DEF Plainly
  <1>6. ASSUME c.form = "not_mem"
        PROVE  Plainly(c, {"mem"}, {}, {}, {"mem"})
    <2>1. Writes(c.form) = {"mem"} \cup {} /\ {"mem"} = Here({"mem"}) \cup {}
      BY <1>6, AluTable, ImagesAre
    <2>2. QED
      BY <1>1, <2>1 DEF Plainly
  <1>7. ASSUME c.form = "inc_mem"
        PROVE  Plainly(c, {"mem"}, {"zf"}, {}, {"mem", "zf"})
    <2>1. Writes(c.form) = {"mem"} \cup {"zf"} /\ {"mem", "zf"} = Here({"mem"}) \cup {"zf"}
      BY <1>7, AluTable, ImagesAre
    <2>2. QED
      BY <1>1, <2>1 DEF Plainly
  <1>8. ASSUME c.form = "adc_mem"
        PROVE  Plainly(c, {"a"}, Flags, {"a", "cf"}, {"a"} \cup Flags)
    <2>1. Writes(c.form) = {"a"} \cup Flags /\ {"a"} \cup Flags = Here({"a"}) \cup Flags
      BY <1>8, AluTable, ImagesAre
    <2>2. "cf" \in c.live
      BY <1>1, <1>8, AluTable, LiveFlags
    <2>3. QED
      BY <1>1, <2>1, <2>2 DEF Plainly
  <1>9. ASSUME c.form = "bts_mem"
        PROVE  Plainly(c, {"mem"}, {"cf"}, {"a"}, {"mem", "cf"})
    <2>1. Writes(c.form) = {"mem"} \cup {"cf"} /\ {"mem", "cf"} = Here({"mem"}) \cup {"cf"}
      BY <1>9, AluTable, ImagesAre
    <2>2. QED
      BY <1>1, <2>1 DEF Plainly
  <1>10. ASSUME c.form = "shl_mem"
        PROVE  Plainly(c, {"mem"}, Flags, {"c"}, {"mem"} \cup Flags) /\ c.live = {}
    <2>1. Writes(c.form) = {"mem"} \cup Flags /\ {"mem"} \cup Flags = Here({"mem"}) \cup Flags
      BY <1>10, AluTable, ImagesAre
    <2>2. c.live = {}
      BY <1>10, AluTable, LiveFlags
    <2>3. QED
      BY <1>1, <2>1, <2>2 DEF Plainly
  <1>11. ASSUME c.form = "xchg_mem"
        PROVE  Plainly(c, {"a", "mem"}, {}, {"a"}, {"a", "mem"})
    <2>1. Writes(c.form) = {"a", "mem"} \cup {} /\ {"a", "mem"} = Here({"a", "mem"}) \cup {}
      BY <1>11, AluTable, ImagesAre
    <2>2. QED
      BY <1>1, <2>1 DEF Plainly
  <1>12. ASSUME c.form = "alu_sp_mem"
        PROVE  Plainly(c, {"sp"}, Flags, {"ctx.sp"}, {"ctx.sp"} \cup Flags) /\ c.live = {}
    <2>1. Writes(c.form) = {"sp"} \cup Flags /\ {"ctx.sp"} \cup Flags = Here({"sp"}) \cup Flags
      BY <1>12, AluTable, ImagesAre
    <2>2. c.live = {}
      BY <1>12, AluTable, LiveFlags
    <2>3. QED
      BY <1>1, <2>1, <2>2 DEF Plainly
  <1>13. ASSUME c.form = "test_mem"
        PROVE  Plainly(c, {}, Flags, {"a"}, Flags) /\ c.live = {}
    <2>1. Writes(c.form) = {} \cup Flags /\ Flags = Here({}) \cup Flags
      BY <1>13, AluTable, ImagesAre
    <2>2. c.live = {}
      BY <1>13, AluTable, LiveFlags
    <2>3. QED
      BY <1>1, <2>1, <2>2 DEF Plainly
  <1>14. ASSUME c.form = "fst"
        PROVE  Plainly(c, {"mem"}, {}, {}, {"mem"})
    <2>1. Writes(c.form) = {"mem"} \cup {} /\ {"mem"} = Here({"mem"}) \cup {}
      BY <1>14, AluTable, ImagesAre
    <2>2. QED
      BY <1>1, <2>1 DEF Plainly
  <1>15. ASSUME c.form = "cmov"
        PROVE  Plainly(c, {"a"}, {}, {"a", "c", "zf"}, {"a"})
    <2>1. Writes(c.form) = {"a"} \cup {} /\ {"a"} = Here({"a"}) \cup {}
      BY <1>15, AluTable, ImagesAre
    <2>2. "zf" \in c.live
      BY <1>1, <1>15, AluTable, LiveFlags
    <2>3. QED
      BY <1>1, <2>1, <2>2 DEF Plainly
  <1>16. ASSUME c.form = "setcc_mem"
        PROVE  Plainly(c, {"mem"}, {}, {"zf"}, {"mem"})
    <2>1. Writes(c.form) = {"mem"} \cup {} /\ {"mem"} = Here({"mem"}) \cup {}
      BY <1>16, AluTable, ImagesAre
    <2>2. "zf" \in c.live
      BY <1>1, <1>16, AluTable, LiveFlags
    <2>3. QED
      BY <1>1, <2>1, <2>2 DEF Plainly
  <1>17. ASSUME c.form = "cmov_sp_mem"
        PROVE  Plainly(c, {"sp"}, {}, {"zf", "ctx.sp"}, {"ctx.sp"})
    <2>1. Writes(c.form) = {"sp"} \cup {} /\ {"ctx.sp"} = Here({"sp"}) \cup {}
      BY <1>17, AluTable, ImagesAre
    <2>2. "zf" \in c.live
      BY <1>1, <1>17, AluTable, LiveFlags
    <2>3. QED
      BY <1>1, <2>1, <2>2 DEF Plainly
  <1>18. QED
    BY <1>2, <1>3, <1>4, <1>5, <1>6, <1>7, <1>8, <1>9, <1>10, <1>11, <1>12, <1>13, <1>14, <1>15, <1>16, <1>17

\* Arithmetic.
LEMMA AluDoes ==
  ASSUME NEW c \in Contracts, LiveOk(c), paging \in BOOLEAN, c.form \in IntegerClass.alu_mem
  PROVE  Fulfils(c, EmitAlu(c.form, Saves(c)))
  <1> DEFINE f == c.form
  <1>1. f \in {"alu", "inc", "adc", "div", "div_mem", "alu_sp", "alu_mem", "not_mem",
               "inc_mem", "adc_mem", "bts_mem", "shl_mem", "xchg_mem", "alu_sp_mem"}
    BY DEF IntegerClass
  <1>2. f \in HasDispatch /\ f # "movzx16"
    BY <1>1, Dispatched
  <1>3. "cf" \in Flags /\ "zf" \in Flags /\ {"cf"} \in SUBSET Flags /\ {"zf"} \in SUBSET Flags
        /\ Flags \in SUBSET Flags
    BY DEF Flags
  <1>4. f \in {"inc_mem", "adc_mem", "bts_mem"} <=> f \in LosesFlags
    BY <1>1 DEF LosesFlags
  <1>5. ASSUME NEW w, NEW g, NEW old, NEW out, Plainly(c, w, g, old, out), f \notin LosesFlags
        PROVE  Fulfils(c, CleanInsn(old, out))
    BY <1>2, <1>5, PlainlyDoes DEF CleanInsn
  <1>6. CASE f = "alu"
    BY <1>4, <1>5, <1>6, PlainForms DEF EmitAlu
  <1>7. CASE f = "inc"
    BY <1>4, <1>5, <1>7, PlainForms DEF EmitAlu
  <1>8. CASE f = "adc"
    BY <1>4, <1>5, <1>8, PlainForms DEF EmitAlu
  <1>9. CASE f \in {"div", "div_mem"}
    <2>1. c.live = {}
      BY <1>9, AluTable, LiveFlags
    <2>2. ~Saves(c)
      BY <2>1 DEF Saves
    <2>3. /\ f = "div" => Fulfils(c, Divide(Native({"a", "c"}, {}, {"a"} \cup Flags)))
          /\ f = "div_mem" =>
               Fulfils(c, DataEa \o Divide(Access(Native({"a"}, {}, {"a"} \cup Flags), "new")))
      BY <1>9, <2>1, DivideDoes
    <2>4. CASE f = "div"
      BY <2>3, <2>4 DEF EmitAlu
    <2>5. CASE f = "div_mem"
      BY <2>2, <2>3, <2>5 DEF EmitAlu, Saving
    <2>6. QED
      BY <1>9, <2>4, <2>5
  <1>10. CASE f = "alu_sp"
    <2>1. {} \in SUBSET ({"a"} \cup c.live) /\ f \notin LosesFlags \cup {"movzx16"}
      BY <1>2, <1>4, <1>10
    <2>2. Fulfils(c, EmitAluEspReg({}, Flags))
      BY <1>3, <1>10, <2>1, AluTable, AluEspDoes
    <2>3. QED
      BY <1>10, <2>2 DEF EmitAlu
  <1>11. CASE f \in {"alu_mem", "not_mem", "inc_mem", "adc_mem", "bts_mem", "shl_mem", "xchg_mem", "alu_sp_mem"}
    <2> DEFINE o == CASE f = "alu_mem" -> Native({"a"}, {}, {"mem"} \cup Flags)
                      [] f = "not_mem" -> Native({}, {}, {"mem"})
                      [] f = "inc_mem" -> Native({}, {}, {"mem", "zf"})
                      [] f = "adc_mem" -> Native({"a", "cf"}, {}, {"a"} \cup Flags)
                      [] f = "bts_mem" -> Native({"a"}, {}, {"mem", "cf"})
                      [] f = "shl_mem" -> Native({"c"}, {}, {"mem"} \cup Flags)
                      [] f = "xchg_mem" -> Native({"a"}, {}, {"a", "mem"})
                      [] f = "alu_sp_mem" -> Native({"ctx.sp"}, {}, {"ctx.sp"} \cup Flags)
    <2>1. EmitAlu(f, Saves(c)) = DataEa \o Saving(Saves(c), Unpatched(f, o))
      BY <1>11 DEF EmitAlu
    <2>2. ASSUME NEW w, NEW g, NEW old, NEW out, Plainly(c, w, g, old, out),
                 f \in LosesFlags \/ g = {} \/ c.live = {}
          PROVE  Fulfils(c, DataEa \o Saving(Saves(c), Unpatched(f, Native(old, {}, out))))
      BY <1>2, <2>2, PlainlyDoes
    <2>5. CASE f = "alu_mem"
      <3>1. Plainly(c, {"mem"}, Flags, {"a"}, {"mem"} \cup Flags) /\ c.live = {}
        BY <1>4, <2>5, PlainForms
      <3>2. QED
        BY <2>1, <2>2, <2>5, <3>1
    <2>6. CASE f = "not_mem"
      <3>1. Plainly(c, {"mem"}, {}, {}, {"mem"}) /\ {} = {}
        BY <1>4, <2>6, PlainForms
      <3>2. QED
        BY <2>1, <2>2, <2>6, <3>1
    <2>7. CASE f = "inc_mem"
      <3>1. Plainly(c, {"mem"}, {"zf"}, {}, {"mem", "zf"}) /\ f \in LosesFlags
        BY <1>4, <2>7, PlainForms
      <3>2. QED
        BY <2>1, <2>2, <2>7, <3>1
    <2>8. CASE f = "adc_mem"
      <3>1. Plainly(c, {"a"}, Flags, {"a", "cf"}, {"a"} \cup Flags) /\ f \in LosesFlags
        BY <1>4, <2>8, PlainForms
      <3>2. QED
        BY <2>1, <2>2, <2>8, <3>1
    <2>9. CASE f = "bts_mem"
      <3>1. Plainly(c, {"mem"}, {"cf"}, {"a"}, {"mem", "cf"}) /\ f \in LosesFlags
        BY <1>4, <2>9, PlainForms
      <3>2. QED
        BY <2>1, <2>2, <2>9, <3>1
    <2>10. CASE f = "shl_mem"
      <3>1. Plainly(c, {"mem"}, Flags, {"c"}, {"mem"} \cup Flags) /\ c.live = {}
        BY <1>4, <2>10, PlainForms
      <3>2. QED
        BY <2>1, <2>2, <2>10, <3>1
    <2>11. CASE f = "xchg_mem"
      <3>1. Plainly(c, {"a", "mem"}, {}, {"a"}, {"a", "mem"}) /\ {} = {}
        BY <1>4, <2>11, PlainForms
      <3>2. QED
        BY <2>1, <2>2, <2>11, <3>1
    <2>12. CASE f = "alu_sp_mem"
      <3>1. Plainly(c, {"sp"}, Flags, {"ctx.sp"}, {"ctx.sp"} \cup Flags) /\ c.live = {}
        BY <1>4, <2>12, PlainForms
      <3>2. QED
        BY <2>1, <2>2, <2>12, <3>1
    <2>13. QED
      BY <1>11, <2>5, <2>6, <2>7, <2>8, <2>9, <2>10, <2>11, <2>12
  <1>12. QED
    BY <1>1, <1>6, <1>7, <1>8, <1>9, <1>10, <1>11

\* CMOV and SETcc.
LEMMA FlagMemDoes ==
  ASSUME NEW c \in Contracts, LiveOk(c), paging \in BOOLEAN, c.form \in IntegerClass.flagmem
  PROVE  Fulfils(c, EmitFlagMem(c.form))
  <1>1. c.form \in {"cmov", "cmov_sp", "setcc_mem", "cmov_sp_mem"}
    BY DEF IntegerClass
  <1>2. c.form \in HasDispatch /\ c.form \notin LosesFlags \cup {"movzx16"}
    BY <1>1, Dispatched DEF LosesFlags
  <1>3. "zf" \in c.live
    <2>1. "zf" \in Flags
      BY DEF Flags
    <2>2. QED
      BY <1>1, <2>1, AluTable, LiveFlags
  <1>4. /\ {"a", "zf"} \in SUBSET ({"a"} \cup c.live) /\ {} \in SUBSET Flags
    BY <1>3
  <1>5. CASE c.form = "cmov"
    <2>1. Plainly(c, {"a"}, {}, {"a", "c", "zf"}, {"a"})
      BY <1>5, PlainForms
    <2>2. QED
      BY <1>2, <1>5, <2>1, PlainlyDoes DEF EmitFlagMem, CleanInsn
  <1>6. CASE c.form = "cmov_sp"
    <2>1. Fulfils(c, EmitAluEspReg({"a", "zf"}, {}))
      BY <1>2, <1>4, <1>6, AluTable, AluEspDoes
    <2>2. QED
      BY <1>6, <2>1 DEF EmitFlagMem
  <1>7. ASSUME NEW w, NEW old, NEW out, Plainly(c, w, {}, old, out)
        PROVE  Fulfils(c, DataEa \o Unpatched(c.form, Native(old, {}, out)))
    BY <1>2, <1>7, PlainlyDoes
  <1>8. CASE c.form = "setcc_mem"
    BY <1>7, <1>8, PlainForms DEF EmitFlagMem
  <1>9. CASE c.form = "cmov_sp_mem"
    BY <1>7, <1>9, PlainForms DEF EmitFlagMem
  <1>10. QED
    BY <1>1, <1>5, <1>6, <1>8, <1>9

\* TEST and the media instructions.
LEMMA TestAndFpuDo ==
  ASSUME NEW c \in Contracts, LiveOk(c), paging \in BOOLEAN
  PROVE  /\ c.form = "test_mem" => Fulfils(c, EmitTestMem(Saves(c)))
         /\ c.form = "fst" => Fulfils(c, EmitFpuMem(Saves(c)))
  <1>1. IntegerClass["test_mem"] = {"test_mem"}
    BY DEF IntegerClass
  <1>2. "test_mem" \in HasDispatch /\ "fst" \in HasDispatch
    BY <1>1, Dispatched
  <1>3. CASE c.form = "test_mem"
    <2>1. Plainly(c, {}, Flags, {"a"}, Flags) /\ c.live = {}
      BY <1>3, PlainForms
    <2>2. QED
      BY <1>2, <1>3, <2>1, PlainlyDoes DEF EmitTestMem
  <1>4. CASE c.form = "fst"
    <2>1. Plainly(c, {"mem"}, {}, {}, {"mem"})
      BY <1>4, PlainForms
    <2>2. QED
      BY <1>2, <1>4, <2>1, PlainlyDoes DEF EmitFpuMem
  <1>5. QED
    BY <1>3, <1>4

-----------------------------------------------------------------------------
(* The handlers of the guest's stack.                                      *)

\* Places that are claimed around stack accesses.
Kept == Base \cup Flags \cup {"ctx.a", "r14.1", "r14.2"}
Moved == {"r14.1", "r14.2", "ctx.sp"}

\* They are places, by name.
LEMMA KeptFacts ==
  /\ Kept \subseteq Places /\ Moved \subseteq Places /\ Kept \cup {"pa", "va", "whole"} \subseteq Places
  /\ Kept = {"a", "c", "ctx.sp", "mem", "cf", "zf", "ctx.a", "r14.1", "r14.2"}
  BY PlaceFacts DEF Kept, Moved, Base, Flags, Extra

\* ESP in R14, as an address: before the instruction moves it, and after.
LEMMA LoadEspDoes ==
  ASSUME NEW c, NEW o \in SUBSET (Kept \ InR14New), NEW n \in SUBSET {"ctx.sp"},
         NEW p \in SUBSET {"whole"}
  PROVE  /\ "ctx.sp" \in o => Straight(c, LoadEspToR14, Known(o \cup p, n), Known((o \cup InR14New) \cup {Raw}, n))
         /\ "ctx.sp" \in n => Straight(c, LoadEspToR14, Known(o \cup p, n), Known(o \cup {Raw}, n \cup InR14New))
  <1> DEFINE A == Known(o \cup p, n)
             B == Known((o \cup InR14New) \cup {Raw}, n)
             N == Known(o \cup {Raw}, n \cup InR14New)
  <1>1. /\ InR14New = {"r14.1", "r14.2"} /\ InR14 = {"r14.1", "r14.2", "va", "pa"}
        /\ Raw \in {"va", "pa"} /\ (Raw = "pa" => ~paging) /\ "ctx.sp" \in Locations
    BY PlaceFacts DEF InR14New, InR14, Raw, Base
  <1>2. /\ A.o = o \cup p /\ A.n = n /\ A.stop = "none"
        /\ B.o = (o \cup InR14New) \cup {Raw} /\ B.n = n /\ B.stop = "none"
        /\ N.o = o \cup {Raw} /\ N.n = n \cup InR14New /\ N.stop = "none"
    BY DEF Known
  <1>3. "pa" \notin o /\ "va" \notin o
    BY KeptFacts
  <1>4. A \in Claims /\ B \in Claims /\ N \in Claims
    <2>1. /\ o \cup p \in SUBSET Places /\ n \in SUBSET Places /\ o \cup {Raw} \in SUBSET Places
          /\ (o \cup InR14New) \cup {Raw} \in SUBSET Places /\ n \cup InR14New \in SUBSET Places
      BY <1>1, PlaceFacts, KeptFacts DEF Extra, Moved
    <2>2. QED
      BY <2>1, KnownClaims
  <1> HIDE DEF A, B, N
  <1>5. ASSUME "ctx.sp" \in o
        PROVE  Straight(c, LoadEspToR14, A, B)
    <2>1. Keeps(A, B, InR14)
      BY <1>1, <1>2 DEF Keeps
    <2>2. NewR14(B)
      BY <1>1, <1>2, <1>3 DEF NewR14
    <2>3. Gets(A, B, "r14.1", "ctx.sp") /\ Gets(A, B, "r14.2", "ctx.sp")
      BY <1>2, <1>5 DEF Gets
    <2>4. QED
      BY <1>1, <1>4, <2>1, <2>2, <2>3, CopyDoes DEF LoadEspToR14
  <1>6. ASSUME "ctx.sp" \in n
        PROVE  Straight(c, LoadEspToR14, A, N)
    <2>1. Keeps(A, N, InR14)
      BY <1>1, <1>2 DEF Keeps
    <2>2. NewR14(N)
      BY <1>1, <1>2, <1>3 DEF NewR14
    <2>4. "r14.1" \notin o /\ "r14.2" \notin o
      BY <1>1
    <2>3. Gets(A, N, "r14.1", "ctx.sp") /\ Gets(A, N, "r14.2", "ctx.sp")
      BY <1>1, <1>2, <1>6, <2>4 DEF Gets
    <2>5. QED
      BY <1>1, <1>4, <2>1, <2>2, <2>3, CopyDoes DEF LoadEspToR14
  <1>7. QED
    BY <1>5, <1>6 DEF A, B, N

\* The address in R14, translated.
LEMMA StackTranslate ==
  ASSUME NEW c \in Contracts, paging \in BOOLEAN, NEW o \in SUBSET Kept, NEW n \in SUBSET Moved,
         {"a", "c", "mem"} \cup Unmoved(c) \cup Needed(c) \subseteq o
  PROVE  Does(c, PagingTranslate, Known(o \cup {Raw}, n), Known(o \cup {"pa"}, n))
  <1>1. /\ o \in SUBSET (Base \cup Flags \cup {"ctx.a", "r14.1", "r14.2"})
        /\ n \in SUBSET {"r14.1", "r14.2", "ctx.sp"}
    BY DEF Kept, Moved
  <1>2. QED
    BY <1>1, PagingTranslateDoes

\* The access there.
LEMMA StackAccess ==
  ASSUME NEW c, NEW o \in SUBSET Kept, NEW n \in SUBSET Moved, NEW l \in {"a", "c", "mem"},
         NEW old \in SUBSET {"a"}, old \subseteq o, NEW at \in {"old", "new"},
         at = "old" => InR14New \subseteq o, at = "new" => InR14New \subseteq n,
         NEW q \in SUBSET (o \ {l}), NEW m \in SUBSET (n \cup {l})
  PROVE  Straight(c, <<Access(Native(old, {}, {l}), at)>>, Known(o \cup {"pa"}, n), Known(q, m))
  <1> DEFINE x == Access(Native(old, {}, {l}), at)
             A == Known(o \cup {"pa"}, n)
             B == Known(q, m)
             out == {l}
             e == old \cup (IF at = "old" THEN {"r14"} ELSE {})
             d == IF at = "new" THEN {"r14"} ELSE {}
  <1>1. Fields(x, e, d, out, {}, {}, "pa")
    <2>1. Fields(Native(old, {}, {l}), old, {}, {l}, {}, {}, "none")
      BY ComputingFields
    <2>2. /\ Fields(Access(Native(old, {}, {l}), "new"), old \cup {}, {} \cup {"r14"}, {l}, {}, {}, "pa")
          /\ Fields(Access(Native(old, {}, {l}), "old"), old \cup {"r14"}, {} \cup {}, {l}, {}, {}, "pa")
      BY <2>1, ComputingFields
    <2>3. /\ at = "new" => e = old \cup {} /\ d = {} \cup {"r14"}
          /\ at = "old" => e = old \cup {"r14"} /\ d = {} \cup {}
      OBVIOUS
    <2>4. QED
      BY <2>2, <2>3
  <1>2. /\ A.o = o \cup {"pa"} /\ A.n = n /\ A.stop = "none"
        /\ B.o = q /\ B.n = m /\ B.stop = "none"
    BY DEF Known
  <1>3. "whole" \notin q /\ "pa" \notin q /\ l \in Locations
    BY KeptFacts, PlaceFacts DEF Base
  <1>4. A \in Claims /\ B \in Claims
    <2>1. o \cup {"pa"} \in SUBSET Places /\ n \in SUBSET Places /\ q \in SUBSET Places /\ m \in SUBSET Places
      BY <1>3, KeptFacts, PlaceFacts DEF Extra
    <2>2. QED
      BY <2>1, KnownClaims
  <1>5. /\ Parts(e) = old \cup (IF at = "old" THEN InR14New ELSE {})
        /\ Parts(d) = IF at = "new" THEN InR14New ELSE {}
    BY DEF Parts, InR14New
  <1>6. out \cup {} \subseteq Locations /\ e \cup d \subseteq Locations \cup {"r14"}
    BY <1>3, PlaceFacts DEF Base
  <1> HIDE DEF x, A, B, e, d
  <1>7. /\ Parts(e) \subseteq A.o /\ Parts(d) \subseteq A.n /\ "pa" \in A.o
        /\ B.o \subseteq A.o \ (out \cup {}) /\ "whole" \notin B.o /\ B.stop = A.stop
    BY <1>2, <1>3, <1>5
  <1>8. B.n \subseteq (A.n \ (out \cup {})) \cup out
    BY <1>2
  <1>9. Straight(c, <<x>>, A, B)
    BY <1>1, <1>4, <1>6, <1>7, <1>8, ComputingDoes
  <1>10. QED
    BY <1>9 DEF x, A, B

\* A computation, with what ComputingDoes needs of it under one name.
Computing(x, old, new, out, bad, lose, addr, A, B) ==
    /\ Fields(x, old, new, out, bad, lose, addr)
    /\ out \cup bad \subseteq Locations /\ old \cup new \subseteq Locations \cup {"r14"}
    /\ lose \subseteq out /\ addr \in {"none", "va", "pa"} /\ (addr # "none" => addr \in A.o)
    /\ Parts(old) \subseteq A.o /\ Parts(new) \subseteq A.n
    /\ B.stop = A.stop /\ B.o \subseteq A.o \ (out \cup bad)
    /\ B.n \subseteq (A.n \ (out \cup bad)) \cup out
    /\ ("whole" \in B.o => lose = {} /\ "r14" \notin old \cup new)

\* Such a computation leads from the one claim to the other.
LEMMA ComputingStraight ==
  ASSUME NEW c, NEW A \in Claims, NEW B \in Claims, NEW x, NEW old, NEW new, NEW out, NEW bad,
         NEW lose, NEW addr, Computing(x, old, new, out, bad, lose, addr, A, B)
  PROVE  Straight(c, <<x>>, A, B) /\ Does(c, <<x>>, A, B)
  BY ComputingDoes DEF Computing

\* ESP moves under saved flags.
LEMMA EspDoes ==
  ASSUME NEW c, NEW o \in SUBSET (Base \cup {"ctx.a"}), NEW f \in SUBSET Flags,
         NEW n \in SUBSET {"a", "c", "ctx.sp"}, NEW p \in SUBSET {"whole"},
         NEW old \in SUBSET {"ctx.sp"}, NEW new \in SUBSET {"ctx.sp"},
         old \subseteq o, new \subseteq n
  PROVE  Straight(c, PushFlags \o <<Clobbering(Native(old, new, {"ctx.sp"}), Flags)>> \o PopFlags,
                  Known(o \cup f \cup p, n), Known((o \ {"ctx.sp"}) \cup f, n \cup {"ctx.sp"}))
  <1> DEFINE x == Clobbering(Native(old, new, {"ctx.sp"}), Flags)
             k == o \ {"ctx.sp"}
             m == n \cup {"ctx.sp"}
             A0 == Known(o \cup f \cup p, n)
             A1 == Known(o \cup Saved(f), n)
             A2 == Known(k \cup Saved(f), m)
             A3 == Known(k \cup f, m)
             out == {"ctx.sp"}
  <1>1. /\ Saved(f) \subseteq {"st.1", "st.2"} /\ Flags = {"cf", "zf"}
        /\ o \subseteq {"a", "c", "ctx.sp", "mem", "ctx.a"} /\ k \subseteq {"a", "c", "mem", "ctx.a"}
        /\ m \subseteq {"a", "c", "ctx.sp"}
    BY DEF Saved, Flags, Base
  <1>2. A0 \in Claims /\ A1 \in Claims /\ A2 \in Claims /\ A3 \in Claims
    <2>1. /\ o \cup f \cup p \in SUBSET Places /\ n \in SUBSET Places /\ o \cup Saved(f) \in SUBSET Places
          /\ k \cup Saved(f) \in SUBSET Places /\ m \in SUBSET Places /\ k \cup f \in SUBSET Places
      BY <1>1, PlaceFacts DEF Extra, Base
    <2> HIDE DEF k, m
    <2>2. QED
      BY <2>1, KnownClaims
  <1>3. /\ A0.o = o \cup f \cup p /\ A0.n = n /\ A0.stop = "none"
        /\ A1.o = o \cup Saved(f) /\ A1.n = n /\ A1.stop = "none"
        /\ A2.o = k \cup Saved(f) /\ A2.n = m /\ A2.stop = "none"
        /\ A3.o = k \cup f /\ A3.n = m /\ A3.stop = "none"
    BY DEF Known
  <1> HIDE DEF A0, A1, A2, A3
  <1>4. Straight(c, PushFlags, A0, A1)
    <2>1. Keeps(A0, A1, {"st.1", "st.2"})
      BY <1>1, <1>3 DEF Keeps
    <2>2. Gets(A0, A1, "st.1", "cf") /\ Gets(A0, A1, "st.2", "zf")
      BY <1>1, <1>3 DEF Gets, Saved
    <2>3. QED
      BY <1>2, <2>1, <2>2, FixedMoves
  <1>5. Straight(c, <<x>>, A1, A2)
    <2>1. Fields(x, old, new, out, Flags, {}, "none")
      <3>1. Fields(Native(old, new, out), old, new, out, {}, {}, "none")
        BY ComputingFields
      <3>2. QED
        BY <3>1, ComputingFields
    <2>2. /\ out \cup Flags \subseteq Locations /\ old \cup new \subseteq Locations \cup {"r14"}
          /\ Parts(old) = old /\ Parts(new) = new
      BY PlaceFacts DEF Parts, Base
    <2> DEFINE e == {}
    <2>6. Fields(x, old, new, out, Flags, e, "none") /\ e \subseteq out
      BY <2>1
    <2> HIDE DEF x, e, out
    <2>3. /\ Parts(old) \subseteq A1.o /\ Parts(new) \subseteq A1.n /\ A2.stop = A1.stop
          /\ A2.o \subseteq A1.o \ (out \cup Flags) /\ "whole" \notin A2.o
      BY <1>1, <1>3, <2>2 DEF out
    <2>4. A2.n \subseteq (A1.n \ (out \cup Flags)) \cup out
      BY <1>1, <1>3 DEF out
    <2>7. /\ "none" \in {"none", "va", "pa"} /\ ("none" # "none" => "none" \in A1.o)
          /\ "r14" \notin out \cup Flags
      BY PlaceFacts DEF out, Flags
    <2>8. \A z : z = "none" => (z # "none" => z \in A1.o)
      OBVIOUS
    <2>5. QED
      <3>1. A1 \in Claims /\ A2 \in Claims /\ ("none" # "none" => "none" \in A1.o)
        BY <1>2
      <3>2. "whole" \in A2.o => e = {} /\ "r14" \notin old \cup new
        BY <2>3
      <3> DEFINE b == Flags
                 a == "none"
      <3>3. Fields(x, old, new, out, b, e, a) /\ a \in {"none", "va", "pa"} /\ (a # "none" => a \in A1.o)
        BY <2>6
      <3>4. out \cup b \subseteq Locations /\ old \cup new \subseteq Locations \cup {"r14"}
        BY <2>2
      <3>5. A2.o \subseteq A1.o \ (out \cup b) /\ A2.n \subseteq (A1.n \ (out \cup b)) \cup out
        BY <2>3, <2>4
      <3> HIDE DEF a, b
      <3>6. Computing(x, old, new, out, b, e, a, A1, A2)
        BY <2>6, <2>2, <2>3, <3>1, <3>2, <3>3, <3>4, <3>5 DEF Computing
      <3>7. QED
        BY <3>1, <3>6, ComputingStraight
  <1>6. Straight(c, PopFlags, A2, A3)
    <2>1. Keeps(A2, A3, Flags)
      BY <1>1, <1>3 DEF Keeps
    <2>2. Drops(A3, {"st.1", "st.2", "whole"})
      BY <1>1, <1>3 DEF Drops
    <2>3. Gets(A2, A3, "cf", "st.1") /\ Gets(A2, A3, "zf", "st.2")
      BY <1>1, <1>3 DEF Gets, Saved
    <2>4. QED
      BY <1>2, <2>1, <2>2, <2>3, FixedMoves
  <1> HIDE DEF x
  <1>7. Straight(c, PushFlags \o <<x>>, A0, A2)
    BY <1>4, <1>5, StraightConcat
  <1>8. Straight(c, PushFlags \o <<x>> \o PopFlags, A0, A3)
    BY <1>6, <1>7, StraightConcat
  <1>9. QED
    BY <1>8 DEF x, A0, A3

-----------------------------------------------------------------------------
(* MOVX, the stack and the helpers.                                        *)

\* MOVZX and MOVSX write the register or ESP that they load.
LEMMA MovxLoads ==
  ASSUME NEW c \in Contracts, paging \in BOOLEAN, c.form \in {"movzx", "movsx", "movzx_sp"}
  PROVE  Fulfils(c, EmitMovx(c.form))
  <1>1. Writes("movzx") = {"a"} /\ Writes("movsx") = {"a"} /\ Writes("movzx_sp") = {"sp"}
    BY DEF Writes, Insns
  <1>2. c.form \notin LosesFlags \cup {"movzx16"}
    BY DEF LosesFlags
  <1>3. Fulfils(c, DataEa \o Load) \/ c.form = "movzx_sp"
    BY <1>1, <1>2, AccessForms
  <1>4. c.form = "movzx_sp" =>
           Fulfils(c, DataEa \o Site(Native({}, {}, {"ctx.sp"}), MmioRead("ctx.sp")))
    BY <1>1, <1>2, AccessForms
  <1>5. QED
    BY <1>3, <1>4 DEF EmitMovx

\* Whatever holds, code that needs nothing leads to where nothing is claimed.
LEMMA NothingDoes ==
  ASSUME NEW c, NEW A \in Claims, A.stop = "none", NEW x, NEW old, NEW new, NEW out, NEW bad, NEW addr,
         Fields(x, old, new, out, bad, {}, addr), addr \in {"none", "va", "pa"},
         old \cup new \cup out \cup bad \subseteq Locations \cup {"r14"}
  PROVE  Straight(c, <<x>>, A, Known({}, {})) /\ Does(c, <<x>>, A, Known({}, {}))
  <1> DEFINE N == Known({}, {})
             e == {}
  <1>1. N \in Claims /\ N.o = {} /\ N.n = {} /\ N.stop = "none"
    BY KnownClaims DEF N
  <1> HIDE DEF N
  <1>2. Keeps(A, N, Parts(out \cup bad) \cup IF "r14" \in out \cup bad THEN InR14 ELSE {})
    BY <1>1 DEF Keeps
  <1>3. NewR14(N)
    BY <1>1 DEF NewR14
  <1>4. e \subseteq out /\ Fields(x, old, new, out, bad, e, addr)
    OBVIOUS
  <1> HIDE DEF e
  <1>5. Effect(old, new, out, bad, e, addr, A, N)
    BY <1>1, <1>2, <1>3, <1>4 DEF Effect
  <1>6. QED
    BY <1>1, <1>4, <1>5, FieldsStraight DEF N

\* MOVZX of 16 bits keeps its address and little else.
LEMMA Movzx16Does ==
  ASSUME NEW c \in Contracts, paging \in BOOLEAN, c.form = "movzx16"
  PROVE  Fulfils(c, EmitMovx(c.form))
  <1> DEFINE N == Known({}, {})
             A == Addressed(c.live, {})
             e == {}
             x == Clobbering(Native(e, e, e), {"c"})
             h == Clobbering(MmioRead("ctx.c"), {"ctx.c"})
             m == Clobbering(Native(e, e, e), {"a"} \cup Flags)
             y == Access(x, "new")
             z == WithPa(h)
  <1>1. /\ N \in Claims /\ N.stop = "none" /\ Finish(c) = N
        /\ A \in Claims /\ A.stop = "none"
    <2>1. N \in Claims /\ N.stop = "none" /\ Finish(c) = N
      BY KnownClaims DEF Finish
    <2>2. c.live \in SUBSET Flags /\ {} \in SUBSET {"st.1", "st.2"} /\ {} \in SUBSET Plain4
          /\ {} \in SUBSET Flags
      BY DEF Contracts
    <2>3. QED
      BY <2>1, <2>2, AccessClaims
  <1>2. Fields(m, e, e, e, {"a"} \cup Flags, {}, "none")
    <2>1. Fields(Native(e, e, e), e, e, e, {}, {}, "none")
      BY ComputingFields
    <2>2. QED
      BY <2>1, ComputingFields
  <1>3. Fields(y, e, {"r14"}, e, {"c"}, {}, "pa")
    <2>1. Fields(Native(e, e, e), e, e, e, {}, {}, "none")
      BY ComputingFields
    <2>2. Fields(x, e, e, e, {"c"}, {}, "none")
      BY <2>1, ComputingFields
    <2> HIDE DEF x
    <2>3. Fields(y, e \cup {}, e \cup {"r14"}, e, {"c"}, {}, "pa")
      BY <2>2, ComputingFields
    <2>4. e \cup {} = e /\ e \cup {"r14"} = {"r14"}
      OBVIOUS
    <2>5. QED
      BY <2>3, <2>4
  <1>4. Fields(z, e, {"r14"}, {"ctx.c"}, {"ctx.c"}, {}, "pa")
    <2>1. Fields(CallAbs({}, {}, {"ctx.c"}, {}), e, e, {"ctx.c"}, {"a", "c"} \cup Flags, {}, "none")
      BY ComputingFields
    <2>2. Fields(h, e, e, {"ctx.c"}, {"ctx.c"}, {}, "none")
      BY <2>1, ComputingFields DEF MmioRead
    <2> HIDE DEF h
    <2>3. Fields(z, e \cup {}, e \cup {"r14"}, {"ctx.c"}, {"ctx.c"}, {}, "pa")
      BY <2>2, ComputingFields
    <2>4. e \cup {} = e /\ e \cup {"r14"} = {"r14"}
      OBVIOUS
    <2>5. QED
      BY <2>3, <2>4
  <1> HIDE DEF m, y, z, N, A
  <1>5. /\ e \cup e \cup e \cup ({"a"} \cup Flags) \subseteq Locations \cup {"r14"}
        /\ e \cup {"r14"} \cup e \cup {"c"} \subseteq Locations \cup {"r14"}
        /\ e \cup {"r14"} \cup {"ctx.c"} \cup {"ctx.c"} \subseteq Locations \cup {"r14"}
        /\ "none" \in {"none", "va", "pa"} /\ "pa" \in {"none", "va", "pa"}
    BY PlaceFacts DEF Base
  <1> HIDE DEF e
  <1>6. Straight(c, <<m>>, N, N)
    BY <1>1, <1>2, <1>5, NothingDoes DEF N
  <1>7. Straight(c, <<y>>, A, N)
    BY <1>1, <1>3, <1>5, NothingDoes DEF N
  <1>8. Straight(c, <<z>>, N, N)
    BY <1>1, <1>4, <1>5, NothingDoes DEF N
  <1>9. /\ Straight(c, SaveGp, N, N) /\ Straight(c, LoadGp, N, N)
        /\ Straight(c, PopFlags, N, N) /\ Straight(c, PushFlags, A, N)
    <2>1. N.o = {} /\ N.n = {}
      BY KnownClaims DEF N
    <2>2. /\ \A w : Keeps(N, N, w) /\ Keeps(A, N, w) /\ Drops(N, w)
          /\ \A t, r : Gets(N, N, t, r) /\ Gets(A, N, t, r)
      BY <1>1, <2>1 DEF Keeps, Drops, Gets
    <2>3. QED
      BY <1>1, <2>2, FixedMoves
  <1>10. Straight(c, MmioHelper(h), A, N)
    <2>1. Straight(c, PushFlags \o SaveGp, A, N)
      BY <1>9, StraightConcat
    <2>2. Straight(c, PushFlags \o SaveGp \o <<z>>, A, N)
      BY <1>8, <2>1, StraightConcat
    <2>3. Straight(c, PushFlags \o SaveGp \o <<z>> \o LoadGp, A, N)
      BY <1>9, <2>2, StraightConcat
    <2>4. Straight(c, PushFlags \o SaveGp \o <<z>> \o LoadGp \o PopFlags, A, N)
      BY <1>9, <2>3, StraightConcat
    <2>5. QED
      BY <2>4 DEF MmioHelper, SaveFlags, RestoreFlags, z
  <1>11. Does(c, Site(x, h), A, N)
    BY <1>1, <1>7, <1>10, AlternativesDo DEF Site, Patched, y
  <1> DEFINE s == Site(x, h)
  <1> HIDE DEF x, h, s
  <1>12. Does(c, s \o <<m>>, A, N)
    BY <1>6, <1>11, StraightDoes, DoesConcat DEF s
  <1>13. Does(c, DataEa \o (s \o <<m>>), Start(c), N)
    BY <1>12, DataThenDoes DEF A
  <1>14. EmitMovx(c.form) = DataEa \o (s \o <<m>>)
    BY DEF EmitMovx, s, x, h, m, e
  <1>15. QED
    BY <1>1, <1>13, <1>14 DEF Fulfils

\* What the instructions of the stack and the strings write, and what not.
LEMMA ImagesToo ==
  /\ Here({"sp", "mem"}) = {"ctx.sp", "mem"} /\ Here({"a", "c"}) = {"a", "c"}
  /\ Here({"sp", "a"}) = {"ctx.sp", "a"} /\ Here({"c", "mem"}) = {"c", "mem"}
  /\ Here({"sp", "c"}) = {"ctx.sp", "c"} /\ Here({"a", "mem"}) = {"a", "mem"}
  /\ Here({"a", "sp"}) = {"a", "ctx.sp"} /\ Here({"a", "sp", "mem"}) = {"a", "ctx.sp", "mem"}
  /\ Here({"a", "c", "mem"}) = {"a", "c", "mem"}
  /\ Plain4 \ {"sp", "mem"} = {"a", "c"} /\ Plain4 \ {"sp", "a"} = {"c", "mem"}
  /\ Plain4 \ {"sp", "c"} = {"a", "mem"} /\ Plain4 \ {"c", "mem"} = {"a", "sp"}
  /\ Plain4 \ {"sp"} = {"a", "c", "mem"}
  /\ {"sp", "mem"} \in SUBSET Plain4 /\ {"sp", "a"} \in SUBSET Plain4 /\ {"sp", "c"} \in SUBSET Plain4
  /\ {"c", "mem"} \in SUBSET Plain4 /\ {"a", "c"} \in SUBSET Plain4
  BY ViewFacts DEF Here, Plain4

\* A push: ESP moves, and memory takes the value.
LEMMA PushValueDoes ==
  ASSUME NEW c \in Contracts, paging \in BOOLEAN, c.form \in MovesEsp, NEW old \in SUBSET {"a"}
  PROVE  Does(c, PushValue(old), Start(c), Known({"a", "c"} \cup c.live, {"ctx.sp", "mem"}))
  <1> DEFINE f == c.live
             o == {"a", "c", "mem"} \cup f
             n == {"ctx.sp"}
             m == n \cup InR14New
             q == {"a", "c"} \cup f
             w == {"ctx.sp", "mem"}
             e == {}
             p == {"whole"}
             y == <<Access(Native(old, {}, {"mem"}), "new")>>
  <1>1. /\ f \in SUBSET Flags /\ Flags = {"cf", "zf"} /\ InR14New = {"r14.1", "r14.2"}
        /\ Unmoved(c) = {} /\ Needed(c) \subseteq f
    BY DEF Contracts, Flags, InR14New, Unmoved, Needed
  <1>2. Straight(c, SubCtxEsp, Start(c), Known(o, n))
    <2>1. /\ Base \in SUBSET (Base \cup {"ctx.a"}) /\ e \in SUBSET {"a", "c", "ctx.sp"}
          /\ p \in SUBSET {"whole"} /\ n \in SUBSET {"ctx.sp"} /\ e \in SUBSET {"ctx.sp"}
          /\ n \subseteq Base /\ e \subseteq e
      BY DEF Base
    <2>2. /\ (Base \ n) \cup f = o /\ e \cup n = n /\ Start(c) = Known(Base \cup f \cup p, e)
      BY DEF Base, Start
    <2>3. SubCtxEsp = PushFlags \o <<Clobbering(Native(n, e, n), Flags)>> \o PopFlags
      BY DEF SubCtxEsp
    <2> HIDE DEF e, p, o, f
    <2>4. Straight(c, PushFlags \o <<Clobbering(Native(n, e, {"ctx.sp"}), Flags)>> \o PopFlags,
                   Known(Base \cup f \cup p, e), Known((Base \ {"ctx.sp"}) \cup f, e \cup {"ctx.sp"}))
      BY <1>1, <2>1, EspDoes
    <2>5. QED
      BY <2>2, <2>3, <2>4
  <1>3. Straight(c, LoadEspToR14, Known(o, n), Known(o \cup {Raw}, m))
    <2>1. /\ o \in SUBSET (Kept \ InR14New) /\ n \in SUBSET {"ctx.sp"} /\ e \in SUBSET {"whole"}
          /\ "ctx.sp" \in n /\ o \cup e = o
      BY <1>1, KeptFacts
    <2> HIDE DEF e, o, n
    <2>2. Straight(c, LoadEspToR14, Known(o \cup e, n), Known(o \cup {Raw}, n \cup InR14New))
      BY <2>1, LoadEspDoes
    <2>3. QED
      BY <2>1, <2>2
  <1>4. Does(c, PagingTranslate, Known(o \cup {Raw}, m), Known(o \cup {"pa"}, m))
    <2>1. /\ o \in SUBSET Kept /\ m \in SUBSET Moved /\ {"a", "c", "mem"} \cup Unmoved(c) \cup Needed(c) \subseteq o
      BY <1>1, KeptFacts DEF Moved
    <2> HIDE DEF o, m
    <2>2. QED
      BY <2>1, StackTranslate
  <1>5. Straight(c, y, Known(o \cup {"pa"}, m), Known(q, w))
    <2>1. /\ o \in SUBSET Kept /\ m \in SUBSET Moved /\ "mem" \in {"a", "c", "mem"} /\ old \subseteq o
          /\ "new" \in {"old", "new"} /\ ("new" = "old" => InR14New \subseteq o) /\ InR14New \subseteq m
          /\ q \in SUBSET (o \ {"mem"}) /\ w \in SUBSET (m \cup {"mem"})
      BY <1>1, KeptFacts DEF Moved
    <2> HIDE DEF o, m, q, w
    <2>2. QED
      BY <2>1, StackAccess
  <1> HIDE DEF y, o, n, m, q, w
  <1>6. Does(c, SubCtxEsp \o LoadEspToR14, Start(c), Known(o \cup {Raw}, m))
    BY <1>2, <1>3, StraightConcat, StraightDoes
  <1>7. Does(c, SubCtxEsp \o LoadEspToR14 \o PagingTranslate, Start(c), Known(o \cup {"pa"}, m))
    BY <1>4, <1>6, DoesConcat
  <1>8. Does(c, SubCtxEsp \o LoadEspToR14 \o PagingTranslate \o y, Start(c), Known(q, w))
    BY <1>5, <1>7, DoesConcat, StraightDoes
  <1>9. QED
    BY <1>8 DEF PushValue, y, q, w

\* PUSH.
LEMMA PushFormsDo ==
  ASSUME NEW c \in Contracts, paging \in BOOLEAN, c.form \in {"push", "push_imm"}
  PROVE  /\ c.form = "push" => Fulfils(c, PushValue({"a"}))
         /\ c.form = "push_imm" => Fulfils(c, PushValue({}))
  <1>1. /\ Writes(c.form) = {"sp", "mem"} \cup {} /\ c.form \notin LosesFlags \cup {"movzx16"}
        /\ c.form \in MovesEsp
    BY DEF Writes, Insns, LosesFlags, MovesEsp
  <1>2. Finish(c) = Known(Here(Plain4 \ {"sp", "mem"}) \cup (c.live \ {}), Here({"sp", "mem"}) \cup {})
    <2> DEFINE w == {"sp", "mem"}
               e == {}
    <2>1. w \in SUBSET Plain4 /\ e \in SUBSET Flags /\ Writes(c.form) = w \cup e
      BY <1>1, ImagesToo
    <2> HIDE DEF w, e
    <2>2. Finish(c) = Known(Here(Plain4 \ w) \cup (c.live \ e), Here(w) \cup e)
      BY <1>1, <2>1, FinishOf
    <2>3. QED
      BY <2>2 DEF w, e
  <1>3. Finish(c) = Known({"a", "c"} \cup c.live, {"ctx.sp", "mem"})
    BY <1>2, ImagesToo
  <1>4. {"a"} \in SUBSET {"a"} /\ {} \in SUBSET {"a"}
    OBVIOUS
  <1>5. Does(c, PushValue({"a"}), Start(c), Finish(c)) /\ Does(c, PushValue({}), Start(c), Finish(c))
    BY <1>1, <1>3, <1>4, PushValueDoes
  <1>6. QED
    BY <1>5 DEF Fulfils

\* POP into a register.
LEMMA PopFormDoes ==
  ASSUME NEW c \in Contracts, paging \in BOOLEAN, c.form = "pop"
  PROVE  Fulfils(c, LoadEspToR14 \o PagingTranslate \o <<Access(Native({}, {}, {"a"}), "old")>>
                      \o AddCtxEsp({"ctx.sp"}, {}))
  <1> DEFINE f == c.live
             b == Base \cup f
             o == b \cup InR14New
             k == {"c", "ctx.sp", "mem"}
             q == k \cup f
             n == {"a"}
             e == {}
             p == {"whole"}
             s == {"ctx.sp"}
             y == <<Access(Native(e, {}, {"a"}), "old")>>
             w == {"sp", "a"}
  <1>1. /\ f \in SUBSET Flags /\ Flags = {"cf", "zf"} /\ InR14New = {"r14.1", "r14.2"}
        /\ Needed(c) \subseteq f /\ Unmoved(c) \subseteq {"ctx.sp"} /\ Base = {"a", "c", "ctx.sp", "mem"}
        /\ c.form \notin LosesFlags \cup {"movzx16"}
        /\ Writes(c.form) = w \cup e /\ w \in SUBSET Plain4 /\ e \in SUBSET Flags
    BY ImagesToo DEF Contracts, Flags, InR14New, Unmoved, Needed, Base, LosesFlags, Writes, Insns
  <1>2. Straight(c, LoadEspToR14, Start(c), Known(o \cup {Raw}, e))
    <2>1. /\ b \in SUBSET (Kept \ InR14New) /\ e \in SUBSET {"ctx.sp"} /\ p \in SUBSET {"whole"}
          /\ "ctx.sp" \in b
      BY <1>1, KeptFacts
    <2>2. Start(c) = Known(b \cup p, e)
      BY DEF Start
    <2> HIDE DEF e, b, p
    <2>3. Straight(c, LoadEspToR14, Known(b \cup p, e), Known((b \cup InR14New) \cup {Raw}, e))
      BY <2>1, LoadEspDoes
    <2>4. QED
      BY <2>2, <2>3
  <1>3. Does(c, PagingTranslate, Known(o \cup {Raw}, e), Known(o \cup {"pa"}, e))
    <2>1. /\ o \in SUBSET Kept /\ e \in SUBSET Moved
          /\ {"a", "c", "mem"} \cup Unmoved(c) \cup Needed(c) \subseteq o
      BY <1>1, KeptFacts DEF Moved
    <2> HIDE DEF o, e
    <2>2. QED
      BY <2>1, StackTranslate
  <1>4. Straight(c, y, Known(o \cup {"pa"}, e), Known(q, n))
    <2>1. /\ o \in SUBSET Kept /\ e \in SUBSET Moved /\ "a" \in {"a", "c", "mem"} /\ e \subseteq o
          /\ e \in SUBSET {"a"} /\ "old" \in {"old", "new"} /\ InR14New \subseteq o
          /\ ("old" = "new" => InR14New \subseteq e)
          /\ q \in SUBSET (o \ {"a"}) /\ n \in SUBSET (e \cup {"a"})
      BY <1>1, KeptFacts DEF Moved
    <2> HIDE DEF o, e, q, n
    <2>2. QED
      BY <2>1, StackAccess
  <1>5. Straight(c, AddCtxEsp(s, e), Known(q, n), Known({"c", "mem"} \cup f, {"a", "ctx.sp"}))
    <2>1. /\ k \in SUBSET (Base \cup {"ctx.a"}) /\ n \in SUBSET {"a", "c", "ctx.sp"}
          /\ e \in SUBSET {"whole"} /\ s \in SUBSET {"ctx.sp"} /\ e \in SUBSET {"ctx.sp"}
          /\ s \subseteq k /\ e \subseteq n
      BY <1>1
    <2>2. /\ k \cup f \cup e = q /\ n \cup s = {"a", "ctx.sp"} /\ k \ s = {"c", "mem"}
      OBVIOUS
    <2> HIDE DEF e, f, q, k, n
    <2>3. Straight(c, PushFlags \o <<Clobbering(Native(s, e, {"ctx.sp"}), Flags)>> \o PopFlags,
                   Known(k \cup f \cup e, n), Known((k \ {"ctx.sp"}) \cup f, n \cup {"ctx.sp"}))
      <3> HIDE DEF s
      <3>1. QED
        BY <1>1, <2>1, EspDoes
    <2>4. QED
      BY <2>2, <2>3 DEF AddCtxEsp
  <1>6. Finish(c) = Known({"c", "mem"} \cup f, {"a", "ctx.sp"})
    <2>1. Here(Plain4 \ w) = {"c", "mem"} /\ Here(w) = {"a", "ctx.sp"}
      BY ImagesToo
    <2>2. f \ e = f /\ {"a", "ctx.sp"} \cup e = {"a", "ctx.sp"}
      OBVIOUS
    <2> HIDE DEF w, e
    <2>3. Finish(c) = Known(Here(Plain4 \ w) \cup (c.live \ e), Here(w) \cup e)
      BY <1>1, FinishOf
    <2>4. QED
      BY <2>1, <2>2, <2>3
  <1> DEFINE B == Known({"c", "mem"} \cup f, {"a", "ctx.sp"})
             z == AddCtxEsp(s, e)
  <1> HIDE DEF y, o, n, q, B, z, e
  <1>7. Does(c, LoadEspToR14 \o PagingTranslate, Start(c), Known(o \cup {"pa"}, e))
    BY <1>2, <1>3, StraightDoes, DoesConcat
  <1>8. Does(c, LoadEspToR14 \o PagingTranslate \o y, Start(c), Known(q, n))
    BY <1>4, <1>7, DoesConcat, StraightDoes
  <1>9. Does(c, LoadEspToR14 \o PagingTranslate \o y \o z, Start(c), B)
    <2>1. Straight(c, z, Known(q, n), B)
      BY <1>5 DEF z, B
    <2>2. QED
      BY <1>8, <2>1, DoesConcat, StraightDoes
  <1>10. QED
    BY <1>6, <1>9 DEF Fulfils, y, z, e, B

\* LEAVE.
LEMMA LeaveDoes ==
  ASSUME NEW c \in Contracts, paging \in BOOLEAN, c.form = "leave"
  PROVE  Fulfils(c, EmitLeave)
  <1> DEFINE f == c.live
             o == {"a", "c", "mem"} \cup f
             s == {"ctx.sp"}
             m == s \cup InR14New
             k == {"a", "mem"}
             q == k \cup f
             n == {"c", "ctx.sp"}
             e == {}
             t == {"c"}
             x == <<Native(t, e, s)>>
             y == <<Access(Native(e, {}, t), "new")>>
             w == {"sp", "c"}
  <1>1. /\ f \in SUBSET Flags /\ Flags = {"cf", "zf"} /\ InR14New = {"r14.1", "r14.2"}
        /\ Needed(c) \subseteq f /\ Unmoved(c) = {} /\ Base = {"a", "c", "ctx.sp", "mem"}
        /\ c.form \notin LosesFlags \cup {"movzx16"}
        /\ Writes(c.form) = w \cup e /\ w \in SUBSET Plain4 /\ e \in SUBSET Flags
    BY ImagesToo DEF Contracts, Flags, InR14New, Unmoved, Needed, Base, LosesFlags, Writes, Insns,
                     MovesEsp
  <1>2. Straight(c, x, Start(c), Known(o, s))
    <2> DEFINE A == Start(c)
               B == Known(o, s)
               a == "none"
    <2>1. /\ A \in Claims /\ A.o = Base \cup c.live \cup {"whole"} /\ A.n = {} /\ A.stop = "none"
      BY EndClaims
    <2>2. o \in SUBSET Places /\ s \in SUBSET Places
      BY <1>1, PlaceFacts
    <2>3. B \in Claims /\ B.o = o /\ B.n = s /\ B.stop = "none"
      BY <2>2, KnownClaims
    <2>4. Fields(Native(t, e, s), t, e, s, e, e, a)
      BY ComputingFields
    <2>5. /\ Parts(t) = t /\ Parts(e) = e
      BY DEF Parts
    <2>6. /\ s \cup e \subseteq Locations /\ t \cup e \subseteq Locations \cup {"r14"} /\ e \subseteq s
          /\ a \in {"none", "va", "pa"} /\ (a # "none" => a \in A.o)
      BY PlaceFacts DEF Base
    <2>7. /\ t \subseteq A.o /\ e \subseteq A.n /\ B.stop = A.stop
          /\ B.o \subseteq A.o \ (s \cup e) /\ B.n \subseteq (A.n \ (s \cup e)) \cup s /\ "whole" \notin B.o
      BY <1>1, <2>1, <2>3
    <2> HIDE DEF A, B, a, t, e, s
    <2>8. Computing(Native(t, e, s), t, e, s, e, e, a, A, B)
      BY <2>4, <2>5, <2>6, <2>7 DEF Computing
    <2>9. Straight(c, <<Native(t, e, s)>>, A, B)
      BY <2>1, <2>3, <2>8, ComputingStraight
    <2>10. QED
      BY <2>9 DEF A, B
  <1>3. Straight(c, LoadEspToR14, Known(o, s), Known(o \cup {Raw}, m))
    <2>1. /\ o \in SUBSET (Kept \ InR14New) /\ s \in SUBSET {"ctx.sp"} /\ e \in SUBSET {"whole"}
          /\ "ctx.sp" \in s /\ o \cup e = o
      BY <1>1, KeptFacts
    <2> HIDE DEF e, o, s
    <2>2. Straight(c, LoadEspToR14, Known(o \cup e, s), Known(o \cup {Raw}, s \cup InR14New))
      BY <2>1, LoadEspDoes
    <2>3. QED
      BY <2>1, <2>2
  <1>4. Does(c, PagingTranslate, Known(o \cup {Raw}, m), Known(o \cup {"pa"}, m))
    <2>1. /\ o \in SUBSET Kept /\ m \in SUBSET Moved /\ {"a", "c", "mem"} \cup Unmoved(c) \cup Needed(c) \subseteq o
      BY <1>1, KeptFacts DEF Moved
    <2> HIDE DEF o, m
    <2>2. QED
      BY <2>1, StackTranslate
  <1>5. Straight(c, y, Known(o \cup {"pa"}, m), Known(q, n))
    <2>1. /\ o \in SUBSET Kept /\ m \in SUBSET Moved /\ "c" \in {"a", "c", "mem"} /\ e \subseteq o
          /\ e \in SUBSET {"a"} /\ "new" \in {"old", "new"} /\ InR14New \subseteq m
          /\ ("new" = "old" => InR14New \subseteq o)
          /\ q \in SUBSET (o \ {"c"}) /\ n \in SUBSET (m \cup {"c"})
      BY <1>1, KeptFacts DEF Moved
    <2> HIDE DEF o, e, q, n, m
    <2>2. QED
      BY <2>1, StackAccess
  <1>6. Straight(c, AddCtxEsp(e, s), Known(q, n), Known(q, n))
    <2>1. /\ k \in SUBSET (Base \cup {"ctx.a"}) /\ n \in SUBSET {"a", "c", "ctx.sp"}
          /\ e \in SUBSET {"whole"} /\ s \in SUBSET {"ctx.sp"} /\ e \in SUBSET {"ctx.sp"}
          /\ e \subseteq k /\ s \subseteq n
      BY <1>1
    <2>2. /\ k \cup f \cup e = q /\ n \cup {"ctx.sp"} = n /\ k \ {"ctx.sp"} = k
      OBVIOUS
    <2> HIDE DEF e, f, q, k, n
    <2>3. Straight(c, PushFlags \o <<Clobbering(Native(e, s, {"ctx.sp"}), Flags)>> \o PopFlags,
                   Known(k \cup f \cup e, n), Known((k \ {"ctx.sp"}) \cup f, n \cup {"ctx.sp"}))
      <3> HIDE DEF s
      <3>1. QED
        BY <1>1, <2>1, EspDoes
    <2>4. QED
      BY <2>2, <2>3 DEF AddCtxEsp, q
  <1>7. Finish(c) = Known(q, n)
    <2>1. Here(Plain4 \ w) = k /\ Here(w) = n
      BY ImagesToo
    <2>2. f \ e = f /\ n \cup e = n
      OBVIOUS
    <2> HIDE DEF w, e, n
    <2>3. Finish(c) = Known(Here(Plain4 \ w) \cup (c.live \ e), Here(w) \cup e)
      BY <1>1, FinishOf
    <2>4. QED
      BY <2>1, <2>2, <2>3
  <1> DEFINE z == AddCtxEsp(e, s)
  <1> HIDE DEF x, y, o, n, q, z, e, m, s
  <1>8. Does(c, x \o LoadEspToR14, Start(c), Known(o \cup {Raw}, m))
    BY <1>2, <1>3, StraightConcat, StraightDoes
  <1>9. Does(c, x \o LoadEspToR14 \o PagingTranslate, Start(c), Known(o \cup {"pa"}, m))
    BY <1>4, <1>8, DoesConcat
  <1>10. Does(c, x \o LoadEspToR14 \o PagingTranslate \o y, Start(c), Known(q, n))
    BY <1>5, <1>9, DoesConcat, StraightDoes
  <1>11. Does(c, x \o LoadEspToR14 \o PagingTranslate \o y \o z, Start(c), Known(q, n))
    <2>1. Straight(c, z, Known(q, n), Known(q, n))
      BY <1>6 DEF z
    <2>2. QED
      BY <1>10, <2>1, DoesConcat, StraightDoes
  <1>12. QED
    BY <1>7, <1>11 DEF Fulfils, EmitLeave, x, y, z, e, s

\* A host instruction, and a C function, from claim to claim.
LEMMA NativeDoes ==
  ASSUME NEW c, NEW A \in Claims, NEW B \in Claims, NEW old, NEW new, NEW out,
         out \subseteq Locations, old \cup new \subseteq Locations,
         old \subseteq A.o, new \subseteq A.n,
         B.stop = A.stop, B.o \subseteq A.o \ out, B.n \subseteq (A.n \ out) \cup out
  PROVE  OpStraight(c, Native(old, new, out), A, B) /\ Straight(c, <<Native(old, new, out)>>, A, B)
  <1> DEFINE x == Native(old, new, out)
             e == {}
             a == "none"
  <1>1. Fields(x, old, new, out, e, e, a)
    BY ComputingFields
  <1>2. "r14" \notin old /\ "r14" \notin new
    BY PlaceFacts
  <1>3. Parts(old) = old /\ Parts(new) = new
    BY <1>2 DEF Parts
  <1>4. /\ out \cup e \subseteq Locations /\ old \cup new \subseteq Locations \cup {"r14"}
        /\ e \subseteq out /\ a \in {"none", "va", "pa"} /\ (a # "none" => a \in A.o)
        /\ B.o \subseteq A.o \ (out \cup e) /\ B.n \subseteq (A.n \ (out \cup e)) \cup out
        /\ ("whole" \in B.o => e = {} /\ "r14" \notin old \cup new)
    BY <1>2
  <1> HIDE DEF x, e, a
  <1>5. Computing(x, old, new, out, e, e, a, A, B)
    BY <1>1, <1>3, <1>4 DEF Computing
  <1>6. OpStraight(c, x, A, B)
    BY <1>5, ComputingDoes DEF Computing
  <1>7. Straight(c, <<x>>, A, B)
    BY <1>6, SingleStraight
  <1>8. QED
    BY <1>6, <1>7 DEF x

\* A call of a C function.
LEMMA CallAbsDoes ==
  ASSUME NEW c, NEW A \in Claims, NEW B \in Claims, NEW old, NEW out, NEW lose,
         out \subseteq Locations, old \subseteq Locations \cup {"r14"}, lose \subseteq out,
         Parts(old) \subseteq A.o,
         B.stop = A.stop, B.o \subseteq A.o \ (out \cup {"a", "c", "whole"} \cup Flags),
         B.n \subseteq (A.n \ (out \cup {"a", "c"} \cup Flags)) \cup out
  PROVE  /\ OpStraight(c, CallAbs(old, {}, out, lose), A, B)
         /\ Straight(c, <<CallAbs(old, {}, out, lose)>>, A, B)
  <1> DEFINE e == {}
             x == CallAbs(old, e, out, lose)
             bad == {"a", "c"} \cup Flags
             a == "none"
  <1>1. Fields(x, old, e, out, bad, lose, a)
    BY ComputingFields
  <1>2. Parts(e) = {}
    BY DEF Parts
  <1>3. bad \subseteq Locations
    BY PlaceFacts DEF Base, Flags
  <1>4. /\ out \cup bad \subseteq Locations /\ old \cup e \subseteq Locations \cup {"r14"}
        /\ a \in {"none", "va", "pa"} /\ (a # "none" => a \in A.o) /\ Parts(e) \subseteq A.n
        /\ B.o \subseteq A.o \ (out \cup bad) /\ B.n \subseteq (A.n \ (out \cup bad)) \cup out
        /\ "whole" \notin B.o
    BY <1>2, <1>3
  <1> HIDE DEF x, e, a, bad
  <1>5. Computing(x, old, e, out, bad, lose, a, A, B)
    BY <1>1, <1>4 DEF Computing
  <1>6. OpStraight(c, x, A, B)
    BY <1>5, ComputingDoes DEF Computing
  <1>7. Straight(c, <<x>>, A, B)
    BY <1>6, SingleStraight
  <1>8. QED
    BY <1>6, <1>7 DEF x, e

\* A helper that needs no address.
LEMMA StartHelper ==
  ASSUME NEW c \in Contracts, c.form \in HasDispatch, c.form \notin LosesFlags \cup {"movzx16"},
         NEW w \in SUBSET Plain4, Writes(c.form) = w,
         NEW hold \in SUBSET {"ctx.a", "ctx.c", "ctx.sp", "mem"},
         NEW lose \in SUBSET There(w), NEW out, out = There(w)
  PROVE  Fulfils(c, Helper(Saves(c), CallAbs(hold, {}, out, lose)))
  <1> DEFINE f == c.live
             p == {"whole"}
             e == {}
             h == CallAbs(hold, e, There(w), lose)
             save == Saves(c)
             a == "none"
  <1>1. f \in SUBSET Flags /\ p \in SUBSET {"pa", "va", "whole"} /\ e \in SUBSET {"r14.1", "r14.2"}
    BY DEF Contracts
  <1>2. Fields(h, hold, e, There(w), {"a", "c"} \cup Flags, lose, a)
    BY ComputingFields
  <1>3. /\ hold \subseteq {"ctx.a", "ctx.c", "ctx.sp", "mem"} /\ e \subseteq {"r14"} /\ Parts(e) \subseteq e
        /\ lose \subseteq There(w) /\ a \in {"none", "pa", "va"} /\ (a # "none" => a \in p)
    BY DEF Parts
  <1>4. save \in BOOLEAN /\ (save \/ f = {})
    BY DEF Saves
  <1>5. Start(c) = Known(Base \cup f \cup p, e)
    BY DEF Start
  <1>6. Finish(c) = Left(w, f)
    <2>1. e \in SUBSET Flags /\ Writes(c.form) = w \cup e /\ e = {}
      OBVIOUS
    <2> HIDE DEF e
    <2>2. QED
      BY <2>1, FinishIs
  <1> HIDE DEF f, p, e, h, save, a
  <1>7. Does(c, Helper(save, h), Known(Base \cup f \cup p, e), Left(w, f))
    BY <1>1, <1>2, <1>3, <1>4, HelperDoes
  <1>8. QED
    BY <1>5, <1>6, <1>7 DEF Fulfils, h, save, e

\* The helpers of PUSH, POP and ENTER, PUSHAD and POPAD.
LEMMA StackHelpers ==
  ASSUME NEW c \in Contracts, paging \in BOOLEAN
  PROVE  /\ c.form = "push_sp" => Fulfils(c, Helper(Saves(c), PushEspHelper))
         /\ c.form = "pop_sp" => Fulfils(c, Helper(Saves(c), PopEspHelper))
         /\ c.form = "push_mem" => Fulfils(c, DataEa \o Helper(Saves(c), PushMemHelper))
         /\ c.form = "pop_mem" => Fulfils(c, DataEa \o Helper(Saves(c), PopMemHelper))
         /\ c.form = "enter" => Fulfils(c, EmitEnter(Saves(c)))
         /\ c.form = "pushad" => Fulfils(c, EmitPushad(Saves(c)))
         /\ c.form = "popad" => Fulfils(c, EmitPopad(Saves(c)))
  <1> DEFINE forms == {"push_sp", "pop_sp", "push_mem", "pop_mem", "enter", "pushad", "popad"}
             all == {"ctx.a", "ctx.c", "ctx.sp", "mem"}
  <1>1. c.form \in forms => c.form \in HasDispatch /\ c.form \notin LosesFlags \cup {"movzx16"}
    <2>1. /\ forms \subseteq IntegerClass["push"] \cup IntegerClass["pop"] \cup IntegerClass["frame"]
                               \cup IntegerClass["helper"]
      BY DEF IntegerClass
    <2>2. forms \subseteq HasDispatch
      BY <2>1, Dispatched
    <2>3. QED
      BY <2>2 DEF LosesFlags
  <1>2. /\ Writes("push_sp") = {"sp", "mem"} /\ Writes("pop_sp") = {"sp"}
        /\ Writes("push_mem") = {"sp", "mem"} /\ Writes("pop_mem") = {"sp", "mem"}
        /\ Writes("enter") = {"sp", "c", "mem"} /\ Writes("pushad") = {"sp", "mem"}
        /\ Writes("popad") = {"sp", "a", "c"}
    BY DEF Writes, Insns
  <1> DEFINE Fit(w, hold, out, lose) ==
               /\ w \in SUBSET Plain4 /\ Writes(c.form) = w /\ hold \subseteq all
               /\ out = There(w) /\ lose \subseteq out
  <1>3. ASSUME c.form \in forms, NEW w, NEW hold, NEW out, NEW lose, Fit(w, hold, out, lose)
        PROVE  /\ Fulfils(c, Helper(Saves(c), CallAbs(hold, {}, out, lose)))
               /\ Fulfils(c, DataEa \o Helper(Saves(c), WithPa(CallAbs(hold, {}, out, lose))))
    <2>1. /\ c.form \in HasDispatch /\ c.form \notin LosesFlags \cup {"movzx16"}
          /\ hold \in SUBSET {"ctx.a", "ctx.c", "ctx.sp", "mem"} /\ lose \in SUBSET There(w)
          /\ w \in SUBSET Plain4 /\ Writes(c.form) = w /\ out = There(w)
      BY <1>1, <1>3
    <2>2. Fulfils(c, Helper(Saves(c), CallAbs(hold, {}, out, lose)))
      BY <2>1, StartHelper
    <2>3. Fulfils(c, DataEa \o Helper(Saves(c), WithPa(CallAbs(hold, {}, There(w), lose))))
      BY <2>1, DataHelper
    <2>4. QED
      BY <2>1, <2>2, <2>3
  <1>4. /\ {"sp", "mem"} \in SUBSET Plain4 /\ {"sp"} \in SUBSET Plain4
        /\ {"sp", "c", "mem"} \in SUBSET Plain4 /\ {"sp", "a", "c"} \in SUBSET Plain4
        /\ {} \cup {"ctx.sp"} = {"ctx.sp"} /\ {"ctx.sp"} \cup {"mem"} = {"ctx.sp", "mem"}
        /\ {"ctx.sp"} \cup {"ctx.a", "ctx.c"} = {"ctx.sp", "ctx.a", "ctx.c"}
        /\ {"ctx.a", "ctx.c"} \cup {"ctx.sp"} = {"ctx.a", "ctx.c", "ctx.sp"}
    BY DEF Plain4
  <1>5. c.form \in {"push_sp", "push_mem"} =>
           Fit({"sp", "mem"}, {"ctx.sp"}, {"ctx.sp", "mem"}, {"mem"})
    BY <1>2, <1>4, ImagesAre
  <1>6. c.form = "pop_sp" => Fit({"sp"}, {"ctx.sp"}, {"ctx.sp"}, {"ctx.sp"})
    BY <1>2, <1>4, ImagesAre
  <1>7. c.form = "pop_mem" => Fit({"sp", "mem"}, {"ctx.sp"}, {"ctx.sp", "mem"}, {"mem"})
    BY <1>2, <1>4, ImagesAre
  <1>8. c.form = "enter" => Fit({"sp", "c", "mem"}, {"ctx.sp", "ctx.c"}, {"ctx.sp", "ctx.c", "mem"}, {"mem"})
    BY <1>2, <1>4, ImagesAre
  <1>9. c.form = "pushad" => Fit({"sp", "mem"}, {"ctx.a", "ctx.c", "ctx.sp"}, {"ctx.sp", "mem"}, {"mem"})
    BY <1>2, <1>4, ImagesAre
  <1>10. c.form = "popad" =>
            Fit({"sp", "a", "c"}, {"ctx.sp"}, {"ctx.sp", "ctx.a", "ctx.c"}, {"ctx.a", "ctx.c"})
    BY <1>2, <1>4, ImagesAre
  <1> HIDE DEF Fit
  <1>11. c.form = "push_sp" => Fulfils(c, Helper(Saves(c), PushEspHelper))
    BY <1>3, <1>4, <1>5 DEF PushEspHelper, Pushing
  <1>12. c.form = "pop_sp" => Fulfils(c, Helper(Saves(c), PopEspHelper))
    BY <1>3, <1>6 DEF PopEspHelper
  <1>13. c.form = "push_mem" => Fulfils(c, DataEa \o Helper(Saves(c), PushMemHelper))
    BY <1>3, <1>4, <1>5 DEF PushMemHelper, Pushing
  <1>14. c.form = "pop_mem" => Fulfils(c, DataEa \o Helper(Saves(c), PopMemHelper))
    BY <1>3, <1>4, <1>7 DEF PopMemHelper, Popping
  <1>15. c.form = "enter" => Fulfils(c, EmitEnter(Saves(c)))
    BY <1>3, <1>8 DEF EmitEnter, EnterHelper
  <1>16. c.form = "pushad" => Fulfils(c, EmitPushad(Saves(c)))
    BY <1>3, <1>4, <1>9 DEF EmitPushad, PushadHelper, Pushing
  <1>17. c.form = "popad" => Fulfils(c, EmitPopad(Saves(c)))
    BY <1>3, <1>4, <1>10 DEF EmitPopad, PopadHelper, Popping
  <1>18. QED
    BY <1>11, <1>12, <1>13, <1>14, <1>15, <1>16, <1>17

\* POPFD.
LEMMA PopfdDoes ==
  ASSUME NEW c \in Contracts, LiveOk(c), c.form = "popfd"
  PROVE  Fulfils(c, EmitPopfd)
  <1> DEFINE A0 == Start(c)
             A1 == Known({"ctx.a", "ctx.c", "ctx.sp", "mem"}, {})
             A2 == Known({"ctx.a", "ctx.c", "mem"}, {"ctx.sp", "a"})
             A3 == Known({"ctx.a", "ctx.c", "mem"}, {"ctx.sp", "cf", "zf"})
             A4 == Known({"a", "c", "mem"}, {"ctx.sp", "cf", "zf"})
             p == PopfdHelper
             q == Native({}, {"a"}, Flags)
  <1>1. /\ Writes(c.form) = {"sp"} \cup Flags /\ Insns[c.form].t = {}
        /\ c.form \notin LosesFlags \cup {"movzx16"} /\ Flags = {"cf", "zf"}
    BY DEF Writes, Insns, LosesFlags, Flags
  <1>2. c.live = {}
    BY <1>1, LiveFlags
  <1>3. /\ A0 \in Claims /\ A0.o = Base \cup c.live \cup {"whole"} /\ A0.n = {} /\ A0.stop = "none"
        /\ A0.o = {"a", "c", "ctx.sp", "mem", "whole"}
    BY <1>2, EndClaims DEF Base
  <1>4. /\ A1.o = {"ctx.a", "ctx.c", "ctx.sp", "mem"} /\ A1.n = {} /\ A1.stop = "none"
        /\ A2.o = {"ctx.a", "ctx.c", "mem"} /\ A2.n = {"ctx.sp", "a"} /\ A2.stop = "none"
        /\ A3.o = {"ctx.a", "ctx.c", "mem"} /\ A3.n = {"ctx.sp", "cf", "zf"} /\ A3.stop = "none"
        /\ A4.o = {"a", "c", "mem"} /\ A4.n = {"ctx.sp", "cf", "zf"} /\ A4.stop = "none"
    BY DEF Known
  <1>5. A1 \in Claims /\ A2 \in Claims /\ A3 \in Claims /\ A4 \in Claims
    <2>1. /\ {"ctx.a", "ctx.c", "ctx.sp", "mem"} \in SUBSET Places /\ {} \in SUBSET Places
          /\ {"ctx.a", "ctx.c", "mem"} \in SUBSET Places /\ {"ctx.sp", "a"} \in SUBSET Places
          /\ {"ctx.sp", "cf", "zf"} \in SUBSET Places /\ {"a", "c", "mem"} \in SUBSET Places
      BY PlaceFacts, <1>1 DEF Base
    <2>2. QED
      BY <2>1, KnownClaims
  <1> HIDE DEF A0, A1, A2, A3, A4
  <1>6. Straight(c, SaveGp, A0, A1)
    <2>1. Keeps(A0, A1, {"ctx.a", "ctx.c"}) /\ Gets(A0, A1, "ctx.a", "a") /\ Gets(A0, A1, "ctx.c", "c")
      BY <1>3, <1>4 DEF Keeps, Gets
    <2>2. QED
      BY <1>3, <1>5, <2>1, FixedMoves
  <1>7. OpStraight(c, p, A1, A2)
    <2> DEFINE old == {"ctx.sp"}
               out == {"ctx.sp", "a"}
               lose == {"a"}
    <2>1. /\ out \subseteq Locations /\ old \subseteq Locations \cup {"r14"} /\ lose \subseteq out
          /\ Parts(old) = old
      BY PlaceFacts DEF Base, Parts
    <2>2. /\ A2.o \subseteq A1.o \ (out \cup {"a", "c", "whole"} \cup Flags)
          /\ A2.n \subseteq (A1.n \ (out \cup {"a", "c"} \cup Flags)) \cup out
          /\ A2.stop = A1.stop /\ Parts(old) \subseteq A1.o
      BY <1>1, <1>4, <2>1
    <2>3. {"ctx.sp"} \cup {"a"} = out
      OBVIOUS
    <2> HIDE DEF old, out, lose
    <2>4. OpStraight(c, CallAbs(old, {}, out, lose), A1, A2)
      BY <1>5, <2>1, <2>2, CallAbsDoes
    <2>5. QED
      BY <2>3, <2>4 DEF PopfdHelper, Popping, old, lose
  <1>8. OpStraight(c, q, A2, A3)
    <2> DEFINE e == {}
               new == {"a"}
    <2>1. /\ Flags \subseteq Locations /\ e \cup new \subseteq Locations /\ e \subseteq A2.o /\ new \subseteq A2.n
          /\ A3.stop = A2.stop /\ A3.o \subseteq A2.o \ Flags /\ A3.n \subseteq (A2.n \ Flags) \cup Flags
      BY <1>1, <1>4, PlaceFacts DEF Base
    <2> HIDE DEF e, new
    <2>2. OpStraight(c, Native(e, new, Flags), A2, A3)
      BY <1>5, <2>1, NativeDoes
    <2>3. QED
      BY <2>2 DEF e, new
  <1>9. Straight(c, LoadGp, A3, A4)
    <2>1. Keeps(A3, A4, {"a", "c"}) /\ Gets(A3, A4, "a", "ctx.a") /\ Gets(A3, A4, "c", "ctx.c")
      BY <1>4 DEF Keeps, Gets
    <2>2. QED
      BY <1>5, <2>1, FixedMoves
  <1>10. Finish(c) = A4
    <2> DEFINE w == {"sp"}
    <2>1. w \in SUBSET Plain4 /\ Flags \in SUBSET Flags
      BY DEF Plain4
    <2>2. /\ Here(Plain4 \ w) = {"a", "c", "mem"} /\ Here(w) = {"ctx.sp"}
      BY ImagesToo, ImagesAre
    <2>3. {} \ Flags = {}
      OBVIOUS
    <2> HIDE DEF w
    <2>4. Finish(c) = Known(Here(Plain4 \ w) \cup (c.live \ Flags), Here(w) \cup Flags)
      BY <1>1, <2>1, FinishOf DEF w
    <2>5. {"a", "c", "mem"} \cup {} = {"a", "c", "mem"} /\ {"ctx.sp"} \cup Flags = {"ctx.sp", "cf", "zf"}
      BY <1>1
    <2>6. QED
      BY <1>2, <2>2, <2>3, <2>4, <2>5 DEF A4
  <1> HIDE DEF p, q
  <1>11. Straight(c, <<p, q>>, A1, A3)
    BY <1>5, <1>7, <1>8, PairStraight
  <1>12. Straight(c, SaveGp \o <<p, q>>, A0, A3)
    BY <1>6, <1>11, StraightConcat
  <1>13. Straight(c, SaveGp \o <<p, q>> \o LoadGp, A0, A4)
    BY <1>9, <1>12, StraightConcat
  <1>14. QED
    BY <1>10, <1>13, StraightDoes DEF Fulfils, EmitPopfd, p, q, A0

\* XLATB: the flags are in s.
LEMMA XlatbBody ==
  ASSUME NEW c \in Contracts, NEW s \in SUBSET {"st.1", "st.2"}, NEW f \in SUBSET Flags
  PROVE  Straight(c, SaveGp \o <<XlatbHelper, Native({"ctx.a"}, {"a"}, {"ctx.a"})>> \o LoadGp,
                  Known(Base \cup f \cup {"whole"} \cup s, {}), Left({"a"}, s))
  <1> DEFINE A0 == Known(Base \cup f \cup {"whole"} \cup s, {})
             A1 == Known({"ctx.a", "ctx.c", "ctx.sp", "mem"} \cup s, {})
             A2 == Known({"ctx.a", "ctx.c", "ctx.sp", "mem"} \cup s, {"a"})
             A3 == Known({"ctx.c", "ctx.sp", "mem"} \cup s, {"ctx.a"})
             A4 == Known({"c", "ctx.sp", "mem"} \cup s, {"a"})
             p == XlatbHelper
             q == Native({"ctx.a"}, {"a"}, {"ctx.a"})
  <1>1. Flags = {"cf", "zf"} /\ Base = {"a", "c", "ctx.sp", "mem"}
    BY DEF Flags, Base
  <1>2. A4 = Left({"a"}, s)
    <2>1. Plain4 \ {"a"} = {"c", "sp", "mem"} /\ Here({"c", "sp", "mem"}) = {"c", "ctx.sp", "mem"}
      BY ViewFacts DEF Plain4, Here
    <2>2. QED
      BY <2>1, ImagesAre DEF Left
  <1>3. /\ A0.o = Base \cup f \cup {"whole"} \cup s /\ A0.n = {} /\ A0.stop = "none"
        /\ A1.o = {"ctx.a", "ctx.c", "ctx.sp", "mem"} \cup s /\ A1.n = {} /\ A1.stop = "none"
        /\ A2.o = {"ctx.a", "ctx.c", "ctx.sp", "mem"} \cup s /\ A2.n = {"a"} /\ A2.stop = "none"
        /\ A3.o = {"ctx.c", "ctx.sp", "mem"} \cup s /\ A3.n = {"ctx.a"} /\ A3.stop = "none"
        /\ A4.o = {"c", "ctx.sp", "mem"} \cup s /\ A4.n = {"a"} /\ A4.stop = "none"
    BY DEF Known
  <1>4. A0 \in Claims /\ A1 \in Claims /\ A2 \in Claims /\ A3 \in Claims /\ A4 \in Claims
    <2>1. /\ Base \cup f \cup {"whole"} \cup s \in SUBSET Places
          /\ {"ctx.a", "ctx.c", "ctx.sp", "mem"} \cup s \in SUBSET Places
          /\ {"ctx.c", "ctx.sp", "mem"} \cup s \in SUBSET Places
          /\ {"c", "ctx.sp", "mem"} \cup s \in SUBSET Places
          /\ {} \in SUBSET Places /\ {"a"} \in SUBSET Places /\ {"ctx.a"} \in SUBSET Places
      BY PlaceFacts, <1>1 DEF Extra
    <2>2. QED
      BY <2>1, KnownClaims
  <1> HIDE DEF A0, A1, A2, A3, A4
  <1>5. Straight(c, SaveGp, A0, A1)
    <2>1. Keeps(A0, A1, {"ctx.a", "ctx.c"}) /\ Gets(A0, A1, "ctx.a", "a") /\ Gets(A0, A1, "ctx.c", "c")
      BY <1>1, <1>3 DEF Keeps, Gets
    <2>2. QED
      BY <1>4, <2>1, FixedMoves
  <1>6. OpStraight(c, p, A1, A2)
    <2> DEFINE old == {"ctx.a", "ctx.c"}
               out == {"a"}
    <2>1. /\ out \subseteq Locations /\ old \subseteq Locations \cup {"r14"} /\ Parts(old) = old
      BY PlaceFacts DEF Base, Parts
    <2>2. /\ A2.o \subseteq A1.o \ (out \cup {"a", "c", "whole"} \cup Flags)
          /\ A2.n \subseteq (A1.n \ (out \cup {"a", "c"} \cup Flags)) \cup out
          /\ A2.stop = A1.stop /\ Parts(old) \subseteq A1.o
      BY <1>1, <1>3, <2>1
    <2> HIDE DEF old, out
    <2>3. OpStraight(c, CallAbs(old, {}, out, out), A1, A2)
      BY <1>4, <2>1, <2>2, CallAbsDoes
    <2>4. QED
      BY <2>3 DEF XlatbHelper, old, out
  <1>7. OpStraight(c, q, A2, A3)
    <2> DEFINE old == {"ctx.a"}
               new == {"a"}
    <2>1. /\ old \subseteq Locations /\ old \cup new \subseteq Locations /\ old \subseteq A2.o /\ new \subseteq A2.n
          /\ A3.stop = A2.stop /\ A3.o \subseteq A2.o \ old /\ A3.n \subseteq (A2.n \ old) \cup old
      BY <1>1, <1>3, PlaceFacts
    <2> HIDE DEF old, new
    <2>2. OpStraight(c, Native(old, new, old), A2, A3)
      BY <1>4, <2>1, NativeDoes
    <2>3. QED
      BY <2>2 DEF old, new
  <1>8. Straight(c, LoadGp, A3, A4)
    <2>1. Keeps(A3, A4, {"a", "c"}) /\ Gets(A3, A4, "a", "ctx.a") /\ Gets(A3, A4, "c", "ctx.c")
      BY <1>3 DEF Keeps, Gets
    <2>2. QED
      BY <1>4, <2>1, FixedMoves
  <1> HIDE DEF p, q
  <1>9. Straight(c, <<p, q>>, A1, A3)
    BY <1>4, <1>6, <1>7, PairStraight
  <1>10. Straight(c, SaveGp \o <<p, q>>, A0, A3)
    BY <1>5, <1>9, StraightConcat
  <1>11. Straight(c, SaveGp \o <<p, q>> \o LoadGp, A0, A4)
    BY <1>8, <1>10, StraightConcat
  <1>12. QED
    BY <1>2, <1>11 DEF p, q, A0

\* XLATB.
LEMMA XlatbDoes ==
  ASSUME NEW c \in Contracts, c.form = "xlatb"
  PROVE  Fulfils(c, EmitXlatb(Saves(c)))
  <1> DEFINE f == c.live
             e == {}
             w == {"a"}
             p == {"whole"}
             x == SaveGp \o <<XlatbHelper, Native({"ctx.a"}, {"a"}, {"ctx.a"})>> \o LoadGp
             s == Saved(f)
  <1>1. c.form \in HasDispatch
    <2>1. c.form \in IntegerClass["helper"]
      BY DEF IntegerClass
    <2>2. QED
      BY <2>1, Dispatched
  <1>2. /\ f \in SUBSET Flags /\ s \in SUBSET {"st.1", "st.2"} /\ e \in SUBSET {"st.1", "st.2"}
        /\ w \in SUBSET Plain4 /\ e \in SUBSET Flags /\ Writes(c.form) = w \cup e
        /\ c.form \notin LosesFlags \cup {"movzx16"}
    BY DEF Contracts, Saved, Plain4, Writes, Insns, LosesFlags
  <1>3. Start(c) = Known(Base \cup f \cup p, e)
    BY DEF Start
  <1>4. Finish(c) = Left(w, f)
    <2>1. e = {}
      OBVIOUS
    <2> HIDE DEF e, w
    <2>2. QED
      BY <1>2, <2>1, FinishIs
  <1>5. Straight(c, x, Known(Base \cup f \cup p \cup s, e), Left(w, s))
    BY <1>2, XlatbBody
  <1>6. Straight(c, x, Known(Base \cup f \cup p, e), Left(w, e))
    <2>1. Straight(c, x, Known(Base \cup f \cup p \cup e, {}), Left({"a"}, e))
      <3> HIDE DEF e, f, s
      <3>1. QED
        BY <1>2, XlatbBody
    <2>2. Base \cup f \cup p \cup e = Base \cup f \cup p
      OBVIOUS
    <2>3. QED
      BY <2>1, <2>2
  <1>7. Straight(c, PushFlags, Known(Base \cup f \cup p, e), Known(Base \cup f \cup p \cup s, e))
    <2>1. p \in SUBSET {"pa", "va", "whole"} /\ e \in SUBSET {"r14.1", "r14.2"}
      OBVIOUS
    <2> HIDE DEF p, e, f
    <2>2. QED
      BY <1>2, <2>1, PushDoes
  <1>8. Straight(c, PopFlags, Left(w, s), Left(w, f))
    <2> HIDE DEF f, w
    <2>1. QED
      BY <1>2, PopDoes DEF s
  <1> HIDE DEF x, f, w, s, e, p
  <1>9. CASE Saves(c)
    <2>1. Straight(c, PushFlags \o x, Start(c), Left(w, s))
      BY <1>3, <1>5, <1>7, StraightConcat
    <2>2. Straight(c, PushFlags \o x \o PopFlags, Start(c), Finish(c))
      BY <1>4, <1>8, <2>1, StraightConcat
    <2>3. EmitXlatb(Saves(c)) = PushFlags \o x \o PopFlags
      BY <1>9 DEF EmitXlatb, Saving, SaveFlags, RestoreFlags, x
    <2>4. QED
      BY <2>2, <2>3, StraightDoes DEF Fulfils
  <1>10. CASE ~Saves(c)
    <2>1. f = e
      BY <1>1, <1>10 DEF Saves, f, e
    <2>2. EmitXlatb(Saves(c)) = x
      BY <1>10 DEF EmitXlatb, Saving, x
    <2>3. Straight(c, x, Start(c), Finish(c))
      BY <1>3, <1>4, <1>6, <2>1
    <2>4. QED
      BY <2>2, <2>3, StraightDoes DEF Fulfils
  <1>11. QED
    BY <1>9, <1>10

\* PUSHFD: both flags are alive.
LEMMA PushfdDoes ==
  ASSUME NEW c \in Contracts, LiveOk(c), c.form = "pushfd"
  PROVE  Fulfils(c, EmitPushfd(Saves(c)))
  <1> DEFINE st == {"st.1", "st.2"}
             rr == {"r14.1", "r14.2"}
             fl == {"cf", "zf"}
             bs == {"a", "c", "ctx.sp", "mem"}
             A0 == Start(c)
             A1 == Known(bs \cup fl \cup st, {})
             A2 == Known(bs \cup fl \cup rr, {})
             A3 == Known(bs \cup fl \cup rr \cup st, {})
             A4 == Known({"ctx.a", "ctx.c", "ctx.sp", "mem"} \cup rr \cup st, {})
             A5 == Known({"ctx.a", "ctx.c"} \cup st, {"ctx.sp", "mem"})
             A6 == Known({"a", "c"} \cup st, {"ctx.sp", "mem"})
             A7 == Known({"a", "c"} \cup fl, {"ctx.sp", "mem"})
             p == PushfdHelper
  <1>1. /\ Writes(c.form) = {"sp", "mem"} \cup {} /\ Insns[c.form].t = Flags
        /\ c.form \notin LosesFlags \cup {"movzx16"} /\ Flags = fl /\ Base = bs
    BY DEF Writes, Insns, LosesFlags, Flags, Base
  <1>2. c.live = fl /\ Saves(c)
    <2>1. c.live = fl
      BY <1>1 DEF LiveOk, Contracts
    <2>2. c.form \in IntegerClass["helper"]
      BY DEF IntegerClass
    <2>3. c.form \in HasDispatch
      BY <2>2, Dispatched
    <2>4. QED
      BY <2>1, <2>3 DEF Saves
  <1>3. /\ A0 \in Claims /\ A0.o = bs \cup fl \cup {"whole"} /\ A0.n = {} /\ A0.stop = "none"
    BY <1>1, <1>2, EndClaims
  <1>4. /\ A1.o = bs \cup fl \cup st /\ A1.n = {} /\ A1.stop = "none"
        /\ A2.o = bs \cup fl \cup rr /\ A2.n = {} /\ A2.stop = "none"
        /\ A3.o = bs \cup fl \cup rr \cup st /\ A3.n = {} /\ A3.stop = "none"
        /\ A4.o = {"ctx.a", "ctx.c", "ctx.sp", "mem"} \cup rr \cup st /\ A4.n = {} /\ A4.stop = "none"
        /\ A5.o = {"ctx.a", "ctx.c"} \cup st /\ A5.n = {"ctx.sp", "mem"} /\ A5.stop = "none"
        /\ A6.o = {"a", "c"} \cup st /\ A6.n = {"ctx.sp", "mem"} /\ A6.stop = "none"
        /\ A7.o = {"a", "c"} \cup fl /\ A7.n = {"ctx.sp", "mem"} /\ A7.stop = "none"
    BY DEF Known
  <1>5. /\ A1 \in Claims /\ A2 \in Claims /\ A3 \in Claims /\ A4 \in Claims
        /\ A5 \in Claims /\ A6 \in Claims /\ A7 \in Claims
    <2>1. /\ bs \cup fl \cup st \in SUBSET Places /\ bs \cup fl \cup rr \in SUBSET Places
          /\ bs \cup fl \cup rr \cup st \in SUBSET Places
          /\ {"ctx.a", "ctx.c", "ctx.sp", "mem"} \cup rr \cup st \in SUBSET Places
          /\ {"ctx.a", "ctx.c"} \cup st \in SUBSET Places /\ {"ctx.sp", "mem"} \in SUBSET Places
          /\ {"a", "c"} \cup st \in SUBSET Places /\ {"a", "c"} \cup fl \in SUBSET Places
          /\ {} \in SUBSET Places
      BY PlaceFacts, <1>1 DEF Extra
    <2> HIDE DEF st, rr, fl, bs
    <2>2. QED
      BY <2>1, KnownClaims
  <1> HIDE DEF A0, A1, A2, A3, A4, A5, A6, A7
  <1>6. Straight(c, PushFlags, A0, A1) /\ Straight(c, PushFlags, A2, A3)
    <2>1. Keeps(A0, A1, st) /\ Gets(A0, A1, "st.1", "cf") /\ Gets(A0, A1, "st.2", "zf")
      BY <1>3, <1>4 DEF Keeps, Gets
    <2>2. Keeps(A2, A3, st) /\ Gets(A2, A3, "st.1", "cf") /\ Gets(A2, A3, "st.2", "zf")
      BY <1>4 DEF Keeps, Gets
    <2>3. QED
      BY <1>3, <1>5, <2>1, <2>2, FixedMoves
  <1>7. Straight(c, <<Op("pop_r14")>>, A1, A2)
    <2>1. /\ Keeps(A1, A2, InR14) /\ Drops(A2, st) /\ NewR14(A2)
          /\ Gets(A1, A2, "r14.1", "st.1") /\ Gets(A1, A2, "r14.2", "st.2")
      BY <1>4 DEF Keeps, Gets, Drops, NewR14, InR14
    <2>2. QED
      BY <1>5, <2>1, R14Moves
  <1>8. Straight(c, SaveGp, A3, A4)
    <2>1. Keeps(A3, A4, {"ctx.a", "ctx.c"}) /\ Gets(A3, A4, "ctx.a", "a") /\ Gets(A3, A4, "ctx.c", "c")
      BY <1>4 DEF Keeps, Gets
    <2>2. QED
      BY <1>5, <2>1, FixedMoves
  <1>9. Straight(c, <<p>>, A4, A5)
    <2> DEFINE old == {"r14"} \cup {"ctx.sp"}
               out == {"ctx.sp", "mem"}
               lose == {"mem"}
    <2>1. /\ out \subseteq Locations /\ old \subseteq Locations \cup {"r14"} /\ lose \subseteq out
          /\ Parts(old) = {"ctx.sp", "r14.1", "r14.2"}
      BY PlaceFacts DEF Base, Parts
    <2>2. /\ A5.o \subseteq A4.o \ (out \cup {"a", "c", "whole"} \cup Flags)
          /\ A5.n \subseteq (A4.n \ (out \cup {"a", "c"} \cup Flags)) \cup out
          /\ A5.stop = A4.stop /\ Parts(old) \subseteq A4.o
      BY <1>1, <1>4, <2>1
    <2> HIDE DEF old, out, lose
    <2>3. Straight(c, <<CallAbs(old, {}, out, lose)>>, A4, A5)
      BY <1>5, <2>1, <2>2, CallAbsDoes
    <2>4. QED
      BY <2>3 DEF PushfdHelper, Pushing, old, out, lose
  <1>10. Straight(c, LoadGp, A5, A6)
    <2>1. Keeps(A5, A6, {"a", "c"}) /\ Gets(A5, A6, "a", "ctx.a") /\ Gets(A5, A6, "c", "ctx.c")
      BY <1>4 DEF Keeps, Gets
    <2>2. QED
      BY <1>5, <2>1, FixedMoves
  <1>11. Straight(c, PopFlags, A6, A7)
    <2>1. /\ Keeps(A6, A7, Flags) /\ Drops(A7, {"st.1", "st.2", "whole"})
          /\ Gets(A6, A7, "cf", "st.1") /\ Gets(A6, A7, "zf", "st.2")
      BY <1>1, <1>4 DEF Keeps, Gets, Drops
    <2>2. QED
      BY <1>5, <2>1, FixedMoves
  <1>12. Finish(c) = A7
    <2> DEFINE w == {"sp", "mem"}
               e == {}
    <2>1. w \in SUBSET Plain4 /\ e \in SUBSET Flags
      BY DEF Plain4
    <2>2. /\ Here(Plain4 \ w) = {"a", "c"} /\ Here(w) = {"ctx.sp", "mem"}
      BY ImagesToo
    <2>3. fl \ e = fl /\ {"ctx.sp", "mem"} \cup e = {"ctx.sp", "mem"}
      OBVIOUS
    <2> HIDE DEF w, e
    <2>4. Finish(c) = Known(Here(Plain4 \ w) \cup (c.live \ e), Here(w) \cup e)
      BY <1>1, <2>1, FinishOf DEF w, e
    <2>5. QED
      BY <1>2, <2>2, <2>3, <2>4 DEF A7
  <1> HIDE DEF p
  <1>13. Straight(c, FlagsToR14, A0, A2)
    BY <1>6, <1>7, StraightConcat DEF FlagsToR14
  <1> DEFINE x == SaveGp \o <<p>> \o LoadGp
  <1>14. Straight(c, x, A3, A6)
    <2>1. Straight(c, SaveGp \o <<p>>, A3, A5)
      BY <1>8, <1>9, StraightConcat
    <2>2. QED
      BY <1>10, <2>1, StraightConcat
  <1> HIDE DEF x
  <1>15. Straight(c, PushFlags \o x \o PopFlags, A2, A7)
    <2>1. Straight(c, PushFlags \o x, A2, A6)
      BY <1>6, <1>14, StraightConcat
    <2>2. QED
      BY <1>11, <2>1, StraightConcat
  <1>16. Helper(Saves(c), p) = PushFlags \o x \o PopFlags
    BY <1>2 DEF Helper, Saving, SaveFlags, RestoreFlags, x
  <1>17. Straight(c, FlagsToR14 \o Helper(Saves(c), p), A0, A7)
    BY <1>13, <1>15, <1>16, StraightConcat
  <1>18. QED
    BY <1>12, <1>17, StraightDoes DEF Fulfils, EmitPushfd, p, A0

\* The string instructions that write no flags: the flags are in R14.
LEMMA MovingDoes ==
  ASSUME NEW c \in Contracts, c.form \notin LosesFlags \cup {"movzx16"},
         NEW w \in SUBSET Plain4, Writes(c.form) = w,
         NEW hold \in SUBSET {"ctx.a", "ctx.c", "ctx.sp", "mem"},
         NEW lose \in SUBSET There(w), NEW out, out = There(w)
  PROVE  Fulfils(c, FlagsToR14 \o SaveGp \o <<CallAbs(hold, {}, out, lose)>> \o LoadGp \o R14ToFlags)
  <1> DEFINE f == c.live
             e == {}
             p == {"whole"}
             s == Saved(f)
             r == (IF "cf" \in f THEN {"r14.1"} ELSE {}) \cup (IF "zf" \in f THEN {"r14.2"} ELSE {})
             h == CallAbs(hold, e, There(w), lose)
             A0 == Known(Base \cup f \cup p, e)
             A1 == Known(Base \cup f \cup p \cup s, e)
             A2 == Known(Base \cup r, e)
             A3 == Left(w, r)
             A4 == Left(w, s)
             A5 == Left(w, f)
             a == "none"
  <1>1. /\ f \in SUBSET Flags /\ s \in SUBSET {"st.1", "st.2"} /\ r \in SUBSET {"r14.1", "r14.2"}
        /\ Flags = {"cf", "zf"} /\ Base = {"a", "c", "ctx.sp", "mem"}
    BY DEF Contracts, Saved, Flags, Base
  <1>2. A0 = Start(c) /\ A5 = Finish(c)
    <2>1. A0 = Start(c)
      BY DEF Start
    <2>2. e \in SUBSET Flags /\ Writes(c.form) = w \cup e /\ e = {}
      OBVIOUS
    <2> HIDE DEF e, f
    <2>3. Finish(c) = Left(w, c.live)
      BY <2>2, FinishIs
    <2>4. QED
      BY <2>1, <2>3 DEF f
  <1>3. /\ Here(w) \in SUBSET Base /\ Here(Plain4 \ w) \in SUBSET Base
    BY HereSplit
  <1>4. A1 \in Claims /\ A2 \in Claims /\ A3 \in Claims /\ A4 \in Claims
    <2>1. /\ Base \cup f \cup p \cup s \in SUBSET Places /\ Base \cup r \in SUBSET Places
          /\ e \in SUBSET Places /\ Here(w) \in SUBSET Places
          /\ Here(Plain4 \ w) \cup r \in SUBSET Places /\ Here(Plain4 \ w) \cup s \in SUBSET Places
      BY <1>1, <1>3, PlaceFacts DEF Extra
    <2> HIDE DEF e, r, s, f, p
    <2>2. QED
      BY <2>1, KnownClaims DEF Left
  <1>5. /\ A1.o = Base \cup f \cup p \cup s /\ A1.n = e /\ A1.stop = "none"
        /\ A2.o = Base \cup r /\ A2.n = e /\ A2.stop = "none"
        /\ A3.o = Here(Plain4 \ w) \cup r /\ A3.n = Here(w) /\ A3.stop = "none"
        /\ A4.o = Here(Plain4 \ w) \cup s /\ A4.n = Here(w) /\ A4.stop = "none"
    BY DEF Known, Left
  <1>6. Straight(c, PushFlags, A0, A1)
    <2>1. p \in SUBSET {"pa", "va", "whole"} /\ e \in SUBSET {"r14.1", "r14.2"}
      OBVIOUS
    <2> HIDE DEF p, e, f
    <2>2. QED
      BY <1>1, <2>1, PushDoes
  <1>7. Straight(c, SaveGp \o <<h>> \o LoadGp, A2, A3)
    <2>1. /\ e \in SUBSET Flags /\ e \in SUBSET {"pa", "va", "whole"} /\ e \in SUBSET {"r14.1", "r14.2"}
          /\ r \in SUBSET {"st.1", "st.2", "r14.1", "r14.2"}
          /\ e \subseteq {"r14"} /\ Parts(e) \subseteq e
          /\ a \in {"none", "pa", "va"} /\ (a # "none" => a \in e)
      BY <1>1 DEF Parts
    <2>2. Fields(h, hold, e, There(w), {"a", "c"} \cup Flags, lose, a)
      BY ComputingFields
    <2>3. Base \cup e \cup e \cup r = Base \cup r
      OBVIOUS
    <2> HIDE DEF e, r, h, a
    <2>4. Straight(c, SaveGp \o <<h>> \o LoadGp, Known(Base \cup e \cup e \cup r, e), Left(w, r))
      BY <2>1, <2>2, CallDoes
    <2>5. QED
      BY <2>3, <2>4
  <1>8. Straight(c, PopFlags, A4, A5)
    <2> HIDE DEF f
    <2>1. QED
      BY <1>1, PopDoes DEF s
  <1>9. Straight(c, <<Op("pop_r14")>>, A1, A2)
    <2> HIDE DEF A1, A2, A3, A4, A5
    <2>1. /\ Keeps(A1, A2, InR14) /\ Drops(A2, {"st.1", "st.2"}) /\ NewR14(A2)
          /\ Gets(A1, A2, "r14.1", "st.1") /\ Gets(A1, A2, "r14.2", "st.2")
      BY <1>1, <1>5 DEF Keeps, Gets, Drops, NewR14, InR14, Saved
    <2>2. QED
      BY <1>4, <2>1, R14Moves
  <1>10. Straight(c, <<Op("push_r14")>>, A3, A4)
    <2> HIDE DEF A1, A2, A3, A4, A5
    <2>1. ("st.1" \in s => "r14.1" \in r) /\ ("st.2" \in s => "r14.2" \in r)
      BY <1>1 DEF Saved
    <2>2. \A l \in Base : l \notin {"st.1", "st.2"}
      BY <1>1
    <2> HIDE DEF s, r, f
    <2>3. Keeps(A3, A4, {"st.1", "st.2"})
      BY <1>1, <1>5 DEF Keeps
    <2>4. "st.1" \notin Here(w) /\ "st.2" \notin Here(w)
      BY <1>3, <2>2
    <2>5. "st.1" \notin Here(Plain4 \ w) /\ "st.2" \notin Here(Plain4 \ w)
      BY <1>3, <2>2
    <2>6. Gets(A3, A4, "st.1", "r14.1") /\ Gets(A3, A4, "st.2", "r14.2")
      BY <1>5, <2>1, <2>4, <2>5 DEF Gets
    <2>7. QED
      BY <1>4, <2>3, <2>6, R14Moves
  <1> HIDE DEF A0, A1, A2, A3, A4, A5
  <1>11. Straight(c, FlagsToR14, A0, A2)
    BY <1>6, <1>9, StraightConcat DEF FlagsToR14
  <1>12. Straight(c, R14ToFlags, A3, A5)
    BY <1>8, <1>10, StraightConcat DEF R14ToFlags
  <1>13. Straight(c, FlagsToR14 \o (SaveGp \o <<h>> \o LoadGp), A0, A3)
    BY <1>7, <1>11, StraightConcat
  <1>14. FlagsToR14 \o (SaveGp \o <<h>> \o LoadGp) = FlagsToR14 \o SaveGp \o <<h>> \o LoadGp
    <2> DEFINE ops == {Op("pushfq"), Op("pop_r14"), Op("save_gp"), Op("load_gp"), h}
    <2>1. /\ FlagsToR14 \in Seq(ops) /\ SaveGp \in Seq(ops) /\ <<h>> \in Seq(ops) /\ LoadGp \in Seq(ops)
      <3> DEFINE z == <<Op("pop_r14")>>
      <3>1. /\ PushFlags \in Seq(ops) /\ z \in Seq(ops)
            /\ SaveGp \in Seq(ops) /\ <<h>> \in Seq(ops) /\ LoadGp \in Seq(ops)
        <4> HIDE DEF h
        <4>1. QED
          BY DEF PushFlags, SaveGp, LoadGp
      <3> HIDE DEF ops, z
      <3>2. PushFlags \o z \in Seq(ops)
        BY <3>1
      <3>3. QED
        BY <3>1, <3>2 DEF FlagsToR14, z
    <2> HIDE DEF ops, h
    <2>2. SaveGp \o <<h>> \in Seq(ops)
      BY <2>1
    <2>3. (FlagsToR14 \o (SaveGp \o <<h>>)) \o LoadGp = FlagsToR14 \o ((SaveGp \o <<h>>) \o LoadGp)
      BY <2>1, <2>2, ConcatAssoc
    <2>4. (FlagsToR14 \o SaveGp) \o <<h>> = FlagsToR14 \o (SaveGp \o <<h>>)
      BY <2>1, ConcatAssoc
    <2>5. QED
      BY <2>3, <2>4
  <1>15. Straight(c, FlagsToR14 \o SaveGp \o <<h>> \o LoadGp \o R14ToFlags, A0, A5)
    BY <1>12, <1>13, <1>14, StraightConcat
  <1>16. QED
    BY <1>2, <1>15, StraightDoes DEF Fulfils, h, e

\* SCAS and CMPS: the flags that are captured are not the ones that come back.
LEMMA ComparingDoes ==
  ASSUME NEW c \in Contracts, LiveOk(c), c.form \in {"cmps", "scas"}, NEW hold \in SUBSET {"ctx.a"}
  PROVE  Fulfils(c, FlagsToR14 \o SaveGp \o <<Comparing(hold)>> \o LoadGp \o R14ToFlags)
  <1> DEFINE bs == {"a", "c", "ctx.sp", "mem"}
             k == {"a", "ctx.sp", "mem"}
             A0 == Start(c)
             A1 == Known(bs, {})
             A2 == Known({"ctx.a", "ctx.c", "ctx.sp", "mem"}, {})
             A3 == Known({"ctx.a", "ctx.sp", "mem"}, {"ctx.c", "r14.1", "r14.2"})
             A4 == Known(k, {"c", "r14.1", "r14.2"})
             A5 == Known(k, {"c", "st.1", "st.2"})
             A6 == Known(k, {"c", "cf", "zf"})
             h == Comparing(hold)
  <1>1. /\ Writes(c.form) = {"c"} \cup Flags /\ Insns[c.form].t = {}
        /\ c.form \notin LosesFlags \cup {"movzx16"} /\ Flags = {"cf", "zf"} /\ Base = bs
    BY DEF Writes, Insns, LosesFlags, Flags, Base
  <1>2. c.live = {}
    BY <1>1, LiveFlags
  <1>3. /\ A0 \in Claims /\ A0.o = bs \cup {"whole"} /\ A0.n = {} /\ A0.stop = "none"
    BY <1>1, <1>2, EndClaims
  <1>4. /\ A1.o = bs /\ A1.n = {} /\ A1.stop = "none"
        /\ A2.o = {"ctx.a", "ctx.c", "ctx.sp", "mem"} /\ A2.n = {} /\ A2.stop = "none"
        /\ A3.o = {"ctx.a", "ctx.sp", "mem"} /\ A3.n = {"ctx.c", "r14.1", "r14.2"} /\ A3.stop = "none"
        /\ A4.o = k /\ A4.n = {"c", "r14.1", "r14.2"} /\ A4.stop = "none"
        /\ A5.o = k /\ A5.n = {"c", "st.1", "st.2"} /\ A5.stop = "none"
        /\ A6.o = k /\ A6.n = {"c", "cf", "zf"} /\ A6.stop = "none"
    BY DEF Known
  <1>5. /\ A1 \in Claims /\ A2 \in Claims /\ A3 \in Claims /\ A4 \in Claims
        /\ A5 \in Claims /\ A6 \in Claims
    <2>1. /\ bs \in SUBSET Places /\ k \in SUBSET Places /\ {} \in SUBSET Places
          /\ {"ctx.a", "ctx.c", "ctx.sp", "mem"} \in SUBSET Places
          /\ {"ctx.a", "ctx.sp", "mem"} \in SUBSET Places
          /\ {"ctx.c", "r14.1", "r14.2"} \in SUBSET Places /\ {"c", "r14.1", "r14.2"} \in SUBSET Places
          /\ {"c", "st.1", "st.2"} \in SUBSET Places /\ {"c", "cf", "zf"} \in SUBSET Places
      BY PlaceFacts, <1>1 DEF Extra
    <2>2. QED
      BY <2>1, KnownClaims
  <1> HIDE DEF A0, A1, A2, A3, A4, A5, A6
  <1>7. Straight(c, PushFlags, A0, A1) /\ Straight(c, <<Op("pop_r14")>>, A1, A1)
    <2>1. /\ Keeps(A0, A1, {"st.1", "st.2"})
          /\ Gets(A0, A1, "st.1", "cf") /\ Gets(A0, A1, "st.2", "zf")
      BY <1>3, <1>4 DEF Keeps, Gets
    <2>2. /\ Keeps(A1, A1, InR14) /\ Drops(A1, {"st.1", "st.2"}) /\ NewR14(A1)
          /\ Gets(A1, A1, "r14.1", "st.1") /\ Gets(A1, A1, "r14.2", "st.2")
      BY <1>4 DEF Keeps, Gets, Drops, NewR14, InR14
    <2>3. QED
      BY <1>3, <1>5, <2>1, <2>2, FixedMoves, R14Moves
  <1>8. Straight(c, SaveGp, A1, A2)
    <2>1. Keeps(A1, A2, {"ctx.a", "ctx.c"}) /\ Gets(A1, A2, "ctx.a", "a") /\ Gets(A1, A2, "ctx.c", "c")
      BY <1>4 DEF Keeps, Gets
    <2>2. QED
      BY <1>5, <2>1, FixedMoves
  <1>9. Straight(c, <<h>>, A2, A3)
    <2> DEFINE old == hold \cup {"ctx.c"}
               e == {}
               out == {"r14"} \cup {"ctx.c"}
               bad == {"a", "c"} \cup Flags
               lose == {"r14"}
               a == "none"
    <2>1. Fields(h, old, e, out, bad, lose, a)
      <3>1. h = CallAbs(old, e, out, lose)
        BY DEF Comparing, Moving
      <3> HIDE DEF old, e, out, bad, lose, a, h
      <3>2. QED
        BY <3>1, ComputingFields DEF bad, a
    <2>2. /\ Parts(old) = old /\ Parts(e) = {} /\ Parts(out) = {"ctx.c", "r14.1", "r14.2"}
          /\ Parts(out \cup bad) = {"ctx.c", "r14.1", "r14.2", "a", "c", "cf", "zf"}
          /\ "r14" \in out \cup bad
      BY <1>1 DEF Parts
    <2>3. /\ old \cup e \cup out \cup bad \subseteq Locations \cup {"r14"} /\ lose \subseteq out
          /\ a \in {"none", "va", "pa"}
      BY <1>1, PlaceFacts
    <2>4. /\ old \subseteq A2.o /\ Parts(e) \subseteq A2.n /\ (a # "none" => a \in A2.o)
      BY <1>4, <2>2
    <2>5. Keeps(A2, A3, {"ctx.c", "r14.1", "r14.2", "a", "c", "cf", "zf"} \cup InR14)
      BY <1>4 DEF Keeps, InR14
    <2>6. NewR14(A3)
      BY <1>4 DEF NewR14
    <2>7. /\ \A l \in {"ctx.c", "r14.1", "r14.2", "a", "c", "cf", "zf"} : l \notin A3.o
          /\ \A l \in {"ctx.c", "r14.1", "r14.2", "a", "c", "cf", "zf"} :
                l \in A3.n => l \in {"ctx.c", "r14.1", "r14.2"}
          /\ "whole" \notin A3.o
      BY <1>4
    <2> HIDE DEF old, e, out, bad, lose, a, h
    <2>8. Effect(old, e, out, bad, lose, a, A2, A3)
      BY <2>2, <2>3, <2>4, <2>5, <2>6, <2>7 DEF Effect
    <2>9. QED
      BY <1>5, <2>1, <2>8, FieldsStraight
  <1>10. Straight(c, LoadGp, A3, A4)
    <2>1. Keeps(A3, A4, {"a", "c"}) /\ Gets(A3, A4, "a", "ctx.a") /\ Gets(A3, A4, "c", "ctx.c")
      BY <1>4 DEF Keeps, Gets
    <2>2. QED
      BY <1>5, <2>1, FixedMoves
  <1>11. Straight(c, <<Op("push_r14")>>, A4, A5) /\ Straight(c, PopFlags, A5, A6)
    <2>1. /\ Keeps(A4, A5, {"st.1", "st.2"})
          /\ Gets(A4, A5, "st.1", "r14.1") /\ Gets(A4, A5, "st.2", "r14.2")
      BY <1>4 DEF Keeps, Gets
    <2>2. /\ Keeps(A5, A6, Flags) /\ Drops(A6, {"st.1", "st.2", "whole"})
          /\ Gets(A5, A6, "cf", "st.1") /\ Gets(A5, A6, "zf", "st.2")
      BY <1>1, <1>4 DEF Keeps, Gets, Drops
    <2>3. QED
      BY <1>5, <2>1, <2>2, FixedMoves, R14Moves
  <1>12. Finish(c) = A6
    <2> DEFINE w == {"c"}
    <2>1. w \in SUBSET Plain4 /\ Flags \in SUBSET Flags
      BY DEF Plain4
    <2>2. /\ Here(Plain4 \ w) = k /\ Here(w) = {"c"}
      BY ViewFacts DEF Here, Plain4
    <2>3. ({} \ Flags) \cup k = k /\ {"c"} \cup Flags = {"c", "cf", "zf"} /\ k \cup ({} \ Flags) = k
      BY <1>1
    <2> HIDE DEF w
    <2>4. Finish(c) = Known(Here(Plain4 \ w) \cup (c.live \ Flags), Here(w) \cup Flags)
      BY <1>1, <2>1, FinishOf DEF w
    <2>5. QED
      BY <1>2, <2>2, <2>3, <2>4 DEF A6
  <1> HIDE DEF h
  <1>13. Straight(c, FlagsToR14, A0, A1)
    BY <1>7, StraightConcat DEF FlagsToR14
  <1>14. Straight(c, R14ToFlags, A4, A6)
    BY <1>11, StraightConcat DEF R14ToFlags
  <1>15. Straight(c, FlagsToR14 \o SaveGp, A0, A2)
    BY <1>8, <1>13, StraightConcat
  <1>16. Straight(c, FlagsToR14 \o SaveGp \o <<h>>, A0, A3)
    BY <1>9, <1>15, StraightConcat
  <1>17. Straight(c, FlagsToR14 \o SaveGp \o <<h>> \o LoadGp, A0, A4)
    BY <1>10, <1>16, StraightConcat
  <1>18. Straight(c, FlagsToR14 \o SaveGp \o <<h>> \o LoadGp \o R14ToFlags, A0, A6)
    BY <1>14, <1>17, StraightConcat
  <1>19. QED
    BY <1>12, <1>18, StraightDoes DEF Fulfils, A0, h

\* The string instructions.
LEMMA StringDoes ==
  ASSUME NEW c \in Contracts, LiveOk(c), c.form \in IntegerClass.string
  PROVE  Fulfils(c, EmitString(c.form))
  <1> DEFINE Code(h) == FlagsToR14 \o SaveGp \o <<h>> \o LoadGp \o R14ToFlags
  <1>1. c.form \in {"movs", "stos", "lods", "cmps", "scas"}
    BY DEF IntegerClass
  <1>2. /\ Writes("movs") = {"c", "mem"} /\ Writes("stos") = {"c", "mem"} /\ Writes("lods") = {"a", "c"}
        /\ c.form \notin LosesFlags \cup {"movzx16"}
    BY <1>1 DEF Writes, Insns, LosesFlags
  <1> DEFINE Fit(w, hold, out, lose) ==
               /\ w \in SUBSET Plain4 /\ Writes(c.form) = w
               /\ hold \in SUBSET {"ctx.a", "ctx.c", "ctx.sp", "mem"}
               /\ out = There(w) /\ lose \subseteq out
  <1>3. ASSUME NEW w, NEW hold, NEW out, NEW lose, Fit(w, hold, out, lose)
        PROVE  Fulfils(c, Code(CallAbs(hold, {}, out, lose)))
    <2>1. lose \in SUBSET There(w)
      BY <1>3
    <2>2. QED
      BY <1>2, <1>3, <2>1, MovingDoes
  <1>4. /\ {} \cup {"ctx.c"} = {"ctx.c"} /\ {"mem"} \cup {"ctx.c"} = {"ctx.c", "mem"}
        /\ {"ctx.a"} \cup {"ctx.c"} = {"ctx.a", "ctx.c"}
    OBVIOUS
  <1>5. c.form = "movs" => Fit({"c", "mem"}, {"ctx.c"}, {"ctx.c", "mem"}, {"mem"})
    BY <1>2, ImagesAre, ImagesToo
  <1>6. c.form = "stos" => Fit({"c", "mem"}, {"ctx.a", "ctx.c"}, {"ctx.c", "mem"}, {"mem"})
    BY <1>2, ImagesAre, ImagesToo
  <1>7. c.form = "lods" => Fit({"a", "c"}, {"ctx.a", "ctx.c"}, {"ctx.a", "ctx.c"}, {"ctx.a"})
    BY <1>2, ImagesAre, ImagesToo
  <1> HIDE DEF Fit, Code
  <1>8. c.form = "movs" => Fulfils(c, Code(Moving({}, {"mem"})))
    BY <1>3, <1>4, <1>5 DEF Moving
  <1>9. c.form = "stos" => Fulfils(c, Code(Moving({"ctx.a"}, {"mem"})))
    BY <1>3, <1>4, <1>6 DEF Moving
  <1>10. c.form = "lods" => Fulfils(c, Code(Moving({"ctx.a"}, {"ctx.a"})))
    BY <1>3, <1>4, <1>7 DEF Moving
  <1>11. /\ c.form = "cmps" => Fulfils(c, Code(Comparing({})))
         /\ c.form = "scas" => Fulfils(c, Code(Comparing({"ctx.a"})))
    <2>1. {} \in SUBSET {"ctx.a"} /\ {"ctx.a"} \in SUBSET {"ctx.a"}
      OBVIOUS
    <2>2. ASSUME c.form \in {"cmps", "scas"}, NEW hold \in SUBSET {"ctx.a"}
          PROVE  Fulfils(c, Code(Comparing(hold)))
      BY <2>2, ComparingDoes DEF Code
    <2>3. QED
      BY <2>1, <2>2
  <1>12. /\ c.form = "movs" => EmitString(c.form) = Code(Moving({}, {"mem"}))
         /\ c.form = "stos" => EmitString(c.form) = Code(Moving({"ctx.a"}, {"mem"}))
         /\ c.form = "lods" => EmitString(c.form) = Code(Moving({"ctx.a"}, {"ctx.a"}))
         /\ c.form = "cmps" => EmitString(c.form) = Code(Comparing({}))
         /\ c.form = "scas" => EmitString(c.form) = Code(Comparing({"ctx.a"}))
    BY DEF EmitString, Code
  <1>13. QED
    BY <1>1, <1>8, <1>9, <1>10, <1>11, <1>12

\* The code of each class.
LEMMA BodyIs ==
  ASSUME NEW f \in Forms \ Leaving, NEW save
  PROVE  /\ f \in IntegerClass.lea => EmitBody(f, save) = EmitLea(f)
         /\ f \in IntegerClass.mov_mem => EmitBody(f, save) = EmitMov(f, save)
         /\ f \in IntegerClass.alu_mem => EmitBody(f, save) = EmitAlu(f, save)
         /\ f \in IntegerClass.flagmem => EmitBody(f, save) = EmitFlagMem(f)
         /\ f \in IntegerClass.test_mem => EmitBody(f, save) = EmitTestMem(save)
         /\ f \in IntegerClass.movx_mem => EmitBody(f, save) = EmitMovx(f)
         /\ f \in MediaClass.fpu_mem => EmitBody(f, save) = EmitFpuMem(save)
         /\ f \in IntegerClass.push => EmitBody(f, save) = EmitPush(f, save)
         /\ f \in IntegerClass.pop => EmitBody(f, save) = EmitPop(f, save)
         /\ f = "leave" => EmitBody(f, save) = EmitLeave
         /\ f = "enter" => EmitBody(f, save) = EmitEnter(save)
         /\ f = "xlatb" => EmitBody(f, save) = EmitXlatb(save)
         /\ f = "pushad" => EmitBody(f, save) = EmitPushad(save)
         /\ f = "popad" => EmitBody(f, save) = EmitPopad(save)
         /\ f = "pushfd" => EmitBody(f, save) = EmitPushfd(save)
         /\ f = "popfd" => EmitBody(f, save) = EmitPopfd
         /\ f \in IntegerClass.string => EmitBody(f, save) = EmitString(f)
  BY DEF EmitBody, IntegerClass, MediaClass

\* The code of PUSH and POP.
LEMMA PushPopDo ==
  ASSUME NEW c \in Contracts, paging \in BOOLEAN
  PROVE  /\ c.form \in IntegerClass.push => Fulfils(c, EmitPush(c.form, Saves(c)))
         /\ c.form \in IntegerClass.pop => Fulfils(c, EmitPop(c.form, Saves(c)))
  <1>1. /\ c.form = "push" => EmitPush(c.form, Saves(c)) = PushValue({"a"})
        /\ c.form = "push_imm" => EmitPush(c.form, Saves(c)) = PushValue({})
        /\ c.form = "push_sp" => EmitPush(c.form, Saves(c)) = Helper(Saves(c), PushEspHelper)
        /\ c.form = "push_mem" => EmitPush(c.form, Saves(c)) = DataEa \o Helper(Saves(c), PushMemHelper)
    BY DEF EmitPush
  <1>2. /\ c.form = "pop" => EmitPop(c.form, Saves(c)) =
              LoadEspToR14 \o PagingTranslate \o <<Access(Native({}, {}, {"a"}), "old")>>
                \o AddCtxEsp({"ctx.sp"}, {})
        /\ c.form = "pop_sp" => EmitPop(c.form, Saves(c)) = Helper(Saves(c), PopEspHelper)
        /\ c.form = "pop_mem" => EmitPop(c.form, Saves(c)) = DataEa \o Helper(Saves(c), PopMemHelper)
    BY DEF EmitPop
  <1>3. /\ c.form \in IntegerClass.push => c.form \in {"push", "push_imm", "push_sp", "push_mem"}
        /\ c.form \in IntegerClass.pop => c.form \in {"pop", "pop_sp", "pop_mem"}
    BY DEF IntegerClass
  <1>4. c.form \in {"push", "push_imm"} => Fulfils(c, EmitPush(c.form, Saves(c)))
    BY <1>1, PushFormsDo
  <1>5. c.form \in {"push_sp", "push_mem"} => Fulfils(c, EmitPush(c.form, Saves(c)))
    BY <1>1, StackHelpers
  <1>6. c.form = "pop" => Fulfils(c, EmitPop(c.form, Saves(c)))
    BY <1>2, PopFormDoes
  <1>7. c.form \in {"pop_sp", "pop_mem"} => Fulfils(c, EmitPop(c.form, Saves(c)))
    BY <1>2, StackHelpers
  <1>8. QED
    BY <1>3, <1>4, <1>5, <1>6, <1>7

\* The code of every instruction that another may follow in its trace.
LEMMA BodyDoes ==
  ASSUME NEW c \in Contracts, LiveOk(c), paging \in BOOLEAN, c.form \notin Leaving
  PROVE  Fulfils(c, EmitBody(c.form, Saves(c)))
  <1> DEFINE f == c.form
             s == Saves(c)
  <1>1. f \in Forms \ Leaving
    BY DEF Contracts
  <1>2. /\ f \in IntegerClass.mov_mem => f \in IntegerClass.mov_mem \ {"mov_cr"}
        /\ f \in IntegerClass.lea => f \in {"lea", "lea_sp"}
        /\ f \in IntegerClass.test_mem => f = "test_mem"
        /\ f \in MediaClass.fpu_mem => f = "fst"
        /\ f \in IntegerClass.movx_mem => f \in {"movzx", "movsx", "movzx_sp"} \/ f = "movzx16"
    BY DEF Leaving, IntegerClass, MediaClass
  <1>3. /\ f \in IntegerClass.lea => Fulfils(c, EmitLea(f))
        /\ f \in IntegerClass.mov_mem => Fulfils(c, EmitMov(f, s))
        /\ f \in IntegerClass.alu_mem => Fulfils(c, EmitAlu(f, s))
        /\ f \in IntegerClass.flagmem => Fulfils(c, EmitFlagMem(f))
        /\ f \in IntegerClass.test_mem => Fulfils(c, EmitTestMem(s))
        /\ f \in IntegerClass.movx_mem => Fulfils(c, EmitMovx(f))
        /\ f \in MediaClass.fpu_mem => Fulfils(c, EmitFpuMem(s))
    <2>1. f \in IntegerClass.lea => Fulfils(c, EmitLea(f))
      BY <1>2, LeaDoes
    <2>2. f \in IntegerClass.mov_mem => Fulfils(c, EmitMov(f, s))
      BY <1>2, MovDoes
    <2>3. /\ f \in IntegerClass.alu_mem => Fulfils(c, EmitAlu(f, s))
          /\ f \in IntegerClass.flagmem => Fulfils(c, EmitFlagMem(f))
      BY AluDoes, FlagMemDoes
    <2>4. /\ f \in IntegerClass.test_mem => Fulfils(c, EmitTestMem(s))
          /\ f \in MediaClass.fpu_mem => Fulfils(c, EmitFpuMem(s))
      BY <1>2, TestAndFpuDo
    <2>5. f \in IntegerClass.movx_mem => Fulfils(c, EmitMovx(f))
      BY <1>2, MovxLoads, Movzx16Does
    <2>6. QED
      BY <2>1, <2>2, <2>3, <2>4, <2>5
  <1>4. /\ f \in IntegerClass.push => Fulfils(c, EmitPush(f, s))
        /\ f \in IntegerClass.pop => Fulfils(c, EmitPop(f, s))
        /\ f = "leave" => Fulfils(c, EmitLeave)
        /\ f = "enter" => Fulfils(c, EmitEnter(s))
        /\ f = "xlatb" => Fulfils(c, EmitXlatb(s))
        /\ f = "pushad" => Fulfils(c, EmitPushad(s))
        /\ f = "popad" => Fulfils(c, EmitPopad(s))
        /\ f = "pushfd" => Fulfils(c, EmitPushfd(s))
        /\ f = "popfd" => Fulfils(c, EmitPopfd)
        /\ f \in IntegerClass.string => Fulfils(c, EmitString(f))
    BY PushPopDo, LeaveDoes, StackHelpers, XlatbDoes, PushfdDoes, PopfdDoes, StringDoes
  <1> HIDE DEF f, s
  <1>5. Fulfils(c, EmitBody(f, s))
    BY <1>1, <1>3, <1>4, BodyIs, FormsInClasses
  <1>6. QED
    BY <1>5 DEF f, s

-----------------------------------------------------------------------------
(* The ends of traces.                                                     *)

\* Registers, ESP and memory are in place where an instruction's results and
\* the rest are.
LEMMA InPlaceIs ==
  ASSUME NEW c \in Contracts, NEW A, NEW w \in SUBSET Plain4,
         Writes(c.form) \cap Plain4 = w, Here(Plain4 \ w) \subseteq A.o, Here(w) \subseteq A.n
  PROVE  InPlace(c, A)
  <1>1. Guest \ Flags = Plain4
    BY ViewFacts DEF Plain4
  <1>2. \A g \in w : InTrace[g] \in Here(w)
    BY DEF Here
  <1>3. \A g \in Plain4 \ w : InTrace[g] \in Here(Plain4 \ w)
    BY DEF Here
  <1>4. QED
    BY <1>1, <1>2, <1>3 DEF InPlace

\* What else is known does not matter.
LEMMA InPlaceBase ==
  ASSUME NEW c, NEW A, InPlace(c, A), NEW B, A.o \cap Base \subseteq B.o, A.n \cap Base \subseteq B.n
  PROVE  InPlace(c, B)
  <1>1. \A g \in Guest \ Flags : InTrace[g] \in Base
    BY ViewFacts DEF Base
  <1>2. QED
    BY <1>1 DEF InPlace

\* Part of a claim.
LEMMA PartClaims ==
  ASSUME NEW A \in Claims, NEW k \in SUBSET Places, NEW j \in SUBSET Places
  PROVE  /\ A.o \in SUBSET Places /\ A.n \in SUBSET Places
         /\ Known(A.o \cap k, A.n \cap k) \in Claims
         /\ Known(A.o \cap k, (A.n \cap k) \cup j) \in Claims
  <1>1. A.o \in SUBSET Places /\ A.n \in SUBSET Places
    BY DEF Claims
  <1>2. A.o \cap k \in SUBSET Places /\ A.n \cap k \in SUBSET Places /\ (A.n \cap k) \cup j \in SUBSET Places
    BY <1>1
  <1>3. QED
    BY <1>1, <1>2, KnownClaims

\* The EIP of the next instruction and the return.
LEMMA NextEipDoes ==
  ASSUME NEW c, c.form # "iret", NEW A \in Claims, InPlace(c, A), A.stop = "none",
         NEW old \in SUBSET Locations, NEW new \in SUBSET Locations, old \subseteq A.o, new \subseteq A.n
  PROVE  Straight(c, <<Clobbering(Native(old, new, {"ctx.eip"}), {"r14"})>> \o Ret, A, Impossible)
  <1> DEFINE N == Known(A.o \cap Base, (A.n \cap Base) \cup {"ctx.eip"})
             x == Clobbering(Native(old, new, {"ctx.eip"}), {"r14"})
             out == {"ctx.eip"}
             bad == {"r14"}
  <1>1. /\ Base \in SUBSET Places /\ {"ctx.eip"} \in SUBSET Places /\ "ctx.eip" \in Locations
        /\ "ctx.eip" \notin Base /\ Base \cap {"r14.1", "r14.2", "va", "pa", "whole"} = {}
    BY PlaceFacts DEF Base
  <1>2. N \in Claims
    BY <1>1, PartClaims
  <1>3. N.o = A.o \cap Base /\ N.n = (A.n \cap Base) \cup {"ctx.eip"} /\ N.stop = "none"
    BY DEF Known
  <1>4. Impossible \in Claims
    BY KnownClaims, PlaceFacts DEF Impossible, Base
  <1> HIDE DEF N
  <1>5. Straight(c, <<x>>, A, N)
    <2>1. Fields(x, old, new, out, bad, {}, "none")
      <3>1. Fields(Native(old, new, out), old, new, out, {}, {}, "none")
        BY ComputingFields
      <3>2. QED
        BY <3>1, ComputingFields
    <2>2. /\ Parts(old) = old /\ Parts(new) = new /\ Parts(out) = out
          /\ Parts(out \cup bad) = {"ctx.eip", "r14.1", "r14.2"}
      BY PlaceFacts DEF Parts
    <2>3. /\ out \cup bad \subseteq Locations \cup {"r14"} /\ "r14" \in out \cup bad
          /\ old \cup new \subseteq Locations \cup {"r14"}
      BY <1>1
    <2> HIDE DEF x, out, bad
    <2>4. /\ Parts(old) \subseteq A.o /\ Parts(new) \subseteq A.n /\ N.stop = A.stop
          /\ N.o \subseteq (A.o \ Parts(out \cup bad)) \ {"va", "pa", "whole"}
      BY <1>1, <1>3, <2>2
    <2>5. N.n \subseteq ((A.n \ Parts(out \cup bad)) \cup Parts(out)) \ {"va", "pa"}
      BY <1>1, <1>3, <2>2 DEF out
    <2>6. QED
      BY <1>2, <2>1, <2>3, <2>4, <2>5, R14Does
  <1>6. InPlace(c, N)
    BY <1>3, InPlaceBase
  <1>7. RetOk(c, N)
    BY <1>3, <1>6 DEF RetOk
  <1>8. Straight(c, Ret, N, Impossible)
    BY <1>2, <1>4, <1>7, LeavingMoves
  <1>9. QED
    BY <1>5, <1>8, StraightConcat DEF x

\* emit_save_all_gp, of which nothing is claimed here.
LEMMA SaveGpDoes ==
  ASSUME NEW c, NEW A \in Claims, NEW k \in SUBSET (Places \ {"ctx.a", "ctx.c"}), A.stop = "none"
  PROVE  /\ Straight(c, SaveGp, A, Known(A.o \cap k, A.n \cap k))
         /\ Known(A.o \cap k, A.n \cap k) \in Claims
  <1> DEFINE M == Known(A.o \cap k, A.n \cap k)
  <1>1. M \in Claims
    <2>1. k \in SUBSET Places
      OBVIOUS
    <2>2. QED
      BY <2>1, PartClaims
  <1>2. M.o = A.o \cap k /\ M.n = A.n \cap k /\ M.stop = "none"
    BY DEF Known
  <1> HIDE DEF M
  <1>3. Keeps(A, M, {"ctx.a", "ctx.c"}) /\ Gets(A, M, "ctx.a", "a") /\ Gets(A, M, "ctx.c", "c")
    BY <1>2 DEF Keeps, Gets
  <1>4. QED
    BY <1>1, <1>3, FixedMoves DEF M

\* A static exit: linked, or through the run loop.
LEMMA EpilogStaticDoes ==
  ASSUME NEW c, c.form # "iret", NEW A \in Claims, LinkOk(c, A)
  PROVE  Straight(c, EpilogStatic, A, Impossible)
  <1> DEFINE M == Known(A.o \cap Base, A.n \cap Base)
             e == {}
  <1>1. A.stop = "none" /\ InPlace(c, A)
    BY DEF LinkOk
  <1>2. M.o = A.o \cap Base /\ M.n = A.n \cap Base /\ M.stop = "none"
    BY DEF Known
  <1>3. Straight(c, SaveGp, A, M) /\ M \in Claims
    <2>1. Base \in SUBSET (Places \ {"ctx.a", "ctx.c"})
      BY PlaceFacts DEF Base
    <2>2. QED
      BY <1>1, <2>1, SaveGpDoes
  <1> HIDE DEF M
  <1>4. Straight(c, <<Op("link")>>, A, A)
    <2>1. Keeps(A, A, {})
      BY DEF Keeps
    <2>2. QED
      BY <2>1, LeavingMoves
  <1>5. InPlace(c, M)
    BY <1>1, <1>2, InPlaceBase
  <1>6. Straight(c, NextEip \o Ret, M, Impossible)
    <2>1. e \in SUBSET Locations /\ e \subseteq M.o /\ e \subseteq M.n
      OBVIOUS
    <2> HIDE DEF e
    <2>2. Straight(c, <<Clobbering(Native(e, e, {"ctx.eip"}), {"r14"})>> \o Ret, M, Impossible)
      BY <1>2, <1>3, <1>5, <2>1, NextEipDoes
    <2>3. QED
      BY <2>2 DEF NextEip, e
  <1>7. Straight(c, <<Op("link")>> \o SaveGp, A, M)
    BY <1>3, <1>4, StraightConcat
  <1>8. Straight(c, (<<Op("link")>> \o SaveGp) \o (NextEip \o Ret), A, Impossible)
    BY <1>6, <1>7, StraightConcat
  <1>9. (<<Op("link")>> \o SaveGp) \o (NextEip \o Ret) = EpilogStatic
    <2> DEFINE l == <<Op("link")>>
               n == Clobbering(Native({}, {}, {"ctx.eip"}), {"r14"})
               S == {Op("link"), Op("save_gp"), Op("ret"), n}
    <2>1. /\ l \in Seq(S) /\ SaveGp \in Seq(S) /\ Ret \in Seq(S)
      BY DEF SaveGp, Ret
    <2>2. NextEip \in Seq(S)
      <3> HIDE DEF n
      <3>1. <<n>> \in Seq(S)
        OBVIOUS
      <3>2. QED
        BY <3>1 DEF NextEip, n
    <2> DEFINE b == l \o SaveGp
    <2> HIDE DEF l, S
    <2>3. b \in Seq(S)
      BY <2>1
    <2> HIDE DEF b, n
    <2>4. Ret \in Seq(S)
      BY <2>1
    <2>5. (b \o NextEip) \o Ret = b \o (NextEip \o Ret)
      BY <2>2, <2>3, <2>4, ConcatAssoc
    <2>6. QED
      BY <2>5 DEF EpilogStatic, l, b
  <1>10. QED
    BY <1>8, <1>9

\* A jump to the address in ECX.
LEMMA EpilogDynamicDoes ==
  ASSUME NEW c, c.form # "iret", NEW A \in Claims, A.stop = "none", InPlace(c, A), "c" \in A.o
  PROVE  Straight(c, EpilogDynamic, A, Impossible)
  <1> DEFINE M == Known((A.o \cap Base) \cup {"ctx.c"}, A.n \cap Base)
             e == {}
             u == {"ctx.c"}
  <1>1. M.o = (A.o \cap Base) \cup {"ctx.c"} /\ M.n = A.n \cap Base /\ M.stop = "none"
    BY DEF Known
  <1>2. M \in Claims
    <2>1. (A.o \cap Base) \cup {"ctx.c"} \in SUBSET Places /\ A.n \cap Base \in SUBSET Places
      BY PlaceFacts DEF Claims
    <2>2. QED
      BY <2>1, KnownClaims
  <1> HIDE DEF M
  <1>3. Straight(c, SaveGp, A, M)
    <2>1. Keeps(A, M, {"ctx.a", "ctx.c"}) /\ Gets(A, M, "ctx.a", "a") /\ Gets(A, M, "ctx.c", "c")
      BY <1>1 DEF Keeps, Gets, Base
    <2>2. QED
      BY <1>2, <2>1, FixedMoves
  <1>4. InPlace(c, M)
    BY <1>1, InPlaceBase
  <1>5. Straight(c, NextEipGpreg \o Ret, M, Impossible)
    <2>1. e \in SUBSET Locations /\ u \in SUBSET Locations /\ u \subseteq M.o /\ e \subseteq M.n
      BY <1>1, PlaceFacts
    <2> HIDE DEF e, u
    <2>2. Straight(c, <<Clobbering(Native(u, e, {"ctx.eip"}), {"r14"})>> \o Ret, M, Impossible)
      BY <1>1, <1>2, <1>4, <2>1, NextEipDoes
    <2>3. QED
      BY <2>2 DEF NextEipGpreg, e, u
  <1>6. Straight(c, SaveGp \o (NextEipGpreg \o Ret), A, Impossible)
    BY <1>3, <1>5, StraightConcat
  <1>7. SaveGp \o (NextEipGpreg \o Ret) = EpilogDynamic
    <2> DEFINE n == Clobbering(Native({"ctx.c"}, {}, {"ctx.eip"}), {"r14"})
               S == {Op("save_gp"), Op("ret"), n}
    <2>1. SaveGp \in Seq(S) /\ Ret \in Seq(S)
      BY DEF SaveGp, Ret
    <2>2. NextEipGpreg \in Seq(S)
      <3> HIDE DEF n
      <3>1. <<n>> \in Seq(S)
        OBVIOUS
      <3>2. QED
        BY <3>1 DEF NextEipGpreg, n
    <2> HIDE DEF S
    <2>3. QED
      BY <2>1, <2>2, ConcatAssoc DEF EpilogDynamic
  <1>8. QED
    BY <1>6, <1>7

\* A conditional exit: a test of flags, or of what the branch of LOOPE is, and
\* a link slot on both paths.
LEMMA EpilogConditionalDoes ==
  ASSUME NEW c, c.form # "iret", NEW A \in Claims, A.stop = "none", InPlace(c, A), "whole" \in A.o,
         NEW old \in SUBSET Flags, NEW new \in SUBSET (Flags \cup {"br"}), old \subseteq A.o, new \subseteq A.n
  PROVE  Straight(c, EpilogConditional(old, new), A, Impossible)
  <1> DEFINE k == Base \cup Flags \cup {"br", "whole"}
             M == Known(A.o \cap k, A.n \cap k)
             j == Base \cup Flags \cup {"whole"}
             N == Known(A.o \cap j, (A.n \cap j) \cup {"br"})
             p == Native(old, new, {"br"})
             q == Op("link")
             out == {"br"}
             e == {}
  <1>1. /\ Flags = {"cf", "zf"} /\ Base = {"a", "c", "ctx.sp", "mem"} /\ Base \subseteq k /\ Base \subseteq j
        /\ j \subseteq k /\ "br" \notin j /\ Flags \cup {"br", "whole"} \subseteq k /\ "whole" \in j
    BY DEF Flags, Base
  <1>2. /\ M.o = A.o \cap k /\ M.n = A.n \cap k /\ M.stop = "none"
        /\ N.o = A.o \cap j /\ N.n = (A.n \cap j) \cup {"br"} /\ N.stop = "none"
    BY DEF Known
  <1>3. Straight(c, SaveGp, A, M) /\ M \in Claims
    <2>1. k \in SUBSET (Places \ {"ctx.a", "ctx.c"})
      BY <1>1, PlaceFacts DEF Extra
    <2> HIDE DEF k
    <2>2. QED
      BY <2>1, SaveGpDoes
  <1>4. N \in Claims
    <2>1. j \in SUBSET Places /\ {"br"} \in SUBSET Places
      BY <1>1, PlaceFacts DEF Extra
    <2> HIDE DEF j
    <2>2. QED
      BY <2>1, PartClaims
  <1> HIDE DEF M, N
  <1>5. OpStraight(c, p, M, N)
    <2>1. /\ out \subseteq Locations /\ old \cup new \subseteq Locations /\ old \subseteq M.o /\ new \subseteq M.n
      BY <1>1, <1>2, PlaceFacts
    <2>2. N.stop = M.stop /\ N.o \subseteq M.o \ out /\ N.n \subseteq (M.n \ out) \cup out
      BY <1>1, <1>2
    <2> HIDE DEF out
    <2>3. OpStraight(c, Native(old, new, out), M, N)
      BY <1>3, <1>4, <2>1, <2>2, NativeDoes
    <2>4. QED
      BY <2>3 DEF out
  <1>6. InPlace(c, N)
    <2>1. A.o \cap Base \subseteq N.o /\ A.n \cap Base \subseteq N.n
      BY <1>1, <1>2
    <2>2. QED
      BY <2>1, InPlaceBase
  <1>7. OpStraight(c, q, N, N)
    <2>1. LinkOk(c, N)
      BY <1>1, <1>2, <1>6 DEF LinkOk
    <2>2. Keeps(N, N, {})
      BY DEF Keeps
    <2>3. QED
      BY <1>4, <2>1, <2>2, LeavingMoves
  <1>8. Straight(c, NextEipTaken \o Ret, N, Impossible)
    <2>1. e \in SUBSET Locations /\ out \in SUBSET Locations /\ e \subseteq N.o /\ out \subseteq N.n
      BY <1>2, PlaceFacts
    <2> HIDE DEF e, out
    <2>2. Straight(c, <<Clobbering(Native(e, out, {"ctx.eip"}), {"r14"})>> \o Ret, N, Impossible)
      BY <1>2, <1>4, <1>6, <2>1, NextEipDoes
    <2>3. QED
      BY <2>2 DEF NextEipTaken, e, out
  <1>9. Straight(c, <<p, q>>, M, N)
    BY <1>3, <1>4, <1>5, <1>7, PairStraight
  <1> HIDE DEF p, q
  <1>10. Straight(c, SaveGp \o <<p, q>>, A, N)
    BY <1>3, <1>9, StraightConcat
  <1>11. Straight(c, (SaveGp \o <<p, q>>) \o (NextEipTaken \o Ret), A, Impossible)
    BY <1>8, <1>10, StraightConcat
  <1>12. (SaveGp \o <<p, q>>) \o (NextEipTaken \o Ret) = ((SaveGp \o <<p, q>>) \o NextEipTaken) \o Ret
    <2> DEFINE n == Clobbering(Native({}, {"br"}, {"ctx.eip"}), {"r14"})
               S == {Op("save_gp"), Op("ret"), n, p, q}
               b == SaveGp \o <<p, q>>
    <2>1. SaveGp \in Seq(S) /\ Ret \in Seq(S) /\ <<p, q>> \in Seq(S)
      BY DEF SaveGp, Ret
    <2>2. NextEipTaken \in Seq(S)
      <3> HIDE DEF n
      <3>1. <<n>> \in Seq(S)
        OBVIOUS
      <3>2. QED
        BY <3>1 DEF NextEipTaken, n
    <2> HIDE DEF S
    <2>3. b \in Seq(S)
      BY <2>1
    <2> HIDE DEF b
    <2>4. (b \o NextEipTaken) \o Ret = b \o (NextEipTaken \o Ret)
      BY <2>1, <2>2, <2>3, ConcatAssoc
    <2>5. QED
      BY <2>4 DEF b
  <1>13. QED
    BY <1>11, <1>12 DEF EpilogConditional, p, q

\* What is in place where nothing is written, and where ECX is.
LEMMA StartInPlace ==
  ASSUME NEW c \in Contracts, NEW A
  PROVE  /\ Writes(c.form) = {} /\ Base \subseteq A.o => InPlace(c, A)
         /\ Writes(c.form) = {"c"} /\ {"a", "ctx.sp", "mem"} \subseteq A.o /\ "c" \in A.n => InPlace(c, A)
  <1>1. ASSUME Writes(c.form) = {}, Base \subseteq A.o
        PROVE  InPlace(c, A)
    BY <1>1, ViewFacts DEF InPlace, Base
  <1>2. ASSUME Writes(c.form) = {"c"}, {"a", "ctx.sp", "mem"} \subseteq A.o, "c" \in A.n
        PROVE  InPlace(c, A)
    BY <1>2, ViewFacts DEF InPlace
  <1>3. QED
    BY <1>1, <1>2

\* Jcc, and JMP but through memory.
LEMMA PlainJumpsDo ==
  ASSUME NEW c \in Contracts, LiveOk(c)
  PROVE  /\ c.form \in {"jz", "jc"} => Straight(c, EmitCond(c.form), Start(c), Impossible)
         /\ c.form = "jmp" => Straight(c, EpilogStatic, Start(c), Impossible)
         /\ c.form = "jmp_reg" => Straight(c, EpilogDynamic, Start(c), Impossible)
  <1> DEFINE A == Start(c)
             t == {IF c.form = "jz" THEN "zf" ELSE "cf"}
             e == {}
  <1>1. /\ A \in Claims /\ A.o = Base \cup c.live \cup {"whole"} /\ A.n = {} /\ A.stop = "none"
    BY EndClaims
  <1>2. /\ c.form \in {"jz", "jc", "jmp", "jmp_reg"} => Writes(c.form) = {} /\ c.form # "iret"
        /\ c.form \in {"jz", "jc"} => Insns[c.form].t = t
        /\ t \in SUBSET Flags /\ e \in SUBSET (Flags \cup {"br"})
    BY DEF Writes, Insns, Flags
  <1> HIDE DEF A
  <1>3. c.form \in {"jz", "jc", "jmp", "jmp_reg"} => InPlace(c, A)
    BY <1>1, <1>2, StartInPlace
  <1>4. c.form \in {"jz", "jc"} => Straight(c, EmitCond(c.form), A, Impossible)
    <2> HAVE c.form \in {"jz", "jc"}
    <2>1. t \subseteq A.o /\ e \subseteq A.n /\ "whole" \in A.o
      BY <1>1, <1>2 DEF LiveOk
    <2> HIDE DEF t, e
    <2>2. Straight(c, EpilogConditional(t, e), A, Impossible)
      BY <1>1, <1>2, <1>3, <2>1, EpilogConditionalDoes
    <2>3. QED
      BY <2>2 DEF EmitCond, t, e
  <1>5. c.form = "jmp" => Straight(c, EpilogStatic, A, Impossible)
    BY <1>1, <1>2, <1>3, EpilogStaticDoes DEF LinkOk, Branches
  <1>6. c.form = "jmp_reg" => Straight(c, EpilogDynamic, A, Impossible)
    BY <1>1, <1>2, <1>3, EpilogDynamicDoes DEF Base
  <1>7. QED
    BY <1>4, <1>5, <1>6 DEF A

\* A jump to what a helper returns in EAX.
LEMMA TargetDoes ==
  ASSUME NEW c \in Contracts, c.form # "iret", paging \in BOOLEAN,
         NEW k \in SUBSET {"ctx.sp", "mem"}, NEW old \in SUBSET {"ctx.sp"}, NEW lose \in SUBSET ({"a"} \cup k),
         NEW h, NEW j, j = {"ctx.sp", "mem"} \ k,
         Fields(h, old, {"r14"}, {"a"} \cup k, {"a", "c"} \cup Flags, lose, "va"),
         InPlace(c, Known({"a", "c"} \cup j, {"ctx.eip"} \cup k))
  PROVE  Does(c, ToHelperTarget(h), Start(c), Impossible)
  <1> DEFINE A1 == Known(Base \cup {"va"}, InR14New)
             A2 == Known({"ctx.a", "ctx.c", "ctx.sp", "mem", "va"}, InR14New)
             A3 == Known({"ctx.a", "ctx.c"} \cup j, {"a"} \cup k)
             A4 == Known({"ctx.a", "ctx.c"} \cup j, {"ctx.eip"} \cup k)
             A5 == Known({"a", "c"} \cup j, {"ctx.eip"} \cup k)
             n == Native({}, {"a"}, {"ctx.eip"})
             e == {}
             seg == FALSE
  <1>1. /\ Base = {"a", "c", "ctx.sp", "mem"} /\ Flags = {"cf", "zf"} /\ InR14New = {"r14.1", "r14.2"}
        /\ Locations = {"a", "c", "ctx.sp", "mem", "cf", "zf", "ctx.a", "ctx.c", "ctx.cf", "ctx.zf", "br", "ctx.eip"}
    BY PlaceFacts DEF Base, Flags, InR14New
  <1>2. /\ A1.o = Base \cup {"va"} /\ A1.n = InR14New /\ A1.stop = "none"
        /\ A2.o = {"ctx.a", "ctx.c", "ctx.sp", "mem", "va"} /\ A2.n = InR14New /\ A2.stop = "none"
        /\ A3.o = {"ctx.a", "ctx.c"} \cup j /\ A3.n = {"a"} \cup k /\ A3.stop = "none"
        /\ A4.o = {"ctx.a", "ctx.c"} \cup j /\ A4.n = {"ctx.eip"} \cup k /\ A4.stop = "none"
        /\ A5.o = {"a", "c"} \cup j /\ A5.n = {"ctx.eip"} \cup k /\ A5.stop = "none"
    BY DEF Known
  <1>3. A1 \in Claims /\ A2 \in Claims /\ A3 \in Claims /\ A4 \in Claims /\ A5 \in Claims
    <2>1. /\ Base \cup {"va"} \in SUBSET Places /\ InR14New \in SUBSET Places
          /\ {"ctx.a", "ctx.c", "ctx.sp", "mem", "va"} \in SUBSET Places
          /\ {"ctx.a", "ctx.c"} \cup j \in SUBSET Places /\ {"a"} \cup k \in SUBSET Places
          /\ {"ctx.eip"} \cup k \in SUBSET Places /\ {"a", "c"} \cup j \in SUBSET Places
      BY PlaceFacts, <1>1 DEF Extra
    <2>2. QED
      BY <2>1, KnownClaims
  <1>4. Impossible \in Claims
    BY EndClaims
  <1>5. Does(c, EaToR14("a", FALSE), Start(c), A1)
    <2> DEFINE r == "va"
    <2>1. e \in SUBSET c.live /\ seg \in BOOLEAN /\ (seg => e = {}) /\ r \in {"va", Raw}
      OBVIOUS
    <2> HIDE DEF e, seg, r
    <2>2. Does(c, EaToR14("a", seg), Start(c), Known(Base \cup e \cup {r}, InR14New))
      BY <2>1, EaDoes
    <2>3. Base \cup e \cup {r} = Base \cup {"va"}
      BY DEF e, r
    <2>4. QED
      BY <2>2, <2>3 DEF seg
  <1>6. InPlace(c, A5)
    OBVIOUS
  <1> HIDE DEF A1, A2, A3, A4, A5
  <1>7. Straight(c, SaveGp, A1, A2)
    <2>1. Keeps(A1, A2, {"ctx.a", "ctx.c"}) /\ Gets(A1, A2, "ctx.a", "a") /\ Gets(A1, A2, "ctx.c", "c")
      BY <1>1, <1>2 DEF Keeps, Gets
    <2>2. QED
      BY <1>3, <2>1, FixedMoves
  <1>8. Straight(c, <<h>>, A2, A3)
    <2> DEFINE new == {"r14"}
               out == {"a"} \cup k
               bad == {"a", "c"} \cup Flags
               addr == "va"
    <2>1. /\ Parts(old) = old /\ Parts(new) = InR14New
      BY <1>1 DEF Parts
    <2>2. /\ out \cup bad \subseteq Locations /\ old \cup new \subseteq Locations \cup {"r14"}
          /\ lose \subseteq out /\ addr \in {"none", "va", "pa"} /\ addr \in A2.o
          /\ Parts(old) \subseteq A2.o /\ Parts(new) \subseteq A2.n
      BY <1>1, <1>2, <2>1
    <2>3. /\ A3.stop = A2.stop /\ "whole" \notin A3.o
      BY <1>2
    <2>4. A3.o \subseteq A2.o \ (out \cup bad)
      BY <1>1, <1>2
    <2>5. A3.n \subseteq (A2.n \ (out \cup bad)) \cup out
      BY <1>2
    <2>6. Fields(h, old, new, out, bad, lose, addr)
      OBVIOUS
    <2> HIDE DEF new, out, bad, addr
    <2>7. Computing(h, old, new, out, bad, lose, addr, A2, A3)
      BY <2>2, <2>3, <2>4, <2>5, <2>6 DEF Computing
    <2>8. QED
      BY <1>3, <2>7, ComputingStraight
  <1>9. Straight(c, <<n>>, A3, A4)
    <2> DEFINE new == {"a"}
               out == {"ctx.eip"}
    <2>1. /\ out \subseteq Locations /\ e \cup new \subseteq Locations /\ e \subseteq A3.o /\ new \subseteq A3.n
          /\ A4.stop = A3.stop /\ A4.o \subseteq A3.o \ out /\ A4.n \subseteq (A3.n \ out) \cup out
      BY <1>1, <1>2
    <2> HIDE DEF e, new, out
    <2>2. Straight(c, <<Native(e, new, out)>>, A3, A4)
      BY <1>3, <2>1, NativeDoes
    <2>3. QED
      BY <2>2 DEF e, new, out
  <1>10. Straight(c, LoadGp, A4, A5)
    <2>1. Keeps(A4, A5, {"a", "c"}) /\ Gets(A4, A5, "a", "ctx.a") /\ Gets(A4, A5, "c", "ctx.c")
      BY <1>2 DEF Keeps, Gets
    <2>2. QED
      BY <1>3, <2>1, FixedMoves
  <1>11. Straight(c, Ret, A5, Impossible)
    <2>1. RetOk(c, A5)
      BY <1>2, <1>6 DEF RetOk
    <2>2. QED
      BY <1>3, <1>4, <2>1, LeavingMoves
  <1> HIDE DEF n
  <1>12. Straight(c, <<h>> \o <<n>>, A2, A4)
    BY <1>8, <1>9, StraightConcat
  <1>13. <<h>> \o <<n>> = <<h, n>>
    <2>1. /\ <<h>> \in Seq({h, n}) /\ <<n>> \in Seq({h, n}) /\ <<h, n>> \in Seq({h, n})
          /\ Len(<<h>>) = 1 /\ Len(<<n>>) = 1 /\ Len(<<h, n>>) = 2
      OBVIOUS
    <2>2. /\ <<h>> \o <<n>> \in Seq({h, n}) /\ Len(<<h>> \o <<n>>) = 2
          /\ (<<h>> \o <<n>>)[1] = h /\ (<<h>> \o <<n>>)[2] = n
      BY <2>1
    <2>3. \A i \in 1 .. 2 : (<<h>> \o <<n>>)[i] = <<h, n>>[i]
      BY <2>2
    <2>4. QED
      BY <2>1, <2>2, <2>3, SeqEqual
  <1>14. Does(c, EaToR14("a", FALSE) \o SaveGp, Start(c), A2)
    BY <1>5, <1>7, StraightDoes, DoesConcat
  <1>15. Does(c, EaToR14("a", FALSE) \o SaveGp \o <<h, n>>, Start(c), A4)
    BY <1>12, <1>13, <1>14, StraightDoes, DoesConcat
  <1>16. Does(c, EaToR14("a", FALSE) \o SaveGp \o <<h, n>> \o LoadGp, Start(c), A5)
    BY <1>10, <1>15, StraightDoes, DoesConcat
  <1>17. Does(c, EaToR14("a", FALSE) \o SaveGp \o <<h, n>> \o LoadGp \o Ret, Start(c), Impossible)
    BY <1>11, <1>16, StraightDoes, DoesConcat
  <1>18. QED
    BY <1>17 DEF ToHelperTarget, n

\* JMP and CALL through memory.
LEMMA MemTargetsDo ==
  ASSUME NEW c \in Contracts, paging \in BOOLEAN
  PROVE  /\ c.form = "jmp_mem" => Does(c, ToHelperTarget(ReadTarget), Start(c), Impossible)
         /\ c.form = "call_mem" => Does(c, ToHelperTarget(CallMemHelper), Start(c), Impossible)
  <1>1. ASSUME c.form = "jmp_mem"
        PROVE  Does(c, ToHelperTarget(ReadTarget), Start(c), Impossible)
    <2> DEFINE k == {}
               j == {"ctx.sp", "mem"}
               old == {}
               lose == {"a"}
               h == ReadTarget
               A == Known({"a", "c"} \cup j, {"ctx.eip"} \cup k)
    <2>1. c.form # "iret" /\ Writes(c.form) = {}
      BY <1>1 DEF Writes, Insns
    <2>2. /\ k \in SUBSET {"ctx.sp", "mem"} /\ old \in SUBSET {"ctx.sp"} /\ lose \in SUBSET ({"a"} \cup k)
          /\ j = {"ctx.sp", "mem"} \ k /\ {"a"} \cup k = {"a"}
      OBVIOUS
    <2>3. Fields(h, old, {"r14"}, {"a"} \cup k, {"a", "c"} \cup Flags, lose, "va")
      <3>1. Fields(WithVa(CallAbs(old, {}, {"a"}, lose)), old, {"r14"}, {"a"}, {"a", "c"} \cup Flags, lose, "va")
        BY CallAccess
      <3>2. QED
        BY <2>2, <3>1 DEF ReadTarget
    <2>4. Base \subseteq A.o
      BY DEF Known, Base
    <2> HIDE DEF A
    <2>5. InPlace(c, A)
      BY <2>1, <2>4, StartInPlace
    <2>6. InPlace(c, Known({"a", "c"} \cup j, {"ctx.eip"} \cup k))
      BY <2>5 DEF A
    <2> HIDE DEF k, j, old, lose, h
    <2>7. Does(c, ToHelperTarget(h), Start(c), Impossible)
      BY <2>1, <2>2, <2>3, <2>6, TargetDoes
    <2>8. QED
      BY <2>7 DEF h
  <1>2. ASSUME c.form = "call_mem"
        PROVE  Does(c, ToHelperTarget(CallMemHelper), Start(c), Impossible)
    <2> DEFINE k == {"ctx.sp", "mem"}
               j == {}
               old == {"ctx.sp"}
               lose == {"a", "mem"}
               h == CallMemHelper
               A == Known({"a", "c"} \cup j, {"ctx.eip"} \cup k)
               w == {"sp", "mem"}
    <2>1. c.form # "iret" /\ Writes(c.form) = w
      BY <1>2 DEF Writes, Insns
    <2>2. /\ k \in SUBSET {"ctx.sp", "mem"} /\ old \in SUBSET {"ctx.sp"} /\ lose \in SUBSET ({"a"} \cup k)
          /\ j = {"ctx.sp", "mem"} \ k /\ {"a"} \cup k = {"a", "ctx.sp", "mem"}
      OBVIOUS
    <2>3. Fields(h, old, {"r14"}, {"a"} \cup k, {"a", "c"} \cup Flags, lose, "va")
      <3>1. Fields(WithVa(CallAbs(old, {}, {"a", "ctx.sp", "mem"}, lose)),
                   old, {"r14"}, {"a", "ctx.sp", "mem"}, {"a", "c"} \cup Flags, lose, "va")
        BY CallAccess
      <3>2. QED
        BY <2>2, <3>1 DEF CallMemHelper
    <2>4. Here(Plain4 \ w) \subseteq A.o /\ Here(w) \subseteq A.n
      BY ImagesToo DEF Known
    <2>5. w \in SUBSET Plain4 /\ Writes(c.form) \cap Plain4 = w
      BY <2>1, ImagesToo
    <2> HIDE DEF A, w
    <2>6. InPlace(c, A)
      BY <2>4, <2>5, InPlaceIs
    <2>7. InPlace(c, Known({"a", "c"} \cup j, {"ctx.eip"} \cup k))
      BY <2>6 DEF A
    <2> HIDE DEF k, j, old, lose, h
    <2>8. Does(c, ToHelperTarget(h), Start(c), Impossible)
      BY <2>1, <2>2, <2>3, <2>7, TargetDoes
    <2>9. QED
      BY <2>8 DEF h
  <1>3. QED
    BY <1>1, <1>2

\* CALL, to an address or to ECX.
LEMMA CallsDo ==
  ASSUME NEW c \in Contracts, paging \in BOOLEAN
  PROVE  /\ c.form = "call" => Does(c, PushValue({}) \o EpilogStatic, Start(c), Impossible)
         /\ c.form = "call_reg" => Does(c, PushValue({}) \o EpilogDynamic, Start(c), Impossible)
  <1> DEFINE A == Known({"a", "c"} \cup c.live, {"ctx.sp", "mem"})
             w == {"sp", "mem"}
             e == {}
  <1>1. A.o = {"a", "c"} \cup c.live /\ A.n = {"ctx.sp", "mem"} /\ A.stop = "none"
    BY DEF Known
  <1>2. A \in Claims
    <2>1. {"a", "c"} \cup c.live \in SUBSET Places /\ {"ctx.sp", "mem"} \in SUBSET Places
      BY PlaceFacts DEF Contracts, Base
    <2>2. QED
      BY <2>1, KnownClaims
  <1>3. c.form \in {"call", "call_reg"} =>
           c.form # "iret" /\ Writes(c.form) = w /\ c.form \in MovesEsp /\ c.form \notin Branches
    BY DEF Writes, Insns, MovesEsp, Branches
  <1> HIDE DEF A
  <1>4. c.form \in {"call", "call_reg"} => InPlace(c, A)
    <2> HAVE c.form \in {"call", "call_reg"}
    <2>1. Here(Plain4 \ w) \subseteq A.o /\ Here(w) \subseteq A.n
      BY <1>1, ImagesToo
    <2>2. w \in SUBSET Plain4 /\ Writes(c.form) \cap Plain4 = w
      BY <1>3, ImagesToo
    <2> HIDE DEF w
    <2>3. QED
      BY <2>1, <2>2, InPlaceIs
  <1>5. c.form \in {"call", "call_reg"} => Does(c, PushValue({}), Start(c), A)
    <2> HAVE c.form \in {"call", "call_reg"}
    <2>1. e \in SUBSET {"a"} /\ c.form \in MovesEsp
      BY <1>3
    <2> HIDE DEF e
    <2>2. Does(c, PushValue(e), Start(c), Known({"a", "c"} \cup c.live, {"ctx.sp", "mem"}))
      BY <2>1, PushValueDoes
    <2>3. QED
      BY <2>2 DEF e, A
  <1>6. c.form = "call" => Straight(c, EpilogStatic, A, Impossible)
    BY <1>1, <1>2, <1>3, <1>4, EpilogStaticDoes DEF LinkOk
  <1>7. c.form = "call_reg" => Straight(c, EpilogDynamic, A, Impossible)
    BY <1>1, <1>2, <1>3, <1>4, EpilogDynamicDoes
  <1>8. QED
    BY <1>5, <1>6, <1>7, StraightDoes, DoesConcat

\* Two operations written as one sequence, again.
LEMMA TwoIs ==
  ASSUME NEW x, NEW y
  PROVE  <<x>> \o <<y>> = <<x, y>>
  <1>1. /\ <<x>> \in Seq({x, y}) /\ <<y>> \in Seq({x, y}) /\ <<x, y>> \in Seq({x, y})
        /\ Len(<<x>>) = 1 /\ Len(<<y>>) = 1 /\ Len(<<x, y>>) = 2
    OBVIOUS
  <1>2. /\ <<x>> \o <<y>> \in Seq({x, y}) /\ Len(<<x>> \o <<y>>) = 2
        /\ (<<x>> \o <<y>>)[1] = x /\ (<<x>> \o <<y>>)[2] = y
    BY <1>1
  <1>3. \A k \in 1 .. 2 : (<<x>> \o <<y>>)[k] = <<x, y>>[k]
    BY <1>2
  <1>4. QED
    BY <1>1, <1>2, <1>3, SeqEqual

\* RET.
LEMMA RetDoes ==
  ASSUME NEW c \in Contracts, paging \in BOOLEAN, c.form = "ret"
  PROVE  Does(c, EmitRet, Start(c), Impossible)
  <1> DEFINE f == c.live
             b == Base \cup f \cup {"ctx.a"}
             o == b \cup InR14New
             k == {"c", "ctx.sp", "mem", "ctx.a"}
             q == k \cup f
             n == {"a"}
             e == {}
             s == {"ctx.sp"}
             y == <<Access(Native(e, {}, {"a"}), "old")>>
             w == {"sp"}
             A0 == Start(c)
             A1 == Known(b \cup e, e)
             A5 == Known({"c", "mem", "ctx.a"} \cup f, {"a", "ctx.sp"})
             A6 == Known({"c", "mem", "ctx.a"}, {"ctx.eip", "ctx.sp"})
             A7 == Known({"c", "mem", "a"}, {"ctx.eip", "ctx.sp"})
  <1>1. /\ f \in SUBSET Flags /\ Flags = {"cf", "zf"} /\ InR14New = {"r14.1", "r14.2"}
        /\ Needed(c) \subseteq f /\ Unmoved(c) \subseteq {"ctx.sp"} /\ Base = {"a", "c", "ctx.sp", "mem"}
        /\ Writes(c.form) = w /\ w \in SUBSET Plain4 /\ c.form # "iret"
    BY ImagesToo DEF Contracts, Flags, InR14New, Unmoved, Needed, Base, Writes, Insns
  <1>2. /\ A0 \in Claims /\ A0.o = Base \cup f \cup {"whole"} /\ A0.n = {} /\ A0.stop = "none"
        /\ Impossible \in Claims
    BY EndClaims
  <1>3. /\ A1.o = b \cup e /\ A1.n = e /\ A1.stop = "none"
        /\ A5.o = {"c", "mem", "ctx.a"} \cup f /\ A5.n = {"a", "ctx.sp"} /\ A5.stop = "none"
        /\ A6.o = {"c", "mem", "ctx.a"} /\ A6.n = {"ctx.eip", "ctx.sp"} /\ A6.stop = "none"
        /\ A7.o = {"c", "mem", "a"} /\ A7.n = {"ctx.eip", "ctx.sp"} /\ A7.stop = "none"
    BY DEF Known
  <1>4. A1 \in Claims /\ A5 \in Claims /\ A6 \in Claims /\ A7 \in Claims
    <2>1. /\ b \cup e \in SUBSET Places /\ e \in SUBSET Places
          /\ {"c", "mem", "ctx.a"} \cup f \in SUBSET Places /\ {"a", "ctx.sp"} \in SUBSET Places
          /\ {"c", "mem", "ctx.a"} \in SUBSET Places /\ {"ctx.eip", "ctx.sp"} \in SUBSET Places
          /\ {"c", "mem", "a"} \in SUBSET Places
      BY <1>1, PlaceFacts
    <2> HIDE DEF b, e, f
    <2>2. QED
      BY <2>1, KnownClaims
  <1> HIDE DEF A0, A1, A5, A6, A7
  <1>5. Straight(c, SaveGp, A0, A1)
    <2>1. Keeps(A0, A1, {"ctx.a", "ctx.c"}) /\ Gets(A0, A1, "ctx.a", "a") /\ Gets(A0, A1, "ctx.c", "c")
      BY <1>1, <1>2, <1>3 DEF Keeps, Gets
    <2>2. QED
      BY <1>2, <1>4, <2>1, FixedMoves
  <1>6. Straight(c, LoadEspToR14, A1, Known(o \cup {Raw}, e))
    <2>1. /\ b \in SUBSET (Kept \ InR14New) /\ e \in SUBSET {"ctx.sp"} /\ e \in SUBSET {"whole"}
          /\ "ctx.sp" \in b
      BY <1>1, KeptFacts
    <2> HIDE DEF e, b
    <2>2. Straight(c, LoadEspToR14, Known(b \cup e, e), Known((b \cup InR14New) \cup {Raw}, e))
      BY <2>1, LoadEspDoes
    <2>3. QED
      BY <2>2 DEF A1
  <1>7. Does(c, PagingTranslate, Known(o \cup {Raw}, e), Known(o \cup {"pa"}, e))
    <2>1. /\ o \in SUBSET Kept /\ e \in SUBSET Moved
          /\ {"a", "c", "mem"} \cup Unmoved(c) \cup Needed(c) \subseteq o
      BY <1>1, KeptFacts DEF Moved
    <2> HIDE DEF o, e
    <2>2. QED
      BY <2>1, StackTranslate
  <1>8. Straight(c, y, Known(o \cup {"pa"}, e), Known(q, n))
    <2>1. /\ o \in SUBSET Kept /\ e \in SUBSET Moved /\ "a" \in {"a", "c", "mem"} /\ e \subseteq o
          /\ e \in SUBSET {"a"} /\ "old" \in {"old", "new"} /\ InR14New \subseteq o
          /\ ("old" = "new" => InR14New \subseteq e)
          /\ q \in SUBSET (o \ {"a"}) /\ n \in SUBSET (e \cup {"a"})
      BY <1>1, KeptFacts DEF Moved
    <2> HIDE DEF o, e, q, n
    <2>2. QED
      BY <2>1, StackAccess
  <1>9. Straight(c, AddCtxEsp(s, e), Known(q, n), A5)
    <2>1. /\ k \in SUBSET (Base \cup {"ctx.a"}) /\ n \in SUBSET {"a", "c", "ctx.sp"}
          /\ e \in SUBSET {"whole"} /\ s \in SUBSET {"ctx.sp"} /\ e \in SUBSET {"ctx.sp"}
          /\ s \subseteq k /\ e \subseteq n
      BY <1>1
    <2>2. /\ k \cup f \cup e = q /\ n \cup s = {"a", "ctx.sp"} /\ k \ s = {"c", "mem", "ctx.a"}
      OBVIOUS
    <2> HIDE DEF e, f, q, k, n
    <2>3. Straight(c, PushFlags \o <<Clobbering(Native(s, e, {"ctx.sp"}), Flags)>> \o PopFlags,
                   Known(k \cup f \cup e, n), Known((k \ {"ctx.sp"}) \cup f, n \cup {"ctx.sp"}))
      <3> HIDE DEF s
      <3>1. QED
        BY <1>1, <2>1, EspDoes
    <2>4. QED
      BY <2>2, <2>3 DEF AddCtxEsp, A5
  <1>10. Straight(c, <<Native({}, {"a"}, {"ctx.eip"})>>, A5, A6)
    <2> DEFINE out == {"ctx.eip"}
    <2>1. /\ out \subseteq Locations /\ e \cup n \subseteq Locations /\ e \subseteq A5.o /\ n \subseteq A5.n
          /\ A6.stop = A5.stop /\ A6.o \subseteq A5.o \ out /\ A6.n \subseteq (A5.n \ out) \cup out
      BY <1>1, <1>3, PlaceFacts
    <2> HIDE DEF e, n, out
    <2>2. Straight(c, <<Native(e, n, out)>>, A5, A6)
      BY <1>4, <2>1, NativeDoes
    <2>3. QED
      BY <2>2 DEF e, n, out
  <1>11. Straight(c, <<Copy("ctx.a", "a")>>, A6, A7)
    <2>1. Keeps(A6, A7, {"a"}) /\ Gets(A6, A7, "a", "ctx.a")
      BY <1>3 DEF Keeps, Gets
    <2>2. "ctx.a" \in Locations /\ "a" \in Locations
      BY PlaceFacts DEF Base
    <2>3. QED
      BY <1>4, <2>1, <2>2, CopyDoes
  <1>12. Straight(c, Ret, A7, Impossible)
    <2>1. Here(Plain4 \ w) = {"a", "c", "mem"} /\ Here(w) = {"ctx.sp"}
      BY ImagesToo, ImagesAre
    <2> HIDE DEF w
    <2>2. InPlace(c, A7)
      <3>1. Here(Plain4 \ w) \subseteq A7.o /\ Here(w) \subseteq A7.n
        BY <1>3, <2>1
      <3>2. Writes(c.form) \cap Plain4 = w
        BY <1>1
      <3>3. QED
        BY <1>1, <3>1, <3>2, InPlaceIs
    <2>3. RetOk(c, A7)
      BY <1>1, <1>3, <2>2 DEF RetOk
    <2>4. QED
      BY <1>2, <1>4, <2>3, LeavingMoves
  <1> DEFINE z == AddCtxEsp(s, e)
             t == <<Native({}, {"a"}, {"ctx.eip"}), Copy("ctx.a", "a")>>
  <1>13. Straight(c, t, A5, A7)
    <2>1. Straight(c, <<Native({}, {"a"}, {"ctx.eip"})>> \o <<Copy("ctx.a", "a")>>, A5, A7)
      BY <1>10, <1>11, StraightConcat
    <2>2. QED
      BY <2>1, TwoIs
  <1> HIDE DEF y, o, n, q, z, e, t
  <1>14. Straight(c, SaveGp \o LoadEspToR14, A0, Known(o \cup {Raw}, e))
    BY <1>5, <1>6, StraightConcat
  <1>15. Does(c, SaveGp \o LoadEspToR14 \o PagingTranslate, A0, Known(o \cup {"pa"}, e))
    BY <1>7, <1>14, StraightDoes, DoesConcat
  <1>16. Does(c, SaveGp \o LoadEspToR14 \o PagingTranslate \o y, A0, Known(q, n))
    BY <1>8, <1>15, StraightDoes, DoesConcat
  <1>17. Straight(c, z, Known(q, n), A5)
    BY <1>9 DEF z
  <1>18. Does(c, SaveGp \o LoadEspToR14 \o PagingTranslate \o y \o z, A0, A5)
    BY <1>16, <1>17, StraightDoes, DoesConcat
  <1>19. Does(c, SaveGp \o LoadEspToR14 \o PagingTranslate \o y \o z \o t, A0, A7)
    BY <1>13, <1>18, StraightDoes, DoesConcat
  <1>20. Does(c, SaveGp \o LoadEspToR14 \o PagingTranslate \o y \o z \o t \o Ret, A0, Impossible)
    BY <1>12, <1>19, StraightDoes, DoesConcat
  <1>21. QED
    BY <1>20 DEF EmitRet, A0, y, z, t, e

\* RETF and IRET: a helper pops EIP, IRET's the flags as well.
LEMMA FarReturnsDo ==
  ASSUME NEW c \in Contracts
  PROVE  /\ c.form = "retf" => Straight(c, EmitRetf, Start(c), Impossible)
         /\ c.form = "iret" => Straight(c, EmitIret, Start(c), Impossible)
  <1> DEFINE A0 == Start(c)
             A1 == Known({"ctx.a", "ctx.c", "ctx.sp", "mem"}, {})
             w == {"sp"}
             old == {"ctx.sp"}
  <1>1. /\ A0 \in Claims /\ A0.o = Base \cup c.live \cup {"whole"} /\ A0.n = {} /\ A0.stop = "none"
        /\ Impossible \in Claims /\ Base = {"a", "c", "ctx.sp", "mem"} /\ Flags = {"cf", "zf"}
        /\ {"a", "c", "ctx.sp", "mem", "cf", "zf", "ctx.a", "ctx.c", "ctx.cf", "ctx.zf", "ctx.eip"} \subseteq Locations
        /\ Locations \subseteq Places /\ Extra \subseteq Places
    BY EndClaims, PlaceFacts DEF Base, Flags
  <1>2. A1.o = {"ctx.a", "ctx.c", "ctx.sp", "mem"} /\ A1.n = {} /\ A1.stop = "none"
    BY DEF Known
  <1>3. A1 \in Claims
    <2>1. {"ctx.a", "ctx.c", "ctx.sp", "mem"} \in SUBSET Places /\ {} \in SUBSET Places
      BY <1>1
    <2>2. QED
      BY <2>1, KnownClaims
  <1> HIDE DEF A0, A1
  <1>4. Straight(c, SaveGp, A0, A1)
    <2>1. Keeps(A0, A1, {"ctx.a", "ctx.c"}) /\ Gets(A0, A1, "ctx.a", "a") /\ Gets(A0, A1, "ctx.c", "c")
      BY <1>1, <1>2 DEF Keeps, Gets
    <2>2. QED
      BY <1>1, <1>3, <2>1, FixedMoves
  <1>5. Parts(old) = old /\ old \subseteq Locations \cup {"r14"} /\ Parts(old) \subseteq A1.o
    BY <1>1, <1>2 DEF Parts
  <1>6. ASSUME NEW A \in Claims, A.stop = "none", A.o = {"a", "c", "mem"}, "ctx.sp" \in A.n, Writes(c.form) \cap Plain4 = w
        PROVE  InPlace(c, A)
    <2>1. Here(Plain4 \ w) = {"a", "c", "mem"} /\ Here(w) = {"ctx.sp"} /\ w \in SUBSET Plain4
      BY ImagesToo, ImagesAre
    <2> HIDE DEF w
    <2>2. Here(Plain4 \ w) \subseteq A.o /\ Here(w) \subseteq A.n
      BY <1>6, <2>1
    <2>3. QED
      BY <1>6, <2>1, <2>2, InPlaceIs
  <1>7. ASSUME c.form = "retf" PROVE Straight(c, EmitRetf, A0, Impossible)
    <2> DEFINE A2 == Known({"ctx.a", "ctx.c", "mem"}, {"ctx.sp", "ctx.eip"})
               A3 == Known({"a", "c", "mem"}, {"ctx.sp", "ctx.eip"})
               out == {"ctx.sp"} \cup {"ctx.eip"}
               lose == {"ctx.eip"}
    <2>1. /\ A2.o = {"ctx.a", "ctx.c", "mem"} /\ A2.n = {"ctx.sp", "ctx.eip"} /\ A2.stop = "none"
          /\ A3.o = {"a", "c", "mem"} /\ A3.n = {"ctx.sp", "ctx.eip"} /\ A3.stop = "none"
      BY DEF Known
    <2>2. A2 \in Claims /\ A3 \in Claims
      <3>1. /\ {"ctx.a", "ctx.c", "mem"} \in SUBSET Places /\ {"ctx.sp", "ctx.eip"} \in SUBSET Places
            /\ {"a", "c", "mem"} \in SUBSET Places
        BY <1>1
      <3>2. QED
        BY <3>1, KnownClaims
    <2> HIDE DEF A2, A3
    <2>3. Straight(c, <<RetfHelper>>, A1, A2)
      <3>1. /\ out \subseteq Locations /\ lose \subseteq out
            /\ A2.stop = A1.stop /\ A2.o \subseteq A1.o \ (out \cup {"a", "c", "whole"} \cup Flags)
        BY <1>1, <1>2, <2>1
      <3>2. A2.n \subseteq (A1.n \ (out \cup {"a", "c"} \cup Flags)) \cup out
        BY <2>1
      <3> HIDE DEF out, lose, old
      <3>3. Straight(c, <<CallAbs(old, {}, out, lose)>>, A1, A2)
        BY <1>3, <1>5, <2>2, <3>1, <3>2, CallAbsDoes
      <3>4. QED
        BY <3>3 DEF RetfHelper, Popping, old, out, lose
    <2>4. Straight(c, LoadGp, A2, A3)
      <3>1. Keeps(A2, A3, {"a", "c"}) /\ Gets(A2, A3, "a", "ctx.a") /\ Gets(A2, A3, "c", "ctx.c")
        BY <2>1 DEF Keeps, Gets
      <3>2. QED
        BY <2>2, <3>1, FixedMoves
    <2>5. Straight(c, Ret, A3, Impossible)
      <3>1. Writes(c.form) \cap Plain4 = w
        BY <1>7 DEF Writes, Insns, Plain4
      <3>2. InPlace(c, A3)
        BY <1>6, <2>1, <2>2, <3>1
      <3>3. RetOk(c, A3)
        BY <1>7, <2>1, <3>2 DEF RetOk
      <3>4. QED
        BY <1>1, <2>2, <3>3, LeavingMoves
    <2>6. Straight(c, SaveGp \o <<RetfHelper>>, A0, A2)
      BY <1>4, <2>3, StraightConcat
    <2>7. Straight(c, SaveGp \o <<RetfHelper>> \o LoadGp, A0, A3)
      BY <2>4, <2>6, StraightConcat
    <2>8. Straight(c, SaveGp \o <<RetfHelper>> \o LoadGp \o Ret, A0, Impossible)
      BY <2>5, <2>7, StraightConcat
    <2>9. QED
      BY <2>8 DEF EmitRetf
  <1>8. ASSUME c.form = "iret" PROVE Straight(c, EmitIret, A0, Impossible)
    <2> DEFINE k == {"ctx.a", "ctx.c", "mem"}
               A2 == Known(k, {"ctx.sp", "ctx.eip", "ctx.cf", "ctx.zf"})
               A3 == Known(k, {"ctx.sp", "ctx.eip", "r14.1", "r14.2"})
               A4 == Known(k, {"ctx.sp", "ctx.eip", "st.1", "st.2"})
               A5 == Known(k, {"ctx.sp", "ctx.eip", "cf", "zf"})
               A6 == Known({"a", "c", "mem"}, {"ctx.sp", "ctx.eip", "cf", "zf"})
               lose == {"ctx.eip", "ctx.cf", "ctx.zf"}
               out == {"ctx.sp"} \cup {"ctx.eip", "ctx.cf", "ctx.zf"}
    <2>1. /\ A2.o = k /\ A2.n = {"ctx.sp", "ctx.eip", "ctx.cf", "ctx.zf"} /\ A2.stop = "none"
          /\ A3.o = k /\ A3.n = {"ctx.sp", "ctx.eip", "r14.1", "r14.2"} /\ A3.stop = "none"
          /\ A4.o = k /\ A4.n = {"ctx.sp", "ctx.eip", "st.1", "st.2"} /\ A4.stop = "none"
          /\ A5.o = k /\ A5.n = {"ctx.sp", "ctx.eip", "cf", "zf"} /\ A5.stop = "none"
          /\ A6.o = {"a", "c", "mem"} /\ A6.n = {"ctx.sp", "ctx.eip", "cf", "zf"} /\ A6.stop = "none"
      BY DEF Known
    <2>2. A2 \in Claims /\ A3 \in Claims /\ A4 \in Claims /\ A5 \in Claims /\ A6 \in Claims
      <3>1. /\ {"ctx.sp", "ctx.eip", "ctx.cf", "ctx.zf"} \in SUBSET Places
            /\ {"ctx.sp", "ctx.eip", "r14.1", "r14.2"} \in SUBSET Places
            /\ {"ctx.sp", "ctx.eip", "st.1", "st.2"} \in SUBSET Places
            /\ {"ctx.sp", "ctx.eip", "cf", "zf"} \in SUBSET Places
            /\ k \in SUBSET Places /\ {"a", "c", "mem"} \in SUBSET Places
        BY <1>1 DEF Extra
      <3> HIDE DEF k
      <3>2. QED
        BY <3>1, KnownClaims
    <2> HIDE DEF A2, A3, A4, A5, A6
    <2>3. OpStraight(c, IretHelper, A1, A2)
      <3>1. /\ out \subseteq Locations /\ lose \subseteq out
            /\ A2.stop = A1.stop /\ A2.o \subseteq A1.o \ (out \cup {"a", "c", "whole"} \cup Flags)
        BY <1>1, <1>2, <2>1
      <3>2. A2.n \subseteq (A1.n \ (out \cup {"a", "c"} \cup Flags)) \cup out
        BY <2>1
      <3> HIDE DEF out, lose, old
      <3>3. OpStraight(c, CallAbs(old, {}, out, lose), A1, A2)
        BY <1>3, <1>5, <2>2, <3>1, <3>2, CallAbsDoes
      <3>4. QED
        BY <3>3 DEF IretHelper, Popping, old, out, lose
    <2>4. OpStraight(c, Op("r14_eflags"), A2, A3)
      <3>1. /\ Keeps(A2, A3, InR14) /\ NewR14(A3)
            /\ Gets(A2, A3, "r14.1", "ctx.cf") /\ Gets(A2, A3, "r14.2", "ctx.zf")
        BY <2>1 DEF Keeps, Gets, NewR14, InR14
      <3>2. QED
        BY <2>2, <3>1, R14Moves
    <2>5. Straight(c, <<Op("push_r14")>>, A3, A4)
      <3>1. /\ Keeps(A3, A4, {"st.1", "st.2"})
            /\ Gets(A3, A4, "st.1", "r14.1") /\ Gets(A3, A4, "st.2", "r14.2")
        BY <2>1 DEF Keeps, Gets
      <3>2. QED
        BY <2>2, <3>1, R14Moves
    <2>6. Straight(c, PopFlags, A4, A5)
      <3>1. /\ Keeps(A4, A5, Flags) /\ Drops(A5, {"st.1", "st.2", "whole"})
            /\ Gets(A4, A5, "cf", "st.1") /\ Gets(A4, A5, "zf", "st.2")
        BY <1>1, <2>1 DEF Keeps, Gets, Drops
      <3>2. QED
        BY <2>2, <3>1, FixedMoves
    <2>7. Straight(c, LoadGp, A5, A6)
      <3>1. Keeps(A5, A6, {"a", "c"}) /\ Gets(A5, A6, "a", "ctx.a") /\ Gets(A5, A6, "c", "ctx.c")
        BY <2>1 DEF Keeps, Gets
      <3>2. QED
        BY <2>2, <3>1, FixedMoves
    <2>8. Straight(c, Ret, A6, Impossible)
      <3>1. Writes(c.form) \cap Plain4 = w
        BY <1>8 DEF Writes, Insns, Plain4, Flags
      <3>2. InPlace(c, A6)
        BY <1>6, <2>1, <2>2, <3>1
      <3>3. RetOk(c, A6)
        BY <1>1, <2>1, <3>2 DEF RetOk
      <3>4. QED
        BY <1>1, <2>2, <3>3, LeavingMoves
    <2>9. Straight(c, <<IretHelper, Op("r14_eflags")>>, A1, A3)
      BY <1>3, <2>2, <2>3, <2>4, PairStraight
    <2>10. Straight(c, R14ToFlags, A3, A5)
      BY <2>5, <2>6, StraightConcat DEF R14ToFlags
    <2>11. Straight(c, SaveGp \o <<IretHelper, Op("r14_eflags")>>, A0, A3)
      BY <1>4, <2>9, StraightConcat
    <2>12. Straight(c, SaveGp \o <<IretHelper, Op("r14_eflags")>> \o R14ToFlags, A0, A5)
      BY <2>10, <2>11, StraightConcat
    <2>13. Straight(c, SaveGp \o <<IretHelper, Op("r14_eflags")>> \o R14ToFlags \o LoadGp, A0, A6)
      BY <2>7, <2>12, StraightConcat
    <2>14. Straight(c, SaveGp \o <<IretHelper, Op("r14_eflags")>> \o R14ToFlags \o LoadGp \o Ret, A0, Impossible)
      BY <2>8, <2>13, StraightConcat
    <2>15. QED
      BY <2>14 DEF EmitIret
  <1>9. QED
    BY <1>7, <1>8 DEF A0

\* TEST ECX, ECX and DEC ECX, of what nothing is lost.
LEMMA EcxDoes ==
  ASSUME NEW c, NEW f \in SUBSET Flags
  PROVE  /\ Straight(c, TestEcx("old"), Known(Base \cup f \cup {"whole"}, {}), Known(Base \cup {"whole"}, {"zf"}))
         /\ \A k \in SUBSET {"br"} :
              /\ Straight(c, DecEcx, Known(Base \cup f \cup {"whole"}, k),
                          Known((Base \ {"c"}) \cup {"whole"}, {"c"} \cup k))
              /\ Straight(c, TestEcx("new"), Known((Base \ {"c"}) \cup {"whole"}, {"c"} \cup k),
                          Known((Base \ {"c"}) \cup {"whole"}, {"c", "zf"} \cup k))
  <1>1. /\ Base = {"a", "c", "ctx.sp", "mem"} /\ Flags = {"cf", "zf"}
        /\ Base \cup Flags \cup {"br"} \subseteq Locations /\ Locations \subseteq Places
        /\ Extra \subseteq Places /\ "whole" \in Places
    BY PlaceFacts DEF Base, Flags, Extra
  <1> DEFINE u == {"c"}
             e == {}
             z == {"zf"}
             cf == {"cf"}
  <1>2. \A old, new, out, bad :
           Fields(Clobbering(Native(old, new, out), bad), old, new, out, bad, {}, "none")
    BY ComputingFields
  <1>3. ASSUME NEW A \in Claims, NEW B \in Claims, NEW old, NEW new, NEW out, NEW bad,
               old \cup new \cup out \cup bad \subseteq Locations, old \subseteq A.o, new \subseteq A.n,
               B.stop = A.stop, B.o \subseteq A.o \ (out \cup bad),
               B.n \subseteq (A.n \ (out \cup bad)) \cup out
        PROVE  Straight(c, <<Clobbering(Native(old, new, out), bad)>>, A, B)
    <2> DEFINE x == Clobbering(Native(old, new, out), bad)
    <2>1. Parts(old) = old /\ Parts(new) = new
      BY <1>3, PlaceFacts DEF Parts
    <2>2. Fields(x, old, new, out, bad, {}, "none")
      BY <1>2
    <2>3. "r14" \notin old \cup new
      BY <1>3, PlaceFacts
    <2> HIDE DEF x
    <2>4. Computing(x, old, new, out, bad, {}, "none", A, B)
      BY <1>3, <2>1, <2>2, <2>3 DEF Computing
    <2>5. QED
      BY <2>4, ComputingStraight DEF x
  <1>4. Straight(c, TestEcx("old"), Known(Base \cup f \cup {"whole"}, {}), Known(Base \cup {"whole"}, {"zf"}))
    <2> DEFINE A == Known(Base \cup f \cup {"whole"}, {})
               B == Known(Base \cup {"whole"}, {"zf"})
    <2>1. /\ A.o = Base \cup f \cup {"whole"} /\ A.n = {} /\ A.stop = "none"
          /\ B.o = Base \cup {"whole"} /\ B.n = {"zf"} /\ B.stop = "none"
      BY DEF Known
    <2>2. A \in Claims /\ B \in Claims
      <3>1. Base \cup f \cup {"whole"} \in SUBSET Places /\ Base \cup {"whole"} \in SUBSET Places /\ {} \in SUBSET Places /\ {"zf"} \in SUBSET Places
        BY <1>1
      <3>2. QED
        BY <3>1, KnownClaims
    <2> HIDE DEF A, B
    <2>3. /\ u \cup e \cup z \cup cf \subseteq Locations /\ u \subseteq A.o /\ e \subseteq A.n
          /\ B.stop = A.stop /\ B.o \subseteq A.o \ (z \cup cf) /\ B.n \subseteq (A.n \ (z \cup cf)) \cup z
      BY <1>1, <2>1
    <2> HIDE DEF u, e, z, cf
    <2>4. Straight(c, <<Clobbering(Native(u, e, z), cf)>>, A, B)
      BY <1>3, <2>2, <2>3
    <2>5. QED
      BY <2>4 DEF TestEcx, A, B, u, e, z, cf
  <1>5. ASSUME NEW k \in SUBSET {"br"}
        PROVE  /\ Straight(c, DecEcx, Known(Base \cup f \cup {"whole"}, k),
                           Known((Base \ {"c"}) \cup {"whole"}, {"c"} \cup k))
               /\ Straight(c, TestEcx("new"), Known((Base \ {"c"}) \cup {"whole"}, {"c"} \cup k),
                           Known((Base \ {"c"}) \cup {"whole"}, {"c", "zf"} \cup k))
    <2> DEFINE A == Known(Base \cup f \cup {"whole"}, k)
               B == Known((Base \ {"c"}) \cup {"whole"}, {"c"} \cup k)
               D == Known((Base \ {"c"}) \cup {"whole"}, {"c", "zf"} \cup k)
    <2>1. /\ A.o = Base \cup f \cup {"whole"} /\ A.n = k /\ A.stop = "none"
          /\ B.o = (Base \ {"c"}) \cup {"whole"} /\ B.n = {"c"} \cup k /\ B.stop = "none"
          /\ D.o = (Base \ {"c"}) \cup {"whole"} /\ D.n = {"c", "zf"} \cup k /\ D.stop = "none"
      BY DEF Known
    <2>2. A \in Claims /\ B \in Claims /\ D \in Claims
      <3>1. /\ Base \cup f \cup {"whole"} \in SUBSET Places /\ k \in SUBSET Places
            /\ (Base \ {"c"}) \cup {"whole"} \in SUBSET Places
            /\ {"c"} \cup k \in SUBSET Places /\ {"c", "zf"} \cup k \in SUBSET Places
        BY <1>1
      <3>2. QED
        BY <3>1, KnownClaims
    <2> HIDE DEF A, B, D
    <2>3. Straight(c, DecEcx, A, B)
      <3>1. /\ u \cup e \cup u \cup Flags \subseteq Locations /\ u \subseteq A.o /\ e \subseteq A.n
            /\ B.stop = A.stop /\ B.o \subseteq A.o \ (u \cup Flags) /\ B.n \subseteq (A.n \ (u \cup Flags)) \cup u
        BY <1>1, <2>1
      <3> HIDE DEF u, e
      <3>2. Straight(c, <<Clobbering(Native(u, e, u), Flags)>>, A, B)
        BY <1>3, <2>2, <3>1
      <3>3. QED
        BY <3>2 DEF DecEcx, u, e
    <2>4. Straight(c, TestEcx("new"), B, D)
      <3>1. /\ e \cup u \cup z \cup cf \subseteq Locations /\ e \subseteq B.o /\ u \subseteq B.n
            /\ D.stop = B.stop /\ D.o \subseteq B.o \ (z \cup cf) /\ D.n \subseteq (B.n \ (z \cup cf)) \cup z
        BY <1>1, <2>1
      <3> HIDE DEF u, e, z, cf
      <3>2. Straight(c, <<Clobbering(Native(e, u, z), cf)>>, B, D)
        BY <1>3, <2>2, <3>1
      <3>3. QED
        BY <3>2 DEF TestEcx, u, e, z, cf
    <2>5. QED
      BY <2>3, <2>4 DEF A, B, D
  <1>6. QED
    BY <1>4, <1>5

\* JECXZ, LOOP and LOOPE.
LEMMA LoopsDo ==
  ASSUME NEW c \in Contracts, LiveOk(c)
  PROVE  /\ c.form = "jecxz" => Straight(c, EmitJecxz, Start(c), Impossible)
         /\ c.form = "loop" => Straight(c, EmitLoop, Start(c), Impossible)
         /\ c.form = "loope" => Does(c, EmitLoope, Start(c), Impossible)
  <1> DEFINE f == c.live
             bz == {"br", "zf"}
             z == {"zf"}
             br == {"br"}
             e == {}
             J == Known(Base \cup {"whole"}, {"zf"})
             L(k) == Known((Base \ {"c"}) \cup {"whole"}, {"c"} \cup k)
             N(k) == Known((Base \ {"c"}) \cup {"whole"}, {"c", "zf"} \cup k)
             M == Known(Base \cup f \cup {"whole"}, br)
  <1>1. /\ Base = {"a", "c", "ctx.sp", "mem"} /\ Flags = {"cf", "zf"} /\ f \in SUBSET Flags
        /\ e \in SUBSET {"br"} /\ br \in SUBSET {"br"} /\ Start(c) = Known(Base \cup f \cup {"whole"}, e)
        /\ Impossible \in Claims /\ Start(c) \in Claims
    BY EndClaims DEF Base, Flags, Contracts, Start
  <1>2. /\ J.o = Base \cup {"whole"} /\ J.n = {"zf"} /\ J.stop = "none"
        /\ M.o = Base \cup f \cup {"whole"} /\ M.n = {"br"} /\ M.stop = "none"
        /\ \A k \in SUBSET {"br"} :
              /\ L(k).o = (Base \ {"c"}) \cup {"whole"} /\ L(k).n = {"c"} \cup k /\ L(k).stop = "none"
              /\ N(k).o = (Base \ {"c"}) \cup {"whole"} /\ N(k).n = {"c", "zf"} \cup k /\ N(k).stop = "none"
    BY DEF Known
  <1>3. J \in Claims /\ M \in Claims /\ \A k \in SUBSET {"br"} : L(k) \in Claims /\ N(k) \in Claims
    <2>1. /\ Base \cup {"whole"} \in SUBSET Places /\ {"zf"} \in SUBSET Places
          /\ Base \cup f \cup {"whole"} \in SUBSET Places /\ br \in SUBSET Places
          /\ (Base \ {"c"}) \cup {"whole"} \in SUBSET Places
          /\ \A k \in SUBSET {"br"} : {"c"} \cup k \in SUBSET Places /\ {"c", "zf"} \cup k \in SUBSET Places
      BY <1>1, PlaceFacts DEF Extra
    <2> HIDE DEF br
    <2>2. QED
      BY <2>1, KnownClaims
  <1>4. /\ Straight(c, TestEcx("old"), Start(c), J)
        /\ \A k \in SUBSET {"br"} :
             /\ Straight(c, DecEcx, Known(Base \cup f \cup {"whole"}, k), L(k))
             /\ Straight(c, TestEcx("new"), L(k), N(k))
    <2> HIDE DEF f
    <2>1. QED
      BY <1>1, EcxDoes DEF e
  <1> HIDE DEF J, M, L, N
  <1>5. ASSUME NEW A \in Claims, InPlace(c, A), A.stop = "none", c.form # "iret", "whole" \in A.o,
               NEW new \in SUBSET (Flags \cup {"br"}), new \subseteq A.n
        PROVE  Straight(c, EpilogConditional({}, new), A, Impossible)
    <2>1. e \in SUBSET Flags /\ e \subseteq A.o
      OBVIOUS
    <2> HIDE DEF e
    <2>2. Straight(c, EpilogConditional(e, new), A, Impossible)
      BY <1>5, <2>1, EpilogConditionalDoes
    <2>3. QED
      BY <2>2 DEF e
  <1>6. z \in SUBSET (Flags \cup {"br"}) /\ bz \in SUBSET (Flags \cup {"br"})
    BY <1>1
  <1>7. ASSUME NEW k \in SUBSET {"br"}, c.form \in {"loop", "loope"}
        PROVE  InPlace(c, L(k)) /\ InPlace(c, N(k)) /\ c.form # "iret"
    <2>1. Writes(c.form) = {"c"} /\ c.form # "iret"
      BY <1>7 DEF Writes, Insns
    <2>2. /\ {"a", "ctx.sp", "mem"} \subseteq L(k).o /\ "c" \in L(k).n
          /\ {"a", "ctx.sp", "mem"} \subseteq N(k).o /\ "c" \in N(k).n
      BY <1>1, <1>2
    <2>3. QED
      BY <2>1, <2>2, StartInPlace
  <1>8. c.form = "jecxz" => Straight(c, EmitJecxz, Start(c), Impossible)
    <2> HAVE c.form = "jecxz"
    <2>1. Writes(c.form) = {} /\ c.form # "iret"
      BY DEF Writes, Insns
    <2>2. Base \subseteq J.o /\ "whole" \in J.o /\ z \subseteq J.n
      BY <1>2
    <2>3. InPlace(c, J)
      BY <2>1, <2>2, StartInPlace
    <2> HIDE DEF z
    <2>4. Straight(c, EpilogConditional({}, z), J, Impossible)
      BY <1>2, <1>3, <1>5, <1>6, <2>1, <2>2, <2>3
    <2>5. QED
      BY <1>4, <2>4, StraightConcat DEF EmitJecxz, z
  <1>9. c.form = "loop" => Straight(c, EmitLoop, Start(c), Impossible)
    <2> HAVE c.form = "loop"
    <2>1. "whole" \in N(e).o /\ z \subseteq N(e).n /\ N(e).stop = "none" /\ N(e) \in Claims
      BY <1>1, <1>2, <1>3
    <2>2. InPlace(c, N(e)) /\ c.form # "iret"
      BY <1>1, <1>7
    <2> HIDE DEF z, e
    <2>3. Straight(c, EpilogConditional({}, z), N(e), Impossible)
      BY <1>5, <1>6, <2>1, <2>2
    <2>4. Straight(c, DecEcx, Start(c), L(e)) /\ Straight(c, TestEcx("new"), L(e), N(e))
      BY <1>1, <1>4
    <2>5. Straight(c, DecEcx \o TestEcx("new"), Start(c), N(e))
      BY <2>4, StraightConcat
    <2>6. Straight(c, DecEcx \o TestEcx("new") \o EpilogConditional({}, z), Start(c), Impossible)
      BY <2>3, <2>5, StraightConcat
    <2>7. QED
      BY <2>6 DEF EmitLoop, z
  <1>10. c.form = "loope" => Does(c, EmitLoope, Start(c), Impossible)
    <2> HAVE c.form = "loope"
    <2> DEFINE x == DecEcx \o TestEcx("new") \o EpilogConditional({}, bz)
               y == DecEcx \o EpilogStatic
               o == [Native({"zf"}, {}, {"br"}) EXCEPT !.op = "fork", !.alt = <<x, y>>]
    <2>1. /\ "whole" \in N(br).o /\ bz \subseteq N(br).n /\ N(br).stop = "none" /\ N(br) \in Claims
          /\ "whole" \in L(br).o /\ "br" \in L(br).n /\ L(br).stop = "none" /\ L(br) \in Claims
      BY <1>1, <1>2, <1>3
    <2>2. InPlace(c, N(br)) /\ InPlace(c, L(br)) /\ c.form # "iret"
      BY <1>1, <1>7
    <2>3. Straight(c, DecEcx, M, L(br)) /\ Straight(c, TestEcx("new"), L(br), N(br))
      BY <1>1, <1>4 DEF M
    <2>4. Straight(c, x, M, Impossible)
      <3> HIDE DEF bz, br
      <3>1. Straight(c, EpilogConditional({}, bz), N(br), Impossible)
        BY <1>5, <1>6, <2>1, <2>2
      <3>2. Straight(c, DecEcx \o TestEcx("new"), M, N(br))
        BY <2>3, StraightConcat
      <3>3. QED
        BY <3>1, <3>2, StraightConcat
    <2>5. Straight(c, y, M, Impossible)
      <3>1. Straight(c, EpilogStatic, L(br), Impossible)
        <4> HIDE DEF br
        <4>1. LinkOk(c, L(br))
          BY <2>1, <2>2 DEF LinkOk
        <4>2. QED
          BY <2>1, <2>2, <4>1, EpilogStaticDoes
      <3>2. QED
        BY <2>3, <3>1, StraightConcat
    <2> HIDE DEF x, y
    <2>6. /\ o.op = "fork" /\ o.old = z /\ o.new = e /\ o.out = br /\ o.bad = e /\ o.lose = e /\ o.addr = "none"
          /\ o.alt = <<x, y>>
      BY DEF Native, Op
    <2>7. Computed(o, Start(c), M)
      <3>1. /\ Start(c).o = Base \cup f \cup {"whole"} /\ Start(c).n = {} /\ Start(c).stop = "none"
            /\ "zf" \in f
        <4>1. Insns[c.form].t = {"zf"}
          BY DEF Insns
        <4>2. QED
          BY <4>1, EndClaims DEF LiveOk
      <3>2. Parts(z) = z /\ Parts(e) = e /\ Parts(br) = br /\ br \cup e = br /\ "r14" \notin br \cup e
        BY DEF Parts
      <3>3. /\ z \cup e \cup br \cup e \subseteq Locations \cup {"r14"} /\ e \subseteq br
            /\ "r14" \notin z \cup e /\ "none" \in {"none", "va", "pa"}
        BY PlaceFacts, <1>1
      <3>4. z \subseteq Start(c).o /\ e \subseteq Start(c).n
        BY <3>1
      <3>5. \A l \in br : l \notin M.o
        BY <1>1, <1>2
      <3>6. Keeps(Start(c), M, br)
        BY <1>2, <3>1 DEF Keeps
      <3>7. br \cup {} = br
        OBVIOUS
      <3> HIDE DEF z, e, br, o
      <3>8. Effect(z, e, br, e, e, "none", Start(c), M)
        BY <3>2, <3>3, <3>4, <3>5, <3>6, <3>7 DEF Effect, e
      <3>9. QED
        BY <2>6, <3>8 DEF Computed
    <2> HIDE DEF o
    <2>8. OpDoes(c, o, Start(c), Impossible)
      <3>1. o.alt[1] = x /\ o.alt[2] = y
        BY <2>6
      <3>2. QED
        BY <1>3, <2>4, <2>5, <2>6, <2>7, <3>1 DEF OpDoes
    <2>9. Does(c, <<o>>, Start(c), Impossible)
      BY <1>1, <2>8, SingleDoes
    <2>10. QED
      BY <2>9 DEF o, EmitLoope, x, y, bz
  <1>11. QED
    BY <1>8, <1>9, <1>10

\* The exit of an undefined or privileged instruction, with its own EIP.
LEMMA TrapDoes ==
  ASSUME NEW c \in Contracts, NEW r \in Reasons \ {"none"}
  PROVE  Straight(c, Trap(r), Start(c), Impossible)
  <1> DEFINE f == c.live
             A0 == Start(c)
             A == Known(Base \cup f, {})
             B == Known(Base \cup f \cup {"ctx.eip"}, {})
             D == [o |-> Base \cup f \cup {"ctx.eip"}, n |-> {}, stop |-> r]
  <1>1. /\ A0 \in Claims /\ A0.o = Base \cup f \cup {"whole"} /\ A0.n = {} /\ A0.stop = "none"
        /\ Impossible \in Claims /\ Base = {"a", "c", "ctx.sp", "mem"} /\ f \in SUBSET {"cf", "zf"}
        /\ "ctx.eip" \in Locations /\ Needed(c) \subseteq f
    BY EndClaims, PlaceFacts DEF Base, Flags, Contracts, Needed
  <1>2. /\ A.o = Base \cup f /\ A.n = {} /\ A.stop = "none"
        /\ B.o = Base \cup f \cup {"ctx.eip"} /\ B.n = {} /\ B.stop = "none"
        /\ D.o = Base \cup f \cup {"ctx.eip"} /\ D.n = {} /\ D.stop = r
    BY DEF Known
  <1>3. A \in Claims /\ B \in Claims /\ D \in Claims
    <2>1. Base \cup f \in SUBSET Places /\ Base \cup f \cup {"ctx.eip"} \in SUBSET Places /\ {} \in SUBSET Places
      BY <1>1, PlaceFacts DEF Flags
    <2>2. r \in Reasons
      OBVIOUS
    <2>3. A \in Claims /\ B \in Claims
      BY <2>1, KnownClaims
    <2>4. D \in Claims
      BY <2>1, <2>2 DEF Claims
    <2>5. QED
      BY <2>3, <2>4
  <1> HIDE DEF A0, A, B, D
  <1>4. Straight(c, SaveGp, A0, A)
    <2>1. Keeps(A0, A, {"ctx.a", "ctx.c"}) /\ Gets(A0, A, "ctx.a", "a") /\ Gets(A0, A, "ctx.c", "c")
      BY <1>1, <1>2 DEF Keeps, Gets
    <2>2. QED
      BY <1>1, <1>3, <2>1, FixedMoves
  <1>5. \A w : Keeps(A, A, w)
    BY DEF Keeps
  <1>6. /\ \A l \in {"st.1", "st.2", "r14.1", "r14.2", "va", "pa", "whole", "ctx.cf", "ctx.zf", "ctx.eip"} :
             l \notin A.o /\ l \notin A.n
        /\ \A l \in {"r14.1", "r14.2", "va", "pa"} : l \notin B.o /\ l \notin B.n
    BY <1>1, <1>2
  <1>7. /\ Gets(A, A, "st.1", "cf") /\ Gets(A, A, "st.2", "zf")
        /\ Gets(A, A, "r14.1", "st.1") /\ Gets(A, A, "r14.2", "st.2")
        /\ Gets(A, A, "ctx.cf", "r14.1") /\ Gets(A, A, "ctx.zf", "r14.2")
        /\ Drops(A, {"st.1", "st.2"}) /\ Drops(A, {"whole"}) /\ NewR14(A)
    BY <1>6 DEF Gets, Drops, NewR14
  <1>8. Straight(c, PushFlags, A, A)
    BY <1>3, <1>5, <1>7, FixedMoves
  <1>9. Straight(c, <<Op("pop_r14")>>, A, A) /\ Straight(c, <<Op("eflags_r14")>>, A, A)
    BY <1>3, <1>5, <1>7, R14Moves
  <1>10. Straight(c, SaveEflags, A, A)
    <2>1. Straight(c, FlagsToR14, A, A)
      BY <1>8, <1>9, StraightConcat DEF FlagsToR14
    <2>2. QED
      BY <1>9, <2>1, StraightConcat DEF SaveEflags
  <1>11. Straight(c, NextEipThis, A, B)
    <2>1. Keeps(A, B, InR14 \cup {"ctx.eip"})
      BY <1>2 DEF Keeps
    <2>2. NewR14(B) /\ Drops(B, {"r14.1", "r14.2"}) /\ "ctx.eip" \notin B.n
      BY <1>2, <1>6 DEF NewR14, Drops
    <2>3. QED
      BY <1>3, <2>1, <2>2, LeavingMoves
  <1>12. Straight(c, StopReason(r), B, D)
    <2>1. Straight(c, StopReason(D.stop), B, D)
      <3>1. D.o \subseteq B.o /\ D.n \subseteq B.n
        BY <1>2
      <3>2. QED
        BY <1>3, <3>1, LeavingMoves
    <2>2. QED
      BY <1>2, <2>1
  <1>13. Straight(c, Ret, D, Impossible)
    <2>1. D.stop # "none" /\ Base \cup Needed(c) \cup {"ctx.eip"} \subseteq D.o
      BY <1>1, <1>2
    <2>2. RetOk(c, D)
      BY <1>3, <2>1, ErrorRet
    <2>3. QED
      BY <1>1, <1>3, <2>2, LeavingMoves
  <1>14. Straight(c, SaveGp \o SaveEflags, A0, A)
    BY <1>4, <1>10, StraightConcat
  <1>15. Straight(c, SaveGp \o SaveEflags \o NextEipThis, A0, B)
    BY <1>11, <1>14, StraightConcat
  <1>16. Straight(c, SaveGp \o SaveEflags \o NextEipThis \o StopReason(r), A0, D)
    BY <1>12, <1>15, StraightConcat
  <1>17. Straight(c, SaveGp \o SaveEflags \o NextEipThis \o StopReason(r) \o Ret, A0, Impossible)
    BY <1>13, <1>16, StraightConcat
  <1>18. QED
    BY <1>17 DEF Trap, A0

\* The static exit behind the last instruction, where its results are in place.
LEMMA LastDoes ==
  ASSUME NEW c \in Contracts, c.form \notin Leaving
  PROVE  Straight(c, EpilogStatic, Finish(c), Impossible)
  <1>1. Finish(c) \in Claims /\ Finish(c).stop = "none"
    BY EndClaims
  <1>2. c.form # "iret" /\ c.form \notin Branches
    BY DEF Leaving, Terminators, Branches
  <1>3. InPlace(c, Finish(c))
    <2>1. CASE c.form = "movzx16"
      BY <2>1 DEF InPlace
    <2>2. CASE c.form # "movzx16"
      <3>1. /\ Finish(c).o = { InTrace[g] : g \in Owed(c) \ Writes(c.form) }
            /\ Finish(c).n = { InTrace[g] : g \in Owed(c) \cap Writes(c.form) }
        BY <2>2 DEF Finish, Known
      <3>2. Guest \ Flags \subseteq Owed(c)
        BY DEF Owed
      <3>3. QED
        BY <3>1, <3>2 DEF InPlace
    <2>3. QED
      BY <2>1, <2>2
  <1>4. LinkOk(c, Finish(c))
    BY <1>1, <1>2, <1>3 DEF LinkOk
  <1>5. QED
    BY <1>1, <1>2, <1>4, EpilogStaticDoes

\* Every terminator leaves the trace.
LEMMA TerminatorDoes ==
  ASSUME NEW c \in Contracts, LiveOk(c), paging \in BOOLEAN, c.form \in Terminators
  PROVE  Does(c, EmitTerminator(c.form), Start(c), Impossible)
  <1>1. c.form \in {"jz", "jc"} => Does(c, EmitTerminator(c.form), Start(c), Impossible)
    BY PlainJumpsDo, StraightDoes DEF EmitTerminator
  <1>2. c.form \in {"jmp", "jmp_reg", "jmp_mem"} => Does(c, EmitTerminator(c.form), Start(c), Impossible)
    BY PlainJumpsDo, MemTargetsDo, StraightDoes DEF EmitTerminator, EmitJmp
  <1>3. c.form \in {"call", "call_reg", "call_mem"} => Does(c, EmitTerminator(c.form), Start(c), Impossible)
    BY CallsDo, MemTargetsDo DEF EmitTerminator, EmitCall
  <1>4. c.form \in {"ret", "retf", "iret"} => Does(c, EmitTerminator(c.form), Start(c), Impossible)
    BY RetDoes, FarReturnsDo, StraightDoes DEF EmitTerminator
  <1>5. c.form \in {"jecxz", "loop", "loope"} => Does(c, EmitTerminator(c.form), Start(c), Impossible)
    BY LoopsDo, StraightDoes DEF EmitTerminator
  <1>6. QED
    BY <1>1, <1>2, <1>3, <1>4, <1>5 DEF Terminators

-----------------------------------------------------------------------------
(* The code of a trace.                                                    *)

\* The contract of a trace's first instruction, and where its code is to lead.
Contract(t) == [form |-> Head(t), live |-> LiveBefore(t)]
Target(t) == IF Tail(t) = <<>> \/ Head(t) \in Leaving THEN Impossible ELSE Finish(Contract(t))

\* The code of every instruction keeps its contract.
CodeKept == \A t \in Seq(Forms) : t # <<>> => Does(Contract(t), Emit(t), Start(Contract(t)), Target(t))

\* The liveness pass leaves alive what the instruction tests, and of what it
\* writes nothing else; and what is alive behind it, it writes or had before.
LEMMA ContractIs ==
  ASSUME NEW t \in Seq(Forms), t # <<>>
  PROVE  /\ Contract(t) \in Contracts /\ LiveOk(Contract(t))
         /\ Contract(t).form = Head(t) /\ Contract(t).live = LiveBefore(t)
         /\ Head(t) \notin Leaving =>
               LiveBefore(Tail(t)) \subseteq LiveBefore(t) \cup Writes(Head(t))
  <1> DEFINE f == Head(t)
             after == IF f \in Terminators \cup {"priv"} THEN {} ELSE LiveBefore(Tail(t))
  <1>1. LiveBefore(t) = (after \ Insns[f].w) \cup Insns[f].t
    BY LivenessAsComputed
  <1>2. f \in Forms /\ LiveBefore(t) \subseteq Flags /\ after \subseteq Flags
    BY DEF LiveBefore
  <1>3. Contract(t).form = f /\ Contract(t).live = LiveBefore(t)
    BY DEF Contract
  <1>4. Contract(t) \in Contracts
    BY <1>2 DEF Contract, Contracts
  <1>5. f \notin Leaving => after = LiveBefore(Tail(t))
    BY DEF Leaving
  <1> HIDE DEF f, after
  <1>6. LiveOk(Contract(t))
    BY <1>1, <1>2, <1>3 DEF LiveOk, Writes
  <1>7. f \notin Leaving => LiveBefore(Tail(t)) \subseteq LiveBefore(t) \cup Writes(f)
    BY <1>1, <1>5 DEF Writes
  <1>8. QED
    BY <1>3, <1>4, <1>6, <1>7 DEF f

\* Every instruction is emitted so, in every trace.
LEMMA EmitDoes == paging \in BOOLEAN => CodeKept
  <1> SUFFICES ASSUME paging \in BOOLEAN, NEW t \in Seq(Forms), t # <<>>
               PROVE  Does(Contract(t), Emit(t), Start(Contract(t)), Target(t))
    BY DEF CodeKept
  <1> DEFINE f == Head(t)
             c == Contract(t)
  <1>1. c \in Contracts /\ LiveOk(c) /\ c.form = f /\ c.live = LiveBefore(t)
    BY ContractIs
  <1> HIDE DEF c
  <1>2. CASE f \in Terminators
    <2>1. Emit(t) = EmitTerminator(f) /\ Target(t) = Impossible
      BY <1>2 DEF Emit, Terminators, Target, Leaving
    <2>2. QED
      BY <1>1, <1>2, <2>1, TerminatorDoes DEF c
  <1>3. CASE f \in {"ud2", "priv", "mov_cr"}
    <2>1. Emit(t) = IF f = "ud2" THEN Trap("invalid_opcode") ELSE Trap("privileged")
      BY <1>3 DEF Emit, Terminators
    <2>2. Target(t) = Impossible
      BY <1>3 DEF Target, Leaving
    <2>3. {"invalid_opcode", "privileged"} \subseteq Reasons \ {"none"}
      BY DEF Reasons
    <2>4. Straight(c, Emit(t), Start(c), Impossible)
      BY <1>1, <2>1, <2>3, TrapDoes
    <2>5. QED
      BY <2>2, <2>4, StraightDoes DEF c
  <1>4. CASE f \notin Leaving
    <2> DEFINE body == EmitBody(f, NeedSave(t))
    <2>1. Emit(t) = body \o IF Tail(t) = <<>> THEN EpilogStatic ELSE <<>>
      BY <1>4 DEF Emit, Leaving
    <2>2. Does(c, body, Start(c), Finish(c))
      <3>1. NeedSave(t) = Saves(c)
        BY <1>1 DEF NeedSave, Saves
      <3>2. QED
        BY <1>1, <1>4, <3>1, BodyDoes DEF Fulfils
    <2> HIDE DEF body
    <2>3. CASE Tail(t) = <<>>
      <3>1. Does(c, EpilogStatic, Finish(c), Impossible)
        BY <1>1, <1>4, LastDoes, StraightDoes
      <3>2. Does(c, body \o EpilogStatic, Start(c), Impossible)
        BY <2>2, <3>1, DoesConcat
      <3>3. QED
        BY <2>1, <2>3, <3>2 DEF Target, c
    <2>4. CASE Tail(t) # <<>>
      <3> DEFINE none == <<>>
      <3>1. Does(c, none, Finish(c), Finish(c))
        BY <1>1, EndClaims, NoneDoes
      <3> HIDE DEF none
      <3>2. Does(c, body \o none, Start(c), Finish(c))
        BY <2>2, <3>1, DoesConcat
      <3>3. QED
        BY <1>4, <2>1, <2>4, <3>2 DEF Target, c, none
    <2>5. QED
      BY <2>3, <2>4
  <1>5. QED
    BY <1>2, <1>3, <1>4 DEF Leaving

-----------------------------------------------------------------------------
(* What operations do: if the claim before one holds, the one behind does. *)

\* The places of a claim, now ...
LEMMA ValIs ==
  /\ \A l \in Locations : Val(l) = v[l]
  /\ Val("r14.1") = r14[1] /\ Val("r14.2") = r14[Len(r14)]
  /\ Val("st.1") = stack[1][1] /\ Val("st.2") = stack[1][2]
  /\ Val("va") = IF physical THEN "junk" ELSE "old"
  /\ Val("pa") = IF physical = paging THEN "old" ELSE "junk"
  /\ Val("whole") = IF \E k \in Locations : v[k] = "lost" THEN "junk" ELSE "old"
  <1>1. \A l \in Locations : l \notin {"r14.1", "r14.2", "st.1", "st.2", "va", "pa", "whole"}
    BY PlaceFacts DEF Extra
  <1>2. \A l \in Locations : Val(l) = v[l]
    BY <1>1 DEF Val
  <1>3. QED
    BY <1>2 DEF Val

\* ... and after a step.
LEMMA ValIsNext ==
  /\ \A l \in Locations : Val(l)' = v'[l]
  /\ Val("r14.1")' = r14'[1] /\ Val("r14.2")' = r14'[Len(r14')]
  /\ Val("st.1")' = stack'[1][1] /\ Val("st.2")' = stack'[1][2]
  /\ Val("va")' = IF physical' THEN "junk" ELSE "old"
  /\ Val("pa")' = IF physical' = paging' THEN "old" ELSE "junk"
  /\ Val("whole")' = IF \E k \in Locations : v'[k] = "lost" THEN "junk" ELSE "old"
  <1>1. \A l \in Locations : l \notin {"r14.1", "r14.2", "st.1", "st.2", "va", "pa", "whole"}
    BY PlaceFacts DEF Extra
  <1>2. \A l \in Locations : Val(l)' = v'[l]
    BY <1>1 DEF Val
  <1>3. QED
    BY <1>2 DEF Val

NewOrLost == {"new", "lost"}

\* What was known of place k is known of place l after the step.
Follows(l, k) ==
    /\ Val(k) = "old" => Val(l)' = "old"
    /\ Val(k) \in NewOrLost => Val(l)' \in NewOrLost

\* What a claim demands of place l after the step.
Meets(B, l) ==
    /\ l \in B.o => Val(l)' = "old"
    /\ l \in B.n => Val(l)' \in NewOrLost

\* What is kept follows from the claim before.
LEMMA Carried ==
  ASSUME NEW A \in Claims, NEW B \in Claims, NEW w, Holds(A), Keeps(A, B, w), stop' = B.stop,
         \A l \in Places \ w : Follows(l, l), \A l \in w : Meets(B, l)
  PROVE  Holds(B)'
  <1>1. B.o \subseteq Places /\ B.n \subseteq Places
    BY DEF Claims
  <1>2. ASSUME NEW l \in B.o PROVE Val(l)' = "old"
    <2>1. CASE l \in w
      BY <2>1 DEF Meets
    <2>2. CASE l \notin w
      BY <1>1, <2>2 DEF Keeps, Holds, Follows
    <2>3. QED
      BY <2>1, <2>2
  <1>3. ASSUME NEW l \in B.n PROVE Val(l)' \in NewOrLost
    <2>1. CASE l \in w
      BY <2>1 DEF Meets
    <2>2. CASE l \notin w
      BY <1>1, <2>2 DEF Keeps, Holds, Follows, NewOrLost
    <2>3. QED
      BY <2>1, <2>2
  <1>4. QED
    BY <1>2, <1>3 DEF Holds, NewOrLost

\* A place that gets what another had.
LEMMA Got ==
  ASSUME NEW A, NEW B, NEW to, NEW from, Holds(A), Gets(A, B, to, from), Val(to)' = Val(from)
  PROVE  Meets(B, to)
  BY DEF Holds, Gets, Meets, NewOrLost

\* What claims say of places that hold no values.
LEMMA NoValues ==
  ASSUME NEW A, Holds(A)
  PROVE  "va" \notin A.n /\ "pa" \notin A.n /\ "whole" \notin A.n
  BY ValIs DEF Holds

\* Both values of R14.
LEMMA AtR14 ==
  ASSUME TypeInv
  PROVE  /\ Val("r14.1") = "old" /\ Val("r14.2") = "old" => At("r14") = "old"
         /\ Val("r14.1") \in NewOrLost /\ Val("r14.2") \in NewOrLost => At("r14") \in NewOrLost
  <1>1. r14 \in Singles \cup Pairs
    BY DEF TypeInv
  <1>2. CASE r14 \in Singles
    <2>1. PICK x \in Value : r14 = <<x>>
      BY <1>2 DEF Singles
    <2>2. DOMAIN r14 = {1} /\ r14[1] = x /\ Len(r14) = 1
      BY <2>1
    <2>3. QED
      BY <2>2, ValIs DEF At, NewOrLost
  <1>3. CASE r14 \in Pairs
    <2>1. PICK x \in Value, y \in Value : r14 = <<x, y>>
      BY <1>3 DEF Pairs
    <2>2. DOMAIN r14 = {1, 2} /\ r14[1] = x /\ r14[2] = y /\ Len(r14) = 2
      BY <2>1
    <2>3. QED
      BY <2>2, ValIs DEF At, NewOrLost
  <1>4. QED
    BY <1>1, <1>2, <1>3

\* The inputs of a computation are right where they are claimed to be.
LEMMA InputsGiven ==
  ASSUME TypeInv, NEW o, NEW A, Holds(A),
         o.old \cup o.new \subseteq Locations \cup {"r14"},
         Parts(o.old) \subseteq A.o, Parts(o.new) \subseteq A.n, o.addr # "none" => o.addr \in A.o
  PROVE  InputsRight(o) /\ Result(o) \in NewOrLost
  <1>1. ASSUME NEW l \in o.old PROVE At(l) \in {"old", "lost"}
    <2>1. CASE l = "r14"
      <3>1. "r14.1" \in A.o /\ "r14.2" \in A.o
        BY <1>1, <2>1 DEF Parts
      <3>2. QED
        BY <2>1, <3>1, AtR14 DEF Holds
    <2>2. CASE l # "r14"
      <3>1. l \in Locations /\ l \in A.o
        BY <1>1, <2>2 DEF Parts
      <3>2. QED
        BY <2>2, <3>1, ValIs DEF Holds, At
    <2>3. QED
      BY <2>1, <2>2
  <1>2. ASSUME NEW l \in o.new PROVE At(l) \in {"new", "lost"}
    <2>1. CASE l = "r14"
      <3>1. "r14.1" \in A.n /\ "r14.2" \in A.n
        BY <1>2, <2>1 DEF Parts
      <3>2. QED
        BY <2>1, <3>1, AtR14 DEF Holds, NewOrLost
    <2>2. CASE l # "r14"
      <3>1. l \in Locations /\ l \in A.n
        BY <1>2, <2>2 DEF Parts
      <3>2. QED
        BY <2>2, <3>1, ValIs DEF Holds, At
    <2>3. QED
      BY <2>1, <2>2
  <1>3. (o.addr = "pa" => physical = paging) /\ (o.addr = "va" => ~physical)
    BY ValIs DEF Holds
  <1>4. InputsRight(o)
    BY <1>1, <1>2, <1>3 DEF InputsRight
  <1>5. QED
    BY <1>4 DEF Result, NewOrLost

\* A computation.
LEMMA ComputeHolds ==
  ASSUME TypeInv, NEW o, NEW A \in Claims, NEW B \in Claims, Holds(A), Computed(o, A, B), Compute(o),
         UNCHANGED <<paging, stack, stop>>
  PROVE  Holds(B)'
  <1> DEFINE w == Parts(o.out \cup o.bad)
             r == "r14" \in o.out \cup o.bad
             i == IF r THEN InR14 ELSE {}
             given == /\ Parts(o.old) \subseteq A.o /\ Parts(o.new) \subseteq A.n
                      /\ o.addr # "none" => o.addr \in A.o
             d == (w \cup i) \cup {"whole"}
  <1>1. /\ o.old \cup o.new \cup o.out \cup o.bad \subseteq Locations \cup {"r14"} /\ o.lose \subseteq o.out
        /\ Keeps(A, B, w \cup i) /\ (r => NewR14(B)) /\ (\A l \in w : l \notin B.o)
        /\ (\A l \in w : l \in B.n => l \in Parts(o.out) /\ given)
        /\ ("whole" \in B.o => o.lose = {} /\ "r14" \notin o.old \cup o.new)
    BY DEF Computed, Effect
  <1>2. PICK lost \in { {}, IF paging THEN o.lose ELSE {} } :
            /\ v' = [l \in Locations |-> After(o, lost, l)]
            /\ IF r THEN r14' = <<After(o, lost, "r14")>> /\ physical' = FALSE
               ELSE UNCHANGED <<r14, physical>>
    BY DEF Compute
  <1>3. lost \subseteq o.lose
    BY <1>2
  <1>4. \A l \in o.out \cup o.bad : l # "r14" => l \in w
    BY DEF Parts
  <1>5. r => "r14.1" \in w /\ "r14.2" \in w
    BY DEF Parts
  <1>6. \A l \in w : l \in Locations \/ l \in {"r14.1", "r14.2"}
    BY <1>1 DEF Parts
  <1>7. \A l \in Locations : l \in w => l \in o.out \cup o.bad
    BY PlaceFacts DEF Parts, Extra
  <1>8. /\ \A l \in Locations : l \in Parts(o.out) => l \in o.out
        /\ "r14.1" \in Parts(o.out) \/ "r14.2" \in Parts(o.out) => "r14" \in o.out
    <2>1. "r14.1" \notin Locations /\ "r14.2" \notin Locations /\ \A l \in Locations : l \notin {"r14.1", "r14.2"}
      BY PlaceFacts DEF Extra
    <2>2. "r14.1" \notin o.out /\ "r14.2" \notin o.out
      BY <1>1, <2>1
    <2>3. QED
      BY <2>1, <2>2 DEF Parts
  <1>9. given => Result(o) \in NewOrLost
    <2> HAVE given
    <2>1. o.old \cup o.new \subseteq Locations \cup {"r14"}
      BY <1>1
    <2>2. QED
      BY <2>1, InputsGiven
  <1> HIDE DEF w, r, i, given
  <1>10. Keeps(A, B, d)
    BY <1>1 DEF Keeps
  <1>11. stop' = B.stop
    BY <1>1 DEF Keeps, Holds
  <1>12. ASSUME NEW l \in Locations, l \notin w PROVE Follows(l, l)
    <2>1. l \notin o.out /\ l \notin o.bad /\ l # "r14"
      BY <1>4, <1>12, PlaceFacts
    <2>2. v'[l] = v[l]
      BY <1>1, <1>2, <1>3, <2>1 DEF After, At
    <2>3. QED
      BY <2>2, ValIs, ValIsNext DEF Follows
  <1>13. ASSUME ~r PROVE \A l \in InR14 : Follows(l, l)
    BY <1>2, <1>13, ValIs, ValIsNext DEF Follows, InR14
  <1>14. Follows("st.1", "st.1") /\ Follows("st.2", "st.2")
    BY ValIs, ValIsNext DEF Follows
  <1>15. \A l \in Places \ d : Follows(l, l)
    <2> SUFFICES ASSUME NEW l \in Places \ d PROVE Follows(l, l)
      OBVIOUS
    <2>1. CASE l \in Locations
      BY <1>12, <2>1
    <2>2. CASE l \in InR14
      BY <1>13, <2>2 DEF i
    <2>3. CASE l \in {"st.1", "st.2"}
      BY <1>14, <2>3
    <2>4. QED
      BY <2>1, <2>2, <2>3 DEF Places, Extra, InR14
  <1>16. ASSUME NEW l \in w PROVE Meets(B, l)
    <2>1. l \notin B.o
      BY <1>1
    <2>2. ASSUME l \in B.n PROVE Val(l)' \in NewOrLost
      <3>1. l \in Parts(o.out) /\ Result(o) \in NewOrLost
        BY <1>1, <1>9, <2>2
      <3>2. CASE l \in Locations
        <4>1. l \in o.out
          BY <1>8, <3>1, <3>2
        <4>2. v'[l] = "lost" \/ v'[l] = Result(o)
          BY <1>2, <3>2, <4>1 DEF After
        <4>3. QED
          BY <3>1, <3>2, <4>2, ValIsNext DEF NewOrLost
      <3>3. CASE l \in {"r14.1", "r14.2"}
        <4>1. "r14" \in o.out
          BY <1>8, <3>1, <3>3
        <4>2. r14' = <<After(o, lost, "r14")>>
          BY <1>2, <4>1 DEF r
        <4>3. After(o, lost, "r14") \in NewOrLost
          BY <3>1, <4>1 DEF After, NewOrLost
        <4>4. r14'[1] \in NewOrLost /\ r14'[Len(r14')] \in NewOrLost
          BY <4>2, <4>3
        <4>5. QED
          BY <3>3, <4>4, ValIsNext
      <3>4. QED
        BY <1>6, <3>2, <3>3
    <2>3. QED
      BY <2>1, <2>2 DEF Meets
  <1>17. ASSUME r, NEW l \in {"va", "pa"} PROVE Meets(B, l)
    <2>1. physical' = FALSE /\ NewR14(B) /\ paging' = paging
      BY <1>1, <1>2, <1>17
    <2>2. l \notin B.n /\ ("pa" \in B.o => paging = FALSE)
      <3>1. "pa" \in B.o => ~paging
        BY <2>1 DEF NewR14
      <3>2. paging \in BOOLEAN
        BY DEF TypeInv
      <3>3. "pa" \in B.o => paging = FALSE
        BY <3>1, <3>2
      <3>4. QED
        BY <2>1, <3>3 DEF NewR14
    <2>3. Val("va")' = "old"
      BY <2>1, ValIsNext
    <2>4. "pa" \in B.o => Val("pa")' = "old"
      BY <2>1, <2>2, ValIsNext
    <2>5. QED
      BY <2>2, <2>3, <2>4 DEF Meets
  <1>18. Meets(B, "whole")
    <2>1. "whole" \notin w /\ "whole" \notin i
      <3>1. "whole" \notin Locations
        BY PlaceFacts DEF Extra
      <3>2. QED
        BY <1>6, <3>1 DEF i, InR14
    <2>2. "whole" \notin B.n
      BY <1>1, <2>1, NoValues DEF Keeps
    <2>3. ASSUME "whole" \in B.o PROVE Val("whole")' = "old"
      <3>1. "whole" \in A.o /\ o.lose = {} /\ "r14" \notin o.old \cup o.new
        BY <1>1, <2>1, <2>3 DEF Keeps
      <3>2. \A k \in Locations : v[k] # "lost"
        BY <3>1, ValIs DEF Holds
      <3>3. \A k \in o.old \cup o.new : At(k) # "lost"
        BY <1>1, <3>1, <3>2 DEF At
      <3>4. Result(o) # "lost"
        BY <3>3 DEF Result
      <3>5. lost = {}
        BY <1>3, <3>1
      <3>6. \A k \in Locations : After(o, lost, k) # "lost"
        BY <3>2, <3>4, <3>5, PlaceFacts DEF After, At
      <3>7. \A k \in Locations : v'[k] # "lost"
        BY <1>2, <3>6
      <3>8. QED
        BY <3>7, ValIsNext
    <2>4. QED
      BY <2>2, <2>3 DEF Meets
  <1>19. \A l \in d : Meets(B, l)
    <2> SUFFICES ASSUME NEW l \in d PROVE Meets(B, l)
      OBVIOUS
    <2>1. CASE l \in w
      BY <1>16, <2>1
    <2>2. CASE l \in i
      <3>1. r /\ l \in InR14
        BY <2>2 DEF i
      <3>2. l \in w \/ l \in {"va", "pa"}
        BY <1>5, <3>1 DEF InR14
      <3>3. QED
        BY <1>16, <1>17, <3>1, <3>2
    <2>3. CASE l = "whole"
      BY <1>18, <2>3
    <2>4. QED
      BY <2>1, <2>2, <2>3
  <1> HIDE DEF d
  <1>20. QED
    BY <1>10, <1>11, <1>15, <1>19, Carried

\* What does not change follows from what was known.
LEMMA Still ==
  /\ \A l \in Locations : v'[l] = v[l] => Follows(l, l)
  /\ r14' = r14 => Follows("r14.1", "r14.1") /\ Follows("r14.2", "r14.2")
  /\ physical' = physical => Follows("va", "va")
  /\ physical' = physical /\ paging' = paging => Follows("pa", "pa")
  /\ stack' = stack => Follows("st.1", "st.1") /\ Follows("st.2", "st.2")
  /\ (\A l \in Locations : v'[l] # "lost" \/ \E k \in Locations : v'[l] = v[k]) => Follows("whole", "whole")
  <1>1. \A l \in Locations : v'[l] = v[l] => Follows(l, l)
    BY ValIs, ValIsNext DEF Follows
  <1>2. ASSUME \A l \in Locations : v'[l] # "lost" \/ \E k \in Locations : v'[l] = v[k]
        PROVE  Follows("whole", "whole")
    <2>1. Val("whole") \notin NewOrLost
      BY ValIs DEF NewOrLost
    <2>2. ASSUME Val("whole") = "old" PROVE Val("whole")' = "old"
      <3>1. \A k \in Locations : v[k] # "lost"
        BY <2>2, ValIs
      <3>2. \A l \in Locations : v'[l] # "lost"
        BY <1>2, <3>1
      <3>3. QED
        BY <3>2, ValIsNext
    <2>3. QED
      BY <2>1, <2>2 DEF Follows
  <1>3. QED
    BY <1>1, <1>2, ValIs, ValIsNext DEF Follows

\* A place that is kept is as the claim demands.
LEMMA KeptMeets ==
  ASSUME NEW A, NEW B, NEW w, NEW l, Holds(A), Keeps(A, B, w), l \notin w, Follows(l, l)
  PROVE  Meets(B, l)
  BY DEF Holds, Keeps, Follows, Meets, NewOrLost

\* A claim whose every place is as it demands holds.
LEMMA AllMeet ==
  ASSUME NEW B \in Claims, \A l \in Places : Meets(B, l), stop' = B.stop
  PROVE  Holds(B)'
  <1>1. B.o \subseteq Places /\ B.n \subseteq Places
    BY DEF Claims
  <1>2. QED
    BY <1>1 DEF Meets, Holds, NewOrLost

\* Operations that change some locations and nothing else.
LEMMA OnlyV ==
  ASSUME NEW A \in Claims, NEW B \in Claims, NEW w \in SUBSET Locations, Holds(A), Keeps(A, B, w),
         UNCHANGED <<paging, r14, physical, stop>>,
         stack' = stack \/ Drops(B, {"st.1", "st.2"}),
         \A l \in Locations \ w : v'[l] = v[l],
         \A l \in w : Meets(B, l),
         "whole" \in B.o => \A l \in w : v'[l] # "lost" \/ \E k \in Locations : v'[l] = v[k]
  PROVE  Holds(B)'
  <1>1. \A l \in Locations : Meets(B, l)
    BY Still, KeptMeets
  <1>2. w \cap Extra = {}
    BY PlaceFacts
  <1>3. \A l \in InR14 : Meets(B, l)
    BY <1>2, Still, KeptMeets DEF InR14, Extra
  <1>4. Meets(B, "st.1") /\ Meets(B, "st.2")
    <2>1. CASE stack' = stack
      BY <1>2, <2>1, Still, KeptMeets DEF Extra
    <2>2. CASE Drops(B, {"st.1", "st.2"})
      BY <2>2 DEF Drops, Meets
    <2>3. QED
      BY <2>1, <2>2
  <1>5. Meets(B, "whole")
    <2>1. CASE "whole" \in B.o
      <3>1. \A l \in Locations : v'[l] # "lost" \/ \E k \in Locations : v'[l] = v[k]
        BY <2>1
      <3>2. QED
        BY <1>2, <3>1, Still, KeptMeets DEF Extra
    <2>2. CASE "whole" \notin B.o
      <3>1. "whole" \notin B.n
        BY <1>2, NoValues DEF Keeps, Extra
      <3>2. QED
        BY <2>2, <3>1 DEF Meets
    <2>3. QED
      BY <2>1, <2>2
  <1>6. \A l \in Places : Meets(B, l)
    BY <1>1, <1>3, <1>4, <1>5 DEF Places, Extra, InR14
  <1>7. stop' = B.stop
    BY DEF Keeps, Holds
  <1>8. QED
    BY <1>6, <1>7, AllMeet

\* An address in R14 that was not translated.
LEMMA NewAddress ==
  ASSUME TypeInv, NEW B, NewR14(B), physical' = FALSE, paging' = paging
  PROVE  Meets(B, "va") /\ Meets(B, "pa")
  <1>1. "va" \notin B.n /\ "pa" \notin B.n /\ ("pa" \in B.o => paging = FALSE)
    <2>1. "pa" \in B.o => ~paging
      BY DEF NewR14
    <2>2. paging \in BOOLEAN
      BY DEF TypeInv
    <2>3. "pa" \in B.o => paging = FALSE
      BY <2>1, <2>2
    <2>4. QED
      BY <2>3 DEF NewR14
  <1>2. Val("va")' = "old"
    BY ValIsNext
  <1>3. "pa" \in B.o => Val("pa")' = "old"
    BY <1>1, ValIsNext
  <1>4. QED
    BY <1>1, <1>2, <1>3 DEF Meets

\* Operations that change R14, and locations of which nothing was known.
LEMMA OnlyR14 ==
  ASSUME TypeInv, NEW A \in Claims, NEW B \in Claims, NEW w \in SUBSET Locations, Holds(A),
         Keeps(A, B, InR14 \cup w), NewR14(B), paging' = paging, stop' = stop, physical' = FALSE,
         stack' = stack \/ Drops(B, {"st.1", "st.2"}),
         \A l \in Locations \ w : v'[l] = v[l],
         \A l \in w : Meets(B, l) /\ v'[l] # "lost",
         Meets(B, "r14.1"), Meets(B, "r14.2")
  PROVE  Holds(B)'
  <1> DEFINE u == InR14 \cup w
  <1>1. (w \cap Extra = {}) /\ (Locations \cap InR14 = {})
    BY PlaceFacts DEF Extra, InR14
  <1>2. \A l \in Locations : Meets(B, l)
    <2> SUFFICES ASSUME NEW l \in Locations, l \notin w PROVE Meets(B, l)
      OBVIOUS
    <2>1. l \notin u
      BY <1>1
    <2>2. Follows(l, l)
      BY Still
    <2> HIDE DEF u
    <2>3. Keeps(A, B, u)
      BY DEF u
    <2>4. QED
      BY <2>1, <2>2, <2>3, KeptMeets
  <1>3. \A l \in {"st.1", "st.2", "whole"} : l \notin u
    BY <1>1 DEF InR14, Extra
  <1>4. Meets(B, "va") /\ Meets(B, "pa")
    BY NewAddress
  <1> HIDE DEF u
  <1>5. Keeps(A, B, u)
    BY DEF u
  <1>6. Meets(B, "st.1") /\ Meets(B, "st.2")
    <2>1. CASE stack' = stack
      BY <1>3, <1>5, <2>1, Still, KeptMeets
    <2>2. CASE Drops(B, {"st.1", "st.2"})
      BY <2>2 DEF Drops, Meets
    <2>3. QED
      BY <2>1, <2>2
  <1>7. Meets(B, "whole")
    <2>1. \A l \in Locations : v'[l] # "lost" \/ \E k \in Locations : v'[l] = v[k]
      OBVIOUS
    <2>2. Follows("whole", "whole")
      BY <2>1, Still
    <2>3. QED
      BY <1>3, <1>5, <2>2, KeptMeets
  <1>8. \A l \in Places : Meets(B, l)
    BY <1>2, <1>4, <1>6, <1>7 DEF Places, Extra
  <1>9. stop' = B.stop
    BY DEF Keeps, Holds
  <1>10. QED
    BY <1>8, <1>9, AllMeet

\* Copies between locations and R14.
LEMMA CopyHolds ==
  ASSUME TypeInv, CopyOp, NEW A \in Claims, NEW B \in Claims, Holds(A), Moves(Head(todo), A, B)
  PROVE  Holds(B)'
  <1> DEFINE o == Head(todo)
  <1>1. o.op = "copy" /\ UNCHANGED <<paging, stack, stop>>
    BY DEF CopyOp, Next1
  <1>2. PICK x \in o.old, y \in o.out :
            IF y = "r14" THEN r14' = <<v[x]>> /\ physical' = FALSE /\ UNCHANGED v
            ELSE v' = [v EXCEPT ![y] = At(x)] /\ UNCHANGED <<r14, physical>>
    BY DEF CopyOp
  <1> HIDE DEF o
  <1>3. PICK from \in Locations, to \in Locations :
            \/ o.old = {from} /\ o.out = {to} /\ Keeps(A, B, {to}) /\ Gets(A, B, to, from)
            \/ /\ o.old = {from} /\ o.out = {"r14"} /\ Keeps(A, B, InR14) /\ NewR14(B)
               /\ Gets(A, B, "r14.1", from) /\ Gets(A, B, "r14.2", from)
            \/ /\ o.old = {"r14"} /\ o.out = {to} /\ Keeps(A, B, {to}) /\ Drops(B, {"whole"})
               /\ Gets(A, B, to, "r14.1") /\ Gets(A, B, to, "r14.2")
    BY <1>1 DEF Moves, o
  <1>4. from # "r14" /\ to # "r14" /\ v \in [Locations -> Value]
    BY PlaceFacts DEF TypeInv
  <1>5. CASE o.old = {from} /\ o.out = {to} /\ Keeps(A, B, {to}) /\ Gets(A, B, to, from)
    <2> DEFINE w == {to}
    <2>1. v' = [v EXCEPT ![to] = v[from]] /\ UNCHANGED <<r14, physical>>
      BY <1>2, <1>4, <1>5 DEF At
    <2>2. v'[to] = v[from] /\ \A l \in Locations : l # to => v'[l] = v[l]
      BY <1>4, <2>1
    <2>3. Meets(B, to)
      BY <1>5, <2>2, Got, ValIs, ValIsNext
    <2>4. w \in SUBSET Locations /\ (\A l \in Locations \ w : v'[l] = v[l]) /\ (\A l \in w : Meets(B, l))
      BY <2>2, <2>3
    <2>5. \A l \in w : \E k \in Locations : v'[l] = v[k]
      BY <2>2
    <2>6. Keeps(A, B, w)
      BY <1>5
    <2> HIDE DEF w
    <2>7. QED
      BY <1>1, <2>1, <2>4, <2>5, <2>6, OnlyV
  <1>6. CASE /\ o.old = {from} /\ o.out = {"r14"} /\ Keeps(A, B, InR14) /\ NewR14(B)
             /\ Gets(A, B, "r14.1", from) /\ Gets(A, B, "r14.2", from)
    <2> DEFINE w == {}
    <2>1. r14' = <<v[from]>> /\ physical' = FALSE /\ v' = v
      BY <1>2, <1>6
    <2>2. r14'[1] = v[from] /\ r14'[Len(r14')] = v[from]
      BY <2>1
    <2>3. Meets(B, "r14.1") /\ Meets(B, "r14.2")
      BY <1>6, <2>2, Got, ValIs, ValIsNext
    <2>4. InR14 = InR14 \cup w /\ w \in SUBSET Locations
      OBVIOUS
    <2>5. (\A l \in Locations \ w : v'[l] = v[l]) /\ \A l \in w : Meets(B, l) /\ v'[l] # "lost"
      BY <2>1
    <2> HIDE DEF w
    <2>6. Keeps(A, B, InR14 \cup w) /\ NewR14(B)
      BY <1>6, <2>4
    <2>7. QED
      BY <1>1, <2>1, <2>3, <2>4, <2>5, <2>6, OnlyR14
  <1>7. CASE /\ o.old = {"r14"} /\ o.out = {to} /\ Keeps(A, B, {to}) /\ Drops(B, {"whole"})
             /\ Gets(A, B, to, "r14.1") /\ Gets(A, B, to, "r14.2")
    <2> DEFINE w == {to}
    <2>1. v' = [v EXCEPT ![to] = At("r14")] /\ UNCHANGED <<r14, physical>>
      BY <1>2, <1>4, <1>7
    <2>2. v'[to] = At("r14") /\ \A l \in Locations : l # to => v'[l] = v[l]
      BY <1>4, <2>1
    <2>3. Meets(B, to)
      <3>1. Val(to)' = At("r14")
        BY <2>2, ValIsNext
      <3>2. to \in B.o => Val("r14.1") = "old" /\ Val("r14.2") = "old"
        BY <1>7 DEF Gets, Holds
      <3>3. to \in B.n => Val("r14.1") \in NewOrLost /\ Val("r14.2") \in NewOrLost
        BY <1>7 DEF Gets, Holds, NewOrLost
      <3>4. QED
        BY <3>1, <3>2, <3>3, AtR14 DEF Meets
    <2>4. w \in SUBSET Locations /\ (\A l \in Locations \ w : v'[l] = v[l]) /\ (\A l \in w : Meets(B, l))
      BY <2>2, <2>3
    <2>5. "whole" \notin B.o
      BY <1>7 DEF Drops
    <2>6. Keeps(A, B, w)
      BY <1>7
    <2> HIDE DEF w
    <2>7. QED
      BY <1>1, <2>1, <2>4, <2>5, <2>6, OnlyV
  <1>8. QED
    BY <1>3, <1>5, <1>6, <1>7

\* The registers and their copies in ctx.
LEMMA GpHolds ==
  ASSUME TypeInv, SaveAllGp \/ LoadAllGp, NEW A \in Claims, NEW B \in Claims, Holds(A),
         Moves(Head(todo), A, B)
  PROVE  Holds(B)'
  <1> DEFINE o == Head(todo)
  <1>1. v \in [Locations -> Value] /\ {"a", "c", "ctx.a", "ctx.c"} \subseteq Locations
    BY PlaceFacts DEF TypeInv, Base
  <1>2. UNCHANGED <<paging, r14, physical, stack, stop>>
    BY DEF SaveAllGp, LoadAllGp
  <1>3. CASE SaveAllGp
    <2> DEFINE w == {"ctx.a", "ctx.c"}
    <2>1. o.op = "save_gp" /\ v' = [v EXCEPT !["ctx.a"] = v["a"], !["ctx.c"] = v["c"]]
      BY <1>3 DEF SaveAllGp, Next1
    <2>2. /\ v'["ctx.a"] = v["a"] /\ v'["ctx.c"] = v["c"]
          /\ \A l \in Locations : l \notin w => v'[l] = v[l]
      BY <1>1, <2>1
    <2> HIDE DEF o
    <2>3. Keeps(A, B, w) /\ Gets(A, B, "ctx.a", "a") /\ Gets(A, B, "ctx.c", "c")
      BY <2>1 DEF Moves, o
    <2>4. Meets(B, "ctx.a") /\ Meets(B, "ctx.c")
      BY <1>1, <2>2, <2>3, Got, ValIs, ValIsNext
    <2>5. w \in SUBSET Locations /\ (\A l \in Locations \ w : v'[l] = v[l]) /\ (\A l \in w : Meets(B, l))
      BY <1>1, <2>2, <2>4
    <2>6. \A l \in w : \E k \in Locations : v'[l] = v[k]
      BY <1>1, <2>2
    <2> HIDE DEF w
    <2>7. QED
      BY <1>2, <2>3, <2>5, <2>6, OnlyV
  <1>4. CASE LoadAllGp
    <2> DEFINE w == {"a", "c"}
    <2>1. o.op = "load_gp" /\ v' = [v EXCEPT !["a"] = v["ctx.a"], !["c"] = v["ctx.c"]]
      BY <1>4 DEF LoadAllGp, Next1
    <2>2. /\ v'["a"] = v["ctx.a"] /\ v'["c"] = v["ctx.c"]
          /\ \A l \in Locations : l \notin w => v'[l] = v[l]
      BY <1>1, <2>1
    <2> HIDE DEF o
    <2>3. Keeps(A, B, w) /\ Gets(A, B, "a", "ctx.a") /\ Gets(A, B, "c", "ctx.c")
      BY <2>1 DEF Moves, o
    <2>4. Meets(B, "a") /\ Meets(B, "c")
      BY <1>1, <2>2, <2>3, Got, ValIs, ValIsNext
    <2>5. w \in SUBSET Locations /\ (\A l \in Locations \ w : v'[l] = v[l]) /\ (\A l \in w : Meets(B, l))
      BY <1>1, <2>2, <2>4
    <2>6. \A l \in w : \E k \in Locations : v'[l] = v[k]
      BY <1>1, <2>2
    <2> HIDE DEF w
    <2>7. QED
      BY <1>2, <2>3, <2>5, <2>6, OnlyV
  <1>5. QED
    BY <1>3, <1>4

\* The flags in ctx and R14.
LEMMA EflagsHolds ==
  ASSUME TypeInv, Eflags, NEW A \in Claims, NEW B \in Claims, Holds(A), Moves(Head(todo), A, B)
  PROVE  Holds(B)'
  <1> DEFINE o == Head(todo)
  <1>1. v \in [Locations -> Value] /\ {"ctx.cf", "ctx.zf"} \subseteq Locations
    BY PlaceFacts DEF TypeInv
  <1>2. UNCHANGED <<paging, stack, stop>>
    BY DEF Eflags
  <1>3. CASE Next1("eflags_r14")
    <2> DEFINE w == {"ctx.cf", "ctx.zf"}
    <2>1. o.op = "eflags_r14"
      BY <1>3 DEF Next1
    <2>2. v' = [v EXCEPT !["ctx.cf"] = r14[1], !["ctx.zf"] = r14[Len(r14)]] /\ UNCHANGED <<r14, physical>>
      BY <2>1 DEF Eflags, Next1
    <2>3. /\ v'["ctx.cf"] = r14[1] /\ v'["ctx.zf"] = r14[Len(r14)]
          /\ \A l \in Locations : l \notin w => v'[l] = v[l]
      BY <1>1, <2>2
    <2> HIDE DEF o
    <2>4. /\ Keeps(A, B, w) /\ Drops(B, {"whole"})
          /\ Gets(A, B, "ctx.cf", "r14.1") /\ Gets(A, B, "ctx.zf", "r14.2")
      BY <2>1 DEF Moves, o
    <2>5. Meets(B, "ctx.cf") /\ Meets(B, "ctx.zf")
      BY <1>1, <2>3, <2>4, Got, ValIs, ValIsNext
    <2>6. w \in SUBSET Locations /\ (\A l \in Locations \ w : v'[l] = v[l]) /\ (\A l \in w : Meets(B, l))
      BY <1>1, <2>3, <2>5
    <2>7. "whole" \notin B.o
      BY <2>4 DEF Drops
    <2> HIDE DEF w
    <2>8. QED
      BY <1>2, <2>2, <2>4, <2>6, <2>7, OnlyV
  <1>4. CASE Next1("r14_eflags")
    <2> DEFINE w == {}
    <2>1. o.op = "r14_eflags"
      BY <1>4 DEF Next1
    <2>2. r14' = <<v["ctx.cf"], v["ctx.zf"]>> /\ physical' = FALSE /\ v' = v
      BY <2>1 DEF Eflags, Next1
    <2>3. r14'[1] = v["ctx.cf"] /\ r14'[Len(r14')] = v["ctx.zf"]
      BY <2>2
    <2> HIDE DEF o
    <2>4. /\ Keeps(A, B, InR14) /\ NewR14(B)
          /\ Gets(A, B, "r14.1", "ctx.cf") /\ Gets(A, B, "r14.2", "ctx.zf")
      BY <2>1 DEF Moves, o
    <2>5. Meets(B, "r14.1") /\ Meets(B, "r14.2")
      BY <1>1, <2>3, <2>4, Got, ValIs, ValIsNext
    <2>6. InR14 = InR14 \cup w /\ w \in SUBSET Locations
      OBVIOUS
    <2>7. (\A l \in Locations \ w : v'[l] = v[l]) /\ \A l \in w : Meets(B, l) /\ v'[l] # "lost"
      BY <2>2
    <2> HIDE DEF w
    <2>8. Keeps(A, B, InR14 \cup w)
      BY <2>4, <2>6
    <2>9. QED
      BY <1>2, <2>2, <2>4, <2>5, <2>6, <2>7, <2>8, OnlyR14
  <1>5. QED
    BY <1>3, <1>4 DEF Eflags

\* The instruction's own EIP, to start it again.
LEMMA RestartHolds ==
  ASSUME TypeInv, Restart, NEW A \in Claims, NEW B \in Claims, Holds(A), Moves(Head(todo), A, B)
  PROVE  Holds(B)'
  <1> DEFINE o == Head(todo)
             w == {"ctx.eip"}
  <1>1. v \in [Locations -> Value] /\ "ctx.eip" \in Locations
    BY PlaceFacts DEF TypeInv
  <1>2. /\ o.op = "restart" /\ v' = [v EXCEPT !["ctx.eip"] = "old"] /\ physical' = FALSE
        /\ UNCHANGED <<paging, stack, stop>>
    BY DEF Restart, Next1
  <1>3. v'["ctx.eip"] = "old" /\ \A l \in Locations : l \notin w => v'[l] = v[l]
    BY <1>1, <1>2
  <1> HIDE DEF o
  <1>4. /\ Keeps(A, B, InR14 \cup w) /\ NewR14(B)
        /\ Drops(B, {"r14.1", "r14.2"}) /\ "ctx.eip" \notin B.n
    BY <1>2 DEF Moves, o
  <1>5. Meets(B, "r14.1") /\ Meets(B, "r14.2")
    BY <1>4 DEF Drops, Meets
  <1>6. Meets(B, "ctx.eip")
    BY <1>1, <1>3, <1>4, ValIsNext DEF Meets
  <1>7. w \in SUBSET Locations /\ (\A l \in Locations \ w : v'[l] = v[l])
        /\ (\A l \in w : Meets(B, l) /\ v'[l] # "lost")
    BY <1>1, <1>3, <1>6
  <1> HIDE DEF w
  <1>8. QED
    BY <1>2, <1>4, <1>5, <1>7, OnlyR14

\* PUSHFQ and PUSH R14, on an empty stack.
LEMMA PushHolds ==
  ASSUME IInv, Push, NEW A \in Claims, NEW B \in Claims, Holds(A), Moves(Head(todo), A, B)
  PROVE  Holds(B)'
  <1> DEFINE o == Head(todo)
             w == {"st.1", "st.2"}
             x == IF o.op = "pushfq" THEN v["cf"] ELSE r14[1]
             y == IF o.op = "pushfq" THEN v["zf"] ELSE r14[Len(r14)]
  <1>1. /\ where = "trace" /\ todo # <<>> /\ o.op \in {"pushfq", "push_r14"}
        /\ UNCHANGED <<paging, v, r14, physical, stop>>
        /\ stack' = Append(stack, <<x, y>>)
    BY DEF Push, Next1
  <1>2. PICK d \in {0, 1, Halting}, m \in Levels :
            OpFits(o, d, m) /\ Fits(Tail(todo), m, End(trace)) /\ StackAt(d)
    BY <1>1, NextOp DEF IInv
  <1>3. stack = <<>>
    BY <1>1, <1>2, OpLevels DEF StackAt
  <1>4. stack' = << <<x, y>> >>
    BY <1>1, <1>3, StackFacts
  <1>5. stack'[1][1] = x /\ stack'[1][2] = y
    BY <1>4
  <1> HIDE DEF o
  <1>6. /\ Keeps(A, B, w)
        /\ o.op = "pushfq" => Gets(A, B, "st.1", "cf") /\ Gets(A, B, "st.2", "zf")
        /\ o.op = "push_r14" => Gets(A, B, "st.1", "r14.1") /\ Gets(A, B, "st.2", "r14.2")
    BY <1>1 DEF Moves, o
  <1>7. /\ "cf" \in Locations /\ "zf" \in Locations /\ w \cap Locations = {} /\ w \cap InR14 = {}
    BY PlaceFacts DEF Flags, Extra, InR14
  <1>8. o.op = "pushfq" => Val("st.1")' = Val("cf") /\ Val("st.2")' = Val("zf")
    BY <1>5, <1>7, ValIs, ValIsNext
  <1>9. o.op = "push_r14" => Val("st.1")' = Val("r14.1") /\ Val("st.2")' = Val("r14.2")
    BY <1>5, <1>7, ValIs, ValIsNext
  <1>10. Meets(B, "st.1") /\ Meets(B, "st.2")
    BY <1>1, <1>6, <1>8, <1>9, Got
  <1>11. \A l \in Places \ w : Follows(l, l)
    <2>1. \A l \in Locations : Follows(l, l)
      BY <1>1, Still
    <2>2. Follows("whole", "whole")
      <3>1. \A l \in Locations : v'[l] # "lost" \/ \E k \in Locations : v'[l] = v[k]
        BY <1>1
      <3>2. QED
        BY <3>1, Still
    <2>3. \A l \in InR14 : Follows(l, l)
      BY <1>1, Still DEF InR14
    <2>4. QED
      BY <2>1, <2>2, <2>3 DEF Places, Extra, InR14
  <1>12. \A l \in w : Meets(B, l)
    BY <1>10
  <1>13. stop' = B.stop
    BY <1>1, <1>6 DEF Keeps, Holds
  <1> HIDE DEF w
  <1>14. QED
    BY <1>6, <1>11, <1>12, <1>13, Carried

\* POPFQ and POP R14.
LEMMA PopHolds ==
  ASSUME TypeInv, Pop, NEW A \in Claims, NEW B \in Claims, Holds(A), Moves(Head(todo), A, B)
  PROVE  Holds(B)'
  <1> DEFINE o == Head(todo)
  <1>1. v \in [Locations -> Value] /\ "cf" \in Locations /\ "zf" \in Locations
    BY PlaceFacts DEF TypeInv, Flags
  <1>2. UNCHANGED <<paging, stop>> /\ stack # <<>>
    BY DEF Pop
  <1>3. PICK p \in Pairs : stack = <<p>>
    BY <1>2 DEF TypeInv
  <1>4. Last(stack) = p /\ stack[1] = p
    BY <1>3, StackFacts
  <1>5. CASE Next1("popfq")
    <2> DEFINE w == {"cf", "zf"}
    <2>1. o.op = "popfq"
      BY <1>5 DEF Next1
    <2>2. v' = [v EXCEPT !["cf"] = p[1], !["zf"] = p[2]] /\ UNCHANGED <<r14, physical>>
      BY <1>4, <2>1 DEF Pop, Next1
    <2>3. v'["cf"] = p[1] /\ v'["zf"] = p[2] /\ \A l \in Locations : l \notin w => v'[l] = v[l]
      BY <1>1, <2>2
    <2> HIDE DEF o
    <2>4. /\ Keeps(A, B, w) /\ Drops(B, {"st.1", "st.2", "whole"})
          /\ Gets(A, B, "cf", "st.1") /\ Gets(A, B, "zf", "st.2")
      BY <2>1 DEF Moves, o, Flags
    <2>5. Meets(B, "cf") /\ Meets(B, "zf")
      BY <1>1, <1>4, <2>3, <2>4, Got, ValIs, ValIsNext
    <2>6. w \in SUBSET Locations /\ (\A l \in Locations \ w : v'[l] = v[l]) /\ (\A l \in w : Meets(B, l))
      BY <1>1, <2>3, <2>5
    <2>7. "whole" \notin B.o /\ Drops(B, {"st.1", "st.2"})
      BY <2>4 DEF Drops
    <2> HIDE DEF w
    <2>8. QED
      BY <1>2, <2>2, <2>4, <2>6, <2>7, OnlyV
  <1>6. CASE Next1("pop_r14")
    <2> DEFINE w == {}
    <2>1. o.op = "pop_r14"
      BY <1>6 DEF Next1
    <2>2. r14' = p /\ physical' = FALSE /\ v' = v
      BY <1>4, <2>1 DEF Pop, Next1
    <2>3. r14'[1] = p[1] /\ r14'[Len(r14')] = p[2]
      BY <2>2 DEF Pairs
    <2> HIDE DEF o
    <2>4. /\ Keeps(A, B, InR14) /\ Drops(B, {"st.1", "st.2"}) /\ NewR14(B)
          /\ Gets(A, B, "r14.1", "st.1") /\ Gets(A, B, "r14.2", "st.2")
      BY <2>1 DEF Moves, o
    <2>5. Meets(B, "r14.1") /\ Meets(B, "r14.2")
      BY <1>4, <2>3, <2>4, Got, ValIs, ValIsNext
    <2>6. InR14 = InR14 \cup w /\ w \in SUBSET Locations
      OBVIOUS
    <2>7. (\A l \in Locations \ w : v'[l] = v[l]) /\ \A l \in w : Meets(B, l) /\ v'[l] # "lost"
      BY <2>2
    <2> HIDE DEF w
    <2>8. Keeps(A, B, InR14 \cup w)
      BY <2>4, <2>6
    <2>9. QED
      BY <1>2, <2>2, <2>4, <2>5, <2>6, <2>7, <2>8, OnlyR14
  <1>7. QED
    BY <1>5, <1>6 DEF Pop

\* A stop reason is set, and less is claimed perhaps.
LEMMA SetStopHolds ==
  ASSUME TypeInv, SetStop, NEW A \in Claims, NEW B \in Claims, Holds(A), Moves(Head(todo), A, B)
  PROVE  Holds(B)'
  <1> DEFINE o == Head(todo)
  <1>1. o.op = "stop" /\ stop' \in o.out /\ UNCHANGED <<paging, v, r14, physical, stack>>
    BY DEF SetStop, Next1
  <1> HIDE DEF o
  <1>2. o.out = {B.stop} /\ B.o \subseteq A.o /\ B.n \subseteq A.n
    BY <1>1 DEF Moves, o
  <1>3. stop' = B.stop
    BY <1>1, <1>2
  <1>4. \A l \in Places : Follows(l, l)
    <2>1. \A l \in Locations : Follows(l, l)
      BY <1>1, Still
    <2>2. Follows("whole", "whole")
      <3>1. \A l \in Locations : v'[l] # "lost" \/ \E k \in Locations : v'[l] = v[k]
        BY <1>1
      <3>2. QED
        BY <3>1, Still
    <2>3. \A l \in Extra \ {"whole"} : Follows(l, l)
      BY <1>1, Still DEF Extra
    <2>4. QED
      BY <2>1, <2>2, <2>3 DEF Places
  <1>5. \A l \in Places : Meets(B, l)
    BY <1>2, <1>4 DEF Follows, Meets, Holds, NewOrLost
  <1>6. QED
    BY <1>3, <1>5, AllMeet

\* What changes in a translation.
LEMMA TranslateFollows ==
  ASSUME TypeInv, Translate, Head(todo).bad \subseteq Registers
  PROVE  /\ UNCHANGED <<paging, where, trace, stack>>
         /\ \A l \in (Locations \ Head(todo).bad) \cup {"st.1", "st.2"} : Follows(l, l)
         /\ stop = "none" /\ stop' = "none" =>
               /\ todo' = Tail(todo) /\ physical' = TRUE
               /\ ~physical => Follows("r14.1", "r14.1") /\ Follows("r14.2", "r14.2")
         /\ stop = "none" /\ stop' # "none" =>
               /\ todo' = Head(todo).alt[1] /\ stop' = "page_fault"
               /\ \A l \in InR14 : Follows(l, l)
  <1> DEFINE o == Head(todo)
  <1>1. /\ v' = [l \in Locations |-> IF l \in o.bad THEN "junk" ELSE v[l]]
        /\ stop' \in {stop, "page_fault"}
        /\ UNCHANGED <<paging, where, trace, stack>>
        /\ IF stop' = "none"
           THEN Go /\ r14' = (IF physical THEN <<"junk">> ELSE r14) /\ physical' = TRUE
           ELSE todo' = o.alt[1] /\ UNCHANGED <<r14, physical>>
    BY DEF Translate
  <1> HIDE DEF o
  <1>2. \A l \in Locations \ o.bad : Follows(l, l)
    BY <1>1, Still
  <1>3. Follows("st.1", "st.1") /\ Follows("st.2", "st.2")
    BY <1>1, Still
  <1>4. ASSUME stop = "none", stop' = "none"
        PROVE  /\ todo' = Tail(todo) /\ physical' = TRUE
               /\ ~physical => Follows("r14.1", "r14.1") /\ Follows("r14.2", "r14.2")
    <2>1. Go /\ r14' = (IF physical THEN <<"junk">> ELSE r14) /\ physical' = TRUE
      BY <1>1, <1>4
    <2>2. ~physical => r14' = r14
      BY <2>1
    <2>3. QED
      BY <2>1, <2>2, Still DEF Go
  <1>5. ASSUME stop = "none", stop' # "none"
        PROVE  /\ todo' = o.alt[1] /\ stop' = "page_fault"
               /\ \A l \in InR14 : Follows(l, l)
    BY <1>1, <1>5, Still DEF InR14
  <1>6. QED
    BY <1>1, <1>2, <1>3, <1>4, <1>5 DEF o

\* A translation that went well, or went to its fault exit.
LEMMA TranslateHolds ==
  ASSUME TypeInv, Translate, NEW o, o = Head(todo), NEW A \in Claims, NEW B \in Claims, NEW M \in Claims,
         Holds(A), A.stop = "none", "va" \in A.o, o.bad \subseteq Registers,
         Keeps(A, B, {"pa"}), Drops(B, o.bad \cup {"va", "whole"}),
         "pa" \in B.o => paging, "pa" \notin B.n,
         M.o \subseteq A.o \ (o.bad \cup {"whole"}), M.n \subseteq A.n \ o.bad, M.stop = "page_fault"
  PROVE  IF stop' = "none" THEN todo' = Tail(todo) /\ Holds(B)'
         ELSE todo' = o.alt[1] /\ Holds(M)'
  <1>1. stop = "none" /\ Val("va") = "old"
    BY DEF Holds
  <1>2. ~physical
    BY <1>1, ValIs
  <1>3. Registers \subseteq Locations /\ Registers \cap Extra = {}
    BY PlaceFacts DEF Registers, Base, Flags
  <1>4. /\ paging' = paging
        /\ \A l \in (Locations \ o.bad) \cup {"st.1", "st.2"} : Follows(l, l)
    BY TranslateFollows
  <1>5. CASE stop' = "none"
    <2> DEFINE d == o.bad \cup {"pa", "va", "whole"}
    <2>1. /\ todo' = Tail(todo) /\ physical' = TRUE
          /\ Follows("r14.1", "r14.1") /\ Follows("r14.2", "r14.2")
      BY <1>1, <1>2, <1>5, TranslateFollows
    <2>2. Keeps(A, B, d)
      BY DEF Keeps
    <2>3. \A l \in Places \ d : Follows(l, l)
      <3> SUFFICES ASSUME NEW l \in Places \ d PROVE Follows(l, l)
        OBVIOUS
      <3>1. l \in Locations \/ l \in {"r14.1", "r14.2", "st.1", "st.2"}
        BY DEF Places, Extra
      <3>2. QED
        BY <1>4, <2>1, <3>1
    <2>4. Meets(B, "pa")
      <3>1. "pa" \in B.o => paging = TRUE
        <4>1. paging \in BOOLEAN
          BY DEF TypeInv
        <4>2. QED
          BY <4>1
      <3>2. "pa" \in B.o => Val("pa")' = "old"
        BY <1>4, <2>1, <3>1, ValIsNext
      <3>3. QED
        BY <3>2 DEF Meets
    <2>5. \A l \in d : Meets(B, l)
      <3>1. \A l \in o.bad \cup {"va", "whole"} : Meets(B, l)
        BY DEF Drops, Meets
      <3>2. QED
        BY <2>4, <3>1
    <2>6. stop' = B.stop
      BY <1>5 DEF Keeps
    <2> HIDE DEF d
    <2>7. Holds(B)'
      BY <2>2, <2>3, <2>5, <2>6, Carried
    <2>8. QED
      BY <1>5, <2>1, <2>7
  <1>6. CASE stop' # "none"
    <2>1. todo' = o.alt[1] /\ stop' = "page_fault" /\ \A l \in InR14 : Follows(l, l)
      BY <1>1, <1>6, TranslateFollows
    <2>2. \A l \in Places : Meets(M, l)
      <3> SUFFICES ASSUME NEW l \in Places PROVE Meets(M, l)
        OBVIOUS
      <3>1. CASE l \in o.bad \/ l = "whole"
        <4>1. l \notin M.o /\ l \notin M.n
          BY <3>1, NoValues
        <4>2. QED
          BY <4>1 DEF Meets
      <3>2. CASE l \notin o.bad /\ l # "whole"
        <4>1. Follows(l, l)
          BY <1>4, <2>1, <3>2 DEF Places, Extra, InR14
        <4>2. QED
          BY <4>1 DEF Follows, Meets, Holds, NewOrLost
      <3>3. QED
        BY <3>1, <3>2
    <2>3. Holds(M)'
      BY <2>1, <2>2, AllMeet
    <2>4. QED
      BY <1>6, <2>1, <2>3
  <1>7. QED
    BY <1>5, <1>6

-----------------------------------------------------------------------------
(* While an instruction runs, the paging mode and with it what its code    *)
(* does stay the same.                                                     *)

\* One operation that moves or computes values ...
LEMMA MovesKept ==
  ASSUME paging' = paging, NEW o, NEW A, NEW B, Moves(o, A, B)
  PROVE  Moves(o, A, B)'
  <1>1. NewR14(B) <=> NewR14(B)'
    BY DEF NewR14
  <1>2. Computed(o, A, B) <=> Computed(o, A, B)'
    BY <1>1 DEF Computed, Effect
  <1>3. QED
    BY <1>1, <1>2 DEF Moves

\* ... code without alternatives ...
LEMMA StraightKept ==
  ASSUME paging' = paging, NEW c, NEW s, NEW A, NEW B, Straight(c, s, A, B)
  PROVE  Straight(c, s, A, B)'
  <1>1. ASSUME NEW o, NEW C, NEW D, OpStraight(c, o, C, D)
        PROVE  OpStraight(c, o, C, D)'
    BY <1>1, MovesKept DEF OpStraight
  <1>2. PICK h : /\ WalkIn(Claims, s, h, A, B)
                 /\ \A k \in 1 .. Len(s) : OpStraight(c, s[k], h[k], h[k + 1])
    BY DEF Straight
  <1>3. \A k \in 1 .. Len(s) : OpStraight(c, s[k], h[k], h[k + 1])'
    BY <1>1, <1>2
  <1>4. QED
    BY <1>2, <1>3 DEF Straight

\* ... and all code.
LEMMA DoesKept ==
  ASSUME paging' = paging, NEW c, NEW s, NEW A, NEW B, Does(c, s, A, B)
  PROVE  Does(c, s, A, B)'
  <1>1. ASSUME NEW o, NEW C, NEW D, OpDoes(c, o, C, D)
        PROVE  OpDoes(c, o, C, D)'
    <2>1. OpStraight(c, o, C, D) => OpStraight(c, o, C, D)'
      BY MovesKept DEF OpStraight
    <2>2. \A M : Computed(o, C, M) => Computed(o, C, M)'
      BY DEF Computed, Effect, NewR14
    <2>3. \A s1, M, E : Straight(c, s1, M, E) => Straight(c, s1, M, E)'
      BY StraightKept
    <2>4. QED
      BY <1>1, <2>1, <2>2, <2>3 DEF OpDoes
  <1>2. PICK h : /\ WalkIn(Claims, s, h, A, B)
                 /\ \A k \in 1 .. Len(s) : OpDoes(c, s[k], h[k], h[k + 1])
    BY DEF Does
  <1>3. \A k \in 1 .. Len(s) : OpDoes(c, s[k], h[k], h[k + 1])'
    BY <1>1, <1>2
  <1>4. QED
    BY <1>2, <1>3 DEF Does

-----------------------------------------------------------------------------
(* What is known inside of an instruction.                                 *)

\* A claim holds, and what is left of the code leads from it to where the
\* instruction's code is to lead, or out of the trace.
Ahead ==
    \E c \in {Contract(trace)}, e \in {Target(trace), Impossible}, s \in {todo}, A \in Claims :
        Holds(A) /\ Does(c, s, A, e)

\* A claim that holds after a step within the instruction.
LEMMA StillAhead ==
  ASSUME NEW c, NEW e, NEW s, NEW A \in Claims, UNCHANGED <<paging, trace>>,
         c = Contract(trace), e \in {Target(trace), Impossible}, s = todo',
         Holds(A)', Does(c, s, A, e)
  PROVE  Ahead'
  <1>1. Does(c, s, A, e)'
    BY DoesKept
  <1>2. c \in {Contract(trace')} /\ e \in {Target(trace'), Impossible} /\ s \in {todo'}
    OBVIOUS
  <1>3. QED
    BY <1>1, <1>2 DEF Ahead

\* The operations that move or compute values.
DataStep == Exec \/ CopyOp \/ SaveAllGp \/ LoadAllGp \/ Push \/ Pop \/ Eflags \/ Restart \/ SetStop

\* One of them leads to the next claim.
LEMMA MovingHolds ==
  ASSUME IInv, DataStep, NEW A \in Claims, NEW B \in Claims, Holds(A), Moves(Head(todo), A, B)
  PROVE  Holds(B)'
  <1> USE DEF IInv
  <1>1. CASE Exec
    <2> DEFINE o == Head(todo)
    <2>1. o.op = "exec" /\ Compute(o) /\ UNCHANGED <<paging, stack, stop>>
      BY <1>1 DEF Exec, Next1
    <2> HIDE DEF o
    <2>2. Computed(o, A, B)
      BY <2>1 DEF Moves, o
    <2>3. QED
      BY <2>1, <2>2, ComputeHolds
  <1>2. CASE CopyOp
    BY <1>2, CopyHolds
  <1>3. CASE SaveAllGp \/ LoadAllGp
    BY <1>3, GpHolds
  <1>4. CASE Push
    BY <1>4, PushHolds
  <1>5. CASE Pop
    BY <1>5, PopHolds
  <1>6. CASE Eflags
    BY <1>6, EflagsHolds
  <1>7. CASE Restart
    BY <1>7, RestartHolds
  <1>8. CASE SetStop
    BY <1>8, SetStopHolds
  <1>9. QED
    BY <1>1, <1>2, <1>3, <1>4, <1>5, <1>6, <1>7, <1>8 DEF DataStep

\* The code after them leads on.
LEMMA MovingAhead ==
  ASSUME IInv, DataStep, Ahead
  PROVE  Ahead'
  <1>1. /\ where = "trace" /\ todo # <<>> /\ todo' = Tail(todo) /\ UNCHANGED <<paging, trace>>
        /\ Head(todo).op \in {"exec", "copy", "save_gp", "load_gp", "pushfq", "push_r14", "popfq",
                              "pop_r14", "eflags_r14", "r14_eflags", "restart", "stop"}
    BY DEF DataStep, Exec, CopyOp, SaveAllGp, LoadAllGp, Push, Pop, Eflags, Restart, SetStop, Next1, Go
  <1>2. PICK c \in {Contract(trace)}, e \in {Target(trace), Impossible}, s \in {todo}, A \in Claims :
            Holds(A) /\ Does(c, s, A, e)
    BY DEF Ahead
  <1>3. PICK B \in Claims : OpDoes(c, Head(s), A, B) /\ Does(c, Tail(s), B, e)
    BY <1>1, <1>2, DoesHead
  <1>4. Moves(Head(s), A, B)
    <2> DEFINE o == Head(s)
    <2>1. o.op \notin {"site", "fork", "translate", "link", "ret"}
      BY <1>1, <1>2
    <2> HIDE DEF o
    <2>2. OpDoes(c, o, A, B) => Moves(o, A, B)
      BY <2>1 DEF OpDoes, OpStraight
    <2>3. QED
      BY <1>3, <2>2 DEF o
  <1>5. Holds(B)'
    BY <1>2, <1>4, MovingHolds
  <1>6. QED
    BY <1>1, <1>2, <1>3, <1>5, StillAhead

\* Both alternatives lead on.
LEMMA EitherAhead ==
  ASSUME IInv, Either, Ahead
  PROVE  Ahead'
  <1>1. /\ where = "trace" /\ todo # <<>> /\ Head(todo).op \in {"site", "fork"}
        /\ Compute(Head(todo)) /\ \E k \in 1 .. 2 : todo' = Head(todo).alt[k] \o Tail(todo)
        /\ UNCHANGED <<paging, trace, stack, stop>>
    BY DEF Either, Next1
  <1>2. PICK c \in {Contract(trace)}, e \in {Target(trace), Impossible}, s \in {todo}, A \in Claims :
            Holds(A) /\ Does(c, s, A, e)
    BY DEF Ahead
  <1>3. PICK B \in Claims : OpDoes(c, Head(s), A, B) /\ Does(c, Tail(s), B, e)
    BY <1>1, <1>2, DoesHead
  <1> DEFINE o == Head(s)
  <1>4. o.op \in {"site", "fork"} /\ Compute(o)
    BY <1>1, <1>2
  <1>5. PICK k \in 1 .. 2 : todo' = o.alt[k] \o Tail(s)
    BY <1>1, <1>2
  <1> HIDE DEF o
  <1>6. PICK M \in Claims : /\ Computed(o, A, M)
                            /\ Straight(c, o.alt[1], M, B) /\ Straight(c, o.alt[2], M, B)
    BY <1>3, <1>4 DEF OpDoes, OpStraight, Moves, o
  <1>7. Holds(M)'
    BY <1>1, <1>2, <1>4, <1>6, ComputeHolds DEF IInv
  <1>8. Does(c, o.alt[k], M, B)
    <2>1. k = 1 \/ k = 2
      OBVIOUS
    <2>2. Straight(c, o.alt[k], M, B)
      BY <1>6, <2>1
    <2>3. QED
      BY <2>2, StraightDoes
  <1>9. Does(c, o.alt[k] \o Tail(s), M, e)
    BY <1>3, <1>8, DoesConcat
  <1>10. QED
    BY <1>1, <1>2, <1>5, <1>7, <1>9, StillAhead

\* So do both ends of a translation; the fault exit leaves the trace.
LEMMA TranslateAhead ==
  ASSUME IInv, Translate, Ahead
  PROVE  Ahead'
  <1>1. where = "trace" /\ todo # <<>> /\ Head(todo).op = "translate" /\ UNCHANGED <<paging, trace>>
    BY DEF Translate, Next1
  <1>2. PICK c \in {Contract(trace)}, e \in {Target(trace), Impossible}, s \in {todo}, A \in Claims :
            Holds(A) /\ Does(c, s, A, e)
    BY DEF Ahead
  <1>3. PICK B \in Claims : OpDoes(c, Head(s), A, B) /\ Does(c, Tail(s), B, e)
    BY <1>1, <1>2, DoesHead
  <1> DEFINE o == Head(s)
  <1>4. o.op = "translate" /\ o = Head(todo)
    BY <1>1, <1>2
  <1> HIDE DEF o
  <1>5. /\ A.stop = "none" /\ "va" \in A.o /\ o.bad \subseteq Registers
        /\ Keeps(A, B, {"pa"}) /\ Drops(B, o.bad \cup {"va", "whole"})
        /\ ("pa" \in B.o => paging) /\ "pa" \notin B.n
        /\ \E M \in Claims : /\ M.o \subseteq A.o \ (o.bad \cup {"whole"}) /\ M.n \subseteq A.n \ o.bad
                             /\ M.stop = "page_fault" /\ Straight(c, o.alt[1], M, Impossible)
    BY <1>3, <1>4 DEF OpDoes, OpStraight, Moves, o
  <1>6. PICK M \in Claims : /\ M.o \subseteq A.o \ (o.bad \cup {"whole"}) /\ M.n \subseteq A.n \ o.bad
                            /\ M.stop = "page_fault" /\ Straight(c, o.alt[1], M, Impossible)
    BY <1>5
  <1>7. IF stop' = "none" THEN todo' = Tail(todo) /\ Holds(B)'
        ELSE todo' = o.alt[1] /\ Holds(M)'
    BY <1>2, <1>4, <1>5, <1>6, TranslateHolds DEF IInv
  <1>8. CASE stop' = "none"
    BY <1>1, <1>2, <1>3, <1>7, <1>8, StillAhead
  <1>9. CASE stop' # "none"
    <2>1. Does(c, o.alt[1], M, Impossible)
      BY <1>6, StraightDoes
    <2>2. todo' = o.alt[1] /\ Holds(M)'
      BY <1>7, <1>9
    <2>3. QED
      BY <1>1, <1>2, <2>1, <2>2, StillAhead
  <1>10. QED
    BY <1>8, <1>9

-----------------------------------------------------------------------------
(* Where instructions start, end and leave the trace.                      *)

\* The guest's state where it is fresh, and what the prolog loads of it.
LEMMA FreshIs ==
  /\ \A l \in Base \cup Flags : Fresh(InTrace)[l] = "old" /\ Loaded(Fresh(InCtx))[l] = "old"
  /\ \A l \in Locations : Fresh(InTrace)[l] # "lost" /\ Loaded(Fresh(InCtx))[l] # "lost"
  <1>1. \A l \in Locations : Fresh(InTrace)[l] # "lost" /\ Fresh(InCtx)[l] # "lost"
    BY DEF Fresh
  <1>2. /\ \A g \in Guest : InTrace[g] \in Locations => Fresh(InTrace)[InTrace[g]] = "old"
        /\ \A g \in Guest : InCtx[g] \in Locations => Fresh(InCtx)[InCtx[g]] = "old"
    BY DEF Fresh
  <1>3. \A l \in Base \cup Flags : Fresh(InTrace)[l] = "old"
    BY <1>2, ViewFacts, PlaceFacts DEF Base, Flags
  <1>4. /\ Registers = {"a", "c", "cf", "zf"} /\ Registers \subseteq Guest
        /\ \A g \in Registers : g \in Locations /\ InCtx[g] \in Locations
    BY LocationFacts, ViewFacts DEF Registers, Flags
  <1>5. /\ \A l \in Registers : Loaded(Fresh(InCtx))[l] = "old"
        /\ \A l \in Locations \ Registers : Loaded(Fresh(InCtx))[l] = Fresh(InCtx)[l]
    BY <1>2, <1>4 DEF Loaded
  <1>6. {"ctx.sp", "mem"} \subseteq Locations \ Registers
    BY <1>4, PlaceFacts DEF Base
  <1>7. Fresh(InCtx)["ctx.sp"] = "old" /\ Fresh(InCtx)["mem"] = "old"
    BY <1>2, <1>6, ViewFacts
  <1>8. \A l \in Base \cup Flags : Loaded(Fresh(InCtx))[l] = "old"
    BY <1>4, <1>5, <1>6, <1>7 DEF Base, Flags
  <1>9. \A l \in Locations : Loaded(Fresh(InCtx))[l] # "lost"
    BY <1>1, <1>5
  <1>10. QED
    BY <1>1, <1>3, <1>8, <1>9

\* The start of an instruction: its code is all ahead.
LEMMA StartAhead ==
  ASSUME CodeKept', trace' \in Seq(Forms), trace' # <<>>, todo' = Emit(trace)', stop' = "none",
         \A l \in Base \cup LiveBefore(trace') : v'[l] = "old",
         \A l \in Locations : v'[l] # "lost"
  PROVE  Ahead'
  <1>1. PICK t \in Seq(Forms), s \in {todo'} : t = trace'
    OBVIOUS
  <1> DEFINE c == Contract(t)
             e == Target(t)
             B == Start(c)
  <1>2. Does(c, s, B, e)'
    BY <1>1 DEF CodeKept
  <1>3. c \in Contracts /\ c.live = LiveBefore(t)
    BY <1>1, ContractIs
  <1>4. c = Contract(trace') /\ e = Target(trace')
    BY <1>1
  <1> HIDE DEF c, e
  <1>5. /\ B \in Claims /\ B.o = Base \cup c.live \cup {"whole"} /\ B.n = {} /\ B.stop = "none"
    BY <1>3, EndClaims
  <1> HIDE DEF B
  <1>6. \A l \in Base \cup c.live : l \in Locations
    BY <1>3, PlaceFacts DEF Contracts
  <1>7. \A l \in Base \cup c.live : Val(l)' = "old"
    BY <1>1, <1>3, <1>6, ValIsNext
  <1>8. Val("whole")' = "old"
    BY ValIsNext
  <1>9. Holds(B)'
    BY <1>5, <1>7, <1>8 DEF Holds
  <1>10. c \in {Contract(trace')} /\ e \in {Target(trace'), Impossible} /\ s \in {todo'}
    BY <1>1, <1>4
  <1>11. QED
    BY <1>2, <1>5, <1>9, <1>10 DEF Ahead

\* The claim behind a return holds nowhere.
LEMMA NeverImpossible == ~Holds(Impossible)
  <1>1. "a" \in Impossible.o /\ "a" \in Impossible.n
    BY DEF Impossible, Known
  <1>2. QED
    BY <1>1 DEF Holds

\* Where the code of an instruction ends and the trace goes on, what it owes is there.
LEMMA EndOfCode ==
  ASSUME Ahead, todo = <<>>
  PROVE  /\ Tail(trace) # <<>> /\ Head(trace) \notin Leaving
         /\ \E c \in {Contract(trace)} : Holds(Finish(c))
  <1>1. PICK c \in {Contract(trace)}, e \in {Target(trace), Impossible}, s \in {todo}, A \in Claims :
            Holds(A) /\ Does(c, s, A, e)
    BY DEF Ahead
  <1>2. s = <<>>
    BY <1>1
  <1>3. A = e
    BY <1>1, <1>2, DoesEmpty
  <1>4. e # Impossible
    BY <1>1, <1>3, NeverImpossible
  <1>5. e = Target(trace) /\ Target(trace) # Impossible
    BY <1>4
  <1>6. Tail(trace) # <<>> /\ Head(trace) \notin Leaving
    BY <1>5 DEF Target
  <1>7. e = Finish(c)
    BY <1>5, <1>6 DEF Target
  <1>8. QED
    BY <1>1, <1>3, <1>6, <1>7

\* What it owes, value by value.
LEMMA OwedIsThere ==
  ASSUME NEW c \in Contracts, NEW g \in Owed(c), Holds(Finish(c)), c.form # "movzx16"
  PROVE  /\ g \in Writes(c.form) => v[InTrace[g]] \in {"new", "lost"}
         /\ g \notin Writes(c.form) => v[InTrace[g]] = "old"
  <1>1. g \in Guest /\ InTrace[g] \in Locations
    <2>1. Owed(c) \subseteq Guest
      BY FormsAre DEF Owed, Contracts, Guest, Flags, Writes, Insns
    <2>2. QED
      BY <2>1, ViewFacts, PlaceFacts DEF Base, Flags
  <1>2. /\ g \in Writes(c.form) => InTrace[g] \in Finish(c).n
        /\ g \notin Writes(c.form) => InTrace[g] \in Finish(c).o
    BY DEF Finish, Known
  <1>3. Val(InTrace[g]) = v[InTrace[g]]
    BY <1>1, ValIs
  <1>4. QED
    BY <1>2, <1>3 DEF Holds

\* The run loop enters a trace with the state in ctx.
LEMMA DispatchAhead ==
  ASSUME CodeKept', Dispatch, v = Fresh(InCtx)
  PROVE  Ahead'
  <1>1. trace' \in Traces /\ todo' = Emit(trace)' /\ v' = Loaded(Fresh(InCtx)) /\ stop' = "none"
    BY DEF Dispatch
  <1>2. trace' \in Seq(Forms) /\ trace' # <<>>
    BY <1>1, TracesAssumption DEF TracesAssumption
  <1>3. LiveBefore(trace') \subseteq Flags
    BY DEF LiveBefore
  <1>4. \A l \in Base \cup LiveBefore(trace') : v'[l] = "old"
    BY <1>1, <1>3, FreshIs
  <1>5. \A l \in Locations : v'[l] # "lost"
    BY <1>1, FreshIs
  <1>6. QED
    BY <1>1, <1>2, <1>4, <1>5, StartAhead

\* A link slot: the code behind it, or another trace.
LEMMA LinkSlotAhead ==
  ASSUME CodeKept', LinkSlot, Ahead
  PROVE  Ahead'
  <1>1. /\ where = "trace" /\ todo # <<>> /\ Head(todo).op = "link"
        /\ UNCHANGED <<paging, stack, stop>>
    BY DEF LinkSlot, Next1
  <1>2. PICK c \in {Contract(trace)}, e \in {Target(trace), Impossible}, s \in {todo}, A \in Claims :
            Holds(A) /\ Does(c, s, A, e)
    BY DEF Ahead
  <1>3. PICK B \in Claims : OpDoes(c, Head(s), A, B) /\ Does(c, Tail(s), B, e)
    BY <1>1, <1>2, DoesHead
  <1>4. LinkOk(c, A) /\ Keeps(A, B, {})
    <2> DEFINE o == Head(s)
    <2>1. o.op = "link"
      BY <1>1, <1>2
    <2> HIDE DEF o
    <2>2. OpDoes(c, o, A, B) => LinkOk(c, A) /\ Keeps(A, B, {})
      BY <2>1 DEF OpDoes, OpStraight, Moves
    <2>3. QED
      BY <1>3, <2>2 DEF o
  <1>5. CASE Go /\ UNCHANGED <<trace, v, r14, physical>>
    <2> DEFINE w == {}
    <2>1. w \in SUBSET Locations /\ (\A l \in Locations \ w : v'[l] = v[l]) /\ (\A l \in w : Meets(B, l))
      BY <1>5
    <2>2. \A l \in w : v'[l] # "lost" \/ \E k \in Locations : v'[l] = v[k]
      OBVIOUS
    <2>3. Keeps(A, B, w)
      BY <1>4
    <2> HIDE DEF w
    <2>4. Holds(B)'
      BY <1>1, <1>2, <1>5, <2>1, <2>2, <2>3, OnlyV
    <2>5. todo' = Tail(s)
      BY <1>2, <1>5 DEF Go
    <2>6. QED
      BY <1>1, <1>2, <1>3, <1>5, <2>4, <2>5, StillAhead
  <1>6. CASE trace' \in Traces /\ todo' = Emit(trace)' /\ v' = Fresh(InTrace)
    <2>1. trace' \in Seq(Forms) /\ trace' # <<>>
      BY <1>6, TracesAssumption DEF TracesAssumption
    <2>2. LiveBefore(trace') \subseteq Flags
      BY DEF LiveBefore
    <2>3. \A l \in Base \cup LiveBefore(trace') : v'[l] = "old"
      BY <1>6, <2>2, FreshIs
    <2>4. \A l \in Locations : v'[l] # "lost"
      BY <1>6, FreshIs
    <2>5. stop' = "none"
      BY <1>1, <1>2, <1>4 DEF LinkOk, Holds
    <2>6. QED
      BY <1>6, <2>1, <2>3, <2>4, <2>5, StartAhead
  <1>7. QED
    BY <1>5, <1>6 DEF LinkSlot

\* A flag alive behind the instruction is there.
LEMMA FlagsOwed ==
  ASSUME CodeInv, where = "trace", Head(trace) \notin Leaving, Head(trace) \notin LosesFlags
  PROVE  \A c \in {Contract(trace)} : c.form = Head(trace) /\ c \in Contracts /\ LiveBefore(Tail(trace)) \subseteq Owed(c)
  <1>1. trace \in Seq(Forms) /\ trace # <<>>
    BY DEF CodeInv
  <1>2. PICK t \in Seq(Forms) : t = trace
    BY <1>1
  <1> DEFINE c == Contract(t)
  <1>3. /\ c \in Contracts /\ c.form = Head(t) /\ c.live = LiveBefore(t)
        /\ LiveBefore(Tail(t)) \subseteq LiveBefore(t) \cup Writes(Head(t))
    BY <1>1, <1>2, ContractIs
  <1> HIDE DEF c
  <1>4. c.form \notin LosesFlags
    BY <1>2, <1>3
  <1>5. LiveBefore(Tail(t)) \subseteq Owed(c)
    BY <1>3, <1>4 DEF Owed
  <1>6. QED
    BY <1>2, <1>3, <1>5 DEF c

\* The next instruction starts where the one before ended.
LEMMA AdvanceAhead ==
  ASSUME IInv, CodeKept', Advance, Ahead
  PROVE  Ahead'
  <1>1. /\ where = "trace" /\ todo = <<>> /\ stop' = stop /\ trace' = Tail(trace) /\ todo' = Emit(trace)'
        /\ v' = [l \in Locations |-> IF l \in Flags /\ v[l] = "junk" /\ Head(trace) \notin LosesFlags
                             THEN "junk" ELSE Fresh(InTrace)[l]]
    BY DEF Advance
  <1>2. Tail(trace) # <<>> /\ Head(trace) \notin Leaving
    BY <1>1, EndOfCode
  <1>3. PICK c \in {Contract(trace)} : Holds(Finish(c))
    BY <1>1, EndOfCode
  <1>4. trace \in Seq(Forms) /\ trace # <<>>
    BY <1>1 DEF IInv, CodeInv
  <1>5. trace' \in Seq(Forms) /\ trace' # <<>>
    BY <1>1, <1>2, <1>4
  <1>6. LiveBefore(trace') \subseteq Flags
    BY DEF LiveBefore
  <1>7. c \in Contracts /\ c.form = Head(trace)
    BY <1>3, <1>4, ContractIs
  <1>8. ASSUME NEW g \in LiveBefore(trace'), Head(trace) \notin LosesFlags PROVE v[g] # "junk"
    <2>1. g \in Owed(c)
      BY <1>1, <1>2, <1>3, <1>8, FlagsOwed DEF IInv
    <2>2. c.form # "movzx16"
      BY <1>7, <1>8 DEF LosesFlags
    <2>3. v[InTrace[g]] \in {"new", "lost", "old"}
      BY <1>3, <1>7, <2>1, <2>2, OwedIsThere
    <2>4. InTrace[g] = g
      BY <1>6, ViewFacts
    <2>5. QED
      BY <2>3, <2>4
  <1>9. Base \cup Flags \subseteq Locations /\ Base \cap Flags = {}
    BY PlaceFacts DEF Base, Flags
  <1>10. \A l \in Base \cup LiveBefore(trace') : v'[l] = "old"
    <2> SUFFICES ASSUME NEW l \in Base \cup LiveBefore(trace') PROVE v'[l] = "old"
      OBVIOUS
    <2>1. l \in Locations /\ Fresh(InTrace)[l] = "old"
      BY <1>6, <1>9, FreshIs
    <2>2. ~(l \in Flags /\ v[l] = "junk" /\ Head(trace) \notin LosesFlags)
      BY <1>8, <1>9
    <2>3. QED
      BY <1>1, <2>1, <2>2
  <1>11. \A l \in Locations : v'[l] # "lost"
    BY <1>1, FreshIs
  <1>12. stop' = "none"
    BY <1>1, <1>3, <1>7, EndClaims DEF Holds
  <1>13. QED
    BY <1>1, <1>5, <1>10, <1>11, <1>12, StartAhead

-----------------------------------------------------------------------------
(* What follows for the guest's state.                                     *)

\* After an instruction.
LEMMA AfterIsRight ==
  ASSUME IInv, where = "trace" => Ahead
  PROVE  AfterInstruction
  <1> SUFFICES ASSUME where = "trace", todo = <<>>
               PROVE  /\ Right(InTrace, Guest \ Flags)
                      /\ Head(trace) \notin LosesFlags => Right(InTrace, LiveBefore(Tail(trace)))
    BY DEF AfterInstruction
  <1>1. Head(trace) \notin Leaving
    BY EndOfCode
  <1>2. PICK c \in {Contract(trace)} : Holds(Finish(c))
    BY EndOfCode
  <1>3. c \in Contracts /\ c.form = Head(trace)
    BY <1>2, ContractIs DEF IInv, CodeInv
  <1>4. ASSUME NEW g \in Owed(c), Head(trace) # "movzx16" PROVE v[InTrace[g]] \in {Expected(g), "lost"}
    BY <1>2, <1>3, <1>4, OwedIsThere DEF Expected
  <1>5. Guest \ Flags \subseteq Owed(c)
    BY DEF Owed
  <1>6. Head(trace) \notin LosesFlags => LiveBefore(Tail(trace)) \subseteq Owed(c)
    BY <1>1, <1>2, FlagsOwed DEF IInv
  <1>7. QED
    BY <1>4, <1>5, <1>6 DEF Right

\* Registers, ESP and memory in place.
LEMMA InPlaceIsRight ==
  ASSUME NEW c, NEW A, c.form = Head(trace), Holds(A), InPlace(c, A)
  PROVE  Head(trace) # "movzx16" => \A g \in Guest \ Flags : v[InTrace[g]] \in {Expected(g), "lost"}
  <1> SUFFICES ASSUME Head(trace) # "movzx16", NEW g \in Guest \ Flags
               PROVE  v[InTrace[g]] \in {Expected(g), "lost"}
    OBVIOUS
  <1>1. InTrace[g] \in Locations
    BY ViewFacts, PlaceFacts DEF Base
  <1>2. Val(InTrace[g]) = v[InTrace[g]]
    BY <1>1, ValIs
  <1>3. CASE g \in Writes(c.form)
    <2>1. InTrace[g] \in A.n
      BY <1>3 DEF InPlace
    <2>2. QED
      BY <1>2, <1>3, <2>1 DEF Holds, Expected
  <1>4. CASE g \notin Writes(c.form)
    <2>1. InTrace[g] \in A.o
      BY <1>4 DEF InPlace
    <2>2. QED
      BY <1>2, <1>4, <2>1 DEF Holds, Expected
  <1>5. QED
    BY <1>3, <1>4

\* At a link.
LEMMA LinkIsRight ==
  ASSUME IInv, where = "trace" => Ahead
  PROVE  AtLink
  <1> SUFFICES ASSUME where = "trace", todo # <<>>, Head(todo).op = "link"
               PROVE  /\ Right(InTrace, Guest \ Flags)
                      /\ Head(trace) \in Branches => v["br"] = "new"
    BY DEF AtLink, Next1, Branches
  <1>1. PICK c \in {Contract(trace)}, e \in {Target(trace), Impossible}, s \in {todo}, A \in Claims :
            Holds(A) /\ Does(c, s, A, e)
    BY DEF Ahead
  <1>2. PICK B \in Claims : OpDoes(c, Head(s), A, B)
    BY <1>1, DoesHead
  <1>3. LinkOk(c, A)
    <2> DEFINE o == Head(s)
    <2>1. o.op = "link"
      BY <1>1
    <2> HIDE DEF o
    <2>2. OpDoes(c, o, A, B) => LinkOk(c, A)
      BY <2>1 DEF OpDoes, OpStraight, Moves
    <2>3. QED
      BY <1>2, <2>2 DEF o
  <1>4. c.form = Head(trace)
    BY <1>1, ContractIs DEF IInv, CodeInv
  <1>5. Right(InTrace, Guest \ Flags)
    BY <1>1, <1>3, <1>4, InPlaceIsRight DEF LinkOk, Right
  <1>6. ASSUME Head(trace) \in Branches PROVE v["br"] = "new"
    <2>1. "br" \in A.n /\ "whole" \in A.o
      BY <1>3, <1>4, <1>6 DEF LinkOk
    <2>2. "br" \in Locations
      BY PlaceFacts
    <2>3. v["br"] \in {"new", "lost"} /\ v["br"] # "lost"
      BY <1>1, <2>1, <2>2, ValIs DEF Holds
    <2>4. QED
      BY <2>3
  <1>7. QED
    BY <1>5, <1>6

\* The epilog of the trampoline puts the guest's state into ctx.
LEMMA StoredIs ==
  ASSUME NEW u \in [Locations -> Value]
  PROVE  /\ \A g \in Guest : InCtx[g] \in Locations /\ Stored(u)[InCtx[g]] = u[InTrace[g]]
         /\ Stored(u)["ctx.eip"] = u["ctx.eip"]
  <1>1. /\ Registers = {"a", "c", "cf", "zf"}
        /\ InCtx["a"] = "ctx.a" /\ InCtx["c"] = "ctx.c" /\ InCtx["cf"] = "ctx.cf" /\ InCtx["zf"] = "ctx.zf"
    BY ViewFacts DEF Registers, Flags
  <1>2. ASSUME NEW g \in Registers PROVE Stored(u)[InCtx[g]] = u[g]
    <2>1. InCtx[g] \in Locations
      BY LocationFacts
    <2>2. \A x \in Registers : InCtx[g] = InCtx[x] => x = g
      BY <1>1
    <2>3. (CHOOSE x \in Registers : InCtx[g] = InCtx[x]) = g
      BY <2>2
    <2>4. \E x \in Registers : InCtx[g] = InCtx[x]
      OBVIOUS
    <2>5. Stored(u)[InCtx[g]] = u[CHOOSE x \in Registers : InCtx[g] = InCtx[x]]
      BY <2>1, <2>4 DEF Stored
    <2>6. QED
      BY <2>3, <2>5
  <1>3. \A l \in {"ctx.sp", "mem", "ctx.eip"} : l \in Locations /\ ~\E g \in Registers : l = InCtx[g]
    BY <1>1, PlaceFacts DEF Base
  <1>4. \A l \in {"ctx.sp", "mem", "ctx.eip"} : Stored(u)[l] = u[l]
    BY <1>3 DEF Stored
  <1>5. ASSUME NEW g \in Guest PROVE InCtx[g] \in Locations /\ Stored(u)[InCtx[g]] = u[InTrace[g]]
    <2>1. CASE g \in Registers
      <3>1. InTrace[g] = g
        BY <1>1, <2>1, ViewFacts
      <3>2. QED
        BY <1>2, <2>1, <3>1, LocationFacts
    <2>2. CASE g \in {"sp", "mem"}
      <3>1. InCtx[g] = InTrace[g] /\ InCtx[g] \in {"ctx.sp", "mem"}
        BY <2>2, ViewFacts
      <3>2. QED
        BY <1>3, <1>4, <3>1
    <2>3. QED
      BY <1>1, <2>1, <2>2, ViewFacts
  <1>6. QED
    BY <1>4, <1>5

\* A return to the run loop.
LEMMA ReturnIsRight ==
  ASSUME IInv, Return, Ahead
  PROVE  AtReturn'
  <1>1. /\ where = "trace" /\ todo # <<>> /\ Head(todo).op = "ret"
        /\ v' = Stored(v) /\ trace' = trace /\ stop' = stop
    BY DEF Return, Next1
  <1>2. PICK c \in {Contract(trace)}, e \in {Target(trace), Impossible}, s \in {todo}, A \in Claims :
            Holds(A) /\ Does(c, s, A, e)
    BY DEF Ahead
  <1>3. PICK B \in Claims : OpDoes(c, Head(s), A, B)
    BY <1>1, <1>2, DoesHead
  <1>4. RetOk(c, A)
    <2> DEFINE o == Head(s)
    <2>1. o.op = "ret"
      BY <1>1, <1>2
    <2> HIDE DEF o
    <2>2. OpDoes(c, o, A, B) => RetOk(c, A)
      BY <2>1 DEF OpDoes, OpStraight, Moves
    <2>3. QED
      BY <1>3, <2>2 DEF o
  <1>5. c \in Contracts /\ c.form = Head(trace) /\ c.live = LiveBefore(trace)
    BY <1>1, <1>2, ContractIs DEF IInv, CodeInv
  <1>6. /\ \A g \in Guest : v'[InCtx[g]] = v[InTrace[g]] /\ InTrace[g] \in Locations
        /\ v'["ctx.eip"] = v["ctx.eip"] /\ "ctx.eip" \in Locations
    <2>1. v \in [Locations -> Value]
      BY DEF IInv, TypeInv
    <2>2. \A g \in Guest : InTrace[g] \in Locations
      BY ViewFacts, PlaceFacts DEF Base, Flags
    <2>3. QED
      BY <1>1, <2>1, <2>2, StoredIs, PlaceFacts
  <1>7. stop = A.stop
    BY <1>2 DEF Holds
  <1>8. CASE stop = "none"
    <2>1. InPlace(c, A) /\ "ctx.eip" \in A.n /\ (c.form = "iret" => Flags \subseteq A.n)
      BY <1>4, <1>7, <1>8 DEF RetOk
    <2>2. Head(trace) # "movzx16" => \A g \in Guest \ Flags : v'[InCtx[g]] \in {Expected(g), "lost"}
      BY <1>2, <1>5, <1>6, <2>1, InPlaceIsRight
    <2>3. v'["ctx.eip"] \in {"new", "lost"}
      BY <1>2, <1>6, <2>1, ValIs DEF Holds
    <2>4. ASSUME Head(trace) = "iret", NEW g \in Flags PROVE v'[InCtx[g]] \in {Expected(g), "lost"}
      <3>1. g \in A.n /\ InTrace[g] = g /\ g \in Guest
        BY <1>5, <2>1, <2>4, ViewFacts DEF Guest
      <3>2. v[g] \in {"new", "lost"}
        BY <1>2, <1>6, <3>1, ValIs DEF Holds
      <3>3. Expected(g) = "new"
        BY <2>4 DEF Expected, Writes, Insns
      <3>4. QED
        BY <1>6, <3>1, <3>2, <3>3
    <2>5. \A g : Expected(g)' = Expected(g)
      BY <1>1 DEF Expected
    <2>6. Right(InCtx, Guest \ Flags)' /\ (Head(trace) = "iret" => Right(InCtx, Flags)')
      BY <1>1, <2>2, <2>4, <2>5 DEF Right
    <2>7. QED
      BY <1>1, <1>8, <2>3, <2>6 DEF AtReturn
  <1>9. CASE stop # "none"
    <2>1. /\ \A g \in (Guest \ Flags) \cup c.live :
                \/ InTrace[g] \in A.o
                \/ g \in Flags /\ c.form \in LosesFlags
                \/ g = "sp" /\ A.stop = "page_fault" /\ c.form \in MovesEsp
          /\ "ctx.eip" \in A.o
      BY <1>4, <1>7, <1>9 DEF RetOk
    <2>2. c.live \subseteq Guest
      BY <1>5 DEF Contracts, Guest
    <2>3. ASSUME NEW g \in (Guest \ Flags) \cup LiveBefore(trace)
          PROVE  \/ v'[InCtx[g]] = "old"
                 \/ g \in Flags /\ Head(trace) \in LosesFlags
                 \/ g = "sp" /\ stop = "page_fault" /\ Head(trace) \in MovesEsp
      <3>1. g \in Guest
        BY <1>5, <2>2
      <3>2. InTrace[g] \in A.o => v[InTrace[g]] = "old"
        BY <1>2, <1>6, <3>1, ValIs DEF Holds
      <3>3. QED
        BY <1>5, <1>6, <1>7, <2>1, <3>1, <3>2
    <2>4. v'["ctx.eip"] = "old"
      BY <1>2, <1>6, <2>1, ValIs DEF Holds
    <2>5. QED
      BY <1>1, <1>9, <2>3, <2>4 DEF AtReturn
  <1>10. QED
    BY <1>8, <1>9

-----------------------------------------------------------------------------
(* The invariant.                                                          *)

\* Between traces ctx holds the guest's state; in one, the code ahead of it
\* is what the instruction needs.
StateInv ==
    /\ where = "trace" => Ahead
    /\ where = "idle" => v = Fresh(InCtx)
    /\ AtReturn

\* It holds in the run loop at first.
LEMMA StateInit == Init => StateInv
  BY DEF Init, StateInv, AtReturn

\* Every step keeps it, and the code is what was emitted.
LEMMA StateStep == IInv /\ CodeKept' /\ StateInv /\ [Next]_vars => StateInv'
  <1> SUFFICES ASSUME IInv, CodeKept', StateInv, [Next]_vars PROVE StateInv'
    OBVIOUS
  <1>1. ASSUME where = "trace", where' = "trace", Ahead' PROVE StateInv'
    BY <1>1 DEF StateInv, AtReturn
  <1>2. CASE Dispatch
    <2>1. where = "idle" /\ where' = "trace"
      BY <1>2 DEF Dispatch
    <2>2. Ahead'
      BY <1>2, <2>1, DispatchAhead DEF StateInv
    <2>3. QED
      BY <2>1, <2>2 DEF StateInv, AtReturn
  <1>3. CASE Resume
    BY <1>3 DEF Resume, StateInv, AtReturn
  <1>4. CASE Advance
    <2>1. where = "trace" /\ where' = "trace"
      BY <1>4 DEF Advance
    <2>2. QED
      BY <1>1, <1>4, <2>1, AdvanceAhead DEF StateInv
  <1>5. CASE DataStep
    <2>1. where = "trace" /\ where' = "trace"
      BY <1>5 DEF DataStep, Exec, CopyOp, SaveAllGp, LoadAllGp, Push, Pop, Eflags, Restart, SetStop, Next1
    <2>2. QED
      BY <1>1, <1>5, <2>1, MovingAhead DEF StateInv
  <1>6. CASE Translate
    <2>1. where = "trace" /\ where' = "trace"
      BY <1>6 DEF Translate, Next1
    <2>2. QED
      BY <1>1, <1>6, <2>1, TranslateAhead DEF StateInv
  <1>7. CASE Either
    <2>1. where = "trace" /\ where' = "trace"
      BY <1>7 DEF Either, Next1
    <2>2. QED
      BY <1>1, <1>7, <2>1, EitherAhead DEF StateInv
  <1>8. CASE LinkSlot
    <2>1. where = "trace" /\ where' = "trace"
      BY <1>8 DEF LinkSlot, Next1
    <2>2. QED
      BY <1>1, <1>8, <2>1, LinkSlotAhead DEF StateInv
  <1>9. CASE Return
    <2>1. where = "trace" /\ where' \in {"out", "wild"}
      BY <1>9 DEF Return, Next1
    <2>2. AtReturn'
      BY <1>9, <2>1, ReturnIsRight DEF StateInv
    <2>3. QED
      BY <2>1, <2>2 DEF StateInv
  <1>10. CASE Stopped \/ UNCHANGED vars
    <2>1. UNCHANGED <<paging, where, trace, todo, v, r14, physical, stack, stop>>
      BY <1>10 DEF Stopped, vars
    <2>2. where' = "trace" => Ahead'
      <3> SUFFICES ASSUME where = "trace" PROVE Ahead'
        BY <2>1
      <3>1. PICK c \in {Contract(trace)}, e \in {Target(trace), Impossible}, s \in {todo}, A \in Claims :
                Holds(A) /\ Does(c, s, A, e)
        BY DEF Ahead, StateInv
      <3>2. Holds(A)'
        BY <2>1, <3>1 DEF Holds, Val
      <3>3. QED
        BY <2>1, <3>1, <3>2, StillAhead
    <2>3. AtReturn'
      BY <2>1 DEF StateInv, AtReturn, Right, Expected
    <2>4. QED
      BY <2>1, <2>2, <2>3 DEF StateInv
  <1>11. QED
    BY <1>2, <1>3, <1>4, <1>5, <1>6, <1>7, <1>8, <1>9, <1>10 DEF Next, Micro, DataStep

\* The generated code implements the guest's instructions: after each of them
\* its registers, ESP, memory and the flags that are tested later are what it
\* makes of them, a linked trace starts with all of it in place on the path
\* the branch took, and the run loop finds it in ctx, or with a stop reason
\* what was there before the instruction (GuestStateKept).
THEOREM StateKept == Spec => []GuestStateKept
  <1>1. IInv => paging \in BOOLEAN
    BY DEF IInv, TypeInv
  <1>2. IInv => CodeKept
    BY <1>1, EmitDoes
  <1>3. IInv /\ StateInv => GuestStateKept
    <2> SUFFICES ASSUME IInv, StateInv PROVE GuestStateKept
      OBVIOUS
    <2>1. where = "trace" => Ahead
      BY DEF StateInv
    <2>2. AfterInstruction /\ AtLink
      BY <2>1, AfterIsRight, LinkIsRight
    <2>3. QED
      BY <2>2 DEF StateInv, GuestStateKept
  <1>4. QED
    BY <1>2, <1>3, Invariant, StateInit, StateStep, PTL DEF Spec
=============================================================================
