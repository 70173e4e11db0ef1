------------------------------ MODULE JitProofs -----------------------------
(***************************************************************************)
(* Proofs about Jit, for every set of traces: the types, and that the      *)
(* generated code balances the host stack, for every sequence of           *)
(* instructions, with and without paging, on every path.                   *)
(***************************************************************************)
EXTENDS Jit, SequenceTheorems, TLAPS

-----------------------------------------------------------------------------
(* Code that fits: the depth of the host stack before each operation.      *)

\* Nothing pushed, the flags or R14 pushed, halting whatever is pushed, and
\* nowhere, the place behind a return.
Levels == 0 .. 3
Halting == 2
Nowhere == 3

\* Operations that touch neither the stack nor the control flow.
Quiet == {"exec", "save_gp", "load_gp", "eflags_r14", "r14_eflags", "restart"}

\* Operation o may run at level d and leaves level e.
OpPlain(o, d, e) ==
    \/ o.op \in Quiet /\ d \in {0, 1} /\ e = d
    \/ o.op = "save_gp" /\ d = Halting /\ e = d
    \/ /\ o.op = "copy" /\ d \in {0, 1} /\ e = d
       /\ o.old \subseteq Locations \cup {"r14"}
       /\ "r14" \in o.out => o.old \subseteq Locations
    \/ /\ o.op = "stop" /\ o.out \subseteq Reasons /\ d \in {0, 1}
       /\ e = d \/ (e = Halting /\ o.out = {"halted"})
    \/ o.op \in {"pushfq", "push_r14"} /\ d = 0 /\ e = 1
    \/ o.op \in {"popfq", "pop_r14"} /\ d = 1 /\ e = 0
    \/ o.op = "link" /\ d = 0 /\ e = 0
    \/ o.op = "ret" /\ d \in {0, Halting}

\* What holds before each operation of s and behind the last.
WalkIn(T, s, h, d, e) ==
    /\ \E S : s \in Seq(S)
    /\ h \in [1 .. Len(s) + 1 -> T]
    /\ h[1] = d /\ h[Len(s) + 1] = e

Walk(s, h, d, e) == WalkIn(Levels, s, h, d, e)

\* Code whose operations may run one after the other, from level d to e.
Plain(s, d, e) ==
    \E h : Walk(s, h, d, e) /\ \A k \in 1 .. Len(s) : OpPlain(s[k], h[k], h[k + 1])

\* Either way on fits; so does the fault exit, which goes nowhere.
OpFits(o, d, e) ==
    \/ OpPlain(o, d, e)
    \/ /\ o.op \in {"site", "fork"} /\ d \in {0, 1}
       /\ Plain(o.alt[1], d, e) /\ Plain(o.alt[2], d, e)
    \/ /\ o.op = "translate" /\ d \in {0, 1} /\ e = d
       /\ \A end \in {0, Nowhere} : Plain(o.alt[1], d, end)

Fits(s, d, e) ==
    \E h : Walk(s, h, d, e) /\ \A k \in 1 .. Len(s) : OpFits(s[k], h[k], h[k + 1])

-----------------------------------------------------------------------------
(* Putting code together.                                                  *)

\* Two sequences follow each other.
LEMMA ConcatFacts ==
  ASSUME NEW S, NEW s \in Seq(S), NEW T, NEW t \in Seq(T)
  PROVE  /\ s \o t \in Seq(S \cup T)
         /\ Len(s) \in Nat /\ Len(t) \in Nat /\ Len(s \o t) = Len(s) + Len(t)
         /\ \A k \in 1 .. Len(s) : (s \o t)[k] = s[k]
         /\ \A k \in 1 .. Len(t) : (s \o t)[Len(s) + k] = t[k]
  <1>1. s \in Seq(S \cup T) /\ t \in Seq(S \cup T)
    OBVIOUS
  <1>2. QED
    BY <1>1

\* The levels h of m operations, then the levels g of n.
Spliced(h, m, g, n) == [k \in 1 .. m + n + 1 |-> IF k <= m THEN h[k] ELSE g[k - m]]

\* A walk over two sequences: each operation is one of theirs, at its levels.
LEMMA WalkOn ==
  ASSUME NEW R, NEW s, NEW t, NEW h, NEW g, NEW d, NEW m, NEW e,
         WalkIn(R, s, h, d, m), WalkIn(R, t, g, m, e)
  PROVE  \E f : /\ WalkIn(R, s \o t, f, d, e)
                /\ \A k \in 1 .. Len(s \o t) :
                      \/ \E j \in 1 .. Len(s) :
                            (s \o t)[k] = s[j] /\ f[k] = h[j] /\ f[k + 1] = h[j + 1]
                      \/ \E j \in 1 .. Len(t) :
                            (s \o t)[k] = t[j] /\ f[k] = g[j] /\ f[k + 1] = g[j + 1]
  <1> DEFINE p == Len(s)
             q == Len(t)
             u == s \o t
  <1>1. PICK S, T : s \in Seq(S) /\ t \in Seq(T)
    BY DEF WalkIn
  <1>2. /\ u \in Seq(S \cup T) /\ p \in Nat /\ q \in Nat /\ Len(u) = p + q
        /\ \A k \in 1 .. p : u[k] = s[k]
        /\ \A k \in 1 .. q : u[p + k] = t[k]
    BY <1>1, ConcatFacts
  <1>3. /\ h \in [1 .. p + 1 -> R] /\ g \in [1 .. q + 1 -> R]
        /\ h[1] = d /\ h[p + 1] = g[1] /\ g[q + 1] = e
    BY DEF WalkIn
  <1> HIDE DEF p, q, u
  <1>11. /\ p \in Nat /\ q \in Nat /\ h[p + 1] = g[1]
        /\ h \in [1 .. p + 1 -> R] /\ g \in [1 .. q + 1 -> R]
    BY <1>2, <1>3
  <1> DEFINE f == Spliced(h, p, g, q)
  <1>4. /\ f \in [1 .. p + q + 1 -> R] /\ f[1] = h[1] /\ f[p + q + 1] = g[q + 1]
        /\ \A k \in 1 .. p : f[k] = h[k] /\ f[k + 1] = h[k + 1]
        /\ \A k \in 1 .. q : f[p + k] = g[k] /\ f[p + k + 1] = g[k + 1]
    <2>1. f \in [1 .. p + q + 1 -> R]
      BY <1>11 DEF Spliced
    <2>2. f[1] = h[1]
      BY <1>11 DEF Spliced
    <2>3. f[p + q + 1] = g[q + 1]
      BY <1>11 DEF Spliced
    <2>4. \A k \in 1 .. p : f[k] = h[k] /\ f[k + 1] = h[k + 1]
      BY <1>11 DEF Spliced
    <2>5. \A k \in 1 .. q : f[p + k] = g[k] /\ f[p + k + 1] = g[k + 1]
      BY <1>11 DEF Spliced
    <2>6. QED
      BY <2>1, <2>2, <2>3, <2>4, <2>5
  <1> HIDE DEF f
  <1>5. WalkIn(R, u, f, d, e)
    BY <1>2, <1>3, <1>4 DEF WalkIn
  <1>6. ASSUME NEW k \in 1 .. Len(u)
        PROVE  \/ \E j \in 1 .. p : u[k] = s[j] /\ f[k] = h[j] /\ f[k + 1] = h[j + 1]
               \/ \E j \in 1 .. q : u[k] = t[j] /\ f[k] = g[j] /\ f[k + 1] = g[j + 1]
    <2>1. CASE k \in 1 .. p
      BY <1>2, <1>4, <2>1
    <2>2. CASE k \notin 1 .. p
      <3>1. PICK j \in 1 .. q : k = p + j
        <4>1. k - p \in 1 .. q /\ k = p + (k - p)
          BY <1>2, <2>2
        <4>2. QED
          BY <4>1
      <3>2. u[p + j] = t[j] /\ f[p + j] = g[j] /\ f[p + j + 1] = g[j + 1]
        BY <1>2, <1>4
      <3>3. QED
        BY <3>1, <3>2
    <2>3. QED
      BY <2>1, <2>2
  <1>7. QED
    BY <1>5, <1>6 DEF p, q, u

\* Code that follows code, without alternatives ...
LEMMA PlainConcat ==
  ASSUME NEW s, NEW t, NEW d, NEW m, NEW e, Plain(s, d, m), Plain(t, m, e)
  PROVE  Plain(s \o t, d, e)
  <1>1. PICK h : Walk(s, h, d, m) /\ \A k \in 1 .. Len(s) : OpPlain(s[k], h[k], h[k + 1])
    BY DEF Plain, Walk
  <1>2. PICK g : Walk(t, g, m, e) /\ \A k \in 1 .. Len(t) : OpPlain(t[k], g[k], g[k + 1])
    BY DEF Plain, Walk
  <1> DEFINE u == s \o t
  <1>3. PICK f : /\ Walk(u, f, d, e)
                 /\ \A k \in 1 .. Len(u) :
                      \/ \E j \in 1 .. Len(s) : u[k] = s[j] /\ f[k] = h[j] /\ f[k + 1] = h[j + 1]
                      \/ \E j \in 1 .. Len(t) : u[k] = t[j] /\ f[k] = g[j] /\ f[k + 1] = g[j + 1]
    BY <1>1, <1>2, WalkOn DEF Walk
  <1> HIDE DEF u
  <1>4. \A k \in 1 .. Len(u) : OpPlain(u[k], f[k], f[k + 1])
    BY <1>1, <1>2, <1>3
  <1>5. Plain(u, d, e)
    BY <1>3, <1>4 DEF Plain, Walk
  <1>6. QED
    BY <1>5 DEF u

\* ... and with them.
LEMMA FitsConcat ==
  ASSUME NEW s, NEW t, NEW d, NEW m, NEW e, Fits(s, d, m), Fits(t, m, e)
  PROVE  Fits(s \o t, d, e)
  <1>1. PICK h : Walk(s, h, d, m) /\ \A k \in 1 .. Len(s) : OpFits(s[k], h[k], h[k + 1])
    BY DEF Fits
  <1>2. PICK g : Walk(t, g, m, e) /\ \A k \in 1 .. Len(t) : OpFits(t[k], g[k], g[k + 1])
    BY DEF Fits
  <1> DEFINE u == s \o t
  <1>3. PICK f : /\ Walk(u, f, d, e)
                 /\ \A k \in 1 .. Len(u) :
                      \/ \E j \in 1 .. Len(s) : u[k] = s[j] /\ f[k] = h[j] /\ f[k + 1] = h[j + 1]
                      \/ \E j \in 1 .. Len(t) : u[k] = t[j] /\ f[k] = g[j] /\ f[k + 1] = g[j + 1]
    BY <1>1, <1>2, WalkOn DEF Walk
  <1> HIDE DEF u
  <1>4. \A k \in 1 .. Len(u) : OpFits(u[k], f[k], f[k + 1])
    BY <1>1, <1>2, <1>3
  <1>5. Fits(u, d, e)
    BY <1>3, <1>4 DEF Fits
  <1>6. QED
    BY <1>5 DEF u

\* Code without alternatives fits.
LEMMA PlainFits ==
  ASSUME NEW s, NEW d, NEW e, Plain(s, d, e)
  PROVE  Fits(s, d, e)
  BY DEF Plain, Fits, OpFits

\* One operation is code.
LEMMA SinglePlain ==
  ASSUME NEW o, NEW d \in Levels, NEW e \in Levels, OpPlain(o, d, e)
  PROVE  Plain(<<o>>, d, e)
  <1> DEFINE h == [k \in 1 .. 2 |-> IF k = 1 THEN d ELSE e]
  <1>1. /\ Len(<<o>>) = 1 /\ <<o>> \in Seq({o}) /\ <<o>>[1] = o
        /\ 1 .. Len(<<o>>) = {1} /\ Len(<<o>>) + 1 = 2
    OBVIOUS
  <1>2. h \in [1 .. 2 -> Levels] /\ h[1] = d /\ h[2] = e
    OBVIOUS
  <1> HIDE DEF h
  <1>3. Walk(<<o>>, h, d, e)
    BY <1>1, <1>2 DEF Walk, WalkIn
  <1>4. \A k \in 1 .. Len(<<o>>) : OpPlain(<<o>>[k], h[k], h[k + 1])
    BY <1>1, <1>2
  <1>5. QED
    BY <1>3, <1>4 DEF Plain, Walk

\* The same with alternatives.
LEMMA SingleFits ==
  ASSUME NEW o, NEW d \in Levels, NEW e \in Levels, OpFits(o, d, e)
  PROVE  Fits(<<o>>, d, e)
  <1> DEFINE h == [k \in 1 .. 2 |-> IF k = 1 THEN d ELSE e]
  <1>1. /\ Len(<<o>>) = 1 /\ <<o>> \in Seq({o}) /\ <<o>>[1] = o
        /\ 1 .. Len(<<o>>) = {1} /\ Len(<<o>>) + 1 = 2
    OBVIOUS
  <1>2. h \in [1 .. 2 -> Levels] /\ h[1] = d /\ h[2] = e
    OBVIOUS
  <1> HIDE DEF h
  <1>3. Walk(<<o>>, h, d, e)
    BY <1>1, <1>2 DEF Walk, WalkIn
  <1>4. \A k \in 1 .. Len(<<o>>) : OpFits(<<o>>[k], h[k], h[k + 1])
    BY <1>1, <1>2
  <1>5. QED
    BY <1>3, <1>4 DEF Fits

\* No code leaves the level as it is.
LEMMA NoneFits ==
  ASSUME NEW d \in Levels
  PROVE  Plain(<<>>, d, d) /\ Fits(<<>>, d, d)
  <1> DEFINE h == [k \in 1 .. 1 |-> d]
  <1>1. Len(<<>>) = 0 /\ <<>> \in Seq({})
    OBVIOUS
  <1>2. h \in [1 .. 1 -> Levels] /\ h[1] = d
    OBVIOUS
  <1> HIDE DEF h
  <1>3. Walk(<<>>, h, d, d)
    BY <1>1, <1>2 DEF Walk, WalkIn
  <1>4. Plain(<<>>, d, d)
    BY <1>1, <1>3 DEF Plain, Walk
  <1>5. QED
    BY <1>4, PlainFits

\* Two operations written as one sequence.
LEMMA PairPlain ==
  ASSUME NEW a, NEW b, NEW d \in Levels, NEW m \in Levels, NEW e \in Levels,
         OpPlain(a, d, m), OpPlain(b, m, e)
  PROVE  Plain(<<a, b>>, d, e)
  <1>1. Plain(<<a>> \o <<b>>, d, e)
    BY SinglePlain, PlainConcat
  <1>2. <<a>> \o <<b>> = <<a, b>>
    <2>1. /\ <<a>> \in Seq({a, b}) /\ <<b>> \in Seq({a, b}) /\ <<a, b>> \in Seq({a, b})
          /\ Len(<<a>>) = 1 /\ Len(<<b>>) = 1 /\ Len(<<a, b>>) = 2
      OBVIOUS
    <2>2. /\ <<a>> \o <<b>> \in Seq({a, b}) /\ Len(<<a>> \o <<b>>) = 2
          /\ (<<a>> \o <<b>>)[1] = a /\ (<<a>> \o <<b>>)[2] = b
      BY <2>1
    <2>3. \A k \in 1 .. 2 : (<<a>> \o <<b>>)[k] = <<a, b>>[k]
      BY <2>2
    <2>4. QED
      BY <2>1, <2>2, <2>3, SeqEqual
  <1>3. QED
    BY <1>1, <1>2

\* The first operation of code, and the rest.
LEMMA FitsHead ==
  ASSUME NEW s, NEW d, NEW e, Fits(s, d, e), s # <<>>
  PROVE  \E m \in Levels : OpFits(Head(s), d, m) /\ Fits(Tail(s), m, e)
  <1>1. PICK h : Walk(s, h, d, e) /\ \A k \in 1 .. Len(s) : OpFits(s[k], h[k], h[k + 1])
    BY DEF Fits
  <1>2. PICK S : s \in Seq(S)
    BY <1>1 DEF Walk, WalkIn
  <1>3. /\ Len(s) \in Nat /\ Len(s) > 0 /\ Head(s) = s[1]
        /\ Tail(s) \in Seq(S) /\ Len(Tail(s)) = Len(s) - 1
        /\ \A k \in 1 .. Len(s) - 1 : Tail(s)[k] = s[k + 1]
    BY <1>2
  <1>4. h \in [1 .. Len(s) + 1 -> Levels] /\ h[1] = d /\ h[Len(s) + 1] = e
    BY <1>1 DEF Walk, WalkIn
  <1> DEFINE g == [k \in 1 .. Len(s) |-> h[k + 1]]
             t == Tail(s)
  <1>5. /\ g \in [1 .. Len(t) + 1 -> Levels] /\ g[1] = h[2] /\ g[Len(t) + 1] = e
        /\ \A k \in 1 .. Len(t) : g[k] = h[k + 1] /\ g[k + 1] = h[k + 2]
    BY <1>3, <1>4
  <1> HIDE DEF g, t
  <1>6. Walk(t, g, h[2], e)
    BY <1>3, <1>5 DEF Walk, WalkIn, t
  <1>7. \A k \in 1 .. Len(t) : OpFits(t[k], g[k], g[k + 1])
    <2> SUFFICES ASSUME NEW k \in 1 .. Len(t) PROVE OpFits(t[k], g[k], g[k + 1])
      OBVIOUS
    <2>1. k + 1 \in 1 .. Len(s) /\ k \in 1 .. Len(s) - 1
      BY <1>3 DEF t
    <2>2. t[k] = s[k + 1]
      BY <1>3, <2>1 DEF t
    <2>3. g[k] = h[k + 1] /\ g[k + 1] = h[k + 2] /\ k + 2 = (k + 1) + 1
      BY <1>5, <2>1
    <2>4. QED
      BY <1>1, <2>1, <2>2, <2>3
  <1>8. Fits(t, h[2], e)
    BY <1>6, <1>7 DEF Fits
  <1>9. OpFits(Head(s), d, h[2]) /\ h[2] \in Levels
    BY <1>1, <1>3, <1>4
  <1>10. QED
    BY <1>8, <1>9 DEF t

\* Where code ends, the level is the last.
LEMMA FitsEmpty ==
  ASSUME NEW d, NEW e, Fits(<<>>, d, e)
  PROVE  d = e
  <1>1. PICK h : Walk(<<>>, h, d, e)
    BY DEF Fits
  <1>2. Len(<<>>) = 0
    OBVIOUS
  <1>3. QED
    BY <1>1, <1>2 DEF Walk, WalkIn

-----------------------------------------------------------------------------
(* emitter.hpp, piece by piece.                                            *)

\* An operation that only computes.
Computes(o) == "op" \in DOMAIN o /\ o.op = "exec"

\* Whatever it is told to need, to give, to destroy and to access.
LEMMA ComputingOps ==
  /\ \A old, new, out : Computes(Native(old, new, out))
  /\ \A old, new, out, lose : Computes(CallAbs(old, new, out, lose))
  /\ \A o, bad : Computes(o) => Computes(Clobbering(o, bad))
  /\ \A o, at : Computes(o) => Computes(Access(o, at))
  /\ \A o : Computes(o) => Computes(WithPa(o)) /\ Computes(WithVa(o))
  BY DEF Computes, Native, Op, CallAbs, Clobbering, Access, WithPa, WithVa

\* It may run at either level.
LEMMA ComputesFits ==
  ASSUME NEW o, Computes(o), NEW d \in {0, 1}
  PROVE  OpPlain(o, d, d) /\ Plain(<<o>>, d, d) /\ Fits(<<o>>, d, d)
  <1>1. OpPlain(o, d, d) /\ d \in Levels
    BY DEF Computes, OpPlain, Quiet, Levels
  <1>2. Plain(<<o>>, d, d)
    BY <1>1, SinglePlain
  <1>3. QED
    BY <1>1, <1>2, PlainFits

\* The operations that are always the same.
LEMMA FixedOps ==
  /\ \A d \in {0, 1, Halting} : Plain(SaveGp, d, d)
  /\ \A d \in {0, 1} : Plain(LoadGp, d, d) /\ Plain(<<Op("restart")>>, d, d)
                       /\ Plain(NextEipThis, d, d)
                       /\ Plain(<<Op("r14_eflags")>>, d, d) /\ Plain(<<Op("eflags_r14")>>, d, d)
  /\ Plain(PushFlags, 0, 1) /\ Plain(PopFlags, 1, 0)
  /\ Plain(<<Op("pop_r14")>>, 1, 0) /\ Plain(<<Op("push_r14")>>, 0, 1)
  /\ Plain(<<Op("link")>>, 0, 0)
  /\ \A d \in {0, Halting}, e \in Levels : Plain(Ret, d, e)
  <1>1. ASSUME NEW d \in {0, 1, Halting} PROVE Plain(SaveGp, d, d)
    <2>1. OpPlain(Op("save_gp"), d, d) /\ d \in Levels
      BY DEF OpPlain, Op, Quiet, Levels, Halting
    <2>2. QED
      BY <2>1, SinglePlain DEF SaveGp
  <1>2. ASSUME NEW d \in {0, 1}, NEW op \in {"load_gp", "restart", "r14_eflags", "eflags_r14"}
        PROVE  Plain(<<Op(op)>>, d, d)
    <2>1. OpPlain(Op(op), d, d) /\ d \in Levels
      BY DEF OpPlain, Op, Quiet, Levels
    <2>2. QED
      BY <2>1, SinglePlain
  <1>3. ASSUME NEW d \in {0, 1} PROVE Plain(NextEipThis, d, d)
    <2>1. OpPlain(Clobbering(Op("restart"), {"r14"}), d, d) /\ d \in Levels
      BY DEF OpPlain, Op, Quiet, Levels, Clobbering
    <2>2. QED
      BY <2>1, SinglePlain DEF NextEipThis
  <1>4. ASSUME NEW op \in {"pushfq", "push_r14"} PROVE Plain(<<Op(op)>>, 0, 1)
    <2>1. OpPlain(Op(op), 0, 1) /\ 0 \in Levels /\ 1 \in Levels
      BY DEF OpPlain, Op, Levels
    <2>2. QED
      BY <2>1, SinglePlain
  <1>5. ASSUME NEW op \in {"popfq", "pop_r14"} PROVE Plain(<<Op(op)>>, 1, 0)
    <2>1. OpPlain(Op(op), 1, 0) /\ 0 \in Levels /\ 1 \in Levels
      BY DEF OpPlain, Op, Levels
    <2>2. QED
      BY <2>1, SinglePlain
  <1>6. Plain(<<Op("link")>>, 0, 0)
    <2>1. OpPlain(Op("link"), 0, 0) /\ 0 \in Levels
      BY DEF OpPlain, Op, Levels
    <2>2. QED
      BY <2>1, SinglePlain
  <1>7. ASSUME NEW d \in {0, Halting}, NEW e \in Levels PROVE Plain(Ret, d, e)
    <2>1. OpPlain(Op("ret"), d, e) /\ d \in Levels
      BY DEF OpPlain, Op, Levels, Halting
    <2>2. QED
      BY <2>1, SinglePlain DEF Ret
  <1>8. QED
    BY <1>1, <1>2, <1>3, <1>4, <1>5, <1>6, <1>7 DEF LoadGp, PushFlags, PopFlags

\* Setting a stop reason; the reason to halt makes the code halting.
LEMMA StopFits ==
  /\ \A r \in Reasons, d \in {0, 1} : Plain(StopReason(r), d, d)
  /\ \A d \in {0, 1} : Plain(StopReason("halted"), d, Halting)
  <1>1. ASSUME NEW r \in Reasons, NEW d \in {0, 1} PROVE Plain(StopReason(r), d, d)
    <2> DEFINE o == [Op("stop") EXCEPT !.out = {r}]
    <2>1. o.op = "stop" /\ o.out = {r} /\ d \in Levels
      BY DEF Op, Levels
    <2>2. OpPlain(o, d, d)
      BY <2>1 DEF OpPlain
    <2>3. QED
      BY <2>1, <2>2, SinglePlain DEF StopReason
  <1>2. ASSUME NEW d \in {0, 1} PROVE Plain(StopReason("halted"), d, Halting)
    <2> DEFINE o == [Op("stop") EXCEPT !.out = {"halted"}]
    <2>1. o.op = "stop" /\ o.out = {"halted"} /\ d \in Levels /\ Halting \in Levels
      BY DEF Op, Levels, Halting
    <2>2. OpPlain(o, d, Halting)
      BY <2>1 DEF OpPlain, Reasons
    <2>3. QED
      BY <2>1, <2>2, SinglePlain DEF StopReason
  <1>3. QED
    BY <1>1, <1>2

\* Copies between the locations the code copies between.
LEMMA CopyFits ==
  ASSUME NEW d \in {0, 1}
  PROVE  /\ Plain(LoadEspToR14, d, d) /\ Plain(StoreR14ToEsp, d, d)
         /\ Plain(<<Copy("r14", "a")>>, d, d) /\ Plain(<<Copy("ctx.a", "a")>>, d, d)
         /\ OpPlain(Copy("ctx.a", "a"), d, d)
  <1>1. {"a", "ctx.a", "ctx.sp"} \subseteq Locations /\ "r14" \notin Locations
    BY DEF Locations, Registers, InCtx, Guest, Flags
  <1>2. ASSUME NEW from \in {"ctx.sp", "r14", "ctx.a"}, NEW to, to = "r14" => from # "r14"
        PROVE  OpPlain(Copy(from, to), d, d)
    <2>1. Copy(from, to).op = "copy" /\ Copy(from, to).old = {from} /\ Copy(from, to).out = {to}
      BY DEF Copy, Op
    <2>2. {from} \subseteq Locations \cup {"r14"}
      BY <1>1
    <2>3. "r14" \in {to} => {from} \subseteq Locations
      BY <1>1, <1>2
    <2> DEFINE o == Copy(from, to)
    <2> HIDE DEF o
    <2>4. /\ o.op = "copy" /\ d \in {0, 1} /\ d = d
          /\ o.old \subseteq Locations \cup {"r14"}
          /\ "r14" \in o.out => o.old \subseteq Locations
      BY <2>1, <2>2, <2>3 DEF o
    <2>5. OpPlain(o, d, d)
      BY <2>4 DEF OpPlain
    <2>6. QED
      BY <2>5 DEF o
  <1>3. d \in Levels
    BY DEF Levels
  <1>4. /\ OpPlain(Copy("ctx.sp", "r14"), d, d) /\ OpPlain(Copy("r14", "ctx.sp"), d, d)
        /\ OpPlain(Copy("r14", "a"), d, d) /\ OpPlain(Copy("ctx.a", "a"), d, d)
    BY <1>2
  <1>5. QED
    BY <1>3, <1>4, SinglePlain DEF LoadEspToR14, StoreR14ToEsp

\* Setting the EIP of the next instruction.
LEMMA NextEipFits ==
  ASSUME NEW d \in {0, 1}
  PROVE  Plain(NextEip, d, d) /\ Plain(NextEipTaken, d, d) /\ Plain(NextEipGpreg, d, d)
  <1>1. \A old, new, out, bad : Computes(Clobbering(Native(old, new, out), bad))
    BY ComputingOps
  <1>2. \A old, new, out, bad : Plain(<<Clobbering(Native(old, new, out), bad)>>, d, d)
    BY <1>1, ComputesFits
  <1>3. QED
    BY <1>2 DEF NextEip, NextEipTaken, NextEipGpreg

\* The exits leave with nothing on the stack.
LEMMA EpilogsFit ==
  ASSUME NEW e \in Levels
  PROVE  /\ Plain(EpilogStatic, 0, e) /\ Plain(EpilogDynamic, 0, e)
         /\ \A old, new : Plain(EpilogConditional(old, new), 0, e)
  <1>1. Plain(SaveGp, 0, 0) /\ Plain(Ret, 0, e) /\ Plain(<<Op("link")>>, 0, 0)
    BY FixedOps
  <1>2. Plain(NextEip, 0, 0) /\ Plain(NextEipTaken, 0, 0) /\ Plain(NextEipGpreg, 0, 0)
    BY NextEipFits
  <1>3. Plain(EpilogStatic, 0, e)
    <2>1. Plain(<<Op("link")>> \o SaveGp, 0, 0)
      BY <1>1, PlainConcat
    <2>2. Plain(<<Op("link")>> \o SaveGp \o NextEip, 0, 0)
      BY <1>2, <2>1, PlainConcat
    <2>3. QED
      BY <1>1, <2>2, PlainConcat DEF EpilogStatic
  <1>4. Plain(EpilogDynamic, 0, e)
    <2>1. Plain(SaveGp \o NextEipGpreg, 0, 0)
      BY <1>1, <1>2, PlainConcat
    <2>2. QED
      BY <1>1, <2>1, PlainConcat DEF EpilogDynamic
  <1>5. ASSUME NEW old, NEW new PROVE Plain(EpilogConditional(old, new), 0, e)
    <2> DEFINE test == <<Native(old, new, {"br"}), Op("link")>>
    <2>1. Plain(test, 0, 0)
      <3>1. Computes(Native(old, new, {"br"}))
        BY ComputingOps
      <3>2. OpPlain(Native(old, new, {"br"}), 0, 0)
        BY <3>1, ComputesFits
      <3>3. OpPlain(Op("link"), 0, 0) /\ 0 \in Levels
        BY DEF OpPlain, Op, Levels
      <3>4. QED
        BY <3>2, <3>3, PairPlain
    <2> HIDE DEF test
    <2>2. Plain(SaveGp \o test, 0, 0)
      BY <1>1, <2>1, PlainConcat
    <2>3. Plain(SaveGp \o test \o NextEipTaken, 0, 0)
      BY <1>2, <2>2, PlainConcat
    <2>4. QED
      BY <1>1, <2>3, PlainConcat DEF EpilogConditional, test
  <1>6. QED
    BY <1>3, <1>4, <1>5

\* Addresses, and ESP counted up and down.
LEMMA AddressFits ==
  /\ \A d \in {0, 1} : \A base, segment : Plain(EaToR14(base, segment), d, d)
  /\ Plain(SubCtxEsp, 0, 0) /\ \A old, new : Plain(AddCtxEsp(old, new), 0, 0)
  <1>1. \A old, new, out, bad : Computes(Clobbering(Native(old, new, out), bad))
    BY ComputingOps
  <1>2. \A d \in {0, 1} : \A old, new, out, bad :
            Plain(<<Clobbering(Native(old, new, out), bad)>>, d, d)
    BY <1>1, ComputesFits
  <1>3. ASSUME NEW s, Plain(s, 1, 1) PROVE Plain(PushFlags \o s \o PopFlags, 0, 0)
    <2>1. Plain(PushFlags \o s, 0, 1)
      BY <1>3, FixedOps, PlainConcat
    <2>2. QED
      BY <2>1, FixedOps, PlainConcat
  <1>4. ASSUME NEW d \in {0, 1}, NEW base, NEW segment
        PROVE  Plain(EaToR14(base, segment), d, d)
    BY <1>2 DEF EaToR14
  <1>5. Plain(SubCtxEsp, 0, 0)
    <2>1. Plain(<<Clobbering(Native({"ctx.sp"}, {}, {"ctx.sp"}), Flags)>>, 1, 1)
      BY <1>2
    <2>2. QED
      BY <1>3, <2>1 DEF SubCtxEsp
  <1>6. ASSUME NEW old, NEW new PROVE Plain(AddCtxEsp(old, new), 0, 0)
    <2>1. Plain(<<Clobbering(Native(old, new, {"ctx.sp"}), Flags)>>, 1, 1)
      BY <1>2
    <2>2. QED
      BY <1>3, <2>1 DEF AddCtxEsp
  <1>7. QED
    BY <1>4, <1>5, <1>6

\* The fault exit of a translation takes the flags off the stack and leaves.
LEMMA FaultPathFits ==
  ASSUME NEW e \in Levels
  PROVE  Plain(FaultPath, 1, e)
  <1>1. Plain(<<Op("restart")>> \o LoadGp, 1, 1)
    BY FixedOps, PlainConcat
  <1>2. Plain(<<Op("restart")>> \o LoadGp \o PopFlags, 1, 0)
    BY <1>1, FixedOps, PlainConcat
  <1>3. QED
    BY <1>2, FixedOps, PlainConcat DEF FaultPath

\* A translation, which must not come under saved flags.
LEMMA TranslateFits == Fits(TranslateR14, 0, 0) /\ Fits(PagingTranslate, 0, 0)
  <1> DEFINE o == [Op("translate") EXCEPT !.bad = {"a", "c"} \cup Flags, !.alt = <<FaultPath>>]
  <1>1. o.op = "translate" /\ o.alt[1] = FaultPath
    BY DEF Op
  <1>2. Plain(FaultPath, 1, 0) /\ Plain(FaultPath, 1, Nowhere)
    BY FaultPathFits DEF Levels, Nowhere
  <1>3. OpFits(o, 1, 1)
    BY <1>1, <1>2 DEF OpFits
  <1> HIDE DEF o
  <1>4. Fits(<<o>>, 1, 1)
    BY <1>3, SingleFits DEF Levels
  <1>5. /\ Fits(PushFlags, 0, 1) /\ Fits(SaveGp, 1, 1) /\ Fits(LoadGp, 1, 1)
        /\ Fits(PopFlags, 1, 0)
    BY FixedOps, PlainFits
  <1>6. Fits(PushFlags \o SaveGp, 0, 1)
    BY <1>5, FitsConcat
  <1>7. Fits(PushFlags \o SaveGp \o <<o>>, 0, 1)
    BY <1>4, <1>6, FitsConcat
  <1>8. Fits(PushFlags \o SaveGp \o <<o>> \o LoadGp, 0, 1)
    BY <1>5, <1>7, FitsConcat
  <1>9. Fits(TranslateR14, 0, 0)
    BY <1>5, <1>8, FitsConcat DEF TranslateR14, o
  <1>10. Fits(<<>>, 0, 0)
    BY NoneFits DEF Levels
  <1>11. QED
    BY <1>9, <1>10 DEF PagingTranslate

\* Code under saved flags.
LEMMA SavingFits ==
  ASSUME NEW save, NEW s, Fits(s, 0, 0), save => Fits(s, 1, 1)
  PROVE  Fits(Saving(save, s), 0, 0)
  <1>1. CASE save
    <2>1. Fits(PushFlags, 0, 1) /\ Fits(PopFlags, 1, 0)
      BY FixedOps, PlainFits
    <2>2. Fits(PushFlags \o s, 0, 1)
      BY <1>1, <2>1, FitsConcat
    <2>3. Fits(PushFlags \o s \o PopFlags, 0, 0)
      BY <2>1, <2>2, FitsConcat
    <2>4. QED
      BY <1>1, <2>3 DEF Saving, SaveFlags, RestoreFlags
  <1>2. CASE ~save
    BY <1>2 DEF Saving
  <1>3. QED
    BY <1>1, <1>2

\* A call of a C function, with the registers in ctx.
LEMMA CallFits ==
  ASSUME NEW o, Computes(o), NEW d \in {0, 1}
  PROVE  Plain(SaveGp \o <<o>> \o LoadGp, d, d)
  <1>1. Plain(SaveGp \o <<o>>, d, d)
    BY ComputesFits, FixedOps, PlainConcat
  <1>2. QED
    BY <1>1, FixedOps, PlainConcat

\* It may come under saved flags.
LEMMA HelperFits ==
  ASSUME NEW o, Computes(o), NEW save
  PROVE  Fits(Helper(save, o), 0, 0)
  <1> DEFINE s == SaveGp \o <<o>> \o LoadGp
  <1>1. Plain(s, 0, 0) /\ Plain(s, 1, 1)
    BY CallFits
  <1> HIDE DEF s
  <1>2. Fits(Saving(save, s), 0, 0)
    BY <1>1, PlainFits, SavingFits
  <1>3. QED
    BY <1>2 DEF Helper, s

\* A patchable access runs plain or as the call it was patched to.
LEMMA SiteFits ==
  ASSUME NEW o, NEW helper, Computes(o), Computes(helper)
  PROVE  Fits(Site(o, helper), 0, 0)
  <1>1. Computes(Access(o, "new")) /\ Computes(WithPa(helper))
    BY ComputingOps
  <1>2. Plain(<<Access(o, "new")>>, 0, 0)
    BY <1>1, ComputesFits
  <1>3. Plain(Patched(helper), 0, 0)
    <2>1. Plain(PushFlags \o SaveGp, 0, 1)
      BY FixedOps, PlainConcat
    <2>2. Plain(<<WithPa(helper)>>, 1, 1)
      BY <1>1, ComputesFits
    <2>3. Plain(PushFlags \o SaveGp \o <<WithPa(helper)>>, 0, 1)
      BY <2>1, <2>2, PlainConcat
    <2>4. Plain(PushFlags \o SaveGp \o <<WithPa(helper)>> \o LoadGp, 0, 1)
      BY <2>3, FixedOps, PlainConcat
    <2>5. Plain(PushFlags \o SaveGp \o <<WithPa(helper)>> \o LoadGp \o PopFlags, 0, 0)
      BY <2>4, FixedOps, PlainConcat
    <2>6. QED
      BY <2>5 DEF Patched, MmioHelper, SaveFlags, RestoreFlags
  <1> DEFINE alt == << <<Access(o, "new")>>, Patched(helper) >>
             site == [Op("site") EXCEPT !.alt = alt]
  <1>4. site.op = "site" /\ site.alt[1] = <<Access(o, "new")>> /\ site.alt[2] = Patched(helper)
    BY DEF Op
  <1> HIDE DEF site
  <1>5. OpFits(site, 0, 0)
    BY <1>2, <1>3, <1>4 DEF OpFits
  <1>6. Fits(<<site>>, 0, 0)
    BY <1>5, SingleFits DEF Levels
  <1>7. QED
    BY <1>6 DEF Site, site

\* A halt ends the trace, whatever is pushed.
LEMMA HaltFits ==
  ASSUME NEW d \in {0, 1}, NEW e \in Levels
  PROVE  Plain(Halt, d, e)
  <1>1. Plain(<<Op("restart")>>, d, d) /\ Plain(StopReason("halted"), d, Halting)
    BY FixedOps, StopFits
  <1>2. Plain(<<Op("restart")>> \o StopReason("halted"), d, Halting)
    BY <1>1, PlainConcat
  <1>3. Plain(SaveGp, Halting, Halting) /\ Plain(Ret, Halting, e)
    BY FixedOps
  <1>4. Plain(<<Op("restart")>> \o StopReason("halted") \o SaveGp, d, Halting)
    BY <1>2, <1>3, PlainConcat
  <1>5. QED
    BY <1>3, <1>4, PlainConcat DEF Halt

\* An access that is not patchable.
LEMMA UnpatchedFits ==
  ASSUME NEW f, NEW o, Computes(o), NEW d \in {0, 1}
  PROVE  Fits(Unpatched(f, o), d, d)
  <1>1. Computes(Access(o, "new")) /\ d \in Levels
    BY ComputingOps DEF Levels
  <1>2. Plain(<<Access(o, "new")>>, d, d) /\ Plain(Halt, d, d)
    BY <1>1, ComputesFits, HaltFits
  <1> DEFINE alt == << <<Access(o, "new")>>, Halt >>
             site == [Op("site") EXCEPT !.alt = alt]
  <1>3. site.op = "site" /\ site.alt[1] = <<Access(o, "new")>> /\ site.alt[2] = Halt
    BY DEF Op
  <1> HIDE DEF site
  <1>4. OpFits(site, d, d)
    BY <1>2, <1>3 DEF OpFits
  <1>5. Fits(<<site>>, d, d)
    BY <1>1, <1>4, SingleFits
  <1>6. Fits(<<Access(o, "new")>>, d, d)
    BY <1>2, PlainFits
  <1>7. QED
    BY <1>5, <1>6 DEF Unpatched, site

\* A divide error leaves with what is on the stack, so a divide must not come
\* under saved flags.
LEMMA DivideFits ==
  ASSUME NEW o, Computes(o)
  PROVE  Fits(Divide(o), 0, 0)
  <1>1. Plain(DivideError, 0, 0)
    <2>1. Plain(<<Op("restart")>>, 0, 0) /\ Plain(StopReason("divide_error"), 0, 0)
          /\ Plain(SaveGp, 0, 0) /\ Plain(Ret, 0, 0)
      BY FixedOps, StopFits DEF Reasons, Levels
    <2>2. Plain(<<Op("restart")>> \o StopReason("divide_error"), 0, 0)
      BY <2>1, PlainConcat
    <2>3. Plain(<<Op("restart")>> \o StopReason("divide_error") \o SaveGp, 0, 0)
      BY <2>1, <2>2, PlainConcat
    <2>4. QED
      BY <2>1, <2>3, PlainConcat DEF DivideError
  <1>2. Plain(<<o>>, 0, 0)
    BY ComputesFits
  <1> DEFINE alt == << <<o>>, DivideError >>
             site == [Op("site") EXCEPT !.alt = alt]
  <1>3. site.op = "site" /\ site.alt[1] = <<o>> /\ site.alt[2] = DivideError
    BY DEF Op
  <1> HIDE DEF site
  <1>4. OpFits(site, 0, 0)
    BY <1>1, <1>2, <1>3 DEF OpFits
  <1>5. Fits(<<site>>, 0, 0)
    BY <1>4, SingleFits DEF Levels
  <1>6. QED
    BY <1>5 DEF Divide, site

-----------------------------------------------------------------------------
(* The handlers.                                                           *)

\* The address of a memory operand, translated.
LEMMA DataEaFits == Fits(DataEa, 0, 0)
  <1>1. Fits(EaToR14("a", FALSE), 0, 0)
    BY AddressFits, PlainFits
  <1>2. QED
    BY <1>1, TranslateFits, FitsConcat DEF DataEa

\* Code behind such an address.
LEMMA DataThen ==
  ASSUME NEW s, Fits(s, 0, 0)
  PROVE  Fits(DataEa \o s, 0, 0)
  BY DataEaFits, FitsConcat

\* The plain and patched accesses of MOV.
LEMMA AccessesFit == Fits(Load, 0, 0) /\ Fits(Store, 0, 0) /\ Fits(StoreImm, 0, 0)
  <1>1. /\ Computes(Native({}, {}, {"a"})) /\ Computes(Native({"a"}, {}, {"mem"}))
        /\ Computes(Native({}, {}, {"mem"}))
    BY ComputingOps
  <1>2. Computes(MmioRead("ctx.a")) /\ Computes(MmioWrite) /\ Computes(MmioWriteImm)
    BY ComputingOps DEF MmioRead, MmioWrite, MmioWriteImm
  <1>3. QED
    BY <1>1, <1>2, SiteFits DEF Load, Store, StoreImm

\* One computation.
LEMMA NativeFits ==
  ASSUME NEW old, NEW new, NEW out
  PROVE  /\ Computes(Native(old, new, out)) /\ Computes(Access(Native(old, new, out), "new"))
         /\ Computes(Access(Native(old, new, out), "old"))
         /\ Fits(<<Native(old, new, out)>>, 0, 0)
         /\ Fits(<<Access(Native(old, new, out), "new")>>, 0, 0)
         /\ Fits(<<Access(Native(old, new, out), "old")>>, 0, 0)
  <1>1. Computes(Native(old, new, out))
    BY ComputingOps
  <1>2. Computes(Access(Native(old, new, out), "new")) /\ Computes(Access(Native(old, new, out), "old"))
    BY <1>1, ComputingOps
  <1>3. QED
    BY <1>1, <1>2, ComputesFits

\* LEA.
LEMMA LeaFits ==
  ASSUME NEW f
  PROVE  Fits(EmitLea(f), 0, 0)
  <1>1. Fits(EaToR14("a", FALSE), 0, 0)
    BY AddressFits, PlainFits
  <1>2. Fits(StoreR14ToEsp, 0, 0) /\ Fits(<<Copy("r14", "a")>>, 0, 0)
    BY CopyFits, PlainFits
  <1>3. QED
    BY <1>1, <1>2, FitsConcat DEF EmitLea

\* MOV.
LEMMA MovFits ==
  ASSUME NEW f \in IntegerClass.mov_mem \ {"mov_cr"}, NEW save
  PROVE  Fits(EmitMov(f, save), 0, 0)
  <1>1. f \in {"mov", "mov_sp_r", "mov_r_sp", "load", "load_fs", "load_hi", "load_sp",
               "store", "store_imm", "store_sp"}
    BY DEF IntegerClass
  <1>2. CASE f = "mov"
    BY <1>2, NativeFits DEF EmitMov, CleanInsn
  <1>3. CASE f = "mov_sp_r"
    BY <1>3, NativeFits DEF EmitMov
  <1>4. CASE f = "mov_r_sp"
    BY <1>4, NativeFits DEF EmitMov
  <1>5. CASE f = "load"
    BY <1>5, DataThen, AccessesFit DEF EmitMov
  <1>6. CASE f = "store"
    BY <1>6, DataThen, AccessesFit DEF EmitMov
  <1>7. CASE f = "store_imm"
    BY <1>7, DataThen, AccessesFit DEF EmitMov
  <1>8. CASE f = "load_fs"
    <2>1. Fits(EaToR14("a", TRUE), 0, 0)
      BY AddressFits, PlainFits
    <2>2. Fits(EaToR14("a", TRUE) \o PagingTranslate, 0, 0)
      BY <2>1, TranslateFits, FitsConcat
    <2>3. Fits(EaToR14("a", TRUE) \o PagingTranslate \o Load, 0, 0)
      BY <2>2, AccessesFit, FitsConcat
    <2>4. QED
      BY <1>8, <2>3 DEF EmitMov
  <1>9. Computes(HighByteFromMem) /\ Computes(EspFromMem) /\ Computes(EspToMem)
    BY ComputingOps DEF HighByteFromMem, EspFromMem, EspToMem
  <1>10. /\ Fits(Helper(save, HighByteFromMem), 0, 0) /\ Fits(Helper(save, EspFromMem), 0, 0)
         /\ Fits(Helper(save, EspToMem), 0, 0)
    BY <1>9, HelperFits
  <1>11. CASE f = "load_hi"
    BY <1>10, <1>11, DataThen DEF EmitMov
  <1>12. CASE f = "load_sp"
    BY <1>10, <1>12, DataThen DEF EmitMov
  <1>13. CASE f = "store_sp"
    BY <1>10, <1>13, DataThen DEF EmitMov
  <1>14. QED
    BY <1>1, <1>2, <1>3, <1>4, <1>5, <1>6, <1>7, <1>8, <1>11, <1>12, <1>13

\* Computing on ESP in R14.
LEMMA AluEspFits ==
  ASSUME NEW old, NEW out
  PROVE  Fits(EmitAluEspReg(old, out), 0, 0)
  <1> DEFINE o == Native({"r14"} \cup old, {}, {"r14"} \cup out)
  <1>1. Fits(LoadEspToR14, 0, 0) /\ Fits(StoreR14ToEsp, 0, 0)
    BY CopyFits, PlainFits
  <1>2. Fits(<<o>>, 0, 0)
    BY NativeFits
  <1> HIDE DEF o
  <1>3. Fits(LoadEspToR14 \o <<o>>, 0, 0)
    BY <1>1, <1>2, FitsConcat
  <1>4. Fits(LoadEspToR14 \o <<o>> \o StoreR14ToEsp, 0, 0)
    BY <1>1, <1>3, FitsConcat
  <1>5. QED
    BY <1>4 DEF EmitAluEspReg, o

\* Arithmetic; a divide of memory comes without saved flags.
LEMMA AluFits ==
  ASSUME NEW f \in IntegerClass.alu_mem, NEW save, f = "div_mem" => ~save
  PROVE  Fits(EmitAlu(f, save), 0, 0)
  <1>1. f \in {"alu", "inc", "adc", "div", "div_mem", "alu_sp", "alu_mem", "not_mem",
               "inc_mem", "adc_mem", "bts_mem", "shl_mem", "xchg_mem", "alu_sp_mem"}
    BY DEF IntegerClass
  <1>2. CASE f = "alu"
    BY <1>2, NativeFits DEF EmitAlu, CleanInsn
  <1>3. CASE f = "inc"
    BY <1>3, NativeFits DEF EmitAlu, CleanInsn
  <1>4. CASE f = "adc"
    BY <1>4, NativeFits DEF EmitAlu, CleanInsn
  <1>5. CASE f = "div"
    BY <1>5, NativeFits, DivideFits DEF EmitAlu
  <1>6. CASE f = "alu_sp"
    BY <1>6, AluEspFits DEF EmitAlu
  <1>7. CASE f = "div_mem"
    <2> DEFINE s == Divide(Access(Native({"a"}, {}, {"a"} \cup Flags), "new"))
    <2>1. Fits(s, 0, 0)
      BY NativeFits, DivideFits
    <2> HIDE DEF s
    <2>2. ~save
      BY <1>7
    <2>3. Fits(Saving(save, s), 0, 0)
      BY <2>1, <2>2 DEF Saving
    <2>4. Fits(DataEa \o Saving(save, s), 0, 0)
      BY <2>3, DataThen
    <2>5. EmitAlu(f, save) = DataEa \o Saving(save, s)
      BY <1>7 DEF EmitAlu, s
    <2>6. QED
      BY <2>4, <2>5
  <1>8. CASE f \notin {"alu", "inc", "adc", "div", "alu_sp", "div_mem"}
    <2> DEFINE o == CASE f = "alu_mem" -> Native({"a"}, {}, {"mem"} \cup Flags)
                      [] f = "not_mem" -> Native({}, {}, {"mem"})
                      [] f = "inc_mem" -> Native({}, {}, {"mem", "zf"})
                      [] f = "adc_mem" -> Native({"a", "cf"}, {}, {"a"} \cup Flags)
                      [] f = "bts_mem" -> Native({"a"}, {}, {"mem", "cf"})
                      [] f = "shl_mem" -> Native({"c"}, {}, {"mem"} \cup Flags)
                      [] f = "xchg_mem" -> Native({"a"}, {}, {"a", "mem"})
                      [] f = "alu_sp_mem" -> Native({"ctx.sp"}, {}, {"ctx.sp"} \cup Flags)
    <2>1. Computes(o)
      <3>1. \A old, new, out : Computes(Native(old, new, out))
        BY ComputingOps
      <3>2. QED
        BY <1>1, <1>8, <3>1
    <2>2. EmitAlu(f, save) = DataEa \o Saving(save, Unpatched(f, o))
      BY <1>8 DEF EmitAlu
    <2> HIDE DEF o
    <2>3. Fits(Unpatched(f, o), 0, 0) /\ Fits(Unpatched(f, o), 1, 1)
      BY <2>1, UnpatchedFits
    <2>4. Fits(DataEa \o Saving(save, Unpatched(f, o)), 0, 0)
      BY <2>3, SavingFits, DataThen
    <2>5. QED
      BY <2>2, <2>4
  <1>9. QED
    BY <1>1, <1>2, <1>3, <1>4, <1>5, <1>6, <1>7, <1>8

\* CMOV and SETcc.
LEMMA FlagMemFits ==
  ASSUME NEW f \in IntegerClass.flagmem
  PROVE  Fits(EmitFlagMem(f), 0, 0)
  <1>1. f \in {"cmov", "cmov_sp", "setcc_mem", "cmov_sp_mem"}
    BY DEF IntegerClass
  <1>2. CASE f = "cmov"
    BY <1>2, NativeFits DEF EmitFlagMem, CleanInsn
  <1>3. CASE f = "cmov_sp"
    BY <1>3, AluEspFits DEF EmitFlagMem
  <1>4. CASE f = "setcc_mem"
    BY <1>4, NativeFits, UnpatchedFits, DataThen DEF EmitFlagMem
  <1>5. CASE f = "cmov_sp_mem"
    BY <1>5, NativeFits, UnpatchedFits, DataThen DEF EmitFlagMem
  <1>6. QED
    BY <1>1, <1>2, <1>3, <1>4, <1>5

\* TEST and the media instructions, whose access may come under saved flags.
LEMMA TestAndFpuFit ==
  ASSUME NEW save
  PROVE  Fits(EmitTestMem(save), 0, 0) /\ Fits(EmitFpuMem(save), 0, 0)
  <1>1. ASSUME NEW f, NEW o, Computes(o)
        PROVE  Fits(DataEa \o Saving(save, Unpatched(f, o)), 0, 0)
    <2>1. Fits(Unpatched(f, o), 0, 0) /\ Fits(Unpatched(f, o), 1, 1)
      BY <1>1, UnpatchedFits
    <2>2. QED
      BY <2>1, SavingFits, DataThen
  <1>2. Computes(Native({"a"}, {}, Flags)) /\ Computes(Native({}, {}, {"mem"}))
    BY ComputingOps
  <1>3. QED
    BY <1>1, <1>2 DEF EmitTestMem, EmitFpuMem

\* MOVZX and MOVSX.
LEMMA MovxFits ==
  ASSUME NEW f \in IntegerClass.movx_mem
  PROVE  Fits(EmitMovx(f), 0, 0)
  <1>1. f \in {"movzx", "movzx_sp", "movzx16", "movsx"}
    BY DEF IntegerClass
  <1>2. CASE f \in {"movzx", "movsx"}
    BY <1>2, AccessesFit, DataThen DEF EmitMovx
  <1>3. \A reg : Computes(MmioRead(reg))
    BY ComputingOps DEF MmioRead
  <1>4. CASE f = "movzx_sp"
    <2>1. Fits(Site(Native({}, {}, {"ctx.sp"}), MmioRead("ctx.sp")), 0, 0)
      BY <1>3, NativeFits, SiteFits
    <2>2. QED
      BY <1>4, <2>1, DataThen DEF EmitMovx
  <1>5. CASE f = "movzx16"
    <2> DEFINE o == Clobbering(Native({}, {}, {}), {"c"})
               helper == Clobbering(MmioRead("ctx.c"), {"ctx.c"})
               merge == Clobbering(Native({}, {}, {}), {"a"} \cup Flags)
    <2>1. Computes(o) /\ Computes(helper) /\ Computes(merge)
      BY <1>3, ComputingOps
    <2>2. EmitMovx(f) = DataEa \o (Site(o, helper) \o <<merge>>)
      BY <1>5 DEF EmitMovx
    <2> HIDE DEF o, helper, merge
    <2>3. Fits(Site(o, helper), 0, 0) /\ Fits(<<merge>>, 0, 0)
      BY <2>1, SiteFits, ComputesFits
    <2>4. Fits(Site(o, helper) \o <<merge>>, 0, 0)
      BY <2>3, FitsConcat
    <2>5. QED
      BY <2>2, <2>4, DataThen
  <1>6. QED
    BY <1>1, <1>2, <1>4, <1>5

\* The calls of C functions.
LEMMA HelpersCompute ==
  /\ Computes(PushEspHelper) /\ Computes(PopEspHelper)
  /\ Computes(PushMemHelper) /\ Computes(PopMemHelper)
  /\ Computes(PushadHelper) /\ Computes(PopadHelper)
  /\ Computes(PushfdHelper) /\ Computes(PopfdHelper)
  /\ Computes(IretHelper) /\ Computes(RetfHelper) /\ Computes(EnterHelper)
  /\ Computes(XlatbHelper) /\ Computes(ReadTarget) /\ Computes(CallMemHelper)
  /\ \A old : Computes(Comparing(old)) /\ \A out : Computes(Moving(old, out))
  <1>1. \A old, new, out, lose : Computes(CallAbs(old, new, out, lose))
    BY ComputingOps
  <1>2. /\ \A old : Computes(Pushing(old)) /\ Computes(Popping(old))
        /\ \A old, out : Computes(Moving(old, out))
    BY <1>1 DEF Pushing, Popping, Moving
  <1>3. /\ Computes(PushEspHelper) /\ Computes(PopEspHelper) /\ Computes(EnterHelper)
        /\ Computes(XlatbHelper)
    BY <1>1, <1>2 DEF PushEspHelper, PopEspHelper, EnterHelper, XlatbHelper
  <1>4. /\ Computes(PushadHelper) /\ Computes(PopadHelper) /\ Computes(PushfdHelper)
        /\ Computes(PopfdHelper) /\ Computes(IretHelper) /\ Computes(RetfHelper)
    BY <1>2 DEF PushadHelper, PopadHelper, PushfdHelper, PopfdHelper, IretHelper, RetfHelper
  <1>5. \A o : Computes(o) => Computes(WithPa(o)) /\ Computes(WithVa(o))
    BY ComputingOps
  <1>6. Computes(PushMemHelper) /\ Computes(PopMemHelper)
    BY <1>2, <1>5 DEF PushMemHelper, PopMemHelper
  <1>7. Computes(ReadTarget) /\ Computes(CallMemHelper)
    BY <1>1, <1>5 DEF ReadTarget, CallMemHelper
  <1>8. \A old : Computes(Comparing(old))
    BY <1>2 DEF Comparing
  <1>9. QED
    BY <1>2, <1>3, <1>4, <1>6, <1>7, <1>8

\* A value pushed on the guest's stack.
LEMMA PushValueFits ==
  ASSUME NEW old
  PROVE  Fits(PushValue(old), 0, 0)
  <1> DEFINE o == Access(Native(old, {}, {"mem"}), "new")
  <1>1. Fits(SubCtxEsp, 0, 0) /\ Fits(LoadEspToR14, 0, 0) /\ Fits(<<o>>, 0, 0)
    BY AddressFits, CopyFits, NativeFits, PlainFits
  <1> HIDE DEF o
  <1>2. Fits(SubCtxEsp \o LoadEspToR14, 0, 0)
    BY <1>1, FitsConcat
  <1>3. Fits(SubCtxEsp \o LoadEspToR14 \o PagingTranslate, 0, 0)
    BY <1>2, TranslateFits, FitsConcat
  <1>4. Fits(SubCtxEsp \o LoadEspToR14 \o PagingTranslate \o <<o>>, 0, 0)
    BY <1>1, <1>3, FitsConcat
  <1>5. QED
    BY <1>4 DEF PushValue, o

\* PUSH.
LEMMA PushFits ==
  ASSUME NEW f \in IntegerClass.push, NEW save
  PROVE  Fits(EmitPush(f, save), 0, 0)
  <1>1. f \in {"push", "push_imm", "push_sp", "push_mem"}
    BY DEF IntegerClass
  <1>2. CASE f = "push"
    BY <1>2, PushValueFits DEF EmitPush
  <1>3. CASE f = "push_imm"
    BY <1>3, PushValueFits DEF EmitPush
  <1>4. Fits(Helper(save, PushEspHelper), 0, 0) /\ Fits(Helper(save, PushMemHelper), 0, 0)
    BY HelpersCompute, HelperFits
  <1>5. CASE f = "push_sp"
    BY <1>4, <1>5 DEF EmitPush
  <1>6. CASE f = "push_mem"
    BY <1>4, <1>6, DataThen DEF EmitPush
  <1>7. QED
    BY <1>1, <1>2, <1>3, <1>5, <1>6

\* What is read at ESP, before ESP moves.
LEMMA PopValueFits ==
  ASSUME NEW o, Computes(o), NEW old, NEW new
  PROVE  Fits(LoadEspToR14 \o PagingTranslate \o <<o>> \o AddCtxEsp(old, new), 0, 0)
  <1>1. Fits(LoadEspToR14, 0, 0) /\ Fits(<<o>>, 0, 0) /\ Fits(AddCtxEsp(old, new), 0, 0)
    BY AddressFits, CopyFits, ComputesFits, PlainFits
  <1>2. Fits(LoadEspToR14 \o PagingTranslate, 0, 0)
    BY <1>1, TranslateFits, FitsConcat
  <1>3. Fits(LoadEspToR14 \o PagingTranslate \o <<o>>, 0, 0)
    BY <1>1, <1>2, FitsConcat
  <1>4. QED
    BY <1>1, <1>3, FitsConcat

\* POP.
LEMMA PopFits ==
  ASSUME NEW f \in IntegerClass.pop, NEW save
  PROVE  Fits(EmitPop(f, save), 0, 0)
  <1>1. f \in {"pop", "pop_sp", "pop_mem"}
    BY DEF IntegerClass
  <1>2. CASE f = "pop"
    BY <1>2, NativeFits, PopValueFits DEF EmitPop
  <1>3. Fits(Helper(save, PopEspHelper), 0, 0) /\ Fits(Helper(save, PopMemHelper), 0, 0)
    BY HelpersCompute, HelperFits
  <1>4. CASE f = "pop_sp"
    BY <1>3, <1>4 DEF EmitPop
  <1>5. CASE f = "pop_mem"
    BY <1>3, <1>5, DataThen DEF EmitPop
  <1>6. QED
    BY <1>1, <1>2, <1>4, <1>5

\* LEAVE: after ESP took EBP, a pop into EBP.
LEMMA LeaveFits == Fits(EmitLeave, 0, 0)
  <1> DEFINE move == Native({"c"}, {}, {"ctx.sp"})
             o == Access(Native({}, {}, {"c"}), "new")
  <1>1. Fits(<<move>>, 0, 0) /\ Fits(<<o>>, 0, 0)
    BY NativeFits
  <1>2. Fits(LoadEspToR14, 0, 0) /\ Fits(AddCtxEsp({}, {"ctx.sp"}), 0, 0)
    BY AddressFits, CopyFits, PlainFits
  <1> HIDE DEF move, o
  <1>3. Fits(<<move>> \o LoadEspToR14, 0, 0)
    BY <1>1, <1>2, FitsConcat
  <1>4. Fits(<<move>> \o LoadEspToR14 \o PagingTranslate, 0, 0)
    BY <1>3, TranslateFits, FitsConcat
  <1>5. Fits(<<move>> \o LoadEspToR14 \o PagingTranslate \o <<o>>, 0, 0)
    BY <1>1, <1>4, FitsConcat
  <1>6. Fits(<<move>> \o LoadEspToR14 \o PagingTranslate \o <<o>> \o AddCtxEsp({}, {"ctx.sp"}), 0, 0)
    BY <1>2, <1>5, FitsConcat
  <1>7. QED
    BY <1>6 DEF EmitLeave, move, o

\* The flags captured in R14, and put back from there.
LEMMA CapturesFit == Plain(FlagsToR14, 0, 0) /\ Plain(R14ToFlags, 0, 0)
  BY FixedOps, PlainConcat DEF FlagsToR14, R14ToFlags

\* A call and a computation, with the registers in ctx.
LEMMA CallThenFits ==
  ASSUME NEW a, NEW b, Computes(a), Computes(b), NEW d \in {0, 1}
  PROVE  Plain(SaveGp \o <<a, b>> \o LoadGp, d, d)
  <1>1. Plain(<<a, b>>, d, d)
    <2>1. OpPlain(a, d, d) /\ OpPlain(b, d, d)
      BY ComputesFits
    <2>2. d \in Levels
      BY DEF Levels
    <2>3. QED
      BY <2>1, <2>2, PairPlain
  <1>2. Plain(SaveGp \o <<a, b>>, d, d)
    BY <1>1, FixedOps, PlainConcat
  <1>3. QED
    BY <1>2, FixedOps, PlainConcat

\* The forms that are a helper each.
LEMMA HelperFormsFit ==
  ASSUME NEW save
  PROVE  /\ Fits(EmitEnter(save), 0, 0) /\ Fits(EmitXlatb(save), 0, 0)
         /\ Fits(EmitPushad(save), 0, 0) /\ Fits(EmitPopad(save), 0, 0)
         /\ Fits(EmitPushfd(save), 0, 0) /\ Fits(EmitPopfd, 0, 0)
  <1>1. /\ Fits(EmitEnter(save), 0, 0) /\ Fits(EmitPushad(save), 0, 0)
        /\ Fits(EmitPopad(save), 0, 0) /\ Fits(Helper(save, PushfdHelper), 0, 0)
    BY HelpersCompute, HelperFits DEF EmitEnter, EmitPushad, EmitPopad
  <1>2. Fits(EmitPushfd(save), 0, 0)
    BY <1>1, CapturesFit, PlainFits, FitsConcat DEF EmitPushfd
  <1>3. Fits(EmitPopfd, 0, 0)
    <2>1. Computes(Native({}, {"a"}, Flags))
      BY ComputingOps
    <2>2. QED
      BY <2>1, HelpersCompute, CallThenFits, PlainFits DEF EmitPopfd
  <1>4. Fits(EmitXlatb(save), 0, 0)
    <2> DEFINE s == SaveGp \o <<XlatbHelper, Native({"ctx.a"}, {"a"}, {"ctx.a"})>> \o LoadGp
    <2>1. Computes(Native({"ctx.a"}, {"a"}, {"ctx.a"}))
      BY ComputingOps
    <2>2. Plain(s, 0, 0) /\ Plain(s, 1, 1)
      BY <2>1, HelpersCompute, CallThenFits
    <2> HIDE DEF s
    <2>3. Fits(Saving(save, s), 0, 0)
      BY <2>2, PlainFits, SavingFits
    <2>4. QED
      BY <2>3 DEF EmitXlatb, s
  <1>5. QED
    BY <1>1, <1>2, <1>3, <1>4

\* The string instructions.
LEMMA StringFits ==
  ASSUME NEW f \in IntegerClass.string
  PROVE  Fits(EmitString(f), 0, 0)
  <1> DEFINE helper == CASE f = "movs" -> Moving({}, {"mem"})
                         [] f = "stos" -> Moving({"ctx.a"}, {"mem"})
                         [] f = "lods" -> Moving({"ctx.a"}, {"ctx.a"})
                         [] f = "cmps" -> Comparing({})
                         [] f = "scas" -> Comparing({"ctx.a"})
  <1>1. f \in {"movs", "stos", "lods", "cmps", "scas"}
    BY DEF IntegerClass
  <1>2. \A old : Computes(Comparing(old)) /\ \A out : Computes(Moving(old, out))
    BY HelpersCompute
  <1>3. Computes(helper)
    BY <1>1, <1>2
  <1>4. EmitString(f) = FlagsToR14 \o SaveGp \o <<helper>> \o LoadGp \o R14ToFlags
    BY DEF EmitString
  <1> HIDE DEF helper
  <1>5. Plain(FlagsToR14 \o SaveGp, 0, 0)
    BY CapturesFit, FixedOps, PlainConcat
  <1>6. Plain(<<helper>>, 0, 0)
    BY <1>3, ComputesFits
  <1>7. Plain(FlagsToR14 \o SaveGp \o <<helper>>, 0, 0)
    BY <1>5, <1>6, PlainConcat
  <1>8. Plain(FlagsToR14 \o SaveGp \o <<helper>> \o LoadGp, 0, 0)
    BY <1>7, FixedOps, PlainConcat
  <1>9. Plain(FlagsToR14 \o SaveGp \o <<helper>> \o LoadGp \o R14ToFlags, 0, 0)
    BY <1>8, CapturesFit, PlainConcat
  <1>10. QED
    BY <1>4, <1>9, PlainFits

-----------------------------------------------------------------------------
(* The terminators.                                                        *)

\* A jump to what a helper returns.
LEMMA HelperTargetFits ==
  ASSUME NEW helper, Computes(helper), NEW e \in Levels
  PROVE  Fits(ToHelperTarget(helper), 0, e)
  <1> DEFINE next == Native({}, {"a"}, {"ctx.eip"})
             s == <<helper, next>>
  <1>1. Plain(s, 0, 0)
    <2>1. Computes(next)
      BY ComputingOps
    <2> HIDE DEF next
    <2>2. OpPlain(helper, 0, 0) /\ OpPlain(next, 0, 0)
      BY <2>1, ComputesFits
    <2>3. 0 \in Levels
      BY DEF Levels
    <2>4. QED
      BY <2>2, <2>3, PairPlain
  <1> HIDE DEF s
  <1>2. Plain(EaToR14("a", FALSE), 0, 0) /\ Plain(SaveGp, 0, 0) /\ Plain(LoadGp, 0, 0)
        /\ Plain(Ret, 0, e)
    BY AddressFits, FixedOps
  <1>3. Plain(EaToR14("a", FALSE) \o SaveGp, 0, 0)
    BY <1>2, PlainConcat
  <1>4. Plain(EaToR14("a", FALSE) \o SaveGp \o s, 0, 0)
    BY <1>1, <1>3, PlainConcat
  <1>5. Plain(EaToR14("a", FALSE) \o SaveGp \o s \o LoadGp, 0, 0)
    BY <1>2, <1>4, PlainConcat
  <1>6. Plain(EaToR14("a", FALSE) \o SaveGp \o s \o LoadGp \o Ret, 0, e)
    BY <1>2, <1>5, PlainConcat
  <1>7. QED
    BY <1>6, PlainFits DEF ToHelperTarget, s

\* Jumps and calls.
LEMMA JumpsFit ==
  ASSUME NEW f, NEW e \in Levels
  PROVE  /\ Fits(EmitCond(f), 0, e)
         /\ f \in {"jmp", "jmp_reg", "jmp_mem"} => Fits(EmitJmp(f), 0, e)
         /\ f \in {"call", "call_reg", "call_mem"} => Fits(EmitCall(f), 0, e)
  <1>1. Fits(EpilogStatic, 0, e) /\ Fits(EpilogDynamic, 0, e)
    BY EpilogsFit, PlainFits
  <1>2. Fits(ToHelperTarget(ReadTarget), 0, e) /\ Fits(ToHelperTarget(CallMemHelper), 0, e)
    BY HelpersCompute, HelperTargetFits
  <1>3. Fits(PushValue({}), 0, 0)
    BY PushValueFits
  <1>4. Fits(PushValue({}) \o EpilogStatic, 0, e) /\ Fits(PushValue({}) \o EpilogDynamic, 0, e)
    BY <1>1, <1>3, FitsConcat
  <1>5. Fits(EmitCond(f), 0, e)
    BY EpilogsFit, PlainFits DEF EmitCond
  <1>6. ASSUME f \in {"jmp", "jmp_reg", "jmp_mem"} PROVE Fits(EmitJmp(f), 0, e)
    BY <1>1, <1>2, <1>6 DEF EmitJmp
  <1>7. ASSUME f \in {"call", "call_reg", "call_mem"} PROVE Fits(EmitCall(f), 0, e)
    BY <1>2, <1>4, <1>7 DEF EmitCall
  <1>8. QED
    BY <1>5, <1>6, <1>7

\* RET.
LEMMA RetFits ==
  ASSUME NEW e \in Levels
  PROVE  Fits(EmitRet, 0, e)
  <1> DEFINE o == Access(Native({}, {}, {"a"}), "old")
             next == Native({}, {"a"}, {"ctx.eip"})
             s == <<next, Copy("ctx.a", "a")>>
  <1>1. Plain(s, 0, 0)
    <2>1. Computes(next)
      BY ComputingOps
    <2> HIDE DEF next
    <2>2. OpPlain(next, 0, 0)
      BY <2>1, ComputesFits
    <2>3. OpPlain(Copy("ctx.a", "a"), 0, 0)
      BY CopyFits
    <2>4. 0 \in Levels
      BY DEF Levels
    <2>5. QED
      BY <2>2, <2>3, <2>4, PairPlain
  <1>2. Fits(<<o>>, 0, 0)
    BY NativeFits
  <1> HIDE DEF o, s
  <1>3. /\ Fits(SaveGp, 0, 0) /\ Fits(LoadEspToR14, 0, 0) /\ Fits(AddCtxEsp({"ctx.sp"}, {}), 0, 0)
        /\ Fits(s, 0, 0) /\ Fits(Ret, 0, e)
    BY <1>1, AddressFits, CopyFits, FixedOps, PlainFits
  <1>4. Fits(SaveGp \o LoadEspToR14, 0, 0)
    BY <1>3, FitsConcat
  <1>5. Fits(SaveGp \o LoadEspToR14 \o PagingTranslate, 0, 0)
    BY <1>4, TranslateFits, FitsConcat
  <1>6. Fits(SaveGp \o LoadEspToR14 \o PagingTranslate \o <<o>>, 0, 0)
    BY <1>2, <1>5, FitsConcat
  <1>7. Fits(SaveGp \o LoadEspToR14 \o PagingTranslate \o <<o>> \o AddCtxEsp({"ctx.sp"}, {}), 0, 0)
    BY <1>3, <1>6, FitsConcat
  <1>8. Fits(SaveGp \o LoadEspToR14 \o PagingTranslate \o <<o>> \o AddCtxEsp({"ctx.sp"}, {}) \o s, 0, 0)
    BY <1>3, <1>7, FitsConcat
  <1>9. Fits(SaveGp \o LoadEspToR14 \o PagingTranslate \o <<o>> \o AddCtxEsp({"ctx.sp"}, {}) \o s \o Ret,
             0, e)
    BY <1>3, <1>8, FitsConcat
  <1>10. QED
    BY <1>9 DEF EmitRet, o, s

\* Far returns and IRETD.
LEMMA FarReturnsFit ==
  ASSUME NEW e \in Levels
  PROVE  Fits(EmitRetf, 0, e) /\ Fits(EmitIret, 0, e)
  <1>1. Plain(Ret, 0, e) /\ Plain(SaveGp, 0, 0) /\ Plain(LoadGp, 0, 0)
    BY FixedOps
  <1>2. Fits(EmitRetf, 0, e)
    <2>1. Plain(SaveGp \o <<RetfHelper>> \o LoadGp, 0, 0)
      BY HelpersCompute, CallFits
    <2>2. QED
      BY <1>1, <2>1, PlainConcat, PlainFits DEF EmitRetf
  <1>3. Fits(EmitIret, 0, e)
    <2> DEFINE s == <<IretHelper, Op("r14_eflags")>>
    <2>1. Plain(s, 0, 0)
      <3>1. OpPlain(IretHelper, 0, 0)
        BY HelpersCompute, ComputesFits
      <3>2. OpPlain(Op("r14_eflags"), 0, 0) /\ 0 \in Levels
        BY DEF OpPlain, Op, Quiet, Levels
      <3>3. QED
        BY <3>1, <3>2, PairPlain
    <2> HIDE DEF s
    <2>2. Plain(SaveGp \o s, 0, 0)
      BY <1>1, <2>1, PlainConcat
    <2>3. Plain(SaveGp \o s \o R14ToFlags, 0, 0)
      BY <2>2, CapturesFit, PlainConcat
    <2>4. Plain(SaveGp \o s \o R14ToFlags \o LoadGp, 0, 0)
      BY <1>1, <2>3, PlainConcat
    <2>5. Plain(SaveGp \o s \o R14ToFlags \o LoadGp \o Ret, 0, e)
      BY <1>1, <2>4, PlainConcat
    <2>6. QED
      BY <2>5, PlainFits DEF EmitIret, s
  <1>4. QED
    BY <1>2, <1>3

\* The loop instructions; LOOPE branches twice.
LEMMA LoopsFit ==
  ASSUME NEW e \in Levels
  PROVE  Fits(EmitJecxz, 0, e) /\ Fits(EmitLoop, 0, e) /\ Fits(EmitLoope, 0, e)
  <1>1. \A old, new, out, bad : Computes(Clobbering(Native(old, new, out), bad))
    BY ComputingOps
  <1>2. \A old, new, out, bad : Plain(<<Clobbering(Native(old, new, out), bad)>>, 0, 0)
    BY <1>1, ComputesFits
  <1>3. \A c : Plain(TestEcx(c), 0, 0)
    BY <1>2 DEF TestEcx
  <1>4. Plain(DecEcx, 0, 0)
    BY <1>2 DEF DecEcx
  <1>5. \A old, new : Plain(EpilogConditional(old, new), 0, e)
    BY EpilogsFit
  <1>6. Plain(EmitJecxz, 0, e)
    BY <1>3, <1>5, PlainConcat DEF EmitJecxz
  <1>7. Plain(DecEcx \o TestEcx("new"), 0, 0)
    BY <1>3, <1>4, PlainConcat
  <1>8. Plain(EmitLoop, 0, e)
    BY <1>5, <1>7, PlainConcat DEF EmitLoop
  <1>9. Fits(EmitLoope, 0, e)
    <2> DEFINE one == DecEcx \o TestEcx("new") \o EpilogConditional({}, {"br", "zf"})
               two == DecEcx \o EpilogStatic
               o == [Native({"zf"}, {}, {"br"}) EXCEPT !.op = "fork", !.alt = << one, two >>]
    <2>1. Plain(one, 0, e)
      BY <1>5, <1>7, PlainConcat
    <2>2. Plain(two, 0, e)
      BY <1>4, EpilogsFit, PlainConcat
    <2>3. o.op = "fork" /\ o.alt[1] = one /\ o.alt[2] = two
      BY DEF Native, Op
    <2>4. EmitLoope = <<o>>
      BY DEF EmitLoope
    <2> HIDE DEF one, two, o
    <2>5. OpFits(o, 0, e)
      BY <2>1, <2>2, <2>3 DEF OpFits
    <2>6. QED
      BY <2>4, <2>5, SingleFits DEF Levels
  <1>10. QED
    BY <1>6, <1>8, <1>9, PlainFits

\* The trap to the run loop.
LEMMA TrapFits ==
  ASSUME NEW reason \in Reasons, NEW e \in Levels
  PROVE  Fits(Trap(reason), 0, e)
  <1>1. Plain(SaveEflags, 0, 0)
    BY CapturesFit, FixedOps, PlainConcat DEF SaveEflags
  <1>2. /\ Plain(SaveGp, 0, 0) /\ Plain(NextEipThis, 0, 0) /\ Plain(Ret, 0, e)
        /\ Plain(StopReason(reason), 0, 0)
    BY FixedOps, StopFits
  <1>3. Plain(SaveGp \o SaveEflags, 0, 0)
    BY <1>1, <1>2, PlainConcat
  <1>4. Plain(SaveGp \o SaveEflags \o NextEipThis, 0, 0)
    BY <1>2, <1>3, PlainConcat
  <1>5. Plain(SaveGp \o SaveEflags \o NextEipThis \o StopReason(reason), 0, 0)
    BY <1>2, <1>4, PlainConcat
  <1>6. Plain(SaveGp \o SaveEflags \o NextEipThis \o StopReason(reason) \o Ret, 0, e)
    BY <1>2, <1>5, PlainConcat
  <1>7. QED
    BY <1>6, PlainFits DEF Trap

\* Every terminator leaves the trace.
LEMMA TerminatorFits ==
  ASSUME NEW f \in Terminators, NEW e \in Levels
  PROVE  Fits(EmitTerminator(f), 0, e)
  BY JumpsFit, RetFits, FarReturnsFit, LoopsFit DEF EmitTerminator, Terminators

-----------------------------------------------------------------------------
(* The code of a trace.                                                    *)

\* The forms that leave the trace in their own way.
Leaving == Terminators \cup {"ud2", "priv", "mov_cr"}

\* The level behind the code of an instruction, nowhere if it leaves.
End(t) == IF Tail(t) = <<>> \/ Head(t) \in Leaving THEN Nowhere ELSE 0

\* The forms, each in the class that its handler is chosen by.
LEMMA FormsAre ==
  Forms = { "alu", "inc", "adc", "div", "div_mem", "cmov", "lea", "lea_sp", "mov",
            "mov_sp_r", "mov_r_sp", "load", "load_fs", "load_hi", "load_sp",
            "store", "store_imm", "store_sp", "alu_sp", "cmov_sp", "alu_mem",
            "not_mem", "inc_mem", "adc_mem", "bts_mem", "shl_mem", "xchg_mem",
            "alu_sp_mem", "test_mem", "setcc_mem", "cmov_sp_mem", "movzx",
            "movzx_sp", "movzx16", "movsx", "fst", "push", "push_imm", "push_sp",
            "push_mem", "pop", "pop_sp", "pop_mem", "leave", "enter", "xlatb",
            "pushad", "popad", "pushfd", "popfd", "movs", "stos", "lods", "cmps",
            "scas", "jz", "jc", "jmp", "jmp_reg", "jmp_mem", "call", "call_reg",
            "call_mem", "ret", "retf", "iret", "jecxz", "loop", "loope", "priv",
            "mov_cr", "ud2" }
  BY DEF Forms, Insns

\* Every form that does not leave the trace has a handler.
LEMMA FormsInClasses ==
  ASSUME NEW f \in Forms \ Leaving
  PROVE  \/ f \in IntegerClass.lea \/ f \in IntegerClass.mov_mem \/ f \in IntegerClass.alu_mem
         \/ f \in IntegerClass.flagmem \/ f \in IntegerClass.test_mem
         \/ f \in IntegerClass.movx_mem \/ f \in MediaClass.fpu_mem
         \/ f \in IntegerClass.push \/ f \in IntegerClass.pop
         \/ f \in {"leave", "enter", "xlatb", "pushad", "popad", "pushfd", "popfd"}
         \/ f \in IntegerClass.string
  BY FormsAre DEF Leaving, Terminators, IntegerClass, MediaClass

\* Every other form goes on where its code ends.
LEMMA BodyFits ==
  ASSUME NEW f \in Forms \ Leaving, NEW save, f = "div_mem" => ~save
  PROVE  Fits(EmitBody(f, save), 0, 0)
  <1>1. f \in IntegerClass.mov_mem => f \in IntegerClass.mov_mem \ {"mov_cr"}
    BY DEF Leaving
  <1>2. /\ Fits(EmitLea(f), 0, 0)
        /\ f \in IntegerClass.mov_mem => Fits(EmitMov(f, save), 0, 0)
        /\ f \in IntegerClass.alu_mem => Fits(EmitAlu(f, save), 0, 0)
        /\ f \in IntegerClass.flagmem => Fits(EmitFlagMem(f), 0, 0)
        /\ Fits(EmitTestMem(save), 0, 0)
        /\ f \in IntegerClass.movx_mem => Fits(EmitMovx(f), 0, 0)
        /\ Fits(EmitFpuMem(save), 0, 0)
    BY <1>1, LeaFits, MovFits, AluFits, FlagMemFits, TestAndFpuFit, MovxFits
  <1>3. /\ f \in IntegerClass.push => Fits(EmitPush(f, save), 0, 0)
        /\ f \in IntegerClass.pop => Fits(EmitPop(f, save), 0, 0)
        /\ Fits(EmitLeave, 0, 0) /\ Fits(EmitEnter(save), 0, 0) /\ Fits(EmitXlatb(save), 0, 0)
        /\ Fits(EmitPushad(save), 0, 0) /\ Fits(EmitPopad(save), 0, 0)
        /\ Fits(EmitPushfd(save), 0, 0) /\ Fits(EmitPopfd, 0, 0)
        /\ f \in IntegerClass.string => Fits(EmitString(f), 0, 0)
    BY PushFits, PopFits, LeaveFits, HelperFormsFit, StringFits
  <1>4. QED
    BY <1>2, <1>3, FormsInClasses DEF EmitBody

\* A divide never saves flags: it writes all of them, so none is alive before.
LEMMA DivideUnsaved ==
  ASSUME NEW t \in Seq(Forms), t # <<>>, Head(t) = "div_mem"
  PROVE  ~NeedSave(t)
  <1>1. Insns["div_mem"].t = {} /\ Insns["div_mem"].w = {"a"} \cup Flags
    BY DEF Insns
  <1>2. t[1] = "div_mem" /\ DOMAIN t = 1 .. Len(t) /\ Len(t) \in Nat
    OBVIOUS
  <1>3. ASSUME NEW l \in Flags, NEW i \in Scanned(t), l \in Insns[t[i]].t,
               \A k \in 1 .. i - 1 : l \notin Insns[t[k]].w
        PROVE  FALSE
    <2>1. i \in 1 .. Len(t)
      BY <1>2 DEF Scanned
    <2>2. CASE i = 1
      BY <1>1, <1>2, <1>3, <2>2
    <2>3. CASE i # 1
      <3>1. 1 \in 1 .. i - 1
        BY <2>1, <2>3
      <3>2. QED
        BY <1>1, <1>2, <1>3, <3>1
    <2>4. QED
      BY <2>2, <2>3
  <1>4. LiveBefore(t) = {}
    BY <1>3 DEF LiveBefore
  <1>5. QED
    BY <1>4 DEF NeedSave

\* The code of the first instruction of a trace fits, and the last one leaves.
CodeSound == \A t \in Seq(Forms) : t # <<>> => Fits(Emit(t), 0, End(t))

\* Every instruction is emitted so, in every trace.
LEMMA EmitFits == CodeSound
  <1> SUFFICES ASSUME NEW t \in Seq(Forms), t # <<>>
               PROVE  Fits(Emit(t), 0, End(t))
    BY DEF CodeSound
  <1> DEFINE f == Head(t)
  <1>1. f \in Forms /\ End(t) \in Levels
    BY DEF End, Levels, Nowhere
  <1>2. CASE f \in Terminators
    <2>1. Emit(t) = EmitTerminator(f)
      BY <1>2 DEF Emit, Terminators
    <2>2. QED
      BY <1>1, <1>2, <2>1, TerminatorFits
  <1>3. CASE f \in {"ud2", "priv", "mov_cr"}
    <2>1. Emit(t) = IF f = "ud2" THEN Trap("invalid_opcode") ELSE Trap("privileged")
      BY <1>3 DEF Emit, Terminators
    <2>2. {"invalid_opcode", "privileged"} \subseteq Reasons
      BY DEF Reasons
    <2>3. QED
      BY <1>1, <2>1, <2>2, TrapFits
  <1>4. CASE f \notin Leaving
    <2> DEFINE body == EmitBody(f, NeedSave(t))
    <2>1. Emit(t) = body \o IF Tail(t) = <<>> THEN EpilogStatic ELSE <<>>
      BY <1>4 DEF Emit, Leaving
    <2>2. Fits(body, 0, 0)
      BY <1>1, <1>4, DivideUnsaved, BodyFits
    <2> HIDE DEF body
    <2>3. CASE Tail(t) = <<>>
      <3>1. Fits(EpilogStatic, 0, Nowhere)
        BY EpilogsFit, PlainFits DEF Levels, Nowhere
      <3>2. QED
        BY <2>1, <2>2, <2>3, <3>1, FitsConcat DEF End
    <2>4. CASE Tail(t) # <<>>
      <3>1. Fits(<<>>, 0, 0)
        BY NoneFits DEF Levels
      <3>2. QED
        BY <1>4, <2>1, <2>2, <2>4, <3>1, FitsConcat DEF End
    <2>5. QED
      BY <2>3, <2>4
  <1>5. QED
    BY <1>2, <1>3, <1>4 DEF Leaving

-----------------------------------------------------------------------------
(* The inductive invariant.                                                *)

Pairs == { <<x, y>> : x \in Value, y \in Value }
Singles == { <<x>> : x \in Value }

TypeInv ==
    /\ where \in {"idle", "trace", "out", "wild"}
    /\ paging \in BOOLEAN /\ physical \in BOOLEAN
    /\ v \in [Locations -> Value]
    /\ r14 \in Singles \cup Pairs
    /\ stack \in {<<>>} \cup { <<p>> : p \in Pairs }
    /\ stop \in Reasons

\* The host stack at a level.
StackAt(d) ==
    /\ d = 0 => stack = <<>>
    /\ d = 1 => stack # <<>>
    /\ d = Halting => stop = "halted"

\* What is left of an instruction's code fits the stack; outside of a trace
\* nothing is left, on the stack neither.
CodeInv ==
    /\ where = "trace" =>
          /\ trace \in Seq(Forms) /\ trace # <<>>
          /\ \E d \in {0, 1, Halting} : Fits(todo, d, End(trace)) /\ StackAt(d)
    /\ where # "trace" => todo = <<>> /\ (stack = <<>> \/ stop = "halted")
    /\ where = "idle" => stack = <<>>

IInv == TypeInv /\ CodeInv

-----------------------------------------------------------------------------
(* Values.                                                                 *)

\* The locations by name.
LEMMA LocationFacts ==
  /\ {"a", "c", "cf", "zf", "ctx.a", "ctx.c", "ctx.cf", "ctx.zf", "ctx.sp", "mem", "br",
      "ctx.eip"} \subseteq Locations
  /\ "r14" \notin Locations
  /\ \A g \in Registers : g \in Locations /\ InCtx[g] \in Locations
  BY DEF Locations, Registers, InCtx, Guest, Flags

\* R14 and what is popped into it.
LEMMA PairFacts ==
  /\ \A p \in Singles \cup Pairs : p[1] \in Value /\ p[Len(p)] \in Value /\ Len(p) \in 1 .. 2
  /\ \A p \in Pairs : p[1] \in Value /\ p[2] \in Value
  /\ \A x, y \in Value : <<x, y>> \in Pairs
  /\ \A x \in Value : <<x>> \in Singles
  BY DEF Singles, Pairs

\* The value at a location or in R14.
LEMMA AtValue ==
  ASSUME TypeInv, NEW l \in Locations \cup {"r14"}
  PROVE  At(l) \in Value
  <1>1. r14[1] \in Value /\ v \in [Locations -> Value] /\ "junk" \in Value
    BY PairFacts DEF TypeInv, Value
  <1>2. QED
    BY <1>1 DEF At

\* A result.
LEMMA AfterValue ==
  ASSUME TypeInv, NEW o, NEW lost, NEW l \in Locations \cup {"r14"}
  PROVE  After(o, lost, l) \in Value
  <1>1. At(l) \in Value
    BY AtValue
  <1>2. Result(o) \in Value
    BY DEF Result, Value
  <1>3. "lost" \in Value /\ "junk" \in Value
    BY DEF Value
  <1>4. QED
    BY <1>1, <1>2, <1>3 DEF After

\* A computation keeps the types.
LEMMA ComputeTypes ==
  ASSUME TypeInv, NEW o, Compute(o)
  PROVE  v' \in [Locations -> Value] /\ r14' \in Singles \cup Pairs /\ physical' \in BOOLEAN
  <1>1. PICK lost : /\ v' = [l \in Locations |-> After(o, lost, l)]
                    /\ IF "r14" \in o.out \cup o.bad
                       THEN r14' = <<After(o, lost, "r14")>> /\ physical' = FALSE
                       ELSE UNCHANGED <<r14, physical>>
    BY DEF Compute
  <1>2. \A l \in Locations \cup {"r14"} : After(o, lost, l) \in Value
    BY AfterValue
  <1>3. v' \in [Locations -> Value]
    BY <1>1, <1>2
  <1>4. <<After(o, lost, "r14")>> \in Singles
    BY <1>2 DEF Singles
  <1>5. r14' \in Singles \cup Pairs /\ physical' \in BOOLEAN
    BY <1>1, <1>4 DEF TypeInv
  <1>6. QED
    BY <1>3, <1>5

\* The guest's state at its locations.
LEMMA FreshTypes == \A view : Fresh(view) \in [Locations -> Value]
  BY DEF Fresh, Value

\* What the prolog of the trampoline loads.
LEMMA LoadedTypes ==
  ASSUME NEW u \in [Locations -> Value]
  PROVE  Loaded(u) \in [Locations -> Value]
  BY LocationFacts DEF Loaded

\* What its epilog stores.
LEMMA StoredTypes ==
  ASSUME NEW u \in [Locations -> Value]
  PROVE  Stored(u) \in [Locations -> Value]
  <1> SUFFICES ASSUME NEW l \in Locations
               PROVE  (IF \E g \in Registers : l = InCtx[g]
                       THEN u[CHOOSE g \in Registers : l = InCtx[g]] ELSE u[l]) \in Value
    BY DEF Stored
  <1>1. CASE \E g \in Registers : l = InCtx[g]
    <2> DEFINE g == CHOOSE g \in Registers : l = InCtx[g]
    <2>1. g \in Registers
      BY <1>1
    <2> HIDE DEF g
    <2>2. u[g] \in Value
      BY <2>1, LocationFacts
    <2>3. QED
      BY <1>1, <2>2 DEF g
  <1>2. CASE ~\E g \in Registers : l = InCtx[g]
    BY <1>2
  <1>3. QED
    BY <1>1, <1>2

-----------------------------------------------------------------------------
(* The steps.                                                              *)

\* The operation that comes next, at its level.
LEMMA NextOp ==
  ASSUME CodeInv, where = "trace", todo # <<>>
  PROVE  \E d \in {0, 1, Halting}, m \in Levels :
            /\ OpFits(Head(todo), d, m) /\ Fits(Tail(todo), m, End(trace))
            /\ StackAt(d)
  <1>1. PICK d \in {0, 1, Halting} : Fits(todo, d, End(trace)) /\ StackAt(d)
    BY DEF CodeInv
  <1>2. QED
    BY <1>1, FitsHead

\* What the level says of an operation.
LEMMA OpLevels ==
  ASSUME NEW o, NEW d \in {0, 1, Halting}, NEW m, OpFits(o, d, m)
  PROVE  /\ o.op \in Quiet => m = d
         /\ o.op = "copy" => /\ m = d /\ o.old \subseteq Locations \cup {"r14"}
                             /\ "r14" \in o.out => o.old \subseteq Locations
         /\ o.op = "stop" => /\ o.out \subseteq Reasons /\ d \in {0, 1}
                             /\ m = d \/ (m = Halting /\ o.out = {"halted"})
         /\ o.op \in {"pushfq", "push_r14"} => d = 0 /\ m = 1
         /\ o.op \in {"popfq", "pop_r14"} => d = 1 /\ m = 0
         /\ o.op = "link" => d = 0 /\ m = 0
         /\ o.op = "ret" => d \in {0, Halting}
         /\ o.op \in {"site", "fork"} =>
                d \in {0, 1} /\ Plain(o.alt[1], d, m) /\ Plain(o.alt[2], d, m)
         /\ o.op = "translate" =>
                /\ d \in {0, 1} /\ m = d
                /\ \A end \in {0, Nowhere} : Plain(o.alt[1], d, end)
  BY DEF OpFits, OpPlain, Quiet

\* Within an instruction the rest of its code fits the stack.
LEMMA Within ==
  ASSUME CodeInv, where = "trace", where' = "trace", trace' = trace,
         NEW d \in {0, 1, Halting}, Fits(todo', d, End(trace)), StackAt(d)'
  PROVE  CodeInv'
  BY DEF CodeInv

\* At the start of an instruction nothing is pushed.
LEMMA AtStart ==
  ASSUME CodeSound', where' = "trace", trace' \in Seq(Forms), trace' # <<>>,
         todo' = Emit(trace)', stack' = <<>>
  PROVE  CodeInv'
  <1>1. Fits(todo', 0, End(trace'))
    BY DEF CodeSound
  <1>2. StackAt(0)'
    BY DEF StackAt, Halting
  <1>3. QED
    BY <1>1, <1>2 DEF CodeInv

\* Dispatch, and the return to the run loop.
LEMMA RunLoopInv ==
  ASSUME IInv, CodeSound', Dispatch \/ Resume
  PROVE  IInv'
  <1>1. CASE Dispatch
    <2>1. /\ where = "idle" /\ where' = "trace" /\ paging' \in BOOLEAN /\ trace' \in Traces
          /\ todo' = Emit(trace)' /\ v' = Loaded(v) /\ stop' = "none"
          /\ r14' = r14 /\ physical' = physical /\ stack' = stack
      BY <1>1 DEF Dispatch
    <2>2. stack = <<>>
      BY <2>1 DEF IInv, CodeInv
    <2>3. trace' \in Seq(Forms) /\ trace' # <<>>
      BY <2>1, TracesAssumption DEF TracesAssumption
    <2>4. v' \in [Locations -> Value]
      BY <2>1, LoadedTypes DEF IInv, TypeInv
    <2>5. TypeInv'
      BY <2>1, <2>4 DEF IInv, TypeInv, Reasons
    <2>6. CodeInv'
      BY <2>1, <2>2, <2>3, AtStart
    <2>7. QED
      BY <2>5, <2>6 DEF IInv
  <1>2. CASE Resume
    <2>1. /\ where = "out" /\ stop # "halted" /\ where' = "idle" /\ v' = Fresh(InCtx)
          /\ stop' = "none" /\ r14' = <<"junk">> /\ physical' = FALSE
          /\ paging' = paging /\ todo' = todo /\ stack' = stack
      BY <1>2 DEF Resume
    <2>2. r14' \in Singles
      BY <2>1 DEF Singles, Value
    <2>3. v' \in [Locations -> Value]
      BY <2>1, FreshTypes
    <2>4. TypeInv'
      BY <2>1, <2>2, <2>3 DEF IInv, TypeInv, Reasons
    <2>5. CodeInv'
      BY <2>1 DEF IInv, CodeInv
    <2>6. QED
      BY <2>4, <2>5 DEF IInv
  <1>3. QED
    BY <1>1, <1>2

\* The next instruction of the trace.
LEMMA AdvanceInv ==
  ASSUME IInv, CodeSound', Advance
  PROVE  IInv'
  <1>1. /\ where = "trace" /\ todo = <<>> /\ where' = "trace" /\ paging' = paging
        /\ stack' = stack /\ stop' = stop /\ trace' = Tail(trace) /\ todo' = Emit(trace)'
        /\ r14' = <<"junk">> /\ physical' = FALSE
        /\ v' = [l \in Locations |-> IF l \in Flags /\ v[l] = "junk" /\ Head(trace) \notin LosesFlags
                             THEN "junk" ELSE Fresh(InTrace)[l]]
    BY DEF Advance
  <1>2. PICK d \in {0, 1, Halting} : Fits(todo, d, End(trace)) /\ StackAt(d)
    BY <1>1 DEF IInv, CodeInv
  <1>3. d = End(trace)
    BY <1>1, <1>2, FitsEmpty
  <1>4. End(trace) = 0 /\ Tail(trace) # <<>> /\ stack = <<>>
    BY <1>2, <1>3 DEF End, Halting, Nowhere, StackAt
  <1>5. trace' \in Seq(Forms) /\ trace' # <<>>
    BY <1>1, <1>4 DEF IInv, CodeInv
  <1>6. CodeInv'
    BY <1>1, <1>4, <1>5, AtStart
  <1>7. Fresh(InTrace) \in [Locations -> Value] /\ "junk" \in Value
    BY FreshTypes DEF Value
  <1>8. v' \in [Locations -> Value]
    BY <1>1, <1>7
  <1>9. r14' \in Singles
    BY <1>1 DEF Singles, Value
  <1>10. TypeInv'
    BY <1>1, <1>8, <1>9 DEF IInv, TypeInv
  <1>11. QED
    BY <1>6, <1>10 DEF IInv

\* An operation that leaves stack, stop reason and control alone.
LEMMA QuietInv ==
  ASSUME IInv, where = "trace", todo # <<>>, Head(todo).op \in Quiet \cup {"copy"}, Go,
         UNCHANGED <<paging, where, trace, stack, stop>>
  PROVE  CodeInv'
  <1>1. PICK d \in {0, 1, Halting}, m \in Levels :
            OpFits(Head(todo), d, m) /\ Fits(Tail(todo), m, End(trace)) /\ StackAt(d)
    BY NextOp DEF IInv
  <1>2. m = d
    BY <1>1, OpLevels
  <1>3. Fits(todo', d, End(trace)) /\ StackAt(d)'
    BY <1>1, <1>2 DEF Go, StackAt
  <1>4. QED
    BY <1>3, Within DEF IInv

\* A computation, a copy, the registers to ctx and back, a restart.
LEMMA RegisterInv ==
  ASSUME IInv, Exec \/ CopyOp \/ SaveAllGp \/ LoadAllGp \/ Eflags \/ Restart
  PROVE  IInv'
  <1>1. CASE Exec
    <2>1. CodeInv'
      BY <1>1, QuietInv DEF Exec, Next1, Quiet
    <2>2. v' \in [Locations -> Value] /\ r14' \in Singles \cup Pairs /\ physical' \in BOOLEAN
      BY <1>1, ComputeTypes DEF IInv, Exec
    <2>3. UNCHANGED <<paging, where, trace, stack, stop>>
      BY <1>1 DEF Exec
    <2>4. TypeInv'
      BY <2>2, <2>3 DEF IInv, TypeInv
    <2>5. QED
      BY <2>1, <2>4 DEF IInv
  <1>2. CASE CopyOp
    <2>1. CodeInv'
      BY <1>2, QuietInv DEF CopyOp, Next1
    <2>2. PICK d \in {0, 1, Halting}, m \in Levels : OpFits(Head(todo), d, m)
      BY <1>2, NextOp DEF IInv, CopyOp, Next1
    <2>3. /\ Head(todo).old \subseteq Locations \cup {"r14"}
          /\ "r14" \in Head(todo).out => Head(todo).old \subseteq Locations
      BY <1>2, <2>2, OpLevels DEF CopyOp, Next1
    <2>4. PICK from \in Head(todo).old, to \in Head(todo).out :
              IF to = "r14" THEN r14' = <<v[from]>> /\ physical' = FALSE /\ UNCHANGED v
              ELSE v' = [v EXCEPT ![to] = At(from)] /\ UNCHANGED <<r14, physical>>
      BY <1>2 DEF CopyOp
    <2>5. At(from) \in Value
      BY <2>3, AtValue DEF IInv
    <2>6. v \in [Locations -> Value] /\ r14 \in Singles \cup Pairs /\ physical \in BOOLEAN
      BY DEF IInv, TypeInv
    <2>7. to = "r14" => <<v[from]>> \in Singles
      BY <2>3, <2>6 DEF Singles
    <2>8. v' \in [Locations -> Value] /\ r14' \in Singles \cup Pairs /\ physical' \in BOOLEAN
      BY <2>4, <2>5, <2>6, <2>7
    <2>9. UNCHANGED <<paging, where, trace, stack, stop>>
      BY <1>2 DEF CopyOp
    <2>10. TypeInv'
      BY <2>8, <2>9 DEF IInv, TypeInv
    <2>11. QED
      BY <2>1, <2>10 DEF IInv
  <1>3. CASE SaveAllGp
    <2>1. CodeInv'
      BY <1>3, QuietInv DEF SaveAllGp, Next1, Quiet
    <2>2. v' \in [Locations -> Value]
      BY <1>3, LocationFacts DEF SaveAllGp, IInv, TypeInv
    <2>3. TypeInv'
      BY <1>3, <2>2 DEF SaveAllGp, IInv, TypeInv
    <2>4. QED
      BY <2>1, <2>3 DEF IInv
  <1>4. CASE LoadAllGp
    <2>1. CodeInv'
      BY <1>4, QuietInv DEF LoadAllGp, Next1, Quiet
    <2>2. v' \in [Locations -> Value]
      BY <1>4, LocationFacts DEF LoadAllGp, IInv, TypeInv
    <2>3. TypeInv'
      BY <1>4, <2>2 DEF LoadAllGp, IInv, TypeInv
    <2>4. QED
      BY <2>1, <2>3 DEF IInv
  <1>5. CASE Eflags
    <2>1. CodeInv'
      BY <1>5, QuietInv DEF Eflags, Next1, Quiet
    <2>2. v \in [Locations -> Value] /\ r14[1] \in Value /\ r14[Len(r14)] \in Value
      BY PairFacts DEF IInv, TypeInv
    <2>3. <<v["ctx.cf"], v["ctx.zf"]>> \in Pairs
      BY <2>2, LocationFacts, PairFacts
    <2>4. v' \in [Locations -> Value] /\ r14' \in Singles \cup Pairs /\ physical' \in BOOLEAN
      BY <1>5, <2>2, <2>3 DEF Eflags, IInv, TypeInv
    <2>5. TypeInv'
      BY <1>5, <2>4 DEF Eflags, IInv, TypeInv
    <2>6. QED
      BY <2>1, <2>5 DEF IInv
  <1>6. CASE Restart
    <2>1. CodeInv'
      BY <1>6, QuietInv DEF Restart, Next1, Quiet
    <2>2. v' \in [Locations -> Value] /\ r14' \in Singles /\ physical' = FALSE
      BY <1>6 DEF Restart, IInv, TypeInv, Value, Singles
    <2>3. TypeInv'
      BY <1>6, <2>2 DEF Restart, IInv, TypeInv
    <2>4. QED
      BY <2>1, <2>3 DEF IInv
  <1>7. QED
    BY <1>1, <1>2, <1>3, <1>4, <1>5, <1>6

\* One value is pushed on an empty stack and taken from it again.
LEMMA StackFacts ==
  /\ \A p : Append(<<>>, p) = <<p>> /\ <<p>> # <<>>
  /\ \A p : Last(<<p>>) = p /\ Front(<<p>>) = <<>>
  <1>1. ASSUME NEW p PROVE Append(<<>>, p) = <<p>> /\ <<p>> # <<>>
    OBVIOUS
  <1>2. ASSUME NEW p PROVE Last(<<p>>) = p /\ Front(<<p>>) = <<>>
    <2>1. <<p>> \in Seq({p}) /\ Len(<<p>>) = 1 /\ <<p>>[1] = p
      OBVIOUS
    <2>2. Last(<<p>>) = p
      BY <2>1 DEF Last
    <2>3. Front(<<p>>) = SubSeq(<<p>>, 1, 0)
      BY <2>1 DEF Front
    <2>4. SubSeq(<<p>>, 1, 0) = <<>>
      BY <2>1
    <2>5. QED
      BY <2>2, <2>3, <2>4
  <1>3. QED
    BY <1>1, <1>2

\* PUSHFQ and PUSH R14.
LEMMA PushInv ==
  ASSUME IInv, Push
  PROVE  IInv'
  <1>1. /\ where = "trace" /\ todo # <<>> /\ Head(todo).op \in {"pushfq", "push_r14"}
        /\ todo' = Tail(todo)
        /\ UNCHANGED <<paging, where, trace, v, r14, physical, stop>>
    BY DEF Push, Next1, Go
  <1>2. PICK d \in {0, 1, Halting}, m \in Levels :
            OpFits(Head(todo), d, m) /\ Fits(Tail(todo), m, End(trace)) /\ StackAt(d)
    BY <1>1, NextOp DEF IInv
  <1>3. d = 0 /\ m = 1
    BY <1>1, <1>2, OpLevels
  <1>4. stack = <<>>
    BY <1>2, <1>3 DEF StackAt
  <1>5. PICK p \in Pairs : stack' = Append(stack, p)
    <2>1. v \in [Locations -> Value] /\ r14[1] \in Value /\ r14[Len(r14)] \in Value
      BY PairFacts DEF IInv, TypeInv
    <2>2. v["cf"] \in Value /\ v["zf"] \in Value
      BY <2>1, LocationFacts
    <2>3. <<v["cf"], v["zf"]>> \in Pairs /\ <<r14[1], r14[Len(r14)]>> \in Pairs
      BY <2>1, <2>2, PairFacts
    <2>4. QED
      BY <2>3 DEF Push
  <1>6. stack' = <<p>> /\ stack' # <<>>
    BY <1>4, <1>5, StackFacts
  <1>7. StackAt(1)'
    BY <1>6 DEF StackAt, Halting
  <1>8. CodeInv'
    BY <1>1, <1>2, <1>3, <1>7, Within DEF IInv
  <1>9. TypeInv'
    BY <1>1, <1>6 DEF IInv, TypeInv
  <1>10. QED
    BY <1>8, <1>9 DEF IInv

\* POPFQ and POP R14.
LEMMA PopInv ==
  ASSUME IInv, Pop
  PROVE  IInv'
  <1>1. /\ where = "trace" /\ todo # <<>> /\ Head(todo).op \in {"popfq", "pop_r14"}
        /\ todo' = Tail(todo) /\ stack # <<>> /\ stack' = Front(stack)
        /\ UNCHANGED <<paging, where, trace, stop>>
    BY DEF Pop, Next1, Go
  <1>2. PICK d \in {0, 1, Halting}, m \in Levels :
            OpFits(Head(todo), d, m) /\ Fits(Tail(todo), m, End(trace)) /\ StackAt(d)
    BY <1>1, NextOp DEF IInv
  <1>3. d = 1 /\ m = 0
    BY <1>1, <1>2, OpLevels
  <1>4. PICK p \in Pairs : stack = <<p>>
    BY <1>1 DEF IInv, TypeInv
  <1>5. stack' = <<>> /\ Last(stack) = p
    BY <1>1, <1>4, StackFacts
  <1>6. StackAt(0)'
    BY <1>5 DEF StackAt, Halting
  <1>7. CodeInv'
    BY <1>1, <1>2, <1>3, <1>6, Within DEF IInv
  <1>8. v \in [Locations -> Value] /\ p[1] \in Value /\ p[2] \in Value
    BY PairFacts DEF IInv, TypeInv
  <1>9. v' \in [Locations -> Value] /\ r14' \in Singles \cup Pairs /\ physical' \in BOOLEAN
    BY <1>5, <1>8 DEF Pop, IInv, TypeInv
  <1>10. TypeInv'
    BY <1>1, <1>5, <1>9 DEF IInv, TypeInv
  <1>11. QED
    BY <1>7, <1>10 DEF IInv

\* The end of code is where it goes on, or nowhere.
LEMMA Ends == End(trace) \in {0, Nowhere}
  BY DEF End

\* A translation goes on, or to its fault exit.
LEMMA TranslateInv ==
  ASSUME IInv, Translate
  PROVE  IInv'
  <1> DEFINE o == Head(todo)
  <1>1. /\ where = "trace" /\ todo # <<>> /\ o.op = "translate"
        /\ v' = [l \in Locations |-> IF l \in o.bad THEN "junk" ELSE v[l]]
        /\ stop' \in {stop, "page_fault"}
        /\ UNCHANGED <<paging, where, trace, stack>>
    BY DEF Translate, Next1
  <1>2. IF stop' = "none"
        THEN Go /\ r14' = (IF physical THEN <<"junk">> ELSE r14) /\ physical' = TRUE
        ELSE todo' = o.alt[1] /\ UNCHANGED <<r14, physical>>
    BY DEF Translate
  <1> HIDE DEF o
  <1>3. PICK d \in {0, 1, Halting}, m \in Levels :
            OpFits(o, d, m) /\ Fits(Tail(todo), m, End(trace)) /\ StackAt(d)
    BY <1>1, NextOp DEF IInv, o
  <1>4. d \in {0, 1} /\ m = d /\ \A end \in {0, Nowhere} : Plain(o.alt[1], d, end)
    BY <1>1, <1>3, OpLevels
  <1>5. Fits(o.alt[1], d, End(trace))
    BY <1>4, Ends, PlainFits
  <1>6. Fits(todo', d, End(trace))
    BY <1>2, <1>3, <1>4, <1>5 DEF Go
  <1>7. StackAt(d)'
    BY <1>1, <1>3, <1>4 DEF StackAt, Halting
  <1>8. CodeInv'
    BY <1>1, <1>6, <1>7, Within DEF IInv
  <1>9. v' \in [Locations -> Value]
    BY <1>1 DEF IInv, TypeInv, Value
  <1>10. <<"junk">> \in Singles
    BY DEF Singles, Value
  <1>11. r14' \in Singles \cup Pairs /\ physical' \in BOOLEAN
    BY <1>2, <1>10 DEF IInv, TypeInv
  <1>12. stop' \in Reasons
    BY <1>1 DEF IInv, TypeInv, Reasons
  <1>13. TypeInv'
    BY <1>1, <1>9, <1>11, <1>12 DEF IInv, TypeInv
  <1>14. QED
    BY <1>8, <1>13 DEF IInv

\* Either way on.
LEMMA EitherInv ==
  ASSUME IInv, Either
  PROVE  IInv'
  <1> DEFINE o == Head(todo)
  <1>1. /\ where = "trace" /\ todo # <<>> /\ o.op \in {"site", "fork"} /\ Compute(o)
        /\ \E k \in 1 .. 2 : todo' = o.alt[k] \o Tail(todo)
        /\ UNCHANGED <<paging, where, trace, stack, stop>>
    BY DEF Either, Next1
  <1> HIDE DEF o
  <1>2. PICK d \in {0, 1, Halting}, m \in Levels :
            OpFits(o, d, m) /\ Fits(Tail(todo), m, End(trace)) /\ StackAt(d)
    BY <1>1, NextOp DEF IInv, o
  <1>3. Plain(o.alt[1], d, m) /\ Plain(o.alt[2], d, m)
    BY <1>1, <1>2, OpLevels
  <1>4. \A k \in 1 .. 2 : Fits(o.alt[k], d, m)
    <2> SUFFICES ASSUME NEW k \in 1 .. 2 PROVE Fits(o.alt[k], d, m)
      OBVIOUS
    <2>1. k = 1 \/ k = 2
      OBVIOUS
    <2>2. QED
      BY <1>3, <2>1, PlainFits
  <1>5. PICK k \in 1 .. 2 : todo' = o.alt[k] \o Tail(todo)
    BY <1>1
  <1>6. Fits(todo', d, End(trace))
    BY <1>2, <1>4, <1>5, FitsConcat
  <1>7. StackAt(d)'
    BY <1>1, <1>2 DEF StackAt
  <1>8. CodeInv'
    BY <1>1, <1>6, <1>7, Within DEF IInv
  <1>9. v' \in [Locations -> Value] /\ r14' \in Singles \cup Pairs /\ physical' \in BOOLEAN
    BY <1>1, ComputeTypes DEF IInv
  <1>10. TypeInv'
    BY <1>1, <1>9 DEF IInv, TypeInv
  <1>11. QED
    BY <1>8, <1>10 DEF IInv

\* A stop reason; after the one to halt the rest of the code is halting.
LEMMA SetStopInv ==
  ASSUME IInv, SetStop
  PROVE  IInv'
  <1> DEFINE o == Head(todo)
  <1>1. /\ where = "trace" /\ todo # <<>> /\ o.op = "stop" /\ todo' = Tail(todo)
        /\ stop' \in o.out
        /\ UNCHANGED <<paging, where, trace, v, r14, physical, stack>>
    BY DEF SetStop, Next1, Go
  <1> HIDE DEF o
  <1>2. PICK d \in {0, 1, Halting}, m \in Levels :
            OpFits(o, d, m) /\ Fits(Tail(todo), m, End(trace)) /\ StackAt(d)
    BY <1>1, NextOp DEF IInv, o
  <1>3. o.out \subseteq Reasons /\ d \in {0, 1} /\ (m = d \/ (m = Halting /\ o.out = {"halted"}))
    BY <1>1, <1>2, OpLevels
  <1>4. m \in {0, 1, Halting}
    BY <1>3
  <1>5. StackAt(m)'
    <2>1. CASE m = d
      BY <1>1, <1>2, <1>3, <2>1 DEF StackAt, Halting
    <2>2. CASE m = Halting /\ o.out = {"halted"}
      BY <1>1, <2>2 DEF StackAt, Halting
    <2>3. QED
      BY <1>3, <2>1, <2>2
  <1>6. CodeInv'
    BY <1>1, <1>2, <1>4, <1>5, Within DEF IInv
  <1>7. TypeInv'
    BY <1>1, <1>3 DEF IInv, TypeInv
  <1>8. QED
    BY <1>6, <1>7 DEF IInv

\* A link slot, cold or patched.
LEMMA LinkSlotInv ==
  ASSUME IInv, CodeSound', LinkSlot
  PROVE  IInv'
  <1>1. /\ where = "trace" /\ todo # <<>> /\ Head(todo).op = "link"
        /\ UNCHANGED <<paging, where, stack, stop>>
    BY DEF LinkSlot, Next1
  <1>2. PICK d \in {0, 1, Halting}, m \in Levels :
            OpFits(Head(todo), d, m) /\ Fits(Tail(todo), m, End(trace)) /\ StackAt(d)
    BY <1>1, NextOp DEF IInv
  <1>3. d = 0 /\ m = 0
    BY <1>1, <1>2, OpLevels
  <1>4. stack = <<>>
    BY <1>2, <1>3 DEF StackAt
  <1>5. CASE Go /\ UNCHANGED <<trace, v, r14, physical>>
    <2>1. Fits(todo', 0, End(trace)) /\ trace' = trace
      BY <1>2, <1>3, <1>5 DEF Go
    <2>2. StackAt(0)'
      BY <1>1, <1>4 DEF StackAt, Halting
    <2>3. CodeInv'
      BY <1>1, <2>1, <2>2, Within DEF IInv
    <2>4. TypeInv'
      BY <1>1, <1>5 DEF IInv, TypeInv
    <2>5. QED
      BY <2>3, <2>4 DEF IInv
  <1>6. CASE /\ trace' \in Traces /\ todo' = Emit(trace)'
             /\ v' = Fresh(InTrace) /\ r14' = <<"junk">> /\ physical' = FALSE
    <2>1. trace' \in Seq(Forms) /\ trace' # <<>>
      BY <1>6, TracesAssumption DEF TracesAssumption
    <2>2. stack' = <<>> /\ where' = "trace"
      BY <1>1, <1>4
    <2>3. CodeInv'
      BY <1>6, <2>1, <2>2, AtStart
    <2>4. v' \in [Locations -> Value]
      BY <1>6, FreshTypes
    <2>5. r14' \in Singles
      BY <1>6 DEF Singles, Value
    <2>6. TypeInv'
      BY <1>1, <1>6, <2>4, <2>5 DEF IInv, TypeInv
    <2>7. QED
      BY <2>3, <2>6 DEF IInv
  <1>7. QED
    BY <1>5, <1>6 DEF LinkSlot

\* A return takes the trampoline's address.
LEMMA ReturnInv ==
  ASSUME IInv, Return
  PROVE  IInv'
  <1>1. /\ where = "trace" /\ todo # <<>> /\ Head(todo).op = "ret"
        /\ where' = (IF stack = <<>> THEN "out" ELSE "wild") /\ todo' = <<>> /\ v' = Stored(v)
        /\ UNCHANGED <<paging, trace, r14, physical, stack, stop>>
    BY DEF Return, Next1
  <1>2. PICK d \in {0, 1, Halting}, m \in Levels : OpFits(Head(todo), d, m) /\ StackAt(d)
    BY <1>1, NextOp DEF IInv
  <1>3. d \in {0, Halting}
    BY <1>1, <1>2, OpLevels
  <1>4. stack = <<>> \/ stop = "halted"
    BY <1>2, <1>3 DEF StackAt
  <1>5. CodeInv'
    BY <1>1, <1>4 DEF CodeInv
  <1>6. v' \in [Locations -> Value]
    BY <1>1, StoredTypes DEF IInv, TypeInv
  <1>7. TypeInv'
    BY <1>1, <1>6 DEF IInv, TypeInv
  <1>8. QED
    BY <1>5, <1>7 DEF IInv

-----------------------------------------------------------------------------
(* The theorems.                                                           *)

\* The run loop starts with nothing on the stack.
LEMMA InitInv == Init => IInv
  <1> SUFFICES ASSUME Init PROVE IInv
    OBVIOUS
  <1>1. v \in [Locations -> Value]
    BY FreshTypes DEF Init
  <1>2. r14 \in Singles
    BY DEF Init, Singles, Value
  <1>3. TypeInv
    BY <1>1, <1>2 DEF Init, TypeInv, Reasons
  <1>4. CodeInv
    BY DEF Init, CodeInv
  <1>5. QED
    BY <1>3, <1>4 DEF IInv

\* Every step keeps the invariant.
LEMMA StepInv == IInv /\ CodeSound' /\ [Next]_vars => IInv'
  <1> SUFFICES ASSUME IInv, CodeSound', [Next]_vars PROVE IInv'
    OBVIOUS
  <1>1. CASE Dispatch \/ Resume
    BY <1>1, RunLoopInv
  <1>2. CASE Advance
    BY <1>2, AdvanceInv
  <1>3. CASE Exec \/ CopyOp \/ SaveAllGp \/ LoadAllGp \/ Eflags \/ Restart
    BY <1>3, RegisterInv
  <1>4. CASE Push
    BY <1>4, PushInv
  <1>5. CASE Pop
    BY <1>5, PopInv
  <1>6. CASE Translate
    BY <1>6, TranslateInv
  <1>7. CASE Either
    BY <1>7, EitherInv
  <1>8. CASE SetStop
    BY <1>8, SetStopInv
  <1>9. CASE LinkSlot
    BY <1>9, LinkSlotInv
  <1>10. CASE Return
    BY <1>10, ReturnInv
  <1>11. CASE Stopped \/ UNCHANGED vars
    BY <1>11 DEF Stopped, vars, IInv, TypeInv, CodeInv, StackAt
  <1>12. QED
    BY <1>1, <1>2, <1>3, <1>4, <1>5, <1>6, <1>7, <1>8, <1>9, <1>10, <1>11 DEF Next, Micro

\* The invariant holds for every set of traces.
LEMMA Invariant == Spec => []IInv
  <1>1. CodeSound
    BY EmitFits
  <1>2. QED
    BY <1>1, InitInv, StepInv, PTL DEF Spec

\* Every location keeps a value, and what is pushed is one pair of flags at
\* most, so that no push of an emitter piece meets another's.
THEOREM TypeCorrect == Spec => []TypeOK
  <1>1. IInv => TypeOK
    <2> SUFFICES ASSUME IInv PROVE TypeOK
      OBVIOUS
    <2>1. Len(r14) \in 1 .. 2
      BY PairFacts DEF IInv, TypeInv
    <2>2. Len(stack) <= 1
      <3>1. stack = <<>> \/ \E p \in Pairs : stack = <<p>>
        BY DEF IInv, TypeInv
      <3>2. CASE stack = <<>>
        BY <3>2
      <3>3. ASSUME NEW p \in Pairs, stack = <<p>> PROVE Len(stack) <= 1
        BY <3>3
      <3>4. QED
        BY <3>1, <3>2, <3>3
    <2>3. QED
      BY <2>1, <2>2 DEF IInv, TypeInv, TypeOK
  <1>2. QED
    BY <1>1, Invariant, PTL

\* Every path through the code of every trace, faults, patched accesses,
\* errors and links included, leaves the host stack as it found it.
THEOREM StackBalanced == Spec => []HostStackBalanced
  <1>1. IInv => HostStackBalanced
    <2> SUFFICES ASSUME IInv PROVE HostStackBalanced
      OBVIOUS
    <2>1. ASSUME stop # "halted", where # "trace" PROVE stack = <<>>
      BY <2>1 DEF IInv, CodeInv
    <2>2. ASSUME stop # "halted", where = "trace", todo = <<>> PROVE stack = <<>>
      <3>1. PICK d \in {0, 1, Halting} : Fits(todo, d, End(trace)) /\ StackAt(d)
        BY <2>2 DEF IInv, CodeInv
      <3>2. d = End(trace)
        BY <2>2, <3>1, FitsEmpty
      <3>3. d = 0
        BY <3>2 DEF End, Nowhere, Halting
      <3>4. QED
        BY <3>1, <3>3 DEF StackAt
    <2>3. ASSUME NEW op \in {"ret", "link", "popfq", "pop_r14"}, Next1(op)
          PROVE  /\ op \in {"ret", "link"} /\ stop # "halted" => stack = <<>>
                 /\ op \in {"popfq", "pop_r14"} => stack # <<>>
      <3>1. where = "trace" /\ todo # <<>> /\ Head(todo).op = op
        BY <2>3 DEF Next1
      <3>2. PICK d \in {0, 1, Halting}, m \in Levels : OpFits(Head(todo), d, m) /\ StackAt(d)
        BY <3>1, NextOp DEF IInv
      <3>3. /\ op \in {"ret", "link"} => d \in {0, Halting}
            /\ op \in {"popfq", "pop_r14"} => d = 1
        BY <3>1, <3>2, OpLevels
      <3>4. QED
        BY <3>2, <3>3 DEF StackAt
    <2>4. QED
      BY <2>1, <2>2, <2>3 DEF HostStackBalanced
  <1>2. QED
    BY <1>1, Invariant, PTL

\* The liveness pass.  What LiveBefore says of a whole trace is what phase 2 of
\* build computes from its end: nothing is alive behind the last instruction,
\* and live_before = (live_after & ~flags_written) | flags_tested.
THEOREM LivenessAsComputed ==
  /\ LiveBefore(<<>>) = {}
  /\ \A t \in Seq(Forms) : t # <<>> =>
        LET f == Head(t)
            after == IF f \in Terminators \cup {"priv"} THEN {} ELSE LiveBefore(Tail(t))
        IN  LiveBefore(t) = (after \ Insns[f].w) \cup Insns[f].t
  <1>1. LiveBefore(<<>>) = {}
    BY DEF LiveBefore, Scanned
  <1>2. SUFFICES ASSUME NEW t \in Seq(Forms), t # <<>>
                 PROVE  LET f == Head(t)
                            after == IF f \in Terminators \cup {"priv"} THEN {}
                                     ELSE LiveBefore(Tail(t))
                        IN  LiveBefore(t) = (after \ Insns[f].w) \cup Insns[f].t
    BY <1>1
  <1> DEFINE f == t[1]
             u == Tail(t)
             Alive(s, l, i) == /\ i \in Scanned(s) /\ l \in Insns[s[i]].t
                               /\ \A k \in 1 .. i - 1 : l \notin Insns[s[k]].w
  <1>3. /\ DOMAIN t = 1 .. Len(t) /\ Len(t) \in Nat /\ Len(t) > 0 /\ Head(t) = f /\ f \in Forms
        /\ u \in Seq(Forms) /\ DOMAIN u = 1 .. Len(u) /\ Len(u) = Len(t) - 1
        /\ \A k \in 1 .. Len(u) : u[k] = t[k + 1]
    <2>1. DOMAIN t = 1 .. Len(t) /\ Len(t) \in Nat
      BY <1>2, LenProperties
    <2>2. Len(t) > 0
      BY <1>2, <2>1, EmptySeq
    <2>3. Head(t) = f
      BY <1>2, HeadTailProperties
    <2>4. f \in Forms
      BY <1>2, <2>1, <2>2, ElementOfSeq
    <2>5. u \in Seq(Forms) /\ Len(u) = Len(t) - 1
      BY <1>2, HeadTailProperties
    <2>6. DOMAIN u = 1 .. Len(u)
      BY <2>5, LenProperties
    <2>7. \A k \in 1 .. Len(u) : u[k] = t[k + 1]
      BY <1>2, HeadTailProperties
    <2> HIDE DEF f, u
    <2>8. QED
      BY <2>1, <2>2, <2>3, <2>4, <2>5, <2>6, <2>7
  <1>4. \A g \in Forms : Insns[g].t \subseteq Flags
    BY DEF Forms, Insns, Flags
  <1> HIDE DEF f, u
  <1>5. 1 \in Scanned(t)
    BY <1>3 DEF Scanned
  <1>6. ASSUME NEW i \in Nat, i + 1 \in Scanned(t), i # 0
        PROVE  f \notin Terminators \cup {"priv"} /\ i \in Scanned(u)
    <2>1. i + 1 \in 1 .. Len(t) /\ \A k \in 1 .. i : t[k] \notin Terminators \cup {"priv"}
      BY <1>3, <1>6 DEF Scanned
    <2>2. i \in 1 .. Len(u) /\ 1 \in 1 .. i
      BY <1>3, <1>6, <2>1
    <2>3. \A k \in 1 .. i - 1 : u[k] = t[k + 1] /\ k + 1 \in 1 .. i
      BY <1>3, <2>2
    <2>4. QED
      BY <1>3, <2>1, <2>2, <2>3 DEF Scanned, f
  <1>7. ASSUME NEW i \in Scanned(u), f \notin Terminators \cup {"priv"}
        PROVE  i \in Nat /\ i # 0 /\ i + 1 \in Scanned(t)
    <2>1. i \in 1 .. Len(u) /\ \A k \in 1 .. i - 1 : u[k] \notin Terminators \cup {"priv"}
      BY <1>3 DEF Scanned
    <2>2. i + 1 \in 1 .. Len(t)
      BY <1>3, <2>1
    <2>3. ASSUME NEW k \in 1 .. i PROVE t[k] \notin Terminators \cup {"priv"}
      <3>1. CASE k = 1
        BY <1>7, <3>1 DEF f
      <3>2. CASE k # 1
        <4>1. k - 1 \in 1 .. i - 1 /\ k - 1 \in 1 .. Len(u) /\ (k - 1) + 1 = k
          BY <2>1, <3>2
        <4>2. u[k - 1] = t[k]
          BY <1>3, <4>1
        <4>3. QED
          BY <2>1, <4>1, <4>2
      <3>3. QED
        BY <3>1, <3>2
    <2>4. QED
      BY <1>3, <2>1, <2>2, <2>3 DEF Scanned
  <1>8. ASSUME NEW l \in Flags, NEW i \in Nat, i + 1 \in Scanned(t), i # 0, i \in Scanned(u)
        PROVE  Alive(t, l, i + 1) <=> l \notin Insns[f].w /\ Alive(u, l, i)
    <2>1. i \in 1 .. Len(u)
      BY <1>3, <1>8 DEF Scanned
    <2>2. u[i] = t[i + 1] /\ \A k \in 1 .. i - 1 : u[k] = t[k + 1]
      <3>1. \A k \in 1 .. i - 1 : k \in 1 .. Len(u)
        BY <1>3, <2>1
      <3>2. QED
        BY <1>3, <2>1, <3>1
    <2>3. (\A k \in 1 .. i : l \notin Insns[t[k]].w)
             <=> l \notin Insns[f].w /\ \A k \in 1 .. i - 1 : l \notin Insns[u[k]].w
      <3>1. ASSUME \A k \in 1 .. i : l \notin Insns[t[k]].w
            PROVE  l \notin Insns[f].w /\ \A k \in 1 .. i - 1 : l \notin Insns[u[k]].w
        <4>1. 1 \in 1 .. i /\ \A k \in 1 .. i - 1 : k + 1 \in 1 .. i
          BY <2>1
        <4>2. QED
          BY <2>2, <3>1, <4>1 DEF f
      <3>2. ASSUME l \notin Insns[f].w, \A k \in 1 .. i - 1 : l \notin Insns[u[k]].w,
                   NEW k \in 1 .. i
            PROVE  l \notin Insns[t[k]].w
        <4>1. CASE k = 1
          BY <3>2, <4>1 DEF f
        <4>2. CASE k # 1
          <5>1. k - 1 \in 1 .. i - 1 /\ (k - 1) + 1 = k
            BY <2>1, <4>2
          <5>2. u[k - 1] = t[k]
            BY <2>2, <5>1
          <5>3. QED
            BY <3>2, <5>1, <5>2
        <4>3. QED
          BY <4>1, <4>2
      <3>3. QED
        BY <3>1, <3>2
    <2>4. (i + 1) - 1 = i
      OBVIOUS
    <2>5. QED
      BY <1>8, <2>2, <2>3, <2>4
  <1>9. \A l \in Flags : Alive(t, l, 1) <=> l \in Insns[f].t
    BY <1>5 DEF f
  <1>10. ASSUME NEW l \in Flags
         PROVE  l \in LiveBefore(t) <=>
                   \/ l \in Insns[f].t
                   \/ /\ f \notin Terminators \cup {"priv"}
                      /\ l \in LiveBefore(u) \ Insns[f].w
    <2>1. ASSUME l \in LiveBefore(t), l \notin Insns[f].t
          PROVE  f \notin Terminators \cup {"priv"} /\ l \in LiveBefore(u) \ Insns[f].w
      <3>1. PICK j \in Scanned(t) : Alive(t, l, j)
        BY <2>1 DEF LiveBefore
      <3>2. j \in Nat /\ j # 0 /\ j # 1
        BY <1>3, <1>9, <2>1, <3>1 DEF Scanned
      <3> DEFINE i == j - 1
      <3>3. i \in Nat /\ i # 0 /\ j = i + 1
        BY <3>2
      <3> HIDE DEF i
      <3>4. f \notin Terminators \cup {"priv"} /\ i \in Scanned(u)
        BY <1>6, <3>1, <3>3
      <3>5. l \notin Insns[f].w /\ Alive(u, l, i)
        BY <1>8, <3>1, <3>3, <3>4
      <3>6. QED
        BY <3>4, <3>5 DEF LiveBefore
    <2>2. ASSUME f \notin Terminators \cup {"priv"}, l \in LiveBefore(u) \ Insns[f].w
          PROVE  l \in LiveBefore(t)
      <3>1. PICK i \in Scanned(u) : Alive(u, l, i)
        BY <2>2 DEF LiveBefore
      <3>2. i \in Nat /\ i # 0 /\ i + 1 \in Scanned(t)
        BY <1>7, <2>2
      <3>3. Alive(t, l, i + 1)
        BY <1>8, <2>2, <3>1, <3>2
      <3>4. QED
        BY <3>2, <3>3 DEF LiveBefore
    <2>3. ASSUME l \in Insns[f].t PROVE l \in LiveBefore(t)
      BY <1>5, <1>9, <2>3 DEF LiveBefore
    <2>4. QED
      BY <2>1, <2>2, <2>3
  <1>11. LiveBefore(t) \subseteq Flags /\ LiveBefore(u) \subseteq Flags /\ Insns[f].t \subseteq Flags
    BY <1>3, <1>4 DEF LiveBefore
  <1>12. QED
    BY <1>3, <1>10, <1>11 DEF u
=============================================================================
