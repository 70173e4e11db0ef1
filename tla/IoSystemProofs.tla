--------------------------- MODULE IoSystemProofs ---------------------------
(***************************************************************************)
(* What TLAPS proves of IoSystem, for any ids and handles: its type        *)
(* correctness, that no request is lost or doubled, that the worker never  *)
(* sleeps on work, that a held file stays mapped, and that the system      *)
(* implements the plain service of module IoService.                       *)
(***************************************************************************)
EXTENDS IoSystem, SequenceTheorems, FiniteSetTheorems, TLAPS

-----------------------------------------------------------------------------
(* The inductive invariant.                                                *)

In(s) == {s[n] : n \in 1 .. Len(s)}
Once(s) == \A m, n \in 1 .. Len(s) : s[m] = s[n] => m = n

Asked == {i \in Ids : req[i] # NoRequest}
Done == {i \in Ids : completed[i] # "none"}

\* The sets q, p, c and d share nothing and make up o.
Partition(q, p, c, d, o) ==
    /\ q \cap p = {} /\ q \cap c = {} /\ q \cap d = {}
    /\ p \cap c = {} /\ p \cap d = {} /\ c \cap d = {}
    /\ q \cup p \cup c \cup d = o

\* The worker has a request in its hands just between taking and storing it.
WorkerInv ==
    /\ wpc \in {"process", "store", "storing"} => \E i \in Ids : cur = {i}
    /\ wpc \notin {"process", "store", "storing"} => cur = {}
    /\ wpc = "exited" => spc # "run"

TypeInv ==
    /\ req \in [Ids -> Request \cup {NoRequest}]
    /\ hstate \in [Handles -> HandleStates]
    /\ queue \in Seq(Ids) /\ pending \in Seq(Ids)
    /\ hasPending \in BOOLEAN /\ flag \in BOOLEAN
    /\ wpc \in WorkerStates
    /\ cur \in SUBSET Ids
    /\ outcome \in Outcomes
    /\ completed \in [Ids -> Outcomes \cup {"none"}]
    /\ mapped \subseteq Handles
    /\ spc \in StopStates

\* Every outstanding request is at one place, and there once.
PlaceInv ==
    wpc # "exited" =>
        /\ Once(queue) /\ Once(pending)
        /\ Partition(In(queue), In(pending), cur, Done, Asked)

\* pending_flag is up as long as the queue has something in it, not only
\* when the worker waits.
FlagInv == queue # <<>> => flag

Served(i) == IF i \in cur /\ wpc \in {"store", "storing"} THEN outcome ELSE completed[i]

\* The phase of a handle that a request on it belongs to.
PhaseOf(kind) ==
    IF kind = "open" THEN "opening" ELSE IF kind = "close" THEN "closing" ELSE "held"

\* The requests on a handle agree with what the guest knows of it, and only
\* a held one has several.
PhaseInv ==
    /\ \A i \in Asked : req[i].kind = "open" => req[i].handle \in Handles
    /\ \A i \in Asked : req[i].handle \in Handles =>
          hstate[req[i].handle] = PhaseOf(req[i].kind)
    /\ \A i, j \in Asked :
          req[i].handle \in Handles /\ req[i].handle = req[j].handle =>
              i = j \/ hstate[req[i].handle] = "held"

\* A file is mapped from the moment its open is served.
FileInv ==
    wpc # "exited" =>
        /\ \A h \in Handles : hstate[h] = "held" => h \in mapped
        /\ \A i \in Asked : req[i].kind = "open" /\ Served(i) = "ok" =>
              req[i].handle \in mapped

IInv == TypeInv /\ WorkerInv /\ PlaceInv /\ FlagInv /\ PhaseInv /\ FileInv

-----------------------------------------------------------------------------
(* Sequences as places.                                                    *)

\* An empty sequence is an empty place.
LEMMA InEmpty == In(<<>>) = {} /\ Once(<<>>)
  BY DEF In, Once

\* A sequence of ids holds ids.
LEMMA InIds ==
  ASSUME NEW S, NEW s \in Seq(S)
  PROVE  In(s) \subseteq S
  BY ElementOfSeq DEF In

\* A new element is put at the end.
LEMMA InAppend ==
  ASSUME NEW S, NEW s \in Seq(S), NEW e \in S, Once(s), e \notin In(s)
  PROVE  /\ Append(s, e) \in Seq(S)
         /\ In(Append(s, e)) = In(s) \cup {e}
         /\ Once(Append(s, e))
  <1>1. /\ Append(s, e) \in Seq(S) /\ Len(Append(s, e)) = Len(s) + 1 /\ Len(s) \in Nat
        /\ \A n \in 1 .. Len(s) : Append(s, e)[n] = s[n]
        /\ Append(s, e)[Len(s) + 1] = e
    BY AppendProperties, LenProperties
  <1> DEFINE t == Append(s, e)
  <1>2. 1 .. Len(t) = (1 .. Len(s)) \cup {Len(s) + 1}
    BY <1>1
  <1> HIDE DEF t
  <1>3. In(t) = In(s) \cup {e}
    BY <1>1, <1>2 DEF In, t
  <1>4. \A n \in 1 .. Len(s) : s[n] # e
    BY DEF In
  <1>5. Once(t)
    BY <1>1, <1>2, <1>4 DEF Once, t
  <1> QED BY <1>1, <1>3, <1>5 DEF t

\* Two sequences without a common element, one after the other.
LEMMA InConcat ==
  ASSUME NEW S, NEW s \in Seq(S), NEW t \in Seq(S), Once(s), Once(t),
         In(s) \cap In(t) = {}
  PROVE  /\ s \o t \in Seq(S)
         /\ In(s \o t) = In(s) \cup In(t)
         /\ Once(s \o t)
  <1>1. /\ s \o t \in Seq(S) /\ Len(s) \in Nat /\ Len(t) \in Nat
        /\ Len(s \o t) = Len(s) + Len(t)
        /\ \A n \in 1 .. Len(s) + Len(t) :
              (s \o t)[n] = IF n <= Len(s) THEN s[n] ELSE t[n - Len(s)]
    BY ConcatProperties, LenProperties
  <1> DEFINE u == s \o t
  <1>2. /\ u \in Seq(S) /\ Len(u) = Len(s) + Len(t)
        /\ \A n \in 1 .. Len(s) : u[n] = s[n]
        /\ \A n \in 1 .. Len(t) : u[n + Len(s)] = t[n]
    BY <1>1
  <1>3. \A n \in 1 .. Len(u) :
           \/ n \in 1 .. Len(s) /\ u[n] = s[n] /\ s[n] \in In(s)
           \/ n - Len(s) \in 1 .. Len(t) /\ u[n] = t[n - Len(s)] /\ t[n - Len(s)] \in In(t)
    BY <1>1 DEF In
  <1>4. \A n \in 1 .. Len(s) : n \in 1 .. Len(u)
    BY <1>1
  <1>5. \A n \in 1 .. Len(t) : n + Len(s) \in 1 .. Len(u)
    BY <1>1
  <1> HIDE DEF u
  <1>6. In(u) = In(s) \cup In(t)
    <2>1. In(u) \subseteq In(s) \cup In(t)
      BY <1>3 DEF In
    <2>2. In(s) \subseteq In(u)
      BY <1>2, <1>4 DEF In
    <2>3. In(t) \subseteq In(u)
      BY <1>2, <1>5 DEF In
    <2> QED BY <2>1, <2>2, <2>3
  <1>7. Once(u)
    <2> SUFFICES ASSUME NEW m \in 1 .. Len(u), NEW n \in 1 .. Len(u), u[m] = u[n]
                 PROVE  m = n
      BY DEF Once
    <2>1. CASE m \in 1 .. Len(s) /\ n \in 1 .. Len(s)
      BY <2>1, <1>2 DEF Once
    <2>2. CASE m - Len(s) \in 1 .. Len(t) /\ n - Len(s) \in 1 .. Len(t)
      <3>1. u[m - Len(s) + Len(s)] = t[m - Len(s)] /\ u[n - Len(s) + Len(s)] = t[n - Len(s)]
        BY <2>2, <1>2
      <3>2. m - Len(s) + Len(s) = m /\ n - Len(s) + Len(s) = n
        BY <1>1, <1>2
      <3>3. m - Len(s) = n - Len(s)
        BY <3>1, <3>2, <2>2 DEF Once
      <3> QED BY <3>3, <3>2
    <2> QED BY <1>3, <2>1, <2>2
  <1> QED BY <1>2, <1>6, <1>7 DEF u

\* The first element is taken away.
LEMMA InTail ==
  ASSUME NEW S, NEW s \in Seq(S), Once(s), s # <<>>
  PROVE  /\ Head(s) \in S /\ Head(s) \in In(s)
         /\ Tail(s) \in Seq(S)
         /\ In(Tail(s)) = In(s) \ {Head(s)}
         /\ Once(Tail(s))
  <1> DEFINE t == Tail(s)
             h == Head(s)
  <1>1. /\ h \in S /\ t \in Seq(S) /\ Len(t) = Len(s) - 1
        /\ \A n \in 1 .. Len(t) : t[n] = s[n + 1]
    BY HeadTailProperties
  <1>2. Len(s) \in Nat \ {0} /\ h = s[1]
    BY EmptySeq
  <1> HIDE DEF t, h
  <1>3. 1 \in 1 .. Len(s) /\ \A n \in 1 .. Len(t) : n + 1 \in 1 .. Len(s) /\ n + 1 # 1
    BY <1>1, <1>2
  <1>4. \A n \in 1 .. Len(s) : n = 1 \/ (n - 1 \in 1 .. Len(t) /\ t[n - 1] = s[n])
    BY <1>1, <1>2
  <1>5. h \in In(s)
    BY <1>2, <1>3 DEF In
  <1>6. In(t) = In(s) \ {h}
    <2>1. In(t) \subseteq In(s) \ {h}
      BY <1>1, <1>2, <1>3 DEF In, Once
    <2>2. In(s) \ {h} \subseteq In(t)
      BY <1>2, <1>4 DEF In
    <2> QED BY <2>1, <2>2
  <1>7. Once(t)
    BY <1>1, <1>2, <1>3 DEF Once
  <1> QED BY <1>1, <1>5, <1>6, <1>7 DEF t, h

\* How often an id occurs in a sequence without repetition.
LEMMA CountOnce ==
  ASSUME NEW S, NEW s \in Seq(S), Once(s), NEW i
  PROVE  Cardinality({n \in 1 .. Len(s) : s[n] = i}) = IF i \in In(s) THEN 1 ELSE 0
  <1>1. CASE i \in In(s)
    <2>1. PICK n \in 1 .. Len(s) : s[n] = i
      BY <1>1 DEF In
    <2>2. {m \in 1 .. Len(s) : s[m] = i} = {n}
      BY <2>1 DEF Once
    <2> QED BY <1>1, <2>2, FS_Singleton
  <1>2. CASE i \notin In(s)
    <2>1. {n \in 1 .. Len(s) : s[n] = i} = {}
      BY <1>2 DEF In
    <2> QED BY <1>2, <2>1, FS_EmptySet
  <1> QED BY <1>1, <1>2

-----------------------------------------------------------------------------
(* Where requests are.                                                     *)

\* A new request is put in the queue, or aside.
LEMMA PutIn ==
  ASSUME NEW q, NEW p, NEW c, NEW d, NEW o, NEW e, Partition(q, p, c, d, o), e \notin o
  PROVE  /\ e \notin q /\ e \notin p
         /\ Partition(q \cup {e}, p, c, d, o \cup {e})
         /\ Partition(q, p \cup {e}, c, d, o \cup {e})
  BY DEF Partition

\* Everything that was put aside goes to the queue.
LEMMA AllOver ==
  ASSUME NEW q, NEW p, NEW c, NEW d, NEW o, Partition(q, p, c, d, o)
  PROVE  q \cap p = {} /\ Partition(q \cup p, {}, c, d, o)
  BY DEF Partition

\* The worker takes a request, and puts its answer in the map.
LEMMA TakeOne ==
  ASSUME NEW q, NEW p, NEW d, NEW o, NEW e \in q, Partition(q, p, {}, d, o)
  PROVE  Partition(q \ {e}, p, {e}, d, o)
  BY DEF Partition

\* What the worker held becomes an answer; nothing else changes place.
LEMMA StoreOne ==
  ASSUME NEW q, NEW p, NEW c, NEW d, NEW o, Partition(q, p, c, d, o)
  PROVE  Partition(q, p, {}, d \cup c, o)
  BY DEF Partition

\* An answered request is at no place any more.
LEMMA GiveOne ==
  ASSUME NEW q, NEW p, NEW c, NEW d, NEW o, NEW e \in d, Partition(q, p, c, d, o)
  PROVE  Partition(q, p, c, d \ {e}, o \ {e})
  BY DEF Partition

-----------------------------------------------------------------------------
(* What the steps do to what the invariant is stated of.                   *)

\* A request to be made is none that is asked, and has a kind and a handle.
LEMMA Requests ==
  ASSUME NEW r \in Request
  PROVE  /\ r # NoRequest /\ r.kind \in Kinds /\ r.handle \in Handles \cup RawHandles
         /\ r \in Request \cup {NoRequest}
  <1>1. r.kind \in Kinds
    BY DEF Request
  <1>2. NoRequest.kind = "none" /\ "none" \notin Kinds
    BY DEF NoRequest, Kinds
  <1> QED BY <1>1, <1>2 DEF Request

\* An id that is asked holds a request.
LEMMA AskedRequest ==
  ASSUME TypeInv, NEW i \in Asked
  PROVE  i \in Ids /\ req[i] \in Request
  BY DEF TypeInv, Asked

\* The guest asks: one more request is outstanding, the others are as they were.
LEMMA SubmitAsked ==
  ASSUME TypeInv, NEW i \in Ids, NEW r \in Request, req' = [req EXCEPT ![i] = r],
         req[i] = NoRequest
  PROVE  /\ Asked' = Asked \cup {i} /\ i \notin Asked
         /\ req'[i] = r /\ \A j \in Ids \ {i} : req'[j] = req[j]
         /\ req' \in [Ids -> Request \cup {NoRequest}]
  <1>1. r # NoRequest /\ r \in Request \cup {NoRequest}
    BY Requests
  <1>2. req \in [Ids -> Request \cup {NoRequest}]
    BY DEF TypeInv
  <1>3. /\ req'[i] = r /\ \A j \in Ids \ {i} : req'[j] = req[j]
        /\ req' \in [Ids -> Request \cup {NoRequest}]
    BY <1>1, <1>2
  <1> QED BY <1>1, <1>3 DEF Asked

\* The guest fetches an answer: one request fewer is outstanding.
LEMMA QueryAsked ==
  ASSUME TypeInv, NEW i \in Ids, req' = [req EXCEPT ![i] = NoRequest]
  PROVE  /\ Asked' = Asked \ {i}
         /\ req'[i] = NoRequest /\ \A j \in Ids \ {i} : req'[j] = req[j]
         /\ req' \in [Ids -> Request \cup {NoRequest}]
  <1>1. req \in [Ids -> Request \cup {NoRequest}]
    BY DEF TypeInv
  <1>2. /\ req'[i] = NoRequest /\ \A j \in Ids \ {i} : req'[j] = req[j]
        /\ req' \in [Ids -> Request \cup {NoRequest}]
    BY <1>1
  <1> QED BY <1>2 DEF Asked

\* Asking changes the phase of at most the handle that is named.
LEMMA HandleAfterIssue ==
  ASSUME TypeInv, NEW i \in Ids, NEW r \in Request, MayIssue(req, hstate, i, r)
  PROVE  /\ AfterIssue(hstate, r) \in [Handles -> HandleStates]
         /\ \A h \in Handles : h # r.handle => AfterIssue(hstate, r)[h] = hstate[h]
         /\ r.handle \in Handles =>
               /\ AfterIssue(hstate, r)[r.handle] = PhaseOf(r.kind)
               /\ hstate[r.handle] = IF r.kind = "open" THEN "free" ELSE "held"
         /\ r.kind = "open" => r.handle \in Handles
  <1>1. hstate \in [Handles -> HandleStates]
    BY DEF TypeInv
  <1>2. r.kind \in Kinds
    BY Requests
  <1>3. CASE r.kind = "open"
    BY <1>1, <1>3 DEF MayIssue, AfterIssue, PhaseOf, HandleStates
  <1>4. CASE r.kind = "close"
    BY <1>1, <1>4 DEF MayIssue, AfterIssue, PhaseOf, HandleStates
  <1>5. CASE r.kind \notin {"open", "close"}
    BY <1>1, <1>5 DEF MayIssue, AfterIssue, PhaseOf, HandleStates
  <1> QED BY <1>3, <1>4, <1>5

\* So does the answer, by its outcome.
LEMMA HandleAfterAnswer ==
  ASSUME TypeInv, NEW r \in Request, NEW o \in Outcomes,
         r.kind = "open" => r.handle \in Handles
  PROVE  /\ AfterAnswer(hstate, r, o) \in [Handles -> HandleStates]
         /\ \A h \in Handles : h # r.handle => AfterAnswer(hstate, r, o)[h] = hstate[h]
         /\ r.handle \in Handles =>
               AfterAnswer(hstate, r, o)[r.handle] =
                 CASE r.kind = "open" -> IF o = "ok" THEN "held" ELSE "free"
                   [] r.kind = "close" -> "free"
                   [] OTHER -> hstate[r.handle]
  <1>1. hstate \in [Handles -> HandleStates]
    BY DEF TypeInv
  <1>3. CASE r.kind = "open"
    BY <1>1, <1>3 DEF AfterAnswer, HandleStates
  <1>4. CASE r.kind = "close"
    BY <1>1, <1>4 DEF AfterAnswer, HandleStates
  <1>5. CASE r.kind \notin {"open", "close"}
    BY <1>1, <1>5 DEF AfterAnswer, HandleStates
  <1> QED BY <1>3, <1>4, <1>5

\* Serving a request gives a status, keeps the map within the guest's
\* handles, maps a file that it opens and unmaps one that it closes.
LEMMA EffectFacts ==
  ASSUME NEW m \in SUBSET Handles, NEW r \in Request, NEW e \in Effects(m, r),
         r.kind = "open" => r.handle \in Handles
  PROVE  /\ e.outcome \in Outcomes
         /\ e.mapped \in SUBSET Handles
         /\ r.kind # "close" => m \subseteq e.mapped
         /\ m \ {r.handle} \subseteq e.mapped
         /\ r.kind = "open" /\ e.outcome = "ok" => r.handle \in e.mapped
  <1>1. CASE r.kind = "open"
    BY <1>1 DEF Effects, ServeOpen, Outcomes
  <1>2. CASE r.kind # "open" /\ r.handle \in m
    <2>1. e \in ServeMapped(m, r)
      BY <1>2 DEF Effects
    <2>2. CASE r.kind = "close"
      BY <2>1, <2>2 DEF ServeMapped, Outcomes
    <2>3. CASE r.kind # "close"
      <3>1. PICK o \in Outcomes : e = [mapped |-> m, outcome |-> o]
        BY <2>1, <2>3 DEF ServeMapped, Outcomes
      <3> QED BY <3>1, <2>3, <1>2
    <2> QED BY <2>2, <2>3
  <1>3. CASE r.kind # "open" /\ r.handle \notin m
    BY <1>3 DEF Effects, ServeUnmapped, Outcomes
  <1> QED BY <1>1, <1>2, <1>3

-----------------------------------------------------------------------------
(* The parts of the invariant under the guest's steps.                     *)

\* The phases stay right when a request is made ...
LEMMA SubmitPhase ==
  ASSUME TypeInv, PhaseInv, NEW i \in Ids, NEW r \in Request,
         MayIssue(req, hstate, i, r),
         req' = [req EXCEPT ![i] = r], hstate' = AfterIssue(hstate, r)
  PROVE  PhaseInv'
  <1>1. req[i] = NoRequest
    BY DEF MayIssue
  <1>2. /\ Asked' = Asked \cup {i} /\ i \notin Asked /\ req'[i] = r
        /\ \A j \in Asked : j \in Ids /\ req'[j] = req[j]
    BY <1>1, SubmitAsked DEF Asked
  <1>3. /\ \A h \in Handles : h # r.handle => hstate'[h] = hstate[h]
        /\ r.handle \in Handles =>
              /\ hstate'[r.handle] = PhaseOf(r.kind)
              /\ hstate[r.handle] = IF r.kind = "open" THEN "free" ELSE "held"
        /\ r.kind = "open" => r.handle \in Handles
    BY HandleAfterIssue
  <1>4. r.kind = "close" => \A j \in Asked : req[j].handle # r.handle
    BY DEF MayIssue, Outstanding, Asked
  <1>5. \A j \in Asked : r.handle \in Handles /\ req[j].handle = r.handle =>
           /\ r.kind \notin {"open", "close"}
           /\ hstate[r.handle] = "held" /\ hstate'[r.handle] = "held"
    <2> SUFFICES ASSUME NEW j \in Asked, r.handle \in Handles, req[j].handle = r.handle
                 PROVE  /\ r.kind \notin {"open", "close"}
                        /\ hstate[r.handle] = "held" /\ hstate'[r.handle] = "held"
      OBVIOUS
    <2>1. hstate[r.handle] = PhaseOf(req[j].kind)
      BY DEF PhaseInv
    <2> QED BY <2>1, <1>3, <1>4 DEF PhaseOf
  <1>6. \A j \in Asked : req[j].handle \in Handles => hstate'[req[j].handle] = hstate[req[j].handle]
    BY <1>3, <1>5
  <1>7. \A j \in Asked' : req'[j].kind = "open" => req'[j].handle \in Handles
    BY <1>2, <1>3 DEF PhaseInv
  <1>8. \A j \in Asked' : req'[j].handle \in Handles =>
           hstate'[req'[j].handle] = PhaseOf(req'[j].kind)
    BY <1>2, <1>3, <1>6 DEF PhaseInv
  <1>9. \A j, k \in Asked' :
          req'[j].handle \in Handles /\ req'[j].handle = req'[k].handle =>
              j = k \/ hstate'[req'[j].handle] = "held"
    BY <1>2, <1>5, <1>6 DEF PhaseInv
  <1> QED BY <1>7, <1>8, <1>9 DEF PhaseInv

\* ... and when one is answered.
LEMMA QueryPhase ==
  ASSUME TypeInv, PhaseInv, NEW i \in Asked, NEW o \in Outcomes,
         req' = [req EXCEPT ![i] = NoRequest], hstate' = AfterAnswer(hstate, req[i], o)
  PROVE  PhaseInv'
  <1> DEFINE r == req[i]
  <1>1. i \in Ids /\ r \in Request
    BY AskedRequest
  <1>2. Asked' = Asked \ {i} /\ \A j \in Asked' : req'[j] = req[j]
    BY <1>1, QueryAsked DEF Asked
  <1>3. r.kind = "open" => r.handle \in Handles
    BY DEF PhaseInv
  <1> HIDE DEF r
  <1>4. /\ \A h \in Handles : h # r.handle => hstate'[h] = hstate[h]
        /\ r.handle \in Handles =>
              r.kind \in {"open", "close"} \/ hstate'[r.handle] = hstate[r.handle]
    <2>1. hstate' = AfterAnswer(hstate, r, o)
      BY DEF r
    <2>2. r.kind \in {"open", "close"} \/ r.kind \notin {"open", "close"}
      OBVIOUS
    <2> QED BY <1>1, <1>3, <2>1, <2>2, HandleAfterAnswer
  <1>5. \A j \in Asked' : req[j].handle \in Handles => hstate'[req[j].handle] = hstate[req[j].handle]
    <2> SUFFICES ASSUME NEW j \in Asked', req[j].handle \in Handles, req[j].handle = r.handle
                 PROVE  hstate'[req[j].handle] = hstate[req[j].handle]
      BY <1>4
    <2>1. hstate[r.handle] = "held" /\ hstate[r.handle] = PhaseOf(r.kind)
      BY <1>2 DEF PhaseInv, r
    <2> QED BY <2>1, <1>4 DEF PhaseOf
  <1> QED BY <1>2, <1>5 DEF PhaseInv

\* Requests and handles that do not change.
LEMMA SamePhase ==
  ASSUME PhaseInv, UNCHANGED <<req, hstate>>
  PROVE  PhaseInv' /\ Asked' = Asked
  BY DEF PhaseInv, Asked

\* The places when a request is made: whichever way it goes.
LEMMA EnqueuePlace ==
  ASSUME TypeInv, WorkerInv, PlaceInv, FlagInv, wpc # "exited", NEW i \in Ids, i \notin Asked,
         Asked' = Asked \cup {i}, Enqueue(i), UNCHANGED <<wpc, cur, completed>>
  PROVE  /\ PlaceInv' /\ FlagInv'
         /\ queue' \in Seq(Ids) /\ pending' \in Seq(Ids)
         /\ hasPending' \in BOOLEAN /\ flag' \in BOOLEAN
  <1>1. /\ queue \in Seq(Ids) /\ pending \in Seq(Ids) /\ Once(queue) /\ Once(pending)
        /\ hasPending \in BOOLEAN /\ flag \in BOOLEAN
        /\ Partition(In(queue), In(pending), cur, Done, Asked)
    BY DEF TypeInv, PlaceInv
  <1>2. Done' = Done /\ cur' = cur
    BY DEF Done
  <1>3. /\ i \notin In(queue) /\ i \notin In(pending)
        /\ Partition(In(queue) \cup {i}, In(pending), cur, Done, Asked \cup {i})
        /\ Partition(In(queue), In(pending) \cup {i}, cur, Done, Asked \cup {i})
    BY <1>1, PutIn
  <1>4. CASE wpc # "locked"
    <2>1. queue' = Append(queue, i) /\ flag' = TRUE /\ UNCHANGED <<pending, hasPending>>
      BY <1>4 DEF Enqueue
    <2>2. queue' \in Seq(Ids) /\ In(queue') = In(queue) \cup {i} /\ Once(queue')
      BY <1>1, <1>3, <2>1, InAppend
    <2>3. Partition(In(queue'), In(pending), cur, Done, Asked')
      BY <1>3, <2>2
    <2> QED BY <1>1, <1>2, <2>1, <2>2, <2>3 DEF PlaceInv, FlagInv
  <1>5. CASE wpc = "locked"
    <2>1. pending' = Append(pending, i) /\ hasPending' = TRUE /\ UNCHANGED <<queue, flag>>
      BY <1>5 DEF Enqueue
    <2>2. pending' \in Seq(Ids) /\ In(pending') = In(pending) \cup {i} /\ Once(pending')
      BY <1>1, <1>3, <2>1, InAppend
    <2>3. Partition(In(queue), In(pending'), cur, Done, Asked')
      BY <1>3, <2>2
    <2> QED BY <1>1, <1>2, <2>1, <2>2, <2>3 DEF PlaceInv, FlagInv
  <1> QED BY <1>4, <1>5

\* Port 0x206: the request is set aside or queued, and nothing is lost by it.
LEMMA SubmitKeeps ==
  ASSUME IInv, NEW i \in Ids, NEW r \in Request, Submit(i, r)
  PROVE  IInv'
  <1>1. /\ TypeInv /\ WorkerInv /\ PlaceInv /\ FlagInv /\ PhaseInv /\ FileInv
    BY DEF IInv
  <1>2. /\ spc = "run" /\ MayIssue(req, hstate, i, r) /\ req' = [req EXCEPT ![i] = r]
        /\ hstate' = AfterIssue(hstate, r) /\ Enqueue(i)
        /\ wpc' = wpc /\ cur' = cur /\ outcome' = outcome /\ completed' = completed
        /\ mapped' = mapped /\ spc' = spc
    BY DEF Submit, workVars
  <1>3. wpc # "exited"
    BY <1>1, <1>2 DEF WorkerInv
  <1>4. req[i] = NoRequest
    BY <1>2 DEF MayIssue
  <1>5. /\ Asked' = Asked \cup {i} /\ i \notin Asked
        /\ req'[i] = r /\ \A j \in Ids \ {i} : req'[j] = req[j]
        /\ req' \in [Ids -> Request \cup {NoRequest}]
    BY <1>1, <1>2, <1>4, SubmitAsked
  <1>6. /\ PlaceInv' /\ FlagInv'
        /\ queue' \in Seq(Ids) /\ pending' \in Seq(Ids)
        /\ hasPending' \in BOOLEAN /\ flag' \in BOOLEAN
    BY <1>1, <1>2, <1>3, <1>5, EnqueuePlace
  <1>7. /\ hstate' \in [Handles -> HandleStates]
        /\ \A h \in Handles : h # r.handle => hstate'[h] = hstate[h]
        /\ r.handle \in Handles =>
              /\ hstate'[r.handle] = PhaseOf(r.kind)
              /\ hstate[r.handle] = IF r.kind = "open" THEN "free" ELSE "held"
    BY <1>1, <1>2, HandleAfterIssue
  <1>8. TypeInv'
    BY <1>1, <1>2, <1>5, <1>6, <1>7 DEF TypeInv
  <1>9. WorkerInv'
    BY <1>1, <1>2 DEF WorkerInv
  <1>10. PhaseInv'
    BY <1>1, <1>2, SubmitPhase
  <1>11. FileInv'
    <2>1. \A h \in Handles : hstate'[h] = "held" => hstate[h] = "held"
      BY <1>7 DEF PhaseOf
    <2>2. i \notin cur /\ completed[i] = "none"
      BY <1>1, <1>3, <1>5 DEF PlaceInv, Partition, Done
    <2>3. \A j \in Ids : Served(j)' = Served(j)
      BY <1>2 DEF Served
    <2>4. \A j \in Asked' : j = i \/ (j \in Asked /\ j \in Ids /\ req'[j] = req[j])
      BY <1>5 DEF Asked
    <2>5. Served(i)' # "ok"
      BY <2>2, <2>3 DEF Served
    <2>6. \A j \in Asked' : req'[j].kind = "open" /\ Served(j)' = "ok" => req'[j].handle \in mapped'
      BY <1>1, <1>2, <1>3, <2>3, <2>4, <2>5 DEF FileInv
    <2>7. \A h \in Handles : hstate'[h] = "held" => h \in mapped'
      BY <1>1, <1>2, <1>3, <2>1 DEF FileInv
    <2> QED BY <2>6, <2>7 DEF FileInv
  <1> QED BY <1>6, <1>8, <1>9, <1>10, <1>11 DEF IInv

\* A retry brings the whole retry buffer into the queue, in its order.
LEMMA FlushKeeps ==
  ASSUME IInv, Flush
  PROVE  IInv'
  <1>1. /\ TypeInv /\ WorkerInv /\ PlaceInv /\ FlagInv /\ PhaseInv /\ FileInv
    BY DEF IInv
  <1>2. /\ spc = "run" /\ queue' = queue \o pending /\ pending' = <<>>
        /\ hasPending' = FALSE /\ flag' = TRUE
        /\ req' = req /\ hstate' = hstate /\ wpc' = wpc /\ cur' = cur /\ outcome' = outcome
        /\ completed' = completed /\ mapped' = mapped /\ spc' = spc
    BY DEF Flush, guestVars, workVars
  <1>3. wpc # "exited"
    BY <1>1, <1>2 DEF WorkerInv
  <1>4. /\ queue \in Seq(Ids) /\ pending \in Seq(Ids) /\ Once(queue) /\ Once(pending)
        /\ Partition(In(queue), In(pending), cur, Done, Asked)
    BY <1>1, <1>3 DEF TypeInv, PlaceInv
  <1>5. /\ In(queue) \cap In(pending) = {}
        /\ Partition(In(queue) \cup In(pending), {}, cur, Done, Asked)
    BY <1>4, AllOver
  <1>6. queue' \in Seq(Ids) /\ In(queue') = In(queue) \cup In(pending) /\ Once(queue')
    BY <1>2, <1>4, <1>5, InConcat
  <1>7. pending' \in Seq(Ids) /\ In(pending') = {} /\ Once(pending')
    BY <1>2, InEmpty
  <1>8. PhaseInv' /\ Asked' = Asked /\ Done' = Done
    BY <1>1, <1>2, SamePhase DEF Done
  <1>9. PlaceInv'
    BY <1>2, <1>5, <1>6, <1>7, <1>8 DEF PlaceInv
  <1>10. TypeInv' /\ WorkerInv' /\ FlagInv'
    BY <1>1, <1>2, <1>6, <1>7 DEF TypeInv, WorkerInv, FlagInv
  <1>11. FileInv'
    BY <1>1, <1>2, <1>8 DEF FileInv, Served
  <1> QED BY <1>8, <1>9, <1>10, <1>11 DEF IInv

\* A query takes an answer out of completed_map and ends the request.
LEMMA QueryKeeps ==
  ASSUME IInv, NEW i \in Ids, Query(i)
  PROVE  IInv'
  <1>1. /\ TypeInv /\ WorkerInv /\ PlaceInv /\ FlagInv /\ PhaseInv /\ FileInv
    BY DEF IInv
  <1>2. /\ spc = "run" /\ req[i] # NoRequest /\ completed[i] # "none"
        /\ completed' = [completed EXCEPT ![i] = "none"]
        /\ req' = [req EXCEPT ![i] = NoRequest]
        /\ hstate' = AfterAnswer(hstate, req[i], completed[i])
        /\ queue' = queue /\ pending' = pending /\ hasPending' = hasPending /\ flag' = flag
        /\ wpc' = wpc /\ cur' = cur /\ outcome' = outcome
        /\ mapped' = mapped /\ spc' = spc
    BY DEF Query, queueVars
  <1>3. wpc # "exited" /\ i \in Asked /\ i \in Done
    BY <1>1, <1>2 DEF WorkerInv, Asked, Done
  <1>4. /\ completed \in [Ids -> Outcomes \cup {"none"}] /\ completed[i] \in Outcomes
        /\ completed' \in [Ids -> Outcomes \cup {"none"}]
        /\ completed'[i] = "none" /\ \A j \in Ids \ {i} : completed'[j] = completed[j]
    BY <1>1, <1>2 DEF TypeInv
  <1>5. /\ Asked' = Asked \ {i} /\ \A j \in Ids \ {i} : req'[j] = req[j]
        /\ req' \in [Ids -> Request \cup {NoRequest}]
    BY <1>1, <1>2, QueryAsked
  <1>6. Done' = Done \ {i}
    BY <1>4 DEF Done
  <1>7. PhaseInv'
    BY <1>1, <1>2, <1>3, <1>4, QueryPhase
  <1>8. PlaceInv'
    <2>1. Partition(In(queue), In(pending), cur, Done, Asked) /\ Once(queue) /\ Once(pending)
      BY <1>1, <1>3 DEF PlaceInv
    <2>2. Partition(In(queue), In(pending), cur, Done \ {i}, Asked \ {i})
      BY <2>1, <1>3, GiveOne
    <2> QED BY <2>1, <2>2, <1>2, <1>5, <1>6 DEF PlaceInv
  <1> DEFINE r == req[i]
  <1>9. r \in Request /\ (r.kind = "open" => r.handle \in Handles) /\ i \notin cur
    BY <1>1, <1>3, AskedRequest DEF PhaseInv, PlaceInv, Partition
  <1>10. r.kind = "open" /\ completed[i] = "ok" => r.handle \in mapped
    BY <1>1, <1>3, <1>9 DEF FileInv, Served
  <1>11. r.handle \in Handles => hstate[r.handle] = PhaseOf(r.kind)
    BY <1>1, <1>3 DEF PhaseInv
  <1> HIDE DEF r
  <1>12. /\ hstate' \in [Handles -> HandleStates]
         /\ \A h \in Handles : h # r.handle => hstate'[h] = hstate[h]
         /\ r.handle \in Handles =>
                hstate'[r.handle] =
                  CASE r.kind = "open" -> IF completed[i] = "ok" THEN "held" ELSE "free"
                    [] r.kind = "close" -> "free"
                    [] OTHER -> hstate[r.handle]
    <2>1. hstate' = AfterAnswer(hstate, r, completed[i])
      BY <1>2 DEF r
    <2> QED BY <2>1, <1>1, <1>4, <1>9, HandleAfterAnswer
  <1>13. \A h \in Handles : hstate'[h] = "held" =>
            hstate[h] = "held" \/ (h = r.handle /\ r.kind = "open" /\ completed[i] = "ok")
    BY <1>12
  <1>14. FileInv'
    <2>1. \A h \in Handles : hstate'[h] = "held" => h \in mapped'
      BY <1>1, <1>2, <1>3, <1>10, <1>13 DEF FileInv
    <2>2. \A j \in Asked' : j \in Asked /\ j \in Ids \ {i} /\ req'[j] = req[j]
      BY <1>5 DEF Asked
    <2>3. \A j \in Asked' : Served(j)' = Served(j)
      BY <2>2, <1>2, <1>4 DEF Served
    <2>4. \A j \in Asked' : req'[j].kind = "open" /\ Served(j)' = "ok" => req'[j].handle \in mapped'
      BY <2>2, <2>3, <1>1, <1>2, <1>3 DEF FileInv
    <2> QED BY <2>1, <2>4 DEF FileInv
  <1>15. TypeInv' /\ WorkerInv' /\ FlagInv'
    BY <1>1, <1>2, <1>4, <1>5, <1>12 DEF TypeInv, WorkerInv, FlagInv
  <1> QED BY <1>7, <1>8, <1>14, <1>15 DEF IInv

-----------------------------------------------------------------------------
(* The invariant under the worker's steps.                                 *)

\* The worker goes on, wakes or locks, and stop() is called: nothing moves.
LEMMA MoveKeeps ==
  ASSUME IInv,
         UNCHANGED <<req, hstate, queue, pending, hasPending, cur, outcome, completed, mapped>>,
         flag' \in BOOLEAN, queue # <<>> => flag', wpc' \in WorkerStates, spc' \in StopStates,
         spc' = "run" => spc = "run",
         wpc' = "exited" <=> wpc = "exited",
         wpc \in {"process", "store", "storing"} <=> wpc' \in {"process", "store", "storing"},
         wpc \in {"store", "storing"} <=> wpc' \in {"store", "storing"}
  PROVE  IInv'
  <1>1. /\ TypeInv /\ WorkerInv /\ PlaceInv /\ FlagInv /\ PhaseInv /\ FileInv
    BY DEF IInv
  <1>2. PhaseInv' /\ Asked' = Asked /\ Done' = Done
    BY <1>1, SamePhase DEF Done
  <1>3. PlaceInv'
    BY <1>1, <1>2 DEF PlaceInv
  <1>4. FileInv'
    BY <1>1, <1>2 DEF FileInv, Served
  <1>5. TypeInv'
    BY <1>1 DEF TypeInv
  <1>6. WorkerInv'
    BY <1>1 DEF WorkerInv, TypeInv, StopStates
  <1>7. FlagInv'
    BY DEF FlagInv
  <1> QED BY <1>2, <1>3, <1>4, <1>5, <1>6, <1>7 DEF IInv

\* The steps of the worker that only move it from one lock region to the next.
LEMMA IdleKeeps ==
  ASSUME IInv, Wake \/ NotStopped \/ LockQueue \/ Idle \/ LockCompleted
  PROVE  IInv'
  <1>1. flag \in BOOLEAN /\ spc \in StopStates /\ (queue # <<>> => flag)
    BY DEF IInv, TypeInv, FlagInv
  <1>2. CASE Wake \/ NotStopped \/ LockQueue \/ LockCompleted
    BY <1>1, <1>2, MoveKeeps
       DEF Wake, NotStopped, LockQueue, LockCompleted, GoTo, WorkerStates, guestVars,
           queueVars, workVars
  <1>3. CASE Idle
    BY <1>1, <1>3, MoveKeeps DEF Idle, GoTo, WorkerStates, guestVars, workVars
  <1> QED BY <1>2, <1>3

\* stop() changes flags only.
LEMMA StopKeeps ==
  ASSUME IInv, RequestStop \/ SetFlag \/ Join
  PROVE  IInv'
  <1>1. flag \in BOOLEAN /\ wpc \in WorkerStates /\ (queue # <<>> => flag)
    BY DEF IInv, TypeInv, FlagInv
  <1> QED
    BY <1>1, MoveKeeps
       DEF RequestStop, SetFlag, Join, StopStates, guestVars, queueVars, workVars

\* The worker leaves: what waits for it or for the guest is dropped.
LEMMA ExitKeeps ==
  ASSUME IInv, Exit
  PROVE  IInv'
  <1>1. /\ TypeInv /\ WorkerInv /\ PhaseInv
    BY DEF IInv
  <1>2. /\ wpc = "woken" /\ wpc' = "exited" /\ spc # "run"
        /\ hasPending' = FALSE /\ queue' = <<>> /\ pending' = <<>>
        /\ completed' = [i \in Ids |-> "none"] /\ mapped' = {}
        /\ req' = req /\ hstate' = hstate /\ flag' = flag /\ cur' = cur
        /\ outcome' = outcome /\ spc' = spc
    BY DEF Exit, GoTo, guestVars
  <1>3. TypeInv'
    <2>1. completed' \in [Ids -> Outcomes \cup {"none"}] /\ <<>> \in Seq(Ids)
      BY <1>2, EmptySeq
    <2> QED BY <1>1, <1>2, <2>1 DEF TypeInv, WorkerStates
  <1>4. WorkerInv'
    BY <1>1, <1>2 DEF WorkerInv
  <1>5. PlaceInv' /\ FileInv' /\ FlagInv'
    BY <1>2 DEF PlaceInv, FileInv, FlagInv
  <1> QED BY <1>1, <1>2, <1>3, <1>4, <1>5, SamePhase DEF IInv

\* The worker takes the queue over as a whole.
LEMMA TakeKeeps ==
  ASSUME IInv, Take
  PROVE  IInv'
  <1>1. /\ TypeInv /\ WorkerInv /\ PlaceInv /\ FlagInv /\ PhaseInv /\ FileInv
    BY DEF IInv
  <1>2. /\ wpc = "locked" /\ wpc' = "process" /\ queue # <<>>
        /\ cur' = {Head(queue)} /\ queue' = Tail(queue)
        /\ req' = req /\ hstate' = hstate /\ pending' = pending /\ hasPending' = hasPending
        /\ flag' = flag /\ outcome' = outcome /\ completed' = completed
        /\ mapped' = mapped /\ spc' = spc
    BY DEF Take, GoTo, guestVars
  <1>3. /\ queue \in Seq(Ids) /\ Once(queue) /\ Once(pending) /\ cur = {}
        /\ Partition(In(queue), In(pending), {}, Done, Asked)
    BY <1>1, <1>2 DEF TypeInv, PlaceInv, WorkerInv
  <1>4. /\ Head(queue) \in Ids /\ Head(queue) \in In(queue) /\ queue' \in Seq(Ids)
        /\ In(queue') = In(queue) \ {Head(queue)} /\ Once(queue')
    BY <1>2, <1>3, InTail
  <1>5. Partition(In(queue) \ {Head(queue)}, In(pending), {Head(queue)}, Done, Asked)
    BY <1>3, <1>4, TakeOne
  <1>6. PhaseInv' /\ Asked' = Asked /\ Done' = Done
    BY <1>1, <1>2, SamePhase DEF Done
  <1>7. PlaceInv'
    BY <1>2, <1>3, <1>4, <1>5, <1>6 DEF PlaceInv
  <1>8. TypeInv'
    BY <1>1, <1>2, <1>4 DEF TypeInv, WorkerStates
  <1>9. WorkerInv' /\ FlagInv'
    BY <1>1, <1>2, <1>4 DEF WorkerInv, FlagInv
  <1>10. FileInv'
    BY <1>1, <1>2, <1>6 DEF FileInv, Served
  <1> QED BY <1>6, <1>7, <1>8, <1>9, <1>10 DEF IInv

\* What process_open or process_other does to one request.
LEMMA ProcessFacts ==
  ASSUME IInv, Process
  PROVE  \E i \in Asked : \E e \in Effects(mapped, req[i]) :
            /\ wpc = "process" /\ wpc' = "store" /\ cur = {i} /\ completed[i] = "none"
            /\ mapped' = e.mapped /\ outcome' = e.outcome
            /\ req' = req /\ hstate' = hstate /\ queue' = queue /\ pending' = pending
            /\ hasPending' = hasPending /\ flag' = flag /\ cur' = cur
            /\ completed' = completed /\ spc' = spc
  <1>1. wpc = "process" /\ WorkerInv /\ PlaceInv
    BY DEF IInv, Process, GoTo
  <1>2. PICK i \in Ids : cur = {i}
    BY <1>1 DEF WorkerInv
  <1>3. i \in Asked /\ i \notin Done
    BY <1>1, <1>2 DEF PlaceInv, Partition
  <1>4. completed[i] = "none"
    BY <1>2, <1>3 DEF Done
  <1> QED BY <1>1, <1>2, <1>3, <1>4 DEF Process, GoTo, guestVars, queueVars

\* It serves the first request in its hands, on the host's files.
LEMMA ProcessKeeps ==
  ASSUME IInv, Process
  PROVE  IInv'
  <1>1. /\ TypeInv /\ WorkerInv /\ PlaceInv /\ FlagInv /\ PhaseInv /\ FileInv
    BY DEF IInv
  <1>2. PICK i \in Asked : \E e \in Effects(mapped, req[i]) :
            /\ wpc = "process" /\ wpc' = "store" /\ cur = {i} /\ completed[i] = "none"
            /\ mapped' = e.mapped /\ outcome' = e.outcome
            /\ req' = req /\ hstate' = hstate /\ queue' = queue /\ pending' = pending
            /\ hasPending' = hasPending /\ flag' = flag /\ cur' = cur
            /\ completed' = completed /\ spc' = spc
    BY ProcessFacts
  <1>3. PICK e \in Effects(mapped, req[i]) :
            /\ wpc = "process" /\ wpc' = "store" /\ cur = {i} /\ completed[i] = "none"
            /\ mapped' = e.mapped /\ outcome' = e.outcome
            /\ req' = req /\ hstate' = hstate /\ queue' = queue /\ pending' = pending
            /\ hasPending' = hasPending /\ flag' = flag /\ cur' = cur
            /\ completed' = completed /\ spc' = spc
    BY <1>2
  <1>4. i \in Ids /\ req[i] \in Request /\ mapped \in SUBSET Handles
        /\ (req[i].kind = "open" => req[i].handle \in Handles)
    BY <1>1, AskedRequest DEF TypeInv, PhaseInv
  <1>5. /\ e.outcome \in Outcomes
        /\ e.mapped \in SUBSET Handles
        /\ req[i].kind # "close" => mapped \subseteq e.mapped
        /\ mapped \ {req[i].handle} \subseteq e.mapped
        /\ req[i].kind = "open" /\ e.outcome = "ok" => req[i].handle \in e.mapped
    BY <1>4, EffectFacts
  <1>6. PhaseInv' /\ Asked' = Asked /\ Done' = Done
    BY <1>1, <1>3, SamePhase DEF Done
  <1>7. PlaceInv'
    BY <1>1, <1>3, <1>6 DEF PlaceInv
  <1>8. TypeInv' /\ WorkerInv' /\ FlagInv'
    BY <1>1, <1>3, <1>5 DEF TypeInv, WorkerInv, FlagInv, WorkerStates
  <1>9. \A h \in Handles : h \in mapped /\ h \notin mapped' =>
           h = req[i].handle /\ req[i].kind = "close" /\ hstate[h] = "closing"
    <2> SUFFICES ASSUME NEW h \in Handles, h \in mapped, h \notin mapped'
                 PROVE  h = req[i].handle /\ req[i].kind = "close" /\ hstate[h] = "closing"
      OBVIOUS
    <2>1. h = req[i].handle /\ req[i].kind = "close"
      BY <1>3, <1>5
    <2> QED BY <2>1, <1>1 DEF PhaseInv, PhaseOf
  <1>10. FileInv'
    <2>1. \A h \in Handles : hstate'[h] = "held" => h \in mapped'
      BY <1>1, <1>3, <1>9 DEF FileInv
    <2>2. \A j \in Asked : j # i => Served(j)' = Served(j)
      BY <1>3 DEF Served
    <2>3. Served(i)' = e.outcome
      BY <1>3 DEF Served
    <2>4. ASSUME NEW j \in Asked, req[j].kind = "open", Served(j)' = "ok"
          PROVE  req[j].handle \in mapped'
      <3>1. CASE j = i
        BY <3>1, <2>3, <2>4, <1>3, <1>5
      <3>2. CASE j # i
        <4>1. req[j].handle \in mapped /\ req[j].handle \in Handles /\ hstate[req[j].handle] = "opening"
          BY <3>2, <2>2, <2>4, <1>1, <1>3 DEF FileInv, PhaseInv, PhaseOf
        <4> QED BY <4>1, <1>9
      <3> QED BY <3>1, <3>2
    <2> QED BY <2>1, <2>4, <1>3, <1>6 DEF FileInv
  <1> QED BY <1>6, <1>7, <1>8, <1>10 DEF IInv

\* completed_map gets the answer, and what was served stays so.
LEMMA StoreFacts ==
  ASSUME IInv, Store
  PROVE  /\ completed' \in [Ids -> Outcomes \cup {"none"}]
         /\ Done' = Done \cup cur
         /\ \A j \in Ids : completed'[j] = Served(j)
         /\ wpc = "storing" /\ wpc' = "wait" /\ cur' = {}
         /\ req' = req /\ hstate' = hstate /\ queue' = queue /\ pending' = pending
         /\ hasPending' = hasPending /\ flag' = flag /\ outcome' = outcome
         /\ mapped' = mapped /\ spc' = spc
  <1>1. /\ TypeInv /\ WorkerInv /\ PlaceInv
    BY DEF IInv
  <1>2. /\ wpc = "storing" /\ wpc' = "wait" /\ cur' = {}
        /\ completed' = [i \in Ids |-> IF i \in cur /\ completed[i] = "none"
                                       THEN outcome ELSE completed[i]]
        /\ req' = req /\ hstate' = hstate /\ queue' = queue /\ pending' = pending
        /\ hasPending' = hasPending /\ flag' = flag /\ outcome' = outcome
        /\ mapped' = mapped /\ spc' = spc
    BY DEF Store, GoTo, guestVars, queueVars
  <1>3. outcome \in Outcomes /\ completed \in [Ids -> Outcomes \cup {"none"}] /\ cur \subseteq Ids
    BY <1>1 DEF TypeInv
  <1>4. outcome # "none"
    BY <1>3 DEF Outcomes
  <1>5. \A j \in cur : completed[j] = "none"
    BY <1>1, <1>2, <1>3 DEF PlaceInv, Partition, Done
  <1>6. \A j \in Ids : completed'[j] = IF j \in cur THEN outcome ELSE completed[j]
    BY <1>2, <1>5
  <1>7. Done' = Done \cup cur
    BY <1>3, <1>4, <1>6 DEF Done
  <1>8. \A j \in Ids : completed'[j] = Served(j)
    BY <1>2, <1>6 DEF Served
  <1>9. completed' \in [Ids -> Outcomes \cup {"none"}]
    BY <1>2, <1>3
  <1> QED BY <1>2, <1>7, <1>8, <1>9

\* It stores all answers in one lock region.
LEMMA StoreKeeps ==
  ASSUME IInv, Store
  PROVE  IInv'
  <1>1. /\ TypeInv /\ WorkerInv /\ PlaceInv /\ FlagInv /\ PhaseInv /\ FileInv
    BY DEF IInv
  <1>2. /\ completed' \in [Ids -> Outcomes \cup {"none"}]
        /\ Done' = Done \cup cur
        /\ \A j \in Ids : completed'[j] = Served(j)
        /\ wpc = "storing" /\ wpc' = "wait" /\ cur' = {}
        /\ req' = req /\ hstate' = hstate /\ queue' = queue /\ pending' = pending
        /\ hasPending' = hasPending /\ flag' = flag /\ outcome' = outcome
        /\ mapped' = mapped /\ spc' = spc
    BY StoreFacts
  <1>3. PhaseInv' /\ Asked' = Asked
    BY <1>1, <1>2, SamePhase
  <1>4. PlaceInv'
    <2>1. Partition(In(queue), In(pending), cur, Done, Asked) /\ Once(queue) /\ Once(pending)
      BY <1>1, <1>2 DEF PlaceInv
    <2>2. Partition(In(queue), In(pending), {}, Done \cup cur, Asked)
      BY <2>1, StoreOne
    <2> QED BY <2>1, <2>2, <1>2, <1>3 DEF PlaceInv
  <1>5. TypeInv' /\ WorkerInv' /\ FlagInv'
    BY <1>1, <1>2 DEF TypeInv, WorkerInv, FlagInv, WorkerStates
  <1>6. FileInv'
    <2>1. \A j \in Asked : Served(j)' = Served(j)
      BY <1>2 DEF Served, Asked
    <2> QED BY <2>1, <1>1, <1>2, <1>3 DEF FileInv
  <1> QED BY <1>3, <1>4, <1>5, <1>6 DEF IInv

-----------------------------------------------------------------------------
(* The theorems.                                                           *)

\* Nothing is asked and the worker sleeps at the start.
LEMMA InitHolds == Init => IInv
  <1> SUFFICES ASSUME Init PROVE IInv
    OBVIOUS
  <1>1. /\ req = [i \in Ids |-> NoRequest] /\ completed = [i \in Ids |-> "none"]
        /\ hstate = [h \in Handles |-> "free"]
        /\ queue = <<>> /\ pending = <<>> /\ cur = {} /\ wpc = "wait" /\ spc = "run"
        /\ hasPending = FALSE /\ flag = FALSE /\ outcome = "error" /\ mapped = {}
    BY DEF Init
  <1>2. Asked = {} /\ Done = {}
    BY <1>1 DEF Asked, Done
  <1>3. PlaceInv
    BY <1>1, <1>2, InEmpty DEF PlaceInv, Partition
  <1>4. TypeInv
    <2>1. /\ req \in [Ids -> Request \cup {NoRequest}]
          /\ completed \in [Ids -> Outcomes \cup {"none"}]
          /\ hstate \in [Handles -> HandleStates]
      BY <1>1 DEF HandleStates
    <2>2. queue \in Seq(Ids) /\ pending \in Seq(Ids)
      BY <1>1, EmptySeq
    <2> QED BY <1>1, <2>1, <2>2 DEF TypeInv, WorkerStates, StopStates, Outcomes
  <1>5. PhaseInv /\ FileInv
    BY <1>1, <1>2 DEF PhaseInv, FileInv
  <1> QED BY <1>1, <1>3, <1>4, <1>5 DEF IInv, WorkerInv, FlagInv

\* Every step of the emulation thread, the worker and stop() keeps the
\* invariant.
LEMMA NextKeeps == IInv /\ [Next]_vars => IInv'
  <1> SUFFICES ASSUME IInv, [Next]_vars PROVE IInv'
    OBVIOUS
  <1>1. CASE \E i \in Ids, r \in Request : Submit(i, r)
    BY <1>1, SubmitKeeps
  <1>2. CASE Flush
    BY <1>2, FlushKeeps
  <1>3. CASE \E i \in Ids : Query(i)
    BY <1>3, QueryKeeps
  <1>4. CASE Worker
    BY <1>4, IdleKeeps, ExitKeeps, TakeKeeps, ProcessKeeps, StoreKeeps DEF Worker
  <1>5. CASE RequestStop \/ SetFlag \/ Join
    BY <1>5, StopKeeps
  <1>6. CASE UNCHANGED vars
    <2>1. /\ UNCHANGED <<req, hstate, queue, pending, hasPending, cur, outcome, completed, mapped>>
          /\ UNCHANGED <<flag, wpc, spc>>
      BY <1>6 DEF vars
    <2>2. flag \in BOOLEAN /\ wpc \in WorkerStates /\ spc \in StopStates /\ (queue # <<>> => flag)
      BY DEF IInv, TypeInv, FlagInv
    <2> QED BY <2>1, <2>2, MoveKeeps
  <1> QED BY <1>1, <1>2, <1>3, <1>4, <1>5, <1>6 DEF Next

\* The invariant holds of the host I/O system.
LEMMA Invariant == Spec => []IInv
  BY InitHolds, NextKeeps, PTL DEF Spec

\* Every field of the request and answer structures keeps its type, and the
\* worker holds exactly one request between taking and storing it.
THEOREM TypeCorrect == Spec => []TypeOK
  <1>1. IInv => TypeOK
    <2> SUFFICES ASSUME IInv PROVE TypeOK
      OBVIOUS
    <2>1. TypeInv /\ WorkerInv
      BY DEF IInv
    <2>2. Cardinality(cur) = IF wpc \in {"process", "store", "storing"} THEN 1 ELSE 0
      BY <2>1, FS_Singleton, FS_EmptySet DEF WorkerInv
    <2> QED BY <2>1, <2>2 DEF TypeInv, TypeOK
  <1> QED BY <1>1, Invariant, PTL

\* Between submit_io_packet and the query that answers it a request is in
\* exactly one of work_queue, pending_vec, the worker's hands and
\* completed_map, and the id of none is in any, for any number of ids.
THEOREM RequestsKept == Spec => []NoRequestLost
  <1>1. IInv => NoRequestLost
    <2> SUFFICES ASSUME IInv, wpc # "exited", NEW i \in Ids
                 PROVE  Places(i) = IF req[i] = NoRequest THEN 0 ELSE 1
      BY DEF NoRequestLost
    <2>1. /\ queue \in Seq(Ids) /\ pending \in Seq(Ids) /\ Once(queue) /\ Once(pending)
          /\ Partition(In(queue), In(pending), cur, Done, Asked)
      BY DEF IInv, TypeInv, PlaceInv
    <2> DEFINE q == Cardinality({n \in 1 .. Len(queue) : queue[n] = i})
               p == Cardinality({n \in 1 .. Len(pending) : pending[n] = i})
    <2>2. q = (IF i \in In(queue) THEN 1 ELSE 0) /\ p = (IF i \in In(pending) THEN 1 ELSE 0)
      BY <2>1, CountOnce
    <2>3. Places(i) = q + p + (IF i \in cur THEN 1 ELSE 0) + (IF i \in Done THEN 1 ELSE 0)
      BY DEF Places, Done
    <2>4. (req[i] = NoRequest) <=> i \notin Asked
      BY DEF Asked
    <2> HIDE DEF q, p
    <2> QED BY <2>1, <2>2, <2>3, <2>4 DEF Partition
  <1> QED BY <1>1, Invariant, PTL

\* No lost wakeup: whenever the worker waits on pending_flag with work in
\* the queue, the flag is set.
THEOREM WorkSeen == Spec => []WorkIsNoticed
  <1>1. IInv => WorkIsNoticed
    BY DEF IInv, FlagInv, WorkIsNoticed
  <1> QED BY <1>1, Invariant, PTL

\* A handle whose open was answered with success has a FileInfo until its
\* close is served, in whatever order the worker serves what.
THEOREM FilesStayOpen == Spec => []HeldIsMapped
  <1>1. IInv => HeldIsMapped
    BY DEF IInv, FileInv, HeldIsMapped
  <1> QED BY <1>1, Invariant, PTL

-----------------------------------------------------------------------------
(* The refinement.                                                         *)

\* The status of a served request, and whether the service runs.
Result == [i \in Ids |-> Served(i)]
Up == wpc # "exited"

\* A step that changes nothing the guest or the file system sees.
LEMMA Hidden ==
  ASSUME UNCHANGED <<req, mapped, hstate>>, Result' = Result, Up' = Up
  PROVE  UNCHANGED Service!vars
  BY DEF Service!vars, Result, Up, Served

\* The instance's result is Result, and its other variables are their own.
LEMMA ResultIs ==
  /\ Result = [i \in Ids |-> IF i \in cur /\ wpc \in {"store", "storing"} THEN outcome
                              ELSE completed[i]]
  /\ \A i \in Ids : Result[i] = Served(i)
  BY DEF Result, Served

\* Steps that serve nothing show the guest of the service nothing.
LEMMA SameResult ==
  ASSUME \A i \in Ids : Served(i)' = Served(i)
  PROVE  Result' = Result
  BY DEF Result

\* Submitting, directly or to be retried, is asking the service.
LEMMA SubmitRefines ==
  ASSUME IInv, NEW i \in Ids, NEW r \in Request, Submit(i, r)
  PROVE  Service!Submit(i, r)
  <1>1. /\ spc = "run" /\ MayIssue(req, hstate, i, r) /\ req' = [req EXCEPT ![i] = r]
        /\ hstate' = AfterIssue(hstate, r)
        /\ wpc' = wpc /\ cur' = cur /\ outcome' = outcome /\ completed' = completed
        /\ mapped' = mapped
    BY DEF Submit, workVars
  <1>2. wpc # "exited"
    BY <1>1 DEF IInv, WorkerInv
  <1>3. Result' = Result
    BY <1>1, SameResult DEF Served
  <1> QED BY <1>1, <1>2, <1>3 DEF Service!Submit, Service!MayIssue, Service!AfterIssue, MayIssue,
             AfterIssue, Result, Served, Outstanding, Service!Outstanding, NoRequest,
             Service!NoRequest

\* Fetching an answer is the service's answer.
LEMMA QueryRefines ==
  ASSUME IInv, NEW i \in Ids, Query(i)
  PROVE  Service!Answer(i)
  <1>1. /\ spc = "run" /\ req[i] # NoRequest /\ completed[i] # "none"
        /\ completed' = [completed EXCEPT ![i] = "none"]
        /\ req' = [req EXCEPT ![i] = NoRequest]
        /\ hstate' = AfterAnswer(hstate, req[i], completed[i])
        /\ wpc' = wpc /\ cur' = cur /\ outcome' = outcome
        /\ mapped' = mapped
    BY DEF Query, queueVars
  <1>2. wpc # "exited"
    BY <1>1 DEF IInv, WorkerInv
  <1>3. i \notin cur
    BY <1>1, <1>2 DEF IInv, PlaceInv, Partition, Done
  <1>4. Result[i] = completed[i]
    BY <1>3, ResultIs DEF Served
  <1>5. Result' = [Result EXCEPT ![i] = "none"]
    <2>1. completed \in [Ids -> Outcomes \cup {"none"}]
      BY DEF IInv, TypeInv
    <2>2. \A j \in Ids : Served(j)' = IF j = i THEN "none" ELSE Served(j)
      BY <2>1, <1>1, <1>3 DEF Served
    <2> QED BY <2>2 DEF Result
  <1> QED BY <1>1, <1>2, <1>4, <1>5 DEF Service!Answer, Service!AfterAnswer, AfterAnswer,
             Service!NoRequest, NoRequest, Result, Served

\* Serving in the worker's hands is serving, at the moment it happens.
LEMMA ProcessRefines ==
  ASSUME IInv, Process
  PROVE  \E i \in Ids : Service!Serve(i)
  <1>1. PICK i \in Asked : \E e \in Effects(mapped, req[i]) :
            /\ wpc = "process" /\ wpc' = "store" /\ cur = {i} /\ completed[i] = "none"
            /\ mapped' = e.mapped /\ outcome' = e.outcome
            /\ req' = req /\ hstate' = hstate /\ queue' = queue /\ pending' = pending
            /\ hasPending' = hasPending /\ flag' = flag /\ cur' = cur
            /\ completed' = completed /\ spc' = spc
    BY ProcessFacts
  <1>2. PICK e \in Effects(mapped, req[i]) :
            /\ wpc = "process" /\ wpc' = "store" /\ cur = {i} /\ completed[i] = "none"
            /\ mapped' = e.mapped /\ outcome' = e.outcome
            /\ req' = req /\ hstate' = hstate /\ cur' = cur
            /\ completed' = completed
    BY <1>1
  <1>3. i \in Ids /\ req[i] # NoRequest
    BY DEF Asked
  <1>4. Result[i] = "none"
    BY <1>2, <1>3, ResultIs DEF Served
  <1>5. Result' = [Result EXCEPT ![i] = e.outcome]
    <2>1. \A j \in Ids : Served(j)' = IF j = i THEN e.outcome ELSE Served(j)
      BY <1>2 DEF Served
    <2> QED BY <2>1 DEF Result
  <1>6. wpc # "exited" /\ wpc' # "exited"
    BY <1>2
  <1>7. Effects(mapped, req[i]) = Service!Effects(mapped, req[i])
    BY DEF Effects, ServeOpen, ServeMapped, ServeUnmapped, Outcomes, Service!Effects,
           Service!ServeOpen, Service!ServeMapped, Service!ServeUnmapped, Service!Outcomes
  <1>8. Service!Serve(i)
    BY <1>2, <1>3, <1>4, <1>5, <1>6, <1>7 DEF Service!Serve, Service!NoRequest, NoRequest, Result,
       Served
  <1> QED BY <1>3, <1>8

\* The worker's exit is the service's end.
LEMMA ExitRefines ==
  ASSUME IInv, Exit
  PROVE  Service!Shutdown
  <1>1. /\ wpc = "woken" /\ wpc' = "exited"
        /\ completed' = [i \in Ids |-> "none"] /\ mapped' = {}
        /\ req' = req /\ hstate' = hstate
    BY DEF Exit, GoTo, guestVars
  <1>2. \A i \in Ids : Served(i)' = "none"
    BY <1>1 DEF Served
  <1>3. Result' = [i \in Ids |-> "none"]
    BY <1>2 DEF Result
  <1> QED BY <1>1, <1>3 DEF Service!Shutdown, Result, Served

\* The steps that the service does not see.
LEMMA OthersHidden ==
  ASSUME IInv,
         \/ Flush \/ Wake \/ NotStopped \/ LockQueue \/ Idle \/ Take \/ LockCompleted \/ Store
         \/ RequestStop \/ SetFlag \/ Join \/ UNCHANGED vars
  PROVE  UNCHANGED Service!vars
  <1>1. CASE Store
    <2>1. /\ \A j \in Ids : completed'[j] = Served(j)
          /\ wpc = "storing" /\ wpc' = "wait"
          /\ req' = req /\ hstate' = hstate /\ mapped' = mapped
      BY <1>1, StoreFacts
    <2>2. Result' = Result
      BY <2>1, SameResult DEF Served
    <2> QED BY <2>1, <2>2, Hidden DEF Up
  <1>2. CASE Take
    <2>1. /\ wpc = "locked" /\ wpc' = "process" /\ completed' = completed
          /\ req' = req /\ hstate' = hstate /\ mapped' = mapped
      BY <1>2 DEF Take, GoTo, guestVars
    <2>2. Result' = Result
      BY <2>1, SameResult DEF Served
    <2> QED BY <2>1, <2>2, Hidden DEF Up
  <1>3. CASE Wake \/ NotStopped \/ LockQueue \/ Idle
    <2>1. /\ wpc \in {"wait", "woken", "lock", "locked"} /\ wpc' \in {"wait", "woken", "lock", "locked"}
          /\ completed' = completed /\ req' = req /\ hstate' = hstate /\ mapped' = mapped
      BY <1>3 DEF Wake, NotStopped, LockQueue, Idle, GoTo, guestVars, workVars
    <2>2. Result' = Result
      BY <2>1, SameResult DEF Served
    <2> QED BY <2>1, <2>2, Hidden DEF Up
  <1>4. CASE LockCompleted
    <2>1. /\ wpc = "store" /\ wpc' = "storing" /\ outcome' = outcome /\ cur' = cur
          /\ completed' = completed /\ req' = req /\ hstate' = hstate /\ mapped' = mapped
      BY <1>4 DEF LockCompleted, GoTo, guestVars, workVars
    <2>2. Result' = Result
      BY <2>1, SameResult DEF Served
    <2> QED BY <2>1, <2>2, Hidden DEF Up
  <1>5. CASE Flush \/ RequestStop \/ SetFlag \/ Join \/ UNCHANGED vars
    <2>1. /\ wpc' = wpc /\ outcome' = outcome /\ cur' = cur
          /\ completed' = completed /\ req' = req /\ hstate' = hstate /\ mapped' = mapped
      BY <1>5 DEF Flush, RequestStop, SetFlag, Join, guestVars, workVars, vars
    <2>2. Result' = Result
      BY <2>1, SameResult DEF Served
    <2> QED BY <2>1, <2>2, Hidden DEF Up
  <1> QED BY <1>1, <1>2, <1>3, <1>4, <1>5

\* IoSystem implements IoService: behind queue, thread, locks and retries the
\* guest kernel sees every request served once, answered once with the status
\* it was served with, and its id free again only then.
THEOREM Implements == Spec => ImplementsService
  <1>1. Init => Service!Init
    <2> SUFFICES ASSUME Init PROVE Service!Init
      OBVIOUS
    <2> QED BY DEF Init, Service!Init, Service!NoRequest, NoRequest
  <1>2. IInv /\ [Next]_vars => [Service!Next]_(Service!vars)
    <2> SUFFICES ASSUME IInv, [Next]_vars
                 PROVE  Service!Next \/ UNCHANGED Service!vars
      OBVIOUS
    <2>1. Service!Request = Request
      BY DEF Service!Request, Request, Service!Kinds, Kinds
    <2>2. CASE \E i \in Ids, r \in Request : Submit(i, r)
      BY <2>1, <2>2, SubmitRefines DEF Service!Next
    <2>3. CASE \E i \in Ids : Query(i)
      BY <2>3, QueryRefines DEF Service!Next
    <2>4. CASE Process
      BY <2>4, ProcessRefines DEF Service!Next
    <2>5. CASE Exit
      BY <2>5, ExitRefines DEF Service!Next
    <2>6. CASE \/ Flush \/ Wake \/ NotStopped \/ LockQueue \/ Idle \/ Take \/ LockCompleted \/ Store
               \/ RequestStop \/ SetFlag \/ Join \/ UNCHANGED vars
      BY <2>6, OthersHidden
    <2> QED BY <2>2, <2>3, <2>4, <2>5, <2>6 DEF Next, Worker
  <1> QED BY <1>1, <1>2, Invariant, PTL DEF Spec, ImplementsService, Service!Spec
=============================================================================
