-------------------------- MODULE TraceCacheProofs --------------------------
(***************************************************************************)
(* Proofs about TraceCache, for every layout of the guest code and every   *)
(* size of the caches.                                                     *)
(***************************************************************************)
EXTENDS TraceCache, TLAPS

-----------------------------------------------------------------------------
(* What linking and unlinking do to the arena.                            *)

\* The arena and slot table a step works on, once the new trace is in.
Arena(n) == [1 .. n -> Trace]
SlotTable(n) == [Slots -> 0 .. n]

\* Lookup returns nothing, or a trace of the arena that starts at the EIP.
LEMMA LookupFinds ==
    ASSUME NEW n \in Nat, NEW pl \in Arena(n), NEW sl \in SlotTable(n), NEW e \in Entries
    PROVE  /\ Lookup(pl, sl, e) \in 0 .. n
           /\ Lookup(pl, sl, e) # 0 => /\ Lookup(pl, sl, e) \in 1 .. n
                                       /\ pl[Lookup(pl, sl, e)].eip = e
  <1>1. SlotOf(e) \in Slots
    BY DEF Slots
  <1>2. sl[SlotOf(e)] \in 0 .. n
    BY <1>1 DEF SlotTable
  <1>3. QED
    BY <1>2 DEF Lookup

\* Everything of a trace that linking leaves alone.
SameCode(t, u) ==
    /\ t.eip = u.eip /\ t.page = u.page /\ t.paging = u.paging
    /\ t.built = u.built /\ t.exits = u.exits /\ t.valid = u.valid

\* pl2 is pl1 with some more exits of trace i patched to live traces.
MoreLinks(pl1, pl2, sl, n, i) ==
    /\ pl2 \in Arena(n)
    /\ \A j \in 1 .. n : SameCode(pl2[j], pl1[j])
    /\ \A j \in 1 .. n : \A e \in Entries :
          \/ pl2[j].link[e] = pl1[j].link[e]
          \/ /\ j = i
             /\ LiveAt(pl1, sl, e)
             /\ pl2[j].link[e] = Lookup(pl1, sl, e)

\* try_link_trace only patches exits, and only to traces that are live.
LEMMA TryLinkAdds ==
    ASSUME NEW n \in Nat, NEW pl \in Arena(n), NEW sl \in SlotTable(n), NEW i \in 1 .. n
    PROVE  MoreLinks(pl, TryLink(pl, sl, i), sl, n, i)
  <1> DEFINE lk == [e \in Entries |-> IF Linkable(pl, sl, i, e) THEN Lookup(pl, sl, e)
                                                             ELSE pl[i].link[e]]
             pl2 == TryLink(pl, sl, i)
  <1>1. pl[i] \in Trace /\ pl[i].link \in [Entries -> Nat]
    BY DEF Arena, Trace
  <1>2. lk \in [Entries -> Nat]
    <2> SUFFICES ASSUME NEW e \in Entries
                 PROVE  (IF Linkable(pl, sl, i, e) THEN Lookup(pl, sl, e)
                                                   ELSE pl[i].link[e]) \in Nat
      OBVIOUS
    <2>1. Lookup(pl, sl, e) \in 0 .. n
      BY LookupFinds
    <2>2. QED
      BY <1>1, <2>1
  <1>3. pl2 = [pl EXCEPT ![i].link = lk]
    BY DEF TryLink
  <1>4. pl2[i] = [pl[i] EXCEPT !.link = lk] /\ \A j \in 1 .. n : j # i => pl2[j] = pl[j]
    BY <1>3 DEF Arena
  <1> HIDE DEF lk
  <1>5. pl2[i] \in Trace /\ SameCode(pl2[i], pl[i]) /\ pl2[i].link = lk
    BY <1>1, <1>2, <1>4 DEF Trace, SameCode
  <1>6. pl2 \in Arena(n)
    BY <1>3, <1>4, <1>5 DEF Arena
  <1>7. \A j \in 1 .. n : SameCode(pl2[j], pl[j])
    BY <1>4, <1>5 DEF SameCode
  <1>8. ASSUME NEW j \in 1 .. n, NEW e \in Entries
        PROVE  \/ pl2[j].link[e] = pl[j].link[e]
               \/ j = i /\ LiveAt(pl, sl, e) /\ pl2[j].link[e] = Lookup(pl, sl, e)
    <2>1. CASE j # i
      BY <2>1, <1>4
    <2>2. CASE j = i
      BY <2>2, <1>5 DEF lk, Linkable
    <2>3. QED
      BY <2>1, <2>2
  <1>9. QED
    BY <1>6, <1>7, <1>8 DEF MoreLinks

\* pl2 is pl1 with more exits of valid traces patched to live traces.
Relinked(pl1, pl2, sl, n) ==
    /\ pl2 \in Arena(n)
    /\ \A j \in 1 .. n : SameCode(pl2[j], pl1[j])
    /\ \A j \in 1 .. n : \A e \in Entries :
          \/ pl2[j].link[e] = pl1[j].link[e]
          \/ /\ pl1[j].valid
             /\ LiveAt(pl1, sl, e)
             /\ pl2[j].link[e] = Lookup(pl1, sl, e)

\* A trace that is found live is found live at the same place after linking.
LEMMA SameCodeSameLookup ==
    ASSUME NEW n \in Nat, NEW pl1 \in Arena(n), NEW pl2 \in Arena(n),
           NEW sl \in SlotTable(n), NEW e \in Entries,
           \A j \in 1 .. n : SameCode(pl2[j], pl1[j])
    PROVE  /\ Lookup(pl2, sl, e) = Lookup(pl1, sl, e)
           /\ LiveAt(pl2, sl, e) <=> LiveAt(pl1, sl, e)
  <1>1. SlotOf(e) \in Slots
    BY DEF Slots
  <1>2. sl[SlotOf(e)] \in 0 .. n
    BY <1>1 DEF SlotTable
  <1>3. Lookup(pl2, sl, e) = Lookup(pl1, sl, e)
    BY <1>2 DEF Lookup, SameCode
  <1>4. QED
    BY <1>2, <1>3, LookupFinds DEF LiveAt, SameCode

\* The linking of one iteration of the run loop: this trace's exits first,
\* then those of the previous trace if it is still valid.
LEMMA DispatchRelinks ==
    ASSUME NEW n \in Nat, NEW pl \in Arena(n), NEW sl \in SlotTable(n),
           NEW i \in 1 .. n, NEW pv \in 0 .. n, pl[i].valid
    PROVE  Relinked(pl, LinkPrev(TryLink(pl, sl, i), sl, pv), sl, n)
  <1> DEFINE pl1 == TryLink(pl, sl, i)
             pl2 == LinkPrev(pl1, sl, pv)
  <1>1. MoreLinks(pl, pl1, sl, n, i)
    BY TryLinkAdds
  <1> HIDE DEF pl1
  <1>2. pl1 \in Arena(n) /\ \A j \in 1 .. n : SameCode(pl1[j], pl[j])
    BY <1>1 DEF MoreLinks
  <1>3. Relinked(pl, pl1, sl, n)
    BY <1>1 DEF MoreLinks, Relinked
  <1>4. ASSUME pv # 0 /\ pl1[pv].valid PROVE Relinked(pl, pl2, sl, n)
    <2>1. pl2 = TryLink(pl1, sl, pv) /\ pv \in 1 .. n
      BY <1>4 DEF LinkPrev
    <2>2. MoreLinks(pl1, pl2, sl, n, pv)
      BY <2>1, <1>2, TryLinkAdds
    <2> HIDE DEF pl2
    <2>3. \A j \in 1 .. n : SameCode(pl2[j], pl[j])
      BY <2>2, <1>2 DEF MoreLinks, SameCode
    <2>4. \A e \in Entries : /\ Lookup(pl1, sl, e) = Lookup(pl, sl, e)
                             /\ LiveAt(pl1, sl, e) <=> LiveAt(pl, sl, e)
      BY <1>2, SameCodeSameLookup
    <2>5. pl[pv].valid
      BY <1>2, <1>4, <2>1 DEF SameCode
    <2>6. ASSUME NEW j \in 1 .. n, NEW e \in Entries
          PROVE  \/ pl2[j].link[e] = pl[j].link[e]
                 \/ /\ pl[j].valid
                    /\ LiveAt(pl, sl, e)
                    /\ pl2[j].link[e] = Lookup(pl, sl, e)
      <3>1. \/ pl2[j].link[e] = pl1[j].link[e]
            \/ j = pv /\ LiveAt(pl1, sl, e) /\ pl2[j].link[e] = Lookup(pl1, sl, e)
        BY <2>2 DEF MoreLinks
      <3>2. \/ pl1[j].link[e] = pl[j].link[e]
            \/ pl[j].valid /\ LiveAt(pl, sl, e) /\ pl1[j].link[e] = Lookup(pl, sl, e)
        BY <1>3 DEF Relinked
      <3>3. QED
        BY <3>1, <3>2, <2>4, <2>5
    <2>7. QED
      BY <2>2, <2>3, <2>6 DEF MoreLinks, Relinked
  <1>5. ASSUME ~(pv # 0 /\ pl1[pv].valid) PROVE Relinked(pl, pl2, sl, n)
    BY <1>5, <1>3 DEF LinkPrev
  <1>6. QED
    BY <1>4, <1>5 DEF pl1

\* unlink_trace and valid = false, for all victims of a write fault.
LEMMA UnlinkedShape ==
    ASSUME pool \in Arena(used), used \in Nat, NEW V \in SUBSET (1 .. used)
    PROVE  /\ Unlinked(V) \in Arena(used)
           /\ \A i \in 1 .. used :
                 /\ Unlinked(V)[i].eip = pool[i].eip
                 /\ Unlinked(V)[i].page = pool[i].page
                 /\ Unlinked(V)[i].paging = pool[i].paging
                 /\ Unlinked(V)[i].built = pool[i].built
                 /\ Unlinked(V)[i].valid <=> (pool[i].valid /\ i \notin V)
                 /\ \A e \in Entries : Unlinked(V)[i].link[e] # 0 =>
                       /\ Unlinked(V)[i].link[e] = pool[i].link[e]
                       /\ i \notin V
                       /\ pool[i].valid => \A j \in V : pool[j].eip # e
  <1> DEFINE none == [e \in Entries |-> 0]
             cut(i) == [e \in Entries |->
                          IF pool[i].valid /\ \E j \in V : pool[j].eip = e
                          THEN 0 ELSE pool[i].link[e]]
             U(i) == IF i \in V THEN [pool[i] EXCEPT !.link = none, !.valid = FALSE]
                                ELSE [pool[i] EXCEPT !.link = cut(i)]
  <1>1. \A i \in 1 .. used : Unlinked(V)[i] = U(i)
    BY DEF Unlinked
  <1>2. none \in [Entries -> Nat]
    OBVIOUS
  <1>3. ASSUME NEW i \in 1 .. used
        PROVE  /\ U(i) \in Trace
               /\ U(i).eip = pool[i].eip /\ U(i).page = pool[i].page
               /\ U(i).paging = pool[i].paging /\ U(i).built = pool[i].built
               /\ U(i).valid <=> (pool[i].valid /\ i \notin V)
               /\ U(i).link = IF i \in V THEN none ELSE cut(i)
    <2>1. pool[i] \in Trace
      BY DEF Arena
    <2>2. cut(i) \in [Entries -> Nat]
      BY <2>1 DEF Trace
    <2>3. CASE i \in V
      <3> DEFINE u == [pool[i] EXCEPT !.link = none, !.valid = FALSE]
      <3> HIDE DEF none
      <3>1. /\ u \in Trace /\ u.eip = pool[i].eip /\ u.page = pool[i].page
            /\ u.paging = pool[i].paging /\ u.built = pool[i].built /\ u.valid = FALSE /\ u.link = none
        BY <2>1, <1>2 DEF Trace
      <3>2. QED
        BY <3>1, <2>3
    <2>4. CASE i \notin V
      <3> DEFINE c == cut(i)
                 u == [pool[i] EXCEPT !.link = c]
      <3>1. c \in [Entries -> Nat]
        BY <2>2
      <3> HIDE DEF c
      <3>2. /\ u \in Trace /\ u.eip = pool[i].eip /\ u.page = pool[i].page
            /\ u.paging = pool[i].paging /\ u.built = pool[i].built /\ u.valid = pool[i].valid /\ u.link = c
        BY <2>1, <3>1 DEF Trace
      <3>3. QED
        BY <3>2, <2>4, <2>1 DEF c, Trace
    <2>5. QED
      BY <2>3, <2>4
  <1>4. Unlinked(V) \in Arena(used)
    <2> HIDE DEF U
    <2>1. \A i \in 1 .. used : Unlinked(V)[i] \in Trace
      BY <1>1, <1>3
    <2>2. QED
      BY <2>1 DEF Unlinked, Arena
  <1>5. ASSUME NEW i \in 1 .. used, NEW e \in Entries, Unlinked(V)[i].link[e] # 0
        PROVE  /\ Unlinked(V)[i].link[e] = pool[i].link[e]
               /\ i \notin V
               /\ pool[i].valid => \A j \in V : pool[j].eip # e
    <2>1. Unlinked(V)[i].link = IF i \in V THEN none ELSE cut(i)
      BY <1>1, <1>3
    <2>2. i \notin V
      BY <2>1, <1>5
    <2>3. Unlinked(V)[i].link[e] = cut(i)[e]
      BY <2>1, <2>2
    <2>4. QED
      BY <2>2, <2>3, <1>5
  <1> HIDE DEF U
  <1>6. \A i \in 1 .. used :
           /\ Unlinked(V)[i].eip = pool[i].eip /\ Unlinked(V)[i].page = pool[i].page
           /\ Unlinked(V)[i].paging = pool[i].paging /\ Unlinked(V)[i].built = pool[i].built
           /\ Unlinked(V)[i].valid <=> (pool[i].valid /\ i \notin V)
    BY <1>1, <1>3
  <1>7. QED
    BY <1>4, <1>5, <1>6

-----------------------------------------------------------------------------
(* Type correctness.                                                      *)

Frames == Pages \cup {NoPage}

\* A translation gives a frame or nothing.
LEMMA TranslateType ==
    ASSUME TypeOK, NEW v \in Pages
    PROVE  Translate(v) \in Frames
  BY DEF TypeOK, Translate, Frames

\* A filled TLB is a TLB.
LEMMA TlbFillType ==
    ASSUME NEW t \in [Pages -> Frames], NEW v \in Pages, NEW p \in Frames
    PROVE  TlbFill(t, v, p) \in [Pages -> Frames]
  BY DEF TlbFill, Frames

\* So is the TLB after the fetch of the run loop, and after that of the builder.
LEMMA FetchTlbType ==
    ASSUME TypeOK
    PROVE  FetchTlb \in [Pages -> Frames] /\ BuildTlb \in [Pages -> Frames]
  <1>1. PageOf(eip) \in Pages /\ Frame \in Frames
    BY TranslateType, CodeAssumption DEF TypeOK, Frame
  <1>2. FetchTlb \in [Pages -> Frames]
    BY <1>1, TlbFillType DEF FetchTlb, TypeOK, Frames
  <1>3. BuildTlb \in [Pages -> Frames]
    BY <1>1, <1>2, TlbFillType, TranslateType DEF BuildTlb, ReadsNext
  <1>4. QED
    BY <1>2, <1>3

\* The trace the builder returns, when the fetch translates.
LEMMA NewTraceType ==
    ASSUME TypeOK, Frame # NoPage
    PROVE  NewTrace(eip) \in Trace
  <1>1. PageOf(eip) \in Pages /\ eip \in Entries /\ Frame \in Pages
    BY TranslateType, CodeAssumption DEF TypeOK, Frame, Frames
  <1>2. Exits[eip][mem[Frame]] \in SUBSET Entries
    BY <1>1, CodeAssumption DEF TypeOK
  <1> DEFINE b == [p \in Pages |-> IF p \in FramesOf(eip) THEN mem[p] ELSE NotFetched]
             l == [x \in Entries |-> 0]
  <1>3. b \in [Pages -> Contents \cup {NotFetched}]
    BY DEF TypeOK
  <1>4. l \in [Entries -> Nat]
    OBVIOUS
  <1>5. pg \in BOOLEAN
    BY PagingAssumption DEF TypeOK
  <1>6. NewTrace(eip) = [eip |-> eip, page |-> PageOf(eip), paging |-> pg, built |-> b,
                         exits |-> Exits[eip][mem[Frame]], link |-> l, valid |-> TRUE]
    BY DEF NewTrace, Frame
  <1> HIDE DEF b, l
  <1>7. QED
    BY <1>1, <1>2, <1>3, <1>4, <1>5, <1>6 DEF Trace

\* The arena and the slot table right after a build, before linking.
LEMMA GrownType ==
    ASSUME TypeOK, Frame # NoPage
    PROVE  /\ GrownPool \in Arena(used + 1) /\ GrownSlots \in SlotTable(used + 1)
           /\ FreshPool \in Arena(1) /\ FreshSlots \in SlotTable(1)
  <1>1. NewTrace(eip) \in Trace
    BY NewTraceType
  <1>2. SlotOf(eip) \in Slots
    BY DEF TypeOK, Slots
  <1>3. GrownPool \in Arena(used + 1)
    BY <1>1 DEF GrownPool, Arena, TypeOK
  <1>4. GrownSlots \in SlotTable(used + 1)
    BY <1>2 DEF GrownSlots, SlotTable, TypeOK
  <1>5. FreshPool \in Arena(1)
    BY <1>1 DEF FreshPool, Arena
  <1>6. FreshSlots \in SlotTable(1)
    BY DEF FreshSlots, SlotTable
  <1>7. QED
    BY <1>3, <1>4, <1>5, <1>6

\* The three ways the run loop enters a trace: cached, built, flushed.
LEMMA EnterCachedLinks ==
    ASSUME TypeOK, EnterCached
    PROVE  /\ Relinked(pool, pool', slot, used)
           /\ slot' = slot /\ used' = used
           /\ run' \in 1 .. used /\ prev' = run'
           /\ pool[run'].valid
  <1> DEFINE i == Lookup(pool, slot, eip)
  <1>1. pool \in Arena(used) /\ slot \in SlotTable(used) /\ used \in Nat /\ prev \in 0 .. used
    BY DEF TypeOK, Arena, SlotTable
  <1>2. i \in 1 .. used /\ pool[i].valid
    BY <1>1, LookupFinds DEF EnterCached, LiveAt, TypeOK
  <1>3. pool' = LinkPrev(TryLink(pool, slot, i), slot, prev)
    BY DEF EnterCached, Dispatch
  <1> HIDE DEF i
  <1>4. Relinked(pool, pool', slot, used)
    BY <1>1, <1>2, <1>3, DispatchRelinks
  <1>5. QED
    BY <1>2, <1>4 DEF EnterCached, Dispatch, i

\* A new trace is added to the arena, entered and linked.
LEMMA EnterBuiltLinks ==
    ASSUME TypeOK, EnterBuilt
    PROVE  /\ Relinked(GrownPool, pool', GrownSlots, used + 1)
           /\ slot' = GrownSlots /\ used' = used + 1
           /\ run' = used + 1 /\ prev' = used + 1
           /\ GrownPool[used + 1] = NewTrace(eip)
  <1> DEFINE n == used + 1
  <1>1. /\ GrownPool \in Arena(n) /\ GrownSlots \in SlotTable(n)
        /\ n \in Nat /\ n \in 1 .. n /\ prev \in 0 .. n
    BY GrownType DEF EnterBuilt, TypeOK
  <1>2. GrownPool[n] = NewTrace(eip) /\ GrownPool[n].valid
    BY DEF GrownPool, NewTrace, TypeOK
  <1>3. pool' = LinkPrev(TryLink(GrownPool, GrownSlots, n), GrownSlots, prev)
    BY DEF EnterBuilt, Dispatch
  <1>4. Relinked(GrownPool, pool', GrownSlots, n)
    BY <1>1, <1>2, <1>3, DispatchRelinks
  <1>5. QED
    BY <1>2, <1>4 DEF EnterBuilt, Dispatch

\* After a flush it is the only one.
LEMMA EnterFlushedLinks ==
    ASSUME TypeOK, EnterAfterFlush
    PROVE  /\ Relinked(FreshPool, pool', FreshSlots, 1)
           /\ slot' = FreshSlots /\ used' = 1
           /\ run' = 1 /\ prev' = 1
           /\ FreshPool[1] = NewTrace(eip)
  <1>1. FreshPool \in Arena(1) /\ FreshSlots \in SlotTable(1)
    BY GrownType DEF EnterAfterFlush
  <1>2. FreshPool[1] = NewTrace(eip) /\ FreshPool[1].valid
    BY DEF FreshPool, NewTrace
  <1>3. pool' = LinkPrev(TryLink(FreshPool, FreshSlots, 1), FreshSlots, 0)
    BY DEF EnterAfterFlush, Dispatch
  <1>4. Relinked(FreshPool, pool', FreshSlots, 1)
    BY <1>1, <1>2, <1>3, DispatchRelinks
  <1>5. QED
    BY <1>2, <1>4 DEF EnterAfterFlush, Dispatch

\* A store to a frame: the cache after the write-protection fault, if any.
LEMMA WriteFrameShape ==
    ASSUME TypeOK, NEW p \in RamPages, NEW c \in Contents, WriteFrame(p, c)
    PROVE  /\ pool' \in Arena(used) /\ used' = used /\ slot' = slot
           /\ mem' \in [Pages -> Contents] /\ mem' = [mem EXCEPT ![p] = c]
           /\ prot' = prot \ {p}
           /\ \/ p \notin prot /\ pool' = pool
              \/ /\ p \in prot
                 /\ Victims(p) \in SUBSET (1 .. used)
                 /\ pool' = Unlinked(Victims(p))
  <1>1. pool \in Arena(used) /\ used \in Nat
    BY DEF TypeOK, Arena
  <1>2. Victims(p) \in SUBSET (1 .. used)
    BY DEF Victims
  <1>3. Unlinked(Victims(p)) \in Arena(used)
    BY <1>1, <1>2, UnlinkedShape
  <1>4. pool' \in Arena(used)
    BY <1>1, <1>3 DEF WriteFrame
  <1>5. mem' \in [Pages -> Contents] /\ mem' = [mem EXCEPT ![p] = c]
    BY PagesAssumption DEF WriteFrame, TypeOK
  <1>6. QED
    BY <1>2, <1>4, <1>5 DEF WriteFrame

\* The initial states are well typed.
LEMMA InitType == Init => TypeOK
  <1> SUFFICES ASSUME Init PROVE TypeOK
    OBVIOUS
  <1>1. /\ mem \in [Pages -> Contents] /\ pg \in PgModes /\ cr3 \in Spaces
        /\ eip \in Entries /\ prot \subseteq RamPages
        /\ used \in 0 .. ArenaCap /\ prev \in 0 .. used /\ run \in 0 .. used
    BY ArenaAssumption DEF Init
  <1>2. pt \in [Spaces -> [Pages -> Pages \cup {NoPage}]]
    BY DEF Init
  <1>3. tlb \in [Pages -> Pages \cup {NoPage}]
    BY DEF Init, EmptyTlb
  <1>4. pool \in [1 .. used -> Trace]
    BY DEF Init
  <1>5. slot \in [Slots -> 0 .. used]
    BY DEF Init
  <1>6. QED
    BY <1>1, <1>2, <1>3, <1>4, <1>5 DEF TypeOK

\* The strengthening of LinksAreLive: only a valid trace has patched exits
\* (invalidation resets those of the trace itself), and each leads to a
\* valid trace that starts at the EIP of the exit.  TypeOK needs it too,
\* because following an exit makes the trace behind it the running one.
LinkInv ==
    \A i \in 1 .. used : \A e \in Entries : pool[i].link[e] # 0 =>
        /\ pool[i].valid
        /\ pool[i].link[e] \in 1 .. used
        /\ pool[pool[i].link[e]].eip = e
        /\ pool[pool[i].link[e]].valid

\* Every step keeps the types.
LEMMA NextType == TypeOK /\ LinkInv /\ [Next]_vars => TypeOK'
  <1> SUFFICES ASSUME TypeOK, LinkInv, [Next]_vars PROVE TypeOK'
    OBVIOUS
  <1> USE DEF memVars, cacheVars
  <1>1. CASE EnterCached
    <2>1. pool' \in Arena(used)
      BY <1>1, EnterCachedLinks DEF Relinked
    <2>2. QED
      BY <1>1, <2>1, EnterCachedLinks, FetchTlbType DEF EnterCached, TypeOK, Arena, Frames
  <1>2. CASE EnterBuilt
    <2>1. pool' \in Arena(used + 1) /\ slot' \in SlotTable(used + 1)
      BY <1>2, EnterBuiltLinks, GrownType DEF Relinked, EnterBuilt
    <2>2. prot' \subseteq RamPages
      BY <1>2 DEF EnterBuilt, Protect, TypeOK
    <2>3. used' = used + 1 /\ used' \in 1 .. ArenaCap /\ run' = used' /\ prev' = used'
      BY <1>2, EnterBuiltLinks, ArenaAssumption DEF EnterBuilt, TypeOK
    <2>4. tlb' \in [Pages -> Frames]
      BY <1>2, FetchTlbType DEF EnterBuilt
    <2>5. QED
      BY <1>2, <2>1, <2>2, <2>3, <2>4 DEF EnterBuilt, TypeOK, Arena, SlotTable, Frames
  <1>3. CASE EnterAfterFlush
    <2>1. pool' \in Arena(1) /\ slot' \in SlotTable(1)
      BY <1>3, EnterFlushedLinks, GrownType DEF Relinked, EnterAfterFlush
    <2>2. prot' \subseteq RamPages
      BY <1>3 DEF EnterAfterFlush, Protect, TypeOK
    <2>3. used' = 1 /\ run' = 1 /\ prev' = 1 /\ 1 \in 0 .. ArenaCap
      BY <1>3, EnterFlushedLinks, ArenaAssumption
    <2>4. tlb' \in [Pages -> Frames]
      BY <1>3, FetchTlbType DEF EnterAfterFlush
    <2>5. QED
      BY <1>3, <2>1, <2>2, <2>3, <2>4 DEF EnterAfterFlush, TypeOK, Arena, SlotTable, Frames
  <1>4. ASSUME NEW e \in Entries, FetchFault(e) PROVE TypeOK'
    BY <1>4 DEF FetchFault, TypeOK
  <1>5. ASSUME NEW e \in Entries, BreakChain(e) PROVE TypeOK'
    BY <1>5 DEF BreakChain, TypeOK
  <1>6. ASSUME NEW e \in Entries, LeaveToRunLoop(e) PROVE TypeOK'
    BY <1>6 DEF LeaveToRunLoop, TypeOK
  <1>7. ASSUME NEW v \in Pages, NEW f \in Pages, NEW c \in Contents, GuestStore(v, f, c)
        PROVE TypeOK'
    <2>1. f \in RamPages /\ f \in Frames
      BY <1>7 DEF GuestStore, Frames
    <2>2. tlb' \in [Pages -> Frames]
      BY <1>7, <2>1, TlbFillType DEF GuestStore, TypeOK, Frames
    <2>3. WriteFrame(f, c)
      BY <1>7 DEF GuestStore
    <2>4. QED
      BY <2>1, <2>2, <2>3, WriteFrameShape DEF WriteFrame, TypeOK, Arena, Frames
  <1>8. ASSUME NEW p \in Pages, NEW c \in Contents, HostStore(p, c) PROVE TypeOK'
    <2>1. p \in RamPages /\ WriteFrame(p, c) /\ tlb' = tlb
      BY <1>8 DEF HostStore
    <2>2. QED
      BY <2>1, WriteFrameShape DEF WriteFrame, TypeOK, Arena
  <1>9. ASSUME NEW s \in Spaces, NEW v \in Pages, NEW f \in Pages \cup {NoPage},
               EditPte(s, v, f)
        PROVE TypeOK'
    <2>1. pt' \in [Spaces -> [Pages -> Pages \cup {NoPage}]]
      BY <1>9 DEF EditPte, TypeOK
    <2>2. QED
      BY <1>9, <2>1 DEF EditPte, TypeOK
  <1>10. ASSUME NEW e \in Entries, NEW v \in Pages, Invlpg(e, v) PROVE TypeOK'
    BY <1>10 DEF Invlpg, Privileged, TypeOK
  <1>11. ASSUME NEW e \in Entries, NEW s \in Spaces, MovCr3(e, s) PROVE TypeOK'
    BY <1>11 DEF MovCr3, Privileged, TypeOK, EmptyTlb
  <1>12. ASSUME NEW e \in Entries, NEW b \in PgModes, MovCr0(e, b) PROVE TypeOK'
    <2>1. used' = 0 /\ run' = 0 /\ prev' = 0 /\ 0 \in 0 .. ArenaCap
      BY <1>12, ArenaAssumption DEF MovCr0, Privileged
    <2>2. pool' \in [1 .. used' -> Trace]
      BY <1>12, <2>1 DEF MovCr0
    <2>3. slot' \in [Slots -> 0 .. used']
      BY <1>12, <2>1 DEF MovCr0
    <2>4. QED
      BY <1>12, <2>1, <2>2, <2>3 DEF MovCr0, Privileged, TypeOK, EmptyTlb
  <1>13. CASE UNCHANGED vars
    BY <1>13 DEF vars, TypeOK
  <1>14. ASSUME NEW e \in Entries, FollowLink(e) PROVE TypeOK'
    <2>1. run' \in 1 .. used
      BY <1>14 DEF FollowLink, LinkInv, TypeOK
    <2>2. QED
      BY <1>14, <2>1 DEF FollowLink, TypeOK
  <1>15. ASSUME NEW v \in Pages, Load(v) PROVE TypeOK'
    <2>1. tlb' \in [Pages -> Frames]
      BY <1>15, TranslateType, TlbFillType DEF Load, TypeOK, Frames
    <2>2. QED
      BY <1>15, <2>1 DEF Load, TypeOK, Frames
  <1>16. QED
    BY <1>1, <1>2, <1>3, <1>4, <1>5, <1>6, <1>7, <1>8, <1>9, <1>10, <1>11, <1>12, <1>13, <1>14,
       <1>15
       DEF Next, RunLoop, LeaveTrace

-----------------------------------------------------------------------------
(* Block linking.                                                         *)

\* Linking keeps the invariant, in whatever arena it works.
LinksOf(pl, n) ==
    \A i \in 1 .. n : \A e \in Entries : pl[i].link[e] # 0 =>
        /\ pl[i].valid
        /\ pl[i].link[e] \in 1 .. n
        /\ pl[pl[i].link[e]].eip = e
        /\ pl[pl[i].link[e]].valid

\* try_link_trace patches to live traces only, so the links stay live.
LEMMA RelinkedKeepsLinks ==
    ASSUME NEW n \in Nat, NEW pl1 \in Arena(n), NEW pl2, NEW sl \in SlotTable(n),
           LinksOf(pl1, n), Relinked(pl1, pl2, sl, n)
    PROVE  LinksOf(pl2, n)
  <1> SUFFICES ASSUME NEW i \in 1 .. n, NEW e \in Entries, pl2[i].link[e] # 0
               PROVE  /\ pl2[i].valid
                      /\ pl2[i].link[e] \in 1 .. n
                      /\ pl2[pl2[i].link[e]].eip = e
                      /\ pl2[pl2[i].link[e]].valid
    BY DEF LinksOf
  <1>1. \A j \in 1 .. n : SameCode(pl2[j], pl1[j])
    BY DEF Relinked
  <1>2. CASE pl2[i].link[e] = pl1[i].link[e]
    BY <1>1, <1>2 DEF LinksOf, SameCode
  <1>3. CASE pl1[i].valid /\ LiveAt(pl1, sl, e) /\ pl2[i].link[e] = Lookup(pl1, sl, e)
    <2>1. Lookup(pl1, sl, e) \in 1 .. n /\ pl1[Lookup(pl1, sl, e)].eip = e
      BY <1>3, LookupFinds DEF LiveAt
    <2>2. QED
      BY <1>1, <1>3, <2>1 DEF LiveAt, SameCode
  <1>4. QED
    BY <1>2, <1>3 DEF Relinked

\* A new trace has no patched exit.
LEMMA NewTraceUnlinked ==
    \A e \in Entries : NewTrace(eip).link[e] = 0
  BY DEF NewTrace

\* A write fault unlinks the victims by EIP: no exit into a victim is left.
LEMMA WriteKeepsLinks ==
    ASSUME TypeOK, LinkInv, NEW p \in RamPages, NEW c \in Contents, WriteFrame(p, c)
    PROVE  LinkInv'
  <1> DEFINE V == Victims(p)
             U == Unlinked(V)
  <1>1. CASE pool' = pool
    BY <1>1, WriteFrameShape DEF LinkInv
  <1>2. CASE V \in SUBSET (1 .. used) /\ pool' = U
    <2> HIDE DEF V
    <2>1. pool \in Arena(used) /\ used \in Nat
      BY DEF TypeOK, Arena
    <2>2. \A i \in 1 .. used :
             /\ U[i].eip = pool[i].eip
             /\ U[i].valid <=> (pool[i].valid /\ i \notin V)
             /\ \A e \in Entries : U[i].link[e] # 0 =>
                   /\ U[i].link[e] = pool[i].link[e]
                   /\ i \notin V
                   /\ pool[i].valid => \A j \in V : pool[j].eip # e
      BY <1>2, <2>1, UnlinkedShape
    <2> HIDE DEF U
    <2>3. used' = used
      BY WriteFrameShape
    <2>4. ASSUME NEW i \in 1 .. used, NEW e \in Entries, U[i].link[e] # 0
          PROVE  /\ U[i].valid
                 /\ U[i].link[e] \in 1 .. used
                 /\ U[U[i].link[e]].eip = e
                 /\ U[U[i].link[e]].valid
      <3> DEFINE k == pool[i].link[e]
      <3>1. U[i].link[e] = k /\ i \notin V /\ (pool[i].valid => \A j \in V : pool[j].eip # e)
        BY <2>2, <2>4
      <3>2. pool[i].valid /\ k \in 1 .. used /\ pool[k].eip = e /\ pool[k].valid
        BY <2>4, <3>1 DEF LinkInv
      <3>3. k \notin V
        BY <3>1, <3>2
      <3>4. QED
        BY <2>2, <3>1, <3>2, <3>3
    <2>5. QED
      BY <1>2, <2>3, <2>4 DEF LinkInv
  <1>3. QED
    BY <1>1, <1>2, WriteFrameShape

\* Every step keeps the links live: entering, write faults and flushes matter.
LEMMA NextLinks == TypeOK /\ LinkInv /\ [Next]_vars => LinkInv'
  <1> SUFFICES ASSUME TypeOK, LinkInv, [Next]_vars PROVE LinkInv'
    OBVIOUS
  <1> USE DEF cacheVars
  <1>0. pool \in Arena(used) /\ slot \in SlotTable(used) /\ used \in Nat /\ LinksOf(pool, used)
    BY DEF TypeOK, Arena, SlotTable, LinkInv, LinksOf
  <1>1. CASE EnterCached
    <2>1. LinksOf(pool', used) /\ used' = used
      BY <1>0, <1>1, EnterCachedLinks, RelinkedKeepsLinks
    <2>2. QED
      BY <2>1 DEF LinksOf, LinkInv
  <1>2. CASE EnterBuilt
    <2> DEFINE n == used + 1
    <2>1. GrownPool \in Arena(n) /\ GrownSlots \in SlotTable(n) /\ n \in Nat
      BY <1>2, GrownType DEF EnterBuilt, TypeOK
    <2>2. \A i \in 1 .. used : GrownPool[i] = pool[i]
      BY <1>0 DEF GrownPool
    <2>3. \A e \in Entries : GrownPool[n].link[e] = 0
      BY <1>2, EnterBuiltLinks, NewTraceUnlinked
    <2>4. LinksOf(GrownPool, n)
      BY <1>0, <2>2, <2>3 DEF LinksOf
    <2>5. Relinked(GrownPool, pool', GrownSlots, n) /\ used' = n
      BY <1>2, EnterBuiltLinks
    <2> HIDE DEF n
    <2>6. LinksOf(pool', n)
      BY <2>1, <2>4, <2>5, RelinkedKeepsLinks
    <2>7. QED
      BY <2>5, <2>6 DEF LinksOf, LinkInv
  <1>3. CASE EnterAfterFlush
    <2>1. FreshPool \in Arena(1) /\ FreshSlots \in SlotTable(1)
      BY <1>3, GrownType DEF EnterAfterFlush
    <2>2. \A e \in Entries : FreshPool[1].link[e] = 0
      BY <1>3, EnterFlushedLinks, NewTraceUnlinked
    <2>3. LinksOf(FreshPool, 1)
      BY <2>2 DEF LinksOf
    <2>4. LinksOf(pool', 1) /\ used' = 1
      BY <1>3, <2>1, <2>3, EnterFlushedLinks, RelinkedKeepsLinks
    <2>5. QED
      BY <2>4 DEF LinksOf, LinkInv
  <1>4. ASSUME NEW v \in Pages, NEW f \in Pages, NEW c \in Contents, GuestStore(v, f, c)
        PROVE LinkInv'
    BY <1>4, WriteKeepsLinks DEF GuestStore
  <1>5. ASSUME NEW p \in Pages, NEW c \in Contents, HostStore(p, c) PROVE LinkInv'
    BY <1>5, WriteKeepsLinks DEF HostStore
  <1>6. ASSUME NEW e \in Entries, NEW b \in PgModes, MovCr0(e, b) PROVE LinkInv'
    BY <1>6 DEF MovCr0, LinkInv
  <1>7. CASE UNCHANGED <<pool, used>>
    BY <1>7 DEF LinkInv
  <1>8. QED
    BY <1>1, <1>2, <1>3, <1>4, <1>5, <1>6, <1>7
       DEF Next, RunLoop, LeaveTrace, FetchFault, BreakChain, FollowLink, LeaveToRunLoop,
           EditPte, Load, Invlpg, MovCr3, vars

\* The type invariant of the cache, for any layout of the guest code.
THEOREM TypeCorrect == Spec => []TypeOK
  <1>1. Init => TypeOK /\ LinkInv
    BY InitType DEF Init, LinkInv
  <1>2. TypeOK /\ LinkInv /\ [Next]_vars => (TypeOK /\ LinkInv)'
    BY NextType, NextLinks
  <1>3. QED
    BY <1>1, <1>2, PTL DEF Spec

\* unlink_trace, the flush and clear() never leave a patched exit into code
\* that is gone: whatever the layout of the guest code and its page tables,
\* the exits of every trace that can execute lead to live traces.
THEOREM LinksStayLive == Spec => []LinksAreLive
  <1>1. Init => TypeOK /\ LinkInv
    BY InitType DEF Init, LinkInv
  <1>2. TypeOK /\ LinkInv /\ [Next]_vars => (TypeOK /\ LinkInv)'
    BY NextType, NextLinks
  <1>3. LinkInv => LinksAreLive
    BY DEF LinkInv, LinksAreLive
  <1>4. QED
    BY <1>1, <1>2, <1>3, PTL DEF Spec

-----------------------------------------------------------------------------
(* Self-modifying code, for the layouts the design has in mind: no two     *)
(* entry points share a slot of the trace cache, no instruction runs       *)
(* across the end of a page, and code pages are mapped flat or not at all. *)

FlatLayout ==
    /\ \A d, e \in Entries : SlotOf(d) = SlotOf(e) => d = e
    /\ Straddling = {}
    /\ \A v \in Pages : MayMap[v] \subseteq {v, NoPage}

\* A valid trace is in its slot, was read from the frame that has the number
\* of its page, agrees with memory, and its frame is protected.
GoodTrace(i, t, sl, m, pr) ==
    /\ sl[SlotOf(t.eip)] = i
    /\ t.page = PageOf(t.eip)
    /\ \A p \in Pages : t.built[p] # NotFetched =>
          /\ p = PageOf(t.eip)
          /\ t.built[p] = m[p]
          /\ p \in RamPages => p \in pr

CodeInv ==
    /\ \A v \in Pages : tlb[v] \in {v, NoPage}
    /\ \A s \in Spaces : \A v \in Pages : pt[s][v] \in {v, NoPage}
    /\ \A i \in 1 .. used : pool[i].valid => GoodTrace(i, pool[i], slot, mem, prot)

\* Under flat page tables a page is its own frame or absent.
LEMMA FlatTranslation ==
    ASSUME TypeOK, CodeInv, NEW v \in Pages
    PROVE  Translate(v) \in {v, NoPage}
  BY DEF CodeInv, Translate, TypeOK

\* A fill of the TLB keeps it flat.
LEMMA FlatTlbFill ==
    ASSUME NEW t \in [Pages -> Frames], \A q \in Pages : t[q] \in {q, NoPage},
           NEW v \in Pages, NEW p \in {v, NoPage}
    PROVE  \A q \in Pages : TlbFill(t, v, p)[q] \in {q, NoPage}
  BY DEF TlbFill

\* So do the fetches of the run loop and the builder.
LEMMA FlatFetchTlb ==
    ASSUME FlatLayout, TypeOK, CodeInv
    PROVE  \A q \in Pages : FetchTlb[q] \in {q, NoPage} /\ BuildTlb[q] \in {q, NoPage}
  <1>1. PageOf(eip) \in Pages /\ Frame \in {PageOf(eip), NoPage}
    BY FlatTranslation, CodeAssumption DEF Frame, TypeOK
  <1>2. tlb \in [Pages -> Frames] /\ \A q \in Pages : tlb[q] \in {q, NoPage}
    BY DEF TypeOK, CodeInv, Frames
  <1>3. \A q \in Pages : FetchTlb[q] \in {q, NoPage}
    BY <1>1, <1>2, FlatTlbFill DEF FetchTlb
  <1>4. BuildTlb = FetchTlb
    BY DEF BuildTlb, ReadsNext, FlatLayout
  <1>5. QED
    BY <1>3, <1>4

\* What the builder returns is good once its slot and its protection are set.
LEMMA NewTraceGood ==
    ASSUME FlatLayout, TypeOK, CodeInv, Frame # NoPage, NEW n, NEW sl,
           sl[SlotOf(eip)] = n
    PROVE  GoodTrace(n, NewTrace(eip), sl, mem, Protect(Frame))
  <1>1. PageOf(eip) \in Pages /\ eip \in Entries /\ Frame = PageOf(eip)
    BY FlatTranslation, CodeAssumption DEF Frame, TypeOK
  <1>2. ~ReadsNext(eip)
    BY DEF ReadsNext, FlatLayout
  <1>3. FramesOf(eip) \subseteq {PageOf(eip)}
    BY <1>1, <1>2 DEF FramesOf, Frame
  <1>4. /\ NewTrace(eip).eip = eip /\ NewTrace(eip).page = PageOf(eip)
        /\ NewTrace(eip).built =
              [p \in Pages |-> IF p \in FramesOf(eip) THEN mem[p] ELSE NotFetched]
    BY DEF NewTrace
  <1>5. \A p \in Pages : NewTrace(eip).built[p] # NotFetched =>
           /\ p = PageOf(eip) /\ NewTrace(eip).built[p] = mem[p]
           /\ p \in RamPages => p \in Protect(Frame)
    BY <1>1, <1>3, <1>4 DEF Protect
  <1>6. QED
    BY <1>4, <1>5 DEF GoodTrace

\* Whether a trace is good depends on what was translated, not on its links.
LEMMA SameCodeGood ==
    ASSUME NEW i, NEW t, NEW u, NEW sl, NEW m, NEW pr, SameCode(u, t)
    PROVE  GoodTrace(i, t, sl, m, pr) => GoodTrace(i, u, sl, m, pr)
  BY DEF SameCode, GoodTrace

\* The heart of the argument: a store to a protected frame finds every valid
\* trace of the frame in the slots it scans, and a store to an unprotected
\* frame has no valid trace to find.
LEMMA WriteKeepsGood ==
    ASSUME FlatLayout, TypeOK, CodeInv, NEW p \in RamPages, NEW c \in Contents,
           WriteFrame(p, c)
    PROVE  \A i \in 1 .. used : pool'[i].valid =>
              /\ pool[i].valid
              /\ pool[i].built[p] = NotFetched
              /\ GoodTrace(i, pool'[i], slot', mem', prot')
  <1> SUFFICES ASSUME NEW i \in 1 .. used, pool'[i].valid
               PROVE  /\ pool[i].valid
                      /\ pool[i].built[p] = NotFetched
                      /\ GoodTrace(i, pool'[i], slot', mem', prot')
    OBVIOUS
  <1>1. pool \in Arena(used) /\ used \in Nat /\ pool[i].eip \in Entries
    <2>1. pool \in Arena(used) /\ used \in Nat /\ pool[i] \in Trace
      BY DEF TypeOK, Arena
    <2>2. QED
      BY <2>1 DEF Trace
  <1>2. /\ pool[i].valid /\ pool'[i].eip = pool[i].eip
        /\ pool'[i].page = pool[i].page /\ pool'[i].built = pool[i].built
        /\ p \in prot => i \notin Victims(p)
    BY <1>1, WriteFrameShape, UnlinkedShape
  <1>3. GoodTrace(i, pool[i], slot, mem, prot)
    BY <1>2 DEF CodeInv
  <1>4. pool[i].built[p] = NotFetched
    <2> SUFFICES ASSUME pool[i].built[p] # NotFetched PROVE FALSE
      OBVIOUS
    <2>1. p \in Pages /\ p = PageOf(pool[i].eip) /\ p \in prot /\ pool[i].page = p
      BY <1>3, PagesAssumption DEF GoodTrace
    <2> DEFINE x == SlotOf(pool[i].eip)
    <2>2. x \in Slots /\ slot[x] = i /\ i # 0
      BY <1>1, <1>3 DEF GoodTrace, Slots
    <2>3. x[1] = L1(p)
      BY <2>1 DEF SlotOf
    <2> HIDE DEF x
    <2>4. i \in Victims(p)
      BY <1>2, <2>1, <2>2, <2>3 DEF Victims
    <2>5. QED
      BY <1>2, <2>1, <2>4
  <1>5. \A q \in Pages : q # p => mem'[q] = mem[q] /\ (q \in prot => q \in prot')
    BY WriteFrameShape DEF TypeOK
  <1>6. GoodTrace(i, pool'[i], slot', mem', prot')
    BY <1>2, <1>3, <1>4, <1>5, WriteFrameShape DEF GoodTrace
  <1>7. QED
    BY <1>2, <1>4, <1>6

\* Linking does not change what was translated.
LEMMA RelinkedKeepsGood ==
    ASSUME NEW n, NEW pl1, NEW pl2, NEW sl, NEW m, NEW pr, NEW lsl,
           Relinked(pl1, pl2, lsl, n),
           \A i \in 1 .. n : pl1[i].valid => GoodTrace(i, pl1[i], sl, m, pr)
    PROVE  \A i \in 1 .. n : pl2[i].valid => GoodTrace(i, pl2[i], sl, m, pr)
  <1> SUFFICES ASSUME NEW i \in 1 .. n, pl2[i].valid
               PROVE  GoodTrace(i, pl2[i], sl, m, pr)
    OBVIOUS
  <1>1. SameCode(pl2[i], pl1[i])
    BY DEF Relinked
  <1>2. GoodTrace(i, pl1[i], sl, m, pr)
    BY <1>1 DEF SameCode
  <1>3. QED
    BY <1>1, <1>2, SameCodeGood

\* There is no trace at the start, and the tables are flat.
LEMMA InitCode == FlatLayout /\ Init => CodeInv
  <1> SUFFICES ASSUME FlatLayout, Init PROVE CodeInv
    OBVIOUS
  <1>1. \A s \in Spaces : \A v \in Pages : pt[s][v] \in MayMap[v]
    BY DEF Init
  <1>2. QED
    BY <1>1 DEF Init, CodeInv, FlatLayout, EmptyTlb

\* Every step keeps valid traces in their slots, current and protected.
LEMMA NextCode ==
    ASSUME FlatLayout, TypeOK, CodeInv, [Next]_vars
    PROVE  CodeInv'
  <1> USE DEF memVars, cacheVars
  <1>1. CASE EnterCached
    <2>1. \A i \in 1 .. used : pool'[i].valid => GoodTrace(i, pool'[i], slot, mem, prot)
      BY <1>1, EnterCachedLinks, RelinkedKeepsGood DEF CodeInv
    <2>2. QED
      BY <1>1, <2>1, EnterCachedLinks, FlatFetchTlb DEF EnterCached, CodeInv
  <1>2. CASE EnterBuilt
    <2> DEFINE n == used + 1
    <2>1. used \in Nat /\ slot \in SlotTable(used) /\ SlotOf(eip) \in Slots /\ eip \in Entries
      BY DEF TypeOK, SlotTable, Slots
    <2>2. GrownSlots[SlotOf(eip)] = n
      BY <2>1 DEF GrownSlots, SlotTable
    <2>3. /\ slot' = GrownSlots /\ used' = n /\ mem' = mem /\ pt' = pt
          /\ tlb' = BuildTlb /\ prot' = Protect(Frame) /\ Frame # NoPage
      BY <1>2, EnterBuiltLinks DEF EnterBuilt
    <2>4. ASSUME NEW i \in 1 .. n, GrownPool[i].valid
          PROVE  GoodTrace(i, GrownPool[i], GrownSlots, mem, Protect(Frame))
      <3>1. CASE i = n
        <4>1. GrownPool[n] = NewTrace(eip)
          BY <1>2, EnterBuiltLinks
        <4>2. QED
          BY <2>2, <2>3, <3>1, <4>1, NewTraceGood
      <3>2. CASE i # n
        <4>1. i \in 1 .. used /\ GrownPool[i] = pool[i]
          BY <2>1, <3>2 DEF GrownPool
        <4>2. pool[i].valid /\ GoodTrace(i, pool[i], slot, mem, prot)
          BY <2>4, <4>1 DEF CodeInv
        <4>3. pool[i] \in Trace
          BY <4>1 DEF TypeOK
        <4>4. pool[i].eip \in Entries
          BY <4>3 DEF Trace
        <4>5. SlotOf(pool[i].eip) # SlotOf(eip)
          <5> SUFFICES ASSUME SlotOf(pool[i].eip) = SlotOf(eip) PROVE FALSE
            OBVIOUS
          <5>1. pool[i].eip = eip
            BY <2>1, <4>4 DEF FlatLayout
          <5>2. slot[SlotOf(eip)] = i /\ i # 0
            BY <4>1, <4>2, <5>1 DEF GoodTrace
          <5>3. LiveAt(pool, slot, eip)
            BY <2>1, <4>2, <5>1, <5>2 DEF LiveAt, Lookup
          <5>4. QED
            BY <1>2, <5>3 DEF EnterBuilt
        <4>6. SlotOf(pool[i].eip) \in Slots
          BY <4>4 DEF Slots
        <4>7. GrownSlots[SlotOf(pool[i].eip)] = slot[SlotOf(pool[i].eip)]
          BY <2>1, <4>5, <4>6 DEF GrownSlots, SlotTable
        <4>8. QED
          BY <4>1, <4>2, <4>7 DEF GoodTrace, Protect
      <3>3. QED
        BY <3>1, <3>2
    <2>5. Relinked(GrownPool, pool', GrownSlots, n)
      BY <1>2, EnterBuiltLinks
    <2> HIDE DEF n
    <2>6. \A i \in 1 .. n : pool'[i].valid =>
              GoodTrace(i, pool'[i], GrownSlots, mem, Protect(Frame))
      BY <2>4, <2>5, RelinkedKeepsGood
    <2>7. QED
      BY <2>3, <2>6, FlatFetchTlb DEF CodeInv
  <1>3. CASE EnterAfterFlush
    <2>1. eip \in Entries /\ SlotOf(eip) \in Slots
      BY DEF TypeOK, Slots
    <2>2. FreshSlots[SlotOf(eip)] = 1
      BY <2>1 DEF FreshSlots
    <2>3. /\ slot' = FreshSlots /\ used' = 1 /\ mem' = mem /\ pt' = pt
          /\ tlb' = BuildTlb /\ prot' = Protect(Frame) /\ Frame # NoPage
      BY <1>3, EnterFlushedLinks DEF EnterAfterFlush
    <2>4. FreshPool[1] = NewTrace(eip) /\ Relinked(FreshPool, pool', FreshSlots, 1)
      BY <1>3, EnterFlushedLinks
    <2>5. \A i \in 1 .. 1 : GoodTrace(i, FreshPool[i], FreshSlots, mem, Protect(Frame))
      BY <2>2, <2>3, <2>4, NewTraceGood
    <2>6. \A i \in 1 .. 1 : pool'[i].valid =>
              GoodTrace(i, pool'[i], FreshSlots, mem, Protect(Frame))
      BY <2>4, <2>5, RelinkedKeepsGood
    <2>7. QED
      BY <2>3, <2>6, FlatFetchTlb DEF CodeInv
  <1>4. ASSUME NEW v \in Pages, NEW f \in Pages, NEW c \in Contents, GuestStore(v, f, c)
        PROVE CodeInv'
    <2>1. f \in RamPages /\ WriteFrame(f, c)
          /\ (tlb' = tlb \/ (f \in {v, NoPage} /\ tlb' = TlbFill(tlb, v, f)))
      BY <1>4 DEF GuestStore, CodeInv, TypeOK
    <2>2. \A q \in Pages : tlb'[q] \in {q, NoPage}
      BY <2>1, FlatTlbFill DEF CodeInv, TypeOK, Frames
    <2>3. \A i \in 1 .. used : pool'[i].valid => GoodTrace(i, pool'[i], slot', mem', prot')
      BY <2>1, WriteKeepsGood
    <2>4. used' = used /\ pt' = pt
      BY <2>1 DEF WriteFrame
    <2>5. QED
      BY <2>2, <2>3, <2>4 DEF CodeInv
  <1>5. ASSUME NEW p \in Pages, NEW c \in Contents, HostStore(p, c) PROVE CodeInv'
    <2>1. p \in RamPages /\ WriteFrame(p, c) /\ tlb' = tlb
      BY <1>5 DEF HostStore
    <2>2. \A i \in 1 .. used : pool'[i].valid => GoodTrace(i, pool'[i], slot', mem', prot')
      BY <2>1, WriteKeepsGood
    <2>3. used' = used /\ pt' = pt
      BY <2>1 DEF WriteFrame
    <2>4. QED
      BY <2>1, <2>2, <2>3 DEF CodeInv
  <1>6. ASSUME NEW s \in Spaces, NEW v \in Pages, NEW f \in Pages \cup {NoPage},
               EditPte(s, v, f)
        PROVE  CodeInv'
    <2>1. f \in {v, NoPage}
      BY <1>6 DEF EditPte, FlatLayout
    <2>2. pt' = [pt EXCEPT ![s][v] = f] /\ UNCHANGED <<tlb, pool, used, slot, mem, prot>>
      BY <1>6 DEF EditPte
    <2>3. \A t \in Spaces : \A w \in Pages : pt'[t][w] \in {w, NoPage}
      BY <2>1, <2>2 DEF CodeInv, TypeOK
    <2>4. QED
      BY <2>2, <2>3 DEF CodeInv
  <1>7. ASSUME NEW e \in Entries, NEW v \in Pages, Invlpg(e, v) PROVE CodeInv'
    BY <1>7 DEF Invlpg, CodeInv, TypeOK
  <1>8. ASSUME NEW e \in Entries, NEW s \in Spaces, MovCr3(e, s) PROVE CodeInv'
    BY <1>8 DEF MovCr3, CodeInv, EmptyTlb
  <1>9. ASSUME NEW e \in Entries, NEW b \in PgModes, MovCr0(e, b) PROVE CodeInv'
    BY <1>9 DEF MovCr0, CodeInv, EmptyTlb
  <1>10. CASE UNCHANGED <<tlb, pt, pool, used, slot, mem, prot>>
    BY <1>10 DEF CodeInv
  <1>11. ASSUME NEW v \in Pages, Load(v) PROVE CodeInv'
    <2>1. Translate(v) \in {v, NoPage} /\ tlb' = TlbFill(tlb, v, Translate(v))
      BY <1>11, FlatTranslation DEF Load
    <2>2. \A q \in Pages : tlb'[q] \in {q, NoPage}
      BY <2>1, FlatTlbFill DEF CodeInv, TypeOK, Frames
    <2>3. QED
      BY <1>11, <2>2 DEF Load, CodeInv
  <1>12. QED
    BY <1>1, <1>2, <1>3, <1>4, <1>5, <1>6, <1>7, <1>8, <1>9, <1>10, <1>11
       DEF Next, RunLoop, LeaveTrace, FetchFault, BreakChain, FollowLink, LeaveToRunLoop, vars

\* Whatever way a trace is entered, it is a valid one.
LEMMA EntersValid ==
    ASSUME TypeOK, LinkInv, Next, run' # run, run' # 0
    PROVE  run' \in 1 .. used' /\ pool'[run'].valid
  <1>1. CASE EnterCached
    BY <1>1, EnterCachedLinks DEF Relinked, SameCode
  <1>2. CASE EnterBuilt
    <2>1. Relinked(GrownPool, pool', GrownSlots, used + 1) /\ run' = used + 1 /\ used' = used + 1
          /\ GrownPool[used + 1] = NewTrace(eip)
      BY <1>2, EnterBuiltLinks
    <2>2. NewTrace(eip).valid
      BY DEF NewTrace
    <2>3. used + 1 \in 1 .. used + 1
      BY DEF TypeOK
    <2>4. QED
      BY <2>1, <2>2, <2>3 DEF Relinked, SameCode
  <1>3. CASE EnterAfterFlush
    <2>1. Relinked(FreshPool, pool', FreshSlots, 1) /\ run' = 1 /\ used' = 1
          /\ FreshPool[1] = NewTrace(eip)
      BY <1>3, EnterFlushedLinks
    <2>2. NewTrace(eip).valid
      BY DEF NewTrace
    <2>3. QED
      BY <2>1, <2>2 DEF Relinked, SameCode
  <1>4. ASSUME NEW e \in Entries, FollowLink(e)
        PROVE  run' \in 1 .. used' /\ pool'[run'].valid
    <2>1. run \in 1 .. used /\ run' = pool[run].link[e] /\ pool[run].link[e] # 0
          /\ UNCHANGED <<pool, used>>
      BY <1>4 DEF FollowLink, TypeOK, cacheVars
    <2>2. QED
      BY <2>1 DEF LinkInv
  <1>5. CASE run' = run \/ run' = 0
    BY <1>5
  <1>6. QED
    BY <1>1, <1>2, <1>3, <1>4, <1>5
       DEF Next, RunLoop, LeaveTrace, FetchFault, BreakChain, LeaveToRunLoop, GuestStore,
           HostStore, WriteFrame, EditPte, Load, Invlpg, MovCr3, MovCr0, Privileged

\* The inductive invariant behind the theorems about self-modifying code.
FullInv == TypeOK /\ LinkInv /\ CodeInv

\* The three parts together are an invariant.
LEMMA FullInvHolds == ASSUME FlatLayout PROVE Spec => []FullInv
  <1>1. Init => FullInv
    BY InitType, InitCode DEF Init, LinkInv, FullInv
  <1>2. FullInv /\ [Next]_vars => FullInv'
    BY NextType, NextLinks, NextCode DEF FullInv
  <1>3. QED
    BY <1>1, <1>2, PTL DEF Spec

\* Page protection covers every frame some live trace was translated from.
THEOREM CodeStaysProtected == ASSUME FlatLayout PROVE Spec => []LiveCodeProtected
  <1>1. FullInv => LiveCodeProtected
    BY PagesAssumption DEF FullInv, CodeInv, GoodTrace, LiveCodeProtected
  <1>2. QED
    BY <1>1, FullInvHolds, PTL

\* In a flat layout no stale code is ever entered: each time control enters a
\* trace, the guest bytes the trace was translated from are in memory.
THEOREM NoStaleCode == ASSUME FlatLayout PROVE Spec => EntersCurrentBytes
  <1>1. FullInv /\ FullInv' /\ [Next]_vars =>
            [(run' # run /\ run' # 0) => BytesCurrent(pool[run])']_vars
    <2> SUFFICES ASSUME FullInv, FullInv', Next, run' # run, run' # 0
                 PROVE  BytesCurrent(pool[run])'
      OBVIOUS
    <2>1. run' \in 1 .. used' /\ pool'[run'].valid
      BY EntersValid DEF FullInv
    <2>2. GoodTrace(run', pool'[run'], slot', mem', prot')
      BY <2>1 DEF FullInv, CodeInv
    <2>3. QED
      BY <2>2 DEF GoodTrace, BytesCurrent
  <1>2. QED
    BY <1>1, FullInvHolds, PTL DEF Spec, EntersCurrentBytes

\* In a flat layout the write fault invalidates all traces on the page.
THEOREM WriteFaultInvalidates == ASSUME FlatLayout PROVE Spec => SmcInvalidatesPage
  <1> DEFINE A == \A p \in prot \ prot' : \A i \in 1 .. used :
                     pool[i].built[p] # NotFetched => ~pool'[i].valid
  <1>1. FullInv /\ [Next]_vars => [A]_vars
    <2> SUFFICES ASSUME FullInv, Next PROVE A
      OBVIOUS
    <2>1. ASSUME NEW f \in RamPages, NEW c \in Contents, WriteFrame(f, c) PROVE A
      <3>1. prot' = prot \ {f}
        BY <2>1 DEF WriteFrame
      <3>2. \A i \in 1 .. used : pool'[i].valid => pool[i].built[f] = NotFetched
        BY <2>1, WriteKeepsGood DEF FullInv
      <3>3. QED
        BY <3>1, <3>2
    <2>2. CASE prot \subseteq prot'
      BY <2>2
    <2>3. QED
      BY <2>1, <2>2
         DEF Next, RunLoop, LeaveTrace, FetchFault, BreakChain, FollowLink, LeaveToRunLoop,
             GuestStore, HostStore, EditPte, Load, Invlpg, MovCr3, MovCr0, EnterCached, EnterBuilt,
             EnterAfterFlush, Protect, cacheVars
  <1>2. QED
    BY <1>1, FullInvHolds, PTL DEF Spec, SmcInvalidatesPage

-----------------------------------------------------------------------------
(* The mapping, for any layout of the guest code.  Neither CR3, INVLPG nor *)
(* a store to a page table empties the trace cache, so what can be promised *)
(* is promised for page tables that agree for good: a page has one frame,  *)
(* its own or another one, or none.                                        *)

FixedMapping == \A v \in Pages : \E f : MayMap[v] = {f}

FixedFrame(v) == CHOOSE f : MayMap[v] = {f}

\* Where page v and the code at e are when paging is b.
FrameWhen(b, v) == IF b THEN FixedFrame(v) ELSE v
FramesWhen(b, e) ==
    ({FrameWhen(b, PageOf(e))} \ {NoPage})
        \cup {f \in RamPages : /\ e \in Straddling /\ PageOf(e) + 1 \in Pages
                               /\ FrameWhen(b, PageOf(e)) \in RamPages
                               /\ f = FrameWhen(b, PageOf(e) + 1)}

\* The trace was emitted for paging mode b and read where its code is then.
MadeFor(t, b) ==
    /\ t.paging = b
    /\ {p \in Pages : t.built[p] # NotFetched} = FramesWhen(b, t.eip)

TablesInv ==
    /\ \A v \in Pages : tlb[v] \in {FixedFrame(v), NoPage}
    /\ \A s \in Spaces : \A v \in Pages : pt[s][v] = FixedFrame(v)

\* MOV CR0 changes the mode and empties the arena in one step, so every trace
\* of the arena, valid or not, was made for the mode in force.
MapInv == TablesInv /\ \A i \in 1 .. used : MadeFor(pool[i], pg)

\* Under fixed page tables the TLB and the walk give the same frame.
LEMMA FixedTranslation ==
    ASSUME TypeOK, TablesInv, NEW v \in Pages
    PROVE  Translate(v) = FrameWhen(pg, v)
  <1>1. tlb[v] \in {FixedFrame(v), NoPage} /\ pt[cr3][v] = FixedFrame(v)
    BY DEF TablesInv, TypeOK
  <1>2. QED
    BY <1>1 DEF Translate, FrameWhen

\* The code at e is where it would be found in any other address space.
LEMMA FixedFrames ==
    ASSUME TypeOK, TablesInv, NEW e \in Entries
    PROVE  FramesOf(e) = FramesWhen(pg, e)
  <1>1. PageOf(e) \in Pages /\ Translate(PageOf(e)) = FrameWhen(pg, PageOf(e))
    BY FixedTranslation, CodeAssumption
  <1>2. PageOf(e) + 1 \in Pages =>
            Translate(PageOf(e) + 1) = FrameWhen(pg, PageOf(e) + 1)
    BY FixedTranslation
  <1>3. QED
    BY <1>1, <1>2 DEF FramesOf, ReadsNext, FramesWhen

\* A fill of the TLB with the frame a walk finds.
LEMMA FixedTlbFill ==
    ASSUME NEW t \in [Pages -> Frames], \A q \in Pages : t[q] \in {FixedFrame(q), NoPage},
           NEW v \in Pages, NEW p, pg => p \in {FixedFrame(v), NoPage}
    PROVE  \A q \in Pages : TlbFill(t, v, p)[q] \in {FixedFrame(q), NoPage}
  BY DEF TlbFill

\* The fetch of the run loop, and of the builder, fill it so.
LEMMA FixedFetchTlb ==
    ASSUME TypeOK, TablesInv
    PROVE  \A q \in Pages : FetchTlb[q] \in {FixedFrame(q), NoPage}
                            /\ BuildTlb[q] \in {FixedFrame(q), NoPage}
  <1>1. PageOf(eip) \in Pages /\ Frame = FrameWhen(pg, PageOf(eip))
    BY FixedTranslation, CodeAssumption DEF Frame, TypeOK
  <1>2. tlb \in [Pages -> Frames] /\ \A q \in Pages : tlb[q] \in {FixedFrame(q), NoPage}
    BY DEF TypeOK, TablesInv, Frames
  <1>3. pg => Frame \in {FixedFrame(PageOf(eip)), NoPage}
    BY <1>1 DEF FrameWhen
  <1>4. \A q \in Pages : FetchTlb[q] \in {FixedFrame(q), NoPage}
    BY <1>1, <1>2, <1>3, FixedTlbFill DEF FetchTlb
  <1>5. ASSUME ReadsNext(eip) PROVE \A q \in Pages : BuildTlb[q] \in {FixedFrame(q), NoPage}
    <2> DEFINE w == PageOf(eip) + 1
    <2>1. w \in Pages /\ Translate(w) = FrameWhen(pg, w)
      BY <1>5, FixedTranslation DEF ReadsNext
    <2>2. pg => Translate(w) \in {FixedFrame(w), NoPage}
      BY <2>1 DEF FrameWhen
    <2>3. BuildTlb = TlbFill(FetchTlb, w, Translate(w))
      BY <1>5 DEF BuildTlb
    <2>4. FetchTlb \in [Pages -> Frames]
      BY FetchTlbType
    <2> HIDE DEF w
    <2>5. QED
      BY <1>4, <2>1, <2>2, <2>3, <2>4, FixedTlbFill
  <1>6. QED
    BY <1>4, <1>5 DEF BuildTlb

\* A trace that is built now is made for the mode in force.
LEMMA NewTraceMadeFor ==
    ASSUME TypeOK, TablesInv
    PROVE  MadeFor(NewTrace(eip), pg)
  <1>1. eip \in Entries /\ FramesOf(eip) = FramesWhen(pg, eip)
    BY FixedFrames DEF TypeOK
  <1>2. /\ NewTrace(eip).eip = eip /\ NewTrace(eip).paging = pg
        /\ NewTrace(eip).built =
              [p \in Pages |-> IF p \in FramesOf(eip) THEN mem[p] ELSE NotFetched]
    BY DEF NewTrace
  <1>3. \A p \in Pages : mem[p] # NotFetched
    BY CodeAssumption DEF TypeOK
  <1>4. FramesOf(eip) \subseteq Pages
    <2>1. Translate(PageOf(eip)) \in Frames
      BY TranslateType, CodeAssumption DEF TypeOK
    <2>2. QED
      BY <2>1, PagesAssumption DEF FramesOf, Frames
  <1>5. {p \in Pages : NewTrace(eip).built[p] # NotFetched} = FramesOf(eip)
    BY <1>2, <1>3, <1>4
  <1>6. QED
    BY <1>1, <1>2, <1>5 DEF MadeFor

\* Linking leaves what a trace was made for.
LEMMA RelinkedMadeFor ==
    ASSUME NEW n, NEW pl1, NEW pl2, NEW sl, NEW b, Relinked(pl1, pl2, sl, n),
           \A i \in 1 .. n : MadeFor(pl1[i], b)
    PROVE  \A i \in 1 .. n : MadeFor(pl2[i], b)
  BY DEF Relinked, SameCode, MadeFor

\* So does the fault handler of a protected page.
LEMMA WriteMadeFor ==
    ASSUME TypeOK, MapInv, NEW p \in RamPages, NEW c \in Contents, WriteFrame(p, c)
    PROVE  \A i \in 1 .. used' : MadeFor(pool'[i], pg')
  <1>1. pool \in Arena(used) /\ used \in Nat
    BY DEF TypeOK, Arena
  <1>2. \A i \in 1 .. used : /\ pool'[i].eip = pool[i].eip
                             /\ pool'[i].paging = pool[i].paging
                             /\ pool'[i].built = pool[i].built
    BY <1>1, WriteFrameShape, UnlinkedShape
  <1>3. used' = used /\ pg' = pg
    BY DEF WriteFrame
  <1>4. QED
    BY <1>2, <1>3 DEF MapInv, MadeFor

\* Page tables start as they stay, with an empty arena.
LEMMA InitMap == FixedMapping /\ Init => MapInv
  <1> SUFFICES ASSUME FixedMapping, Init PROVE MapInv
    OBVIOUS
  <1>1. \A v \in Pages : MayMap[v] = {FixedFrame(v)}
    BY DEF FixedMapping, FixedFrame
  <1>2. \A s \in Spaces : \A v \in Pages : pt[s][v] = FixedFrame(v)
    BY <1>1 DEF Init
  <1>3. QED
    BY <1>2 DEF Init, MapInv, TablesInv, EmptyTlb

\* Every step keeps the tables fixed and the traces made for the mode.
LEMMA NextMap ==
    ASSUME FixedMapping, TypeOK, MapInv, [Next]_vars
    PROVE  MapInv'
  <1> USE DEF memVars, cacheVars
  <1>0. TablesInv /\ \A v \in Pages : MayMap[v] = {FixedFrame(v)}
    BY DEF MapInv, FixedMapping, FixedFrame
  <1>1. CASE EnterCached
    <2>1. \A i \in 1 .. used : MadeFor(pool'[i], pg)
      BY <1>1, EnterCachedLinks, RelinkedMadeFor DEF MapInv
    <2>2. TablesInv'
      BY <1>0, <1>1, FixedFetchTlb DEF EnterCached, TablesInv
    <2>3. QED
      BY <1>1, <2>1, <2>2, EnterCachedLinks DEF EnterCached, MapInv
  <1>2. CASE EnterBuilt
    <2>1. TablesInv' /\ pg' = pg
      BY <1>0, <1>2, FixedFetchTlb DEF EnterBuilt, TablesInv
    <2>2. Relinked(GrownPool, pool', GrownSlots, used + 1) /\ used' = used + 1
          /\ GrownPool[used + 1] = NewTrace(eip)
      BY <1>2, EnterBuiltLinks
    <2>3. \A i \in 1 .. used + 1 : MadeFor(GrownPool[i], pg)
      <3>1. \A i \in 1 .. used : GrownPool[i] = pool[i]
        BY DEF GrownPool, TypeOK
      <3>2. \A i \in 1 .. used + 1 : i \in 1 .. used \/ i = used + 1
        BY DEF TypeOK
      <3>3. QED
        BY <1>0, <2>2, <3>1, <3>2, NewTraceMadeFor DEF MapInv
    <2>4. \A i \in 1 .. used + 1 : MadeFor(pool'[i], pg)
      BY <2>2, <2>3, RelinkedMadeFor
    <2>5. QED
      BY <2>1, <2>2, <2>4 DEF MapInv
  <1>3. CASE EnterAfterFlush
    <2>1. TablesInv' /\ pg' = pg
      BY <1>0, <1>3, FixedFetchTlb DEF EnterAfterFlush, TablesInv
    <2>2. Relinked(FreshPool, pool', FreshSlots, 1) /\ used' = 1
          /\ FreshPool[1] = NewTrace(eip)
      BY <1>3, EnterFlushedLinks
    <2>3. \A i \in 1 .. 1 : MadeFor(FreshPool[i], pg)
      BY <1>0, <2>2, NewTraceMadeFor
    <2>4. \A i \in 1 .. 1 : MadeFor(pool'[i], pg)
      BY <2>2, <2>3, RelinkedMadeFor
    <2>5. QED
      BY <2>1, <2>2, <2>4 DEF MapInv
  <1>4. ASSUME NEW v \in Pages, NEW f \in Pages, NEW c \in Contents, GuestStore(v, f, c)
        PROVE MapInv'
    <2>1. f \in RamPages /\ WriteFrame(f, c)
          /\ (tlb' = tlb \/ (f = FixedFrame(v) /\ tlb' = TlbFill(tlb, v, f)))
      BY <1>0, <1>4 DEF GuestStore, TablesInv, TypeOK
    <2>2. \A q \in Pages : tlb'[q] \in {FixedFrame(q), NoPage}
      BY <1>0, <2>1, FixedTlbFill DEF TablesInv, TypeOK, Frames
    <2>3. pt' = pt
      BY <2>1 DEF WriteFrame
    <2>4. QED
      BY <1>0, <2>1, <2>2, <2>3, WriteMadeFor DEF MapInv, TablesInv
  <1>5. ASSUME NEW p \in Pages, NEW c \in Contents, HostStore(p, c) PROVE MapInv'
    <2>1. p \in RamPages /\ WriteFrame(p, c) /\ tlb' = tlb
      BY <1>5 DEF HostStore
    <2>2. pt' = pt
      BY <2>1 DEF WriteFrame
    <2>3. QED
      BY <1>0, <2>1, <2>2, WriteMadeFor DEF MapInv, TablesInv
  <1>6. ASSUME NEW s \in Spaces, NEW v \in Pages, NEW f \in Pages \cup {NoPage},
               EditPte(s, v, f)
        PROVE  MapInv'
    <2>1. pt' = [pt EXCEPT ![s][v] = f] /\ UNCHANGED <<tlb, pool, used, pg>>
          /\ f = FixedFrame(v)
      BY <1>0, <1>6 DEF EditPte
    <2>2. \A t \in Spaces : \A w \in Pages : pt'[t][w] = FixedFrame(w)
      BY <1>0, <2>1 DEF TablesInv, TypeOK
    <2>3. QED
      BY <2>1, <2>2 DEF MapInv, TablesInv
  <1>7. ASSUME NEW e \in Entries, NEW v \in Pages, Invlpg(e, v) PROVE MapInv'
    BY <1>7 DEF Invlpg, MapInv, TablesInv, TypeOK
  <1>8. ASSUME NEW e \in Entries, NEW s \in Spaces, MovCr3(e, s) PROVE MapInv'
    BY <1>8 DEF MovCr3, MapInv, TablesInv, EmptyTlb
  <1>9. ASSUME NEW e \in Entries, NEW b \in PgModes, MovCr0(e, b) PROVE MapInv'
    BY <1>9 DEF MovCr0, MapInv, TablesInv, EmptyTlb
  <1>10. CASE UNCHANGED <<tlb, pt, pool, used, pg>>
    BY <1>10 DEF MapInv, TablesInv
  <1>11. ASSUME NEW v \in Pages, Load(v) PROVE MapInv'
    <2>1. pg /\ Translate(v) = FixedFrame(v) /\ tlb' = TlbFill(tlb, v, Translate(v))
      BY <1>0, <1>11, FixedTranslation DEF Load, FrameWhen
    <2>2. \A q \in Pages : tlb'[q] \in {FixedFrame(q), NoPage}
      BY <1>0, <2>1, FixedTlbFill DEF TablesInv, TypeOK, Frames
    <2>3. QED
      BY <1>11, <2>2 DEF Load, MapInv, TablesInv
  <1>12. QED
    BY <1>1, <1>2, <1>3, <1>4, <1>5, <1>6, <1>7, <1>8, <1>9, <1>10, <1>11
       DEF Next, RunLoop, LeaveTrace, FetchFault, BreakChain, FollowLink, LeaveToRunLoop, vars

\* A trace is entered only in the paging mode it was emitted for, and where
\* its code is: for page tables that do not change a translation, in every
\* address space, with paging switched on and off, for code that straddles
\* pages and for entries that share a slot.
THEOREM MappingHolds == ASSUME FixedMapping PROVE Spec => EntersCurrentMapping
  <1> DEFINE Inv == TypeOK /\ LinkInv /\ MapInv
             AllCurrent == \A i \in 1 .. used : MappingCurrent(pool[i])
  <1>1. Init => Inv
    BY InitType, InitMap DEF Init, LinkInv
  <1>2. Inv /\ [Next]_vars => Inv'
    BY NextType, NextLinks, NextMap
  <1>3. Inv => AllCurrent
    <2> SUFFICES ASSUME TypeOK, MapInv, NEW i \in 1 .. used PROVE MappingCurrent(pool[i])
      OBVIOUS
    <2>1. pool[i].eip \in Entries
      <3>1. pool[i] \in Trace
        BY DEF TypeOK
      <3>2. QED
        BY <3>1 DEF Trace
    <2>2. FramesOf(pool[i].eip) = FramesWhen(pg, pool[i].eip)
      BY <2>1, FixedFrames DEF MapInv
    <2>3. QED
      BY <2>2 DEF MapInv, MadeFor, MappingCurrent
  <1>4. Inv /\ AllCurrent' /\ [Next]_vars =>
            [(run' # run /\ run' # 0) => MappingCurrent(pool[run])']_vars
    <2> SUFFICES ASSUME Inv, AllCurrent', Next, run' # run, run' # 0
                 PROVE  MappingCurrent(pool[run])'
      OBVIOUS
    <2>1. run' \in 1 .. used'
      BY EntersValid
    <2>2. QED
      BY <2>1
  <1>5. QED
    BY <1>1, <1>2, <1>3, <1>4, PTL DEF Spec, EntersCurrentMapping

=============================================================================
