----------------------------- MODULE TraceCache -----------------------------
(***************************************************************************)
(* The translated-code cache of the x86 JIT: the trace cache, the trace    *)
(* arena, block linking, the write protection of code pages, and the part  *)
(* of Executor::run that looks up, builds, links and enters traces.        *)
(*                                                                         *)
(* A trace is a piece of host code translated from the guest code at one   *)
(* guest EIP.  The run loop looks the EIP up, builds the trace if there is *)
(* none, patches ("links") the exits of this trace and of the previous one *)
(* to traces that exist already, and jumps into it.  A patched exit jumps  *)
(* from one trace into the next without coming back to the run loop, so a  *)
(* trace whose guest bytes or whose address translation changed has to be  *)
(* taken out of the cache AND out of every patched exit.                   *)
(*                                                                         *)
(* Guest code is abstracted to what the cache can tell apart.  A physical  *)
(* page holds a "content"; the content decides where the traces that start *)
(* on the page can exit to.  The emitted host code of a trace is its index *)
(* in the arena: cc and arena are always reset together, and a link is the *)
(* index of the trace whose host_code the JMP was patched to.              *)
(***************************************************************************)
EXTENDS Naturals, FiniteSets

CONSTANTS
    Pages,       \* page numbers, guest-virtual and guest-physical alike
    RamPages,    \* the physical pages below GUEST_RAM_SIZE (others are ROM)
    PageSize,    \* bytes per page (4096 in the code)
    L1Size,      \* TraceCache::L1_SIZE, pages told apart by the first level
    Entries,     \* guest EIPs at which control can enter code
    Straddling,  \* the entries whose last instruction runs into the next page
    Contents,    \* what a page can hold
    Exits,       \* Exits[e][c]: the static exit targets of the code at e
    Spaces,      \* page directories (values of CR3)
    MayMap,      \* MayMap[v]: the frames a PTE for page v may name, or NoPage
    PgModes,     \* the values of CR0.PG the guest uses
    TlbSize,     \* SoftTlb::SIZE
    ArenaCap,    \* TraceArena::CAP
    NoPage,      \* no translation (translate_va returns ~0u)
    NotFetched   \* the trace has no code from the page

PageOf(e) == e \div PageSize
L1(p) == p % L1Size
SlotOf(e) == <<L1(PageOf(e)), (e % PageSize) \div 2>>
Slots == {SlotOf(e) : e \in Entries}

ASSUME ArenaAssumption == ArenaCap \in Nat \ {0}
ASSUME PagesAssumption ==
    /\ Pages \subseteq Nat
    /\ NoPage \notin Pages
    /\ RamPages \subseteq Pages
    /\ TlbSize \in Nat \ {0, 1}
ASSUME CodeAssumption ==
    /\ Entries \subseteq Nat
    /\ \A e \in Entries : PageOf(e) \in Pages
    /\ Straddling \subseteq Entries
    /\ NotFetched \notin Contents
    /\ Exits \in [Entries -> [Contents -> SUBSET Entries]]
ASSUME PagingAssumption ==
    /\ MayMap \in [Pages -> SUBSET (Pages \cup {NoPage})]
    /\ PgModes \subseteq BOOLEAN

VARIABLES
    mem,    \* physical page -> its content
    pg,     \* CR0.PG
    cr3,    \* the current address space
    pt,     \* address space -> page table: virtual page -> frame or NoPage
    tlb,    \* SoftTlb::read_tlb: virtual page -> cached frame or NoPage
    pool,   \* TraceArena::pool, up to TraceArena::used
    used,   \* TraceArena::used
    slot,   \* TraceCache::page_map[l1]->slots[l2]: an index of pool, or 0
    prot,   \* code_page_bitmap: the write-protected physical pages
    prev,   \* prev_trace in Executor::run: an index of pool, or 0
    run,    \* the trace that is executing: an index of pool, or 0 = run loop
    eip     \* ctx.eip when the run loop has control

memVars == <<pg, cr3, pt>>
cacheVars == <<pool, used, slot, prot>>
vars == <<mem, pg, cr3, pt, tlb, pool, used, slot, prot, prev, run, eip>>

Trace == [eip    : Entries,
          page   : Pages,                 \* code_pa & ~0xFFF
          paging : BOOLEAN,               \* e.paging when it was emitted
          built  : [Pages -> Contents \cup {NotFetched}],
          exits  : SUBSET Entries,        \* links[].target_eip
          link   : [Entries -> Nat],      \* 0: links[].linked = false
          valid  : BOOLEAN]

TypeOK ==
    /\ mem \in [Pages -> Contents]
    /\ pg \in PgModes
    /\ cr3 \in Spaces
    /\ pt \in [Spaces -> [Pages -> Pages \cup {NoPage}]]
    /\ tlb \in [Pages -> Pages \cup {NoPage}]
    /\ used \in 0 .. ArenaCap
    /\ pool \in [1 .. used -> Trace]
    /\ slot \in [Slots -> 0 .. used]
    /\ prot \subseteq RamPages
    /\ prev \in 0 .. used
    /\ run \in 0 .. used
    /\ eip \in Entries

-----------------------------------------------------------------------------
(* Address translation: translate_va with the software TLB.               *)

Translate(v) ==
    IF ~pg THEN v ELSE IF tlb[v] # NoPage THEN tlb[v] ELSE pt[cr3][v]

\* The direct-mapped TLB after v was translated to p: every page with the
\* index of v loses its entry.
TlbFill(t, v, p) ==
    IF ~pg \/ p = NoPage THEN t
    ELSE [q \in Pages |-> IF q = v THEN p
                          ELSE IF q % TlbSize = v % TlbSize THEN NoPage
                          ELSE t[q]]

EmptyTlb == [v \in Pages |-> NoPage]

\* The code at e is also read from the next page: only from RAM into RAM.
ReadsNext(e) ==
    e \in Straddling /\ PageOf(e) + 1 \in Pages /\ Translate(PageOf(e)) \in RamPages

\* The frames the code at e is read from when it is translated now.
FramesOf(e) ==
    ({Translate(PageOf(e))} \ {NoPage})
        \cup {f \in RamPages : ReadsNext(e) /\ f = Translate(PageOf(e) + 1)}

-----------------------------------------------------------------------------
(* Trace cache lookup, building and linking.                              *)

\* TraceCache::lookup: the slot is shared, so the full EIP is compared.
Lookup(pl, sl, e) ==
    IF e \in Entries /\ sl[SlotOf(e)] # 0 /\ pl[sl[SlotOf(e)]].eip = e
    THEN sl[SlotOf(e)] ELSE 0

LiveAt(pl, sl, e) == Lookup(pl, sl, e) # 0 /\ pl[Lookup(pl, sl, e)].valid

NewTrace(e) ==
    [eip    |-> e,
     page   |-> PageOf(e),
     paging |-> pg,
     built  |-> [p \in Pages |-> IF p \in FramesOf(e) THEN mem[p] ELSE NotFetched],
     exits  |-> Exits[e][mem[Translate(PageOf(e))]],
     link   |-> [x \in Entries |-> 0],
     valid  |-> TRUE]

\* Mutant of Linkable: backward exits are linked too.
LinkableBackward(pl, sl, i, e) ==
    /\ e \in pl[i].exits
    /\ pl[i].link[e] = 0
    /\ LiveAt(pl, sl, e)

\* Executor::try_link_trace: only unlinked, forward exits, only to a trace
\* that is in the cache and valid.
Linkable(pl, sl, i, e) ==
    /\ e \in pl[i].exits
    /\ pl[i].link[e] = 0
    /\ e > pl[i].eip
    /\ LiveAt(pl, sl, e)

TryLink(pl, sl, i) ==
    [pl EXCEPT ![i].link =
        [e \in Entries |-> IF Linkable(pl, sl, i, e) THEN Lookup(pl, sl, e)
                                                     ELSE pl[i].link[e]]]

LinkPrev(pl, sl, pv) ==
    IF pv # 0 /\ pl[pv].valid THEN TryLink(pl, sl, pv) ELSE pl

\* The tail of an iteration of the run loop: link, then jump into trace i.
Dispatch(pl, sl, i, pv) ==
    /\ pool' = LinkPrev(TryLink(pl, sl, i), sl, pv)
    /\ slot' = sl
    /\ prev' = i
    /\ run' = i

\* Mutant of Protect: the page is noted but not write-protected.
ProtectNothing(p) == prot

\* Executor::protect_code_page, called for RAM pages only.
Protect(p) == IF p \in RamPages THEN prot \cup {p} ELSE prot

-----------------------------------------------------------------------------
(* Self-modifying code: what a write to a physical page does to the cache. *)

\* Mutant of Victims: only the trace that starts the page is found.
VictimsFirstSlot(p) ==
    {slot[s] : s \in {x \in Slots : x[1] = L1(p) /\ x[2] = 0 /\ slot[x] # 0}}
        \cap {i \in 1 .. used : pool[i].valid /\ pool[i].page = p}

\* The traces invalidate_code_page finds: it scans the slots of one first
\* level entry and compares code_pa with the physical page.
Victims(p) ==
    {slot[s] : s \in {x \in Slots : x[1] = L1(p) /\ slot[x] # 0}}
        \cap {i \in 1 .. used : pool[i].valid /\ pool[i].page = p}

\* Mutant of Unlinked: the exits of the victims stay patched.
UnlinkedInbound(V) ==
    [i \in 1 .. used |->
        IF i \in V
        THEN [pool[i] EXCEPT !.valid = FALSE]
        ELSE [pool[i] EXCEPT !.link =
                [e \in Entries |->
                    IF pool[i].valid /\ \E j \in V : pool[j].eip = e
                    THEN 0 ELSE pool[i].link[e]]]]

\* Mutant of Unlinked: the exits into the victims stay patched.
UnlinkedOutbound(V) ==
    [i \in 1 .. used |->
        IF i \in V
        THEN [pool[i] EXCEPT !.link = [e \in Entries |-> 0], !.valid = FALSE]
        ELSE pool[i]]

\* unlink_trace of every victim, its own exits, and valid = false.
Unlinked(V) ==
    [i \in 1 .. used |->
        IF i \in V
        THEN [pool[i] EXCEPT !.link = [e \in Entries |-> 0], !.valid = FALSE]
        ELSE [pool[i] EXCEPT !.link =
                [e \in Entries |->
                    IF pool[i].valid /\ \E j \in V : pool[j].eip = e
                    THEN 0 ELSE pool[i].link[e]]]]

\* A store of c to frame p, with the fault handler of a protected page.
WriteFrame(p, c) ==
    /\ mem' = [mem EXCEPT ![p] = c]
    /\ pool' = IF p \in prot THEN Unlinked(Victims(p)) ELSE pool
    /\ prot' = prot \ {p}
    /\ UNCHANGED <<pg, cr3, pt, used, slot, prev, run, eip>>

-----------------------------------------------------------------------------
(* The run loop (run = 0): one iteration up to dispatch_trace.            *)

Init ==
    /\ mem \in [Pages -> Contents]
    /\ pg \in PgModes
    /\ cr3 \in Spaces
    /\ pt \in [Spaces -> {m \in [Pages -> Pages \cup {NoPage}] :
                            \A v \in Pages : m[v] \in MayMap[v]}]
    /\ tlb = EmptyTlb
    /\ used = 0
    /\ pool = [i \in 1 .. 0 |-> 0]
    /\ slot = [s \in Slots |-> 0]
    /\ prot = {}
    /\ prev = 0
    /\ run = 0
    /\ eip \in Entries

Frame == Translate(PageOf(eip))
FetchTlb == TlbFill(tlb, PageOf(eip), Frame)

\* Building a trace also translates the page its last instruction ends in.
BuildTlb ==
    IF ReadsNext(eip)
    THEN TlbFill(FetchTlb, PageOf(eip) + 1, Translate(PageOf(eip) + 1))
    ELSE FetchTlb

\* An instruction fetch that faults is delivered as #PF: the IDT decides
\* where execution goes on.
FetchFault(handler) ==
    /\ run = 0 /\ Frame = NoPage
    /\ eip' = handler
    /\ prev' = 0
    /\ UNCHANGED <<mem, memVars, tlb, cacheVars, run>>

EnterCached ==
    /\ run = 0 /\ Frame # NoPage
    /\ LiveAt(pool, slot, eip)
    /\ Dispatch(pool, slot, Lookup(pool, slot, eip), prev)
    /\ tlb' = FetchTlb
    /\ UNCHANGED <<mem, memVars, used, prot, eip>>

\* arena.alloc and tcache.insert, after which lookup finds the new trace:
\* into what is there, or into the emptied caches.
GrownPool == [i \in 1 .. used + 1 |-> IF i = used + 1 THEN NewTrace(eip) ELSE pool[i]]
GrownSlots == [slot EXCEPT ![SlotOf(eip)] = used + 1]
FreshPool == [i \in 1 .. 1 |-> NewTrace(eip)]
FreshSlots == [s \in Slots |-> IF s = SlotOf(eip) THEN 1 ELSE 0]

EnterBuilt ==
    /\ run = 0 /\ Frame # NoPage
    /\ ~LiveAt(pool, slot, eip)
    /\ used < ArenaCap
    /\ used' = used + 1
    /\ Dispatch(GrownPool, GrownSlots, used + 1, prev)
    /\ prot' = Protect(Frame)
    /\ tlb' = BuildTlb
    /\ UNCHANGED <<mem, memVars, eip>>

\* No room: flush the cache, the code and the arena, and build again.  The
\* protection bits stay.
EnterAfterFlush ==
    /\ run = 0 /\ Frame # NoPage
    /\ ~LiveAt(pool, slot, eip)
    /\ used = ArenaCap
    /\ used' = 1
    /\ Dispatch(FreshPool, FreshSlots, 1, 0)
    /\ prot' = Protect(Frame)
    /\ tlb' = BuildTlb
    /\ UNCHANGED <<mem, memVars, eip>>

\* An interrupt is delivered between two traces, or run() returns at the end
\* of its budget and is called again: either way prev_trace is forgotten.
BreakChain(e) ==
    /\ run = 0
    /\ eip' = e
    /\ prev' = 0
    /\ UNCHANGED <<mem, memVars, tlb, cacheVars, run>>

-----------------------------------------------------------------------------
(* Guest code (run # 0).                                                  *)

\* A static exit whose JMP is patched goes straight into the next trace.
FollowLink(e) ==
    /\ run # 0
    /\ pool[run].link[e] # 0
    /\ run' = pool[run].link[e]
    /\ UNCHANGED <<mem, memVars, tlb, cacheVars, prev, eip>>

\* A cold exit, an indirect one, or a fault whose handler is at e.
LeaveToRunLoop(e) ==
    /\ run # 0
    /\ run' = 0
    /\ eip' = e
    /\ prev' \in {prev, 0}
    /\ UNCHANGED <<mem, memVars, tlb, cacheVars>>

\* A store of the running trace to a RAM frame.  A page walk fills the read
\* TLB as well.  The write TLB is not kept: a hit may give any frame that the
\* page tables can have named when the entry was made.
GuestStore(v, f, c) ==
    /\ run # 0
    /\ f \in RamPages
    /\ \/ ~pg /\ f = v /\ UNCHANGED tlb
       \/ pg /\ f \in MayMap[v] /\ UNCHANGED tlb
       \/ pg /\ f = pt[cr3][v] /\ tlb' = TlbFill(tlb, v, f)
    /\ WriteFrame(f, c)

\* A load of the guest, or the executor's own of an interrupt descriptor: the
\* walk fills the read TLB.
Load(v) ==
    /\ pg
    /\ Translate(v) # NoPage
    /\ tlb' = TlbFill(tlb, v, Translate(v))
    /\ UNCHANGED <<mem, memVars, cacheVars, prev, run, eip>>

\* load_guest and device DMA, from the loop or from an MMIO handler.
HostStore(p, c) ==
    /\ p \in RamPages
    /\ WriteFrame(p, c)
    /\ UNCHANGED tlb

\* A store to a page-table entry: the page tables are data, not code.
EditPte(s, v, f) ==
    /\ run # 0
    /\ f \in MayMap[v]
    /\ pt' = [pt EXCEPT ![s][v] = f]
    /\ UNCHANGED <<mem, pg, cr3, tlb, cacheVars, prev, run, eip>>

\* Mutant of Privileged: prev_trace survives, so a flush leaves it dangling.
PrivilegedKeepsPrev(e) ==
    /\ run # 0
    /\ run' = 0
    /\ prev' = prev
    /\ eip' = e

\* A privileged instruction stops the trace; the run loop interprets it and
\* goes on at the next instruction.
Privileged(e) ==
    /\ run # 0
    /\ run' = 0
    /\ prev' = 0
    /\ eip' = e

Invlpg(e, v) ==
    /\ Privileged(e)
    /\ tlb' = [tlb EXCEPT ![v] = NoPage]
    /\ UNCHANGED <<mem, memVars, cacheVars>>

MovCr3(e, s) ==
    /\ Privileged(e)
    /\ cr3' = s
    /\ tlb' = EmptyTlb
    /\ UNCHANGED <<mem, pg, pt, cacheVars>>

\* Mutant of MovCr0: the translated code survives a change of CR0.PG.
MovCr0KeepsCode(e, b) ==
    /\ Privileged(e)
    /\ pg' = b
    /\ tlb' = EmptyTlb
    /\ UNCHANGED <<mem, cr3, pt, cacheVars>>

\* A write of CR0 flushes the TLB and everything that was translated.
MovCr0(e, b) ==
    /\ Privileged(e)
    /\ pg' = b
    /\ tlb' = EmptyTlb
    /\ used' = 0
    /\ pool' = [i \in 1 .. 0 |-> 0]
    /\ slot' = [s \in Slots |-> 0]
    /\ UNCHANGED <<mem, cr3, pt, prot>>

-----------------------------------------------------------------------------
RunLoop == EnterCached \/ EnterBuilt \/ EnterAfterFlush
           \/ \E e \in Entries : FetchFault(e)

LeaveTrace == \E e \in Entries : FollowLink(e) \/ LeaveToRunLoop(e)

Next ==
    \/ RunLoop
    \/ LeaveTrace
    \/ \E e \in Entries : BreakChain(e)
    \/ \E v, f \in Pages, c \in Contents : GuestStore(v, f, c)
    \/ \E v \in Pages : Load(v)
    \/ \E p \in Pages, c \in Contents : HostStore(p, c)
    \/ \E s \in Spaces, v \in Pages, f \in Pages \cup {NoPage} : EditPte(s, v, f)
    \/ \E e \in Entries, v \in Pages : Invlpg(e, v)
    \/ \E e \in Entries, s \in Spaces : MovCr3(e, s)
    \/ \E e \in Entries, b \in PgModes : MovCr0(e, b)

Spec == Init /\ [][Next]_vars

\* Every instruction of a trace is finite host code: a trace is left
\* eventually.
FairSpec == Spec /\ WF_vars(LeaveTrace)

-----------------------------------------------------------------------------
(* Properties.                                                            *)

\* The frames the trace was translated from still hold what it was built of.
BytesCurrent(t) ==
    \A p \in Pages : t.built[p] # NotFetched => t.built[p] = mem[p]

\* The trace was emitted for the paging mode in force and its code would be
\* fetched from the same frames if it were translated now.
MappingCurrent(t) ==
    /\ t.paging = pg
    /\ {p \in Pages : t.built[p] # NotFetched} = FramesOf(t.eip)

\* invalidate_code_page takes every stale trace out of reach: whenever
\* control enters a trace, from the run loop or through a patched exit, the
\* guest bytes it was translated from are still in memory.
EntersCurrentBytes ==
    [][(run' # run /\ run' # 0) => BytesCurrent(pool[run])']_vars

\* The same for the translation: a trace keyed by the guest EIP is entered
\* only under the address translation and paging mode it was built for.
EntersCurrentMapping ==
    [][(run' # run /\ run' # 0) => MappingCurrent(pool[run])']_vars

\* Block linking: the patched exit of a trace that can still execute leads
\* to a live trace of the same cache generation, for the EIP of that exit.
\* unlink_trace, the flush and clear() have to keep this true.
LinksAreLive ==
    \A i \in 1 .. used : (pool[i].valid \/ i = run) =>
        \A e \in Entries : pool[i].link[e] # 0 =>
            /\ pool[i].link[e] \in 1 .. used
            /\ pool[pool[i].link[e]].eip = e
            /\ pool[pool[i].link[e]].valid

\* The write protection covers the code: a frame some live trace was
\* translated from is write-protected (RAM frames).
LiveCodeProtected ==
    \A i \in 1 .. used : pool[i].valid =>
        \A p \in RamPages : pool[i].built[p] # NotFetched => p \in prot

\* "All traces on that page are invalidated": once the write fault has
\* unprotected a page, no live trace translated from the page is left.
SmcInvalidatesPage ==
    [][\A p \in prot \ prot' :
          \A i \in 1 .. used : pool[i].built[p] # NotFetched => ~pool'[i].valid]_vars

\* Backward exits are not linked so that loops come back to the run loop:
\* no chain of linked traces keeps the CPU away from interrupts and ticks.
ChainsReturn == run # 0 ~> run = 0

=============================================================================
