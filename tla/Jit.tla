-------------------------------- MODULE Jit ---------------------------------
(* The host processor running traces: dispatch_trace (executor.cpp) and the  *)
(* micro-operations of the generated code one by one, until the trace        *)
(* returns to the run loop or jumps to a linked one.  A value is "old" (what *)
(* the guest's location held before the current instruction), "new" (what    *)
(* the instruction is to leave there), "junk", or "lost": what a C function  *)
(* leaves where it drops a page fault.                                       *)
(*                                                                           *)
(* Host registers hold a, c and the flags while a trace runs; ctx has its    *)
(* own copies of them, and ESP, next_eip and memory exist only once.         *)
EXTENDS JitEmit, Naturals

CONSTANT Traces \* the instruction sequences that are built

ASSUME TracesAssumption == \A t \in Traces : t \in Seq(Forms) /\ t # <<>>

VARIABLES
    where,      \* "idle" in the run loop, "trace", "out" just returned, or "wild":
                \* RET took what was on the host stack for its return address
    trace,      \* the instructions of the trace from the current one on
    todo,       \* the micro-operations left of the current one
    v,          \* the value at each location
    r14,        \* the value in R14, two of them for captured flags
    physical,   \* R14 was translated
    stack,      \* what the trace has pushed on the host stack
    stop        \* ctx->stop_reason

vars == <<paging, where, trace, todo, v, r14, physical, stack, stop>>

Value == {"old", "new", "junk", "lost"}
Registers == {"a", "c"} \cup Flags
InCtx == [a |-> "ctx.a", c |-> "ctx.c", cf |-> "ctx.cf", zf |-> "ctx.zf", sp |-> "ctx.sp",
          mem |-> "mem"]
InTrace == [InCtx EXCEPT !.a = "a", !.c = "c", !.cf = "cf", !.zf = "zf"]
Locations == Registers \cup { InCtx[g] : g \in Guest } \cup {"br", "ctx.eip"}
Reasons == {"none", "page_fault", "divide_error", "invalid_opcode", "privileged", "halted"}

\* The guest's state at its locations, and nothing of use elsewhere.
Fresh(view) == [l \in Locations |-> IF l \in { view[g] : g \in Guest } THEN "old" ELSE "junk"]

Init ==
    /\ where = "idle" /\ paging = FALSE
    /\ trace = <<>> /\ todo = <<>>
    /\ v = Fresh(InCtx) /\ r14 = <<"junk">> /\ physical = FALSE
    /\ stack = <<>> /\ stop = "none"

-----------------------------------------------------------------------------
(* The run loop and the trampoline.                                          *)

\* The prolog of dispatch_trace.
Loaded(u) == [l \in Locations |-> IF l \in Registers THEN u[InCtx[l]] ELSE u[l]]

\* Its epilog.
Stored(u) ==
    [l \in Locations |-> IF \E g \in Registers : l = InCtx[g]
                         THEN u[CHOOSE g \in Registers : l = InCtx[g]] ELSE u[l]]

\* The run loop has a trace for the current EIP, built under the current
\* paging mode, clears the stop reason and enters the trace.
Dispatch ==
    /\ where = "idle"
    /\ where' = "trace"
    /\ paging' \in BOOLEAN
    /\ trace' \in Traces
    /\ todo' = Emit(trace)'
    /\ v' = Loaded(v) /\ stop' = "none"
    /\ UNCHANGED <<r14, physical, stack>>

\* The run loop acts on the stop reason; flags that no instruction of the
\* trace tested are whatever they are.
Resume ==
    /\ where = "out" /\ stop # "halted"
    /\ where' = "idle"
    /\ trace' = <<>> /\ v' = Fresh(InCtx) /\ stop' = "none"
    /\ r14' = <<"junk">> /\ physical' = FALSE
    /\ UNCHANGED <<paging, todo, stack>>

\* Forms whose code loses flags: an FS operand and MOVZX r16 compute with
\* ADD, AND and OR; ADC, INC and BTS on memory have their result flags
\* overwritten by the saved ones.  MOVZX r16 loses registers as well.
LosesFlags == {"load_fs", "movzx16", "adc_mem", "inc_mem", "bts_mem"}

\* The code of an instruction is done and that of the next follows; what
\* one of those forms left in the flags is what the guest now has there.
Advance ==
    /\ where = "trace" /\ todo = <<>>
    /\ UNCHANGED <<paging, where, stack, stop>>
    /\ trace' = Tail(trace) /\ todo' = Emit(trace)'
    /\ v' = [l \in Locations |-> IF l \in Flags /\ v[l] = "junk" /\ Head(trace) \notin LosesFlags
                         THEN "junk" ELSE Fresh(InTrace)[l]]
    /\ r14' = <<"junk">> /\ physical' = FALSE

-----------------------------------------------------------------------------
(* Micro-operations.                                                         *)

At(l) ==
    IF l # "r14" THEN v[l]
    ELSE IF \E k \in DOMAIN r14 : r14[k] = "junk" THEN "junk" ELSE r14[1]

InputsRight(o) ==
    /\ \A l \in o.old : At(l) \in {"old", "lost"}
    /\ \A l \in o.new : At(l) \in {"new", "lost"}
    /\ o.addr = "pa" => physical = paging
    /\ o.addr = "va" => ~physical

Result(o) ==
    IF ~InputsRight(o) THEN "junk"
    ELSE IF \E l \in o.old \cup o.new : At(l) = "lost" THEN "lost" ELSE "new"

\* Location l after o, which loses what is in the set lost.
After(o, lost, l) ==
    IF l \in lost THEN "lost" ELSE IF l \in o.out THEN Result(o)
    ELSE IF l \in o.bad THEN "junk" ELSE At(l)

Compute(o) ==
    \E lost \in { {}, IF paging THEN o.lose ELSE {} } :
        /\ v' = [l \in Locations |-> After(o, lost, l)]
        /\ IF "r14" \in o.out \cup o.bad
           THEN r14' = <<After(o, lost, "r14")>> /\ physical' = FALSE
           ELSE UNCHANGED <<r14, physical>>

Next1(op) == where = "trace" /\ todo # <<>> /\ Head(todo).op = op
Go == todo # <<>> /\ todo' = Tail(todo)

Exec ==
    /\ Next1("exec") /\ Compute(Head(todo)) /\ Go
    /\ UNCHANGED <<paging, where, trace, stack, stop>>

CopyOp ==
    /\ Next1("copy") /\ Go
    /\ \E from \in Head(todo).old, to \in Head(todo).out :
        IF to = "r14" THEN r14' = <<v[from]>> /\ physical' = FALSE /\ UNCHANGED v
        ELSE v' = [v EXCEPT ![to] = At(from)] /\ UNCHANGED <<r14, physical>>
    /\ UNCHANGED <<paging, where, trace, stack, stop>>

SaveAllGp ==
    /\ Next1("save_gp") /\ Go
    /\ v' = [v EXCEPT !["ctx.a"] = v["a"], !["ctx.c"] = v["c"]]
    /\ UNCHANGED <<paging, where, trace, r14, physical, stack, stop>>

LoadAllGp ==
    /\ Next1("load_gp") /\ Go
    /\ v' = [v EXCEPT !["a"] = v["ctx.a"], !["c"] = v["ctx.c"]]
    /\ UNCHANGED <<paging, where, trace, r14, physical, stack, stop>>

Push ==
    /\ Next1("pushfq") \/ Next1("push_r14")
    /\ Go
    /\ stack' = Append(stack, IF Head(todo).op = "pushfq" THEN <<v["cf"], v["zf"]>>
                              ELSE <<r14[1], r14[Len(r14)]>>)
    /\ UNCHANGED <<paging, where, trace, v, r14, physical, stop>>

Pop ==
    /\ stack # <<>> /\ stack' = Front(stack)
    /\ Go
    /\ \/ /\ Next1("popfq")
          /\ v' = [v EXCEPT !["cf"] = Last(stack)[1], !["zf"] = Last(stack)[2]]
          /\ UNCHANGED <<r14, physical>>
       \/ /\ Next1("pop_r14")
          /\ r14' = Last(stack) /\ physical' = FALSE
          /\ UNCHANGED v
    /\ UNCHANGED <<paging, where, trace, stop>>

Eflags ==
    /\ Go
    /\ \/ /\ Next1("eflags_r14")
          /\ v' = [v EXCEPT !["ctx.cf"] = r14[1], !["ctx.zf"] = r14[Len(r14)]]
          /\ UNCHANGED <<r14, physical>>
       \/ /\ Next1("r14_eflags")
          /\ r14' = <<v["ctx.cf"], v["ctx.zf"]>> /\ physical' = FALSE
          /\ UNCHANGED v
    /\ UNCHANGED <<paging, where, trace, stack, stop>>

\* translate_va_jit: the code tests ctx->stop_reason for a fault.
Translate ==
    /\ Next1("translate")
    /\ LET o == Head(todo)
       IN  /\ v' = [l \in Locations |-> IF l \in o.bad THEN "junk" ELSE v[l]]
           /\ stop' \in {stop, "page_fault"}
           /\ IF stop' = "none"
              THEN /\ Go
                   /\ r14' = IF physical THEN <<"junk">> ELSE r14
                   /\ physical' = TRUE
              ELSE todo' = o.alt[1] /\ UNCHANGED <<r14, physical>>
    /\ UNCHANGED <<paging, where, trace, stack>>

\* Two ways on: the plain access or its patched form, a divide or its error,
\* the branch of LOOPE.
Either ==
    /\ Next1("site") \/ Next1("fork")
    /\ \E k \in 1 .. 2 : todo' = Head(todo).alt[k] \o Tail(todo)
    /\ Compute(Head(todo))
    /\ UNCHANGED <<paging, where, trace, stack, stop>>

Restart ==
    /\ Next1("restart") /\ Go
    /\ v' = [v EXCEPT !["ctx.eip"] = "old"]
    /\ r14' = <<"junk">> /\ physical' = FALSE
    /\ UNCHANGED <<paging, where, trace, stack, stop>>

SetStop ==
    /\ Next1("stop") /\ Go
    /\ stop' \in Head(todo).out
    /\ UNCHANGED <<paging, where, trace, v, r14, physical, stack>>

\* A link slot: cold it falls through, patched it jumps to another trace.
LinkSlot ==
    /\ Next1("link")
    /\ UNCHANGED <<paging, where, stack, stop>>
    /\ \/ Go /\ UNCHANGED <<trace, v, r14, physical>>
       \/ /\ trace' \in Traces
          /\ todo' = Emit(trace)'
          /\ v' = Fresh(InTrace) /\ r14' = <<"junk">> /\ physical' = FALSE

Return ==
    /\ Next1("ret")
    /\ where' = (IF stack = <<>> THEN "out" ELSE "wild")
    /\ todo' = <<>>
    /\ v' = Stored(v)
    /\ UNCHANGED <<paging, trace, r14, physical, stack, stop>>

\* A halted CPU stays so, and nothing can be said of a wild one.
Stopped ==
    /\ where = "wild" \/ (where = "out" /\ stop = "halted")
    /\ UNCHANGED vars

Micro ==
    \/ Exec \/ CopyOp \/ SaveAllGp \/ LoadAllGp \/ Push \/ Pop \/ Eflags \/ Translate
    \/ Either \/ Restart \/ SetStop \/ LinkSlot \/ Return

Next == Dispatch \/ Resume \/ Advance \/ Micro \/ Stopped

Spec == Init /\ [][Next]_vars

-----------------------------------------------------------------------------
(* Properties.                                                               *)

\* Every location has a value and saved flags are never nested: the host
\* stack's alignment depends on it (emit_save_flags).
TypeOK ==
    /\ where \in {"idle", "trace", "out", "wild"} /\ paging \in BOOLEAN /\ physical \in BOOLEAN
    /\ v \in [Locations -> Value] /\ stop \in Reasons
    /\ Len(r14) \in 1 .. 2 /\ Len(stack) <= 1

\* A trace returns, or jumps to another, with the host stack as it found it,
\* through every fault exit, and it never takes from it what it did not put
\* there (emit_translate_r14 "MUST be called BEFORE any emit_save_flags").  The
\* exception is the halt on an MMIO access under saved flags.
HostStackBalanced ==
    /\ stop # "halted" /\ (where # "trace" \/ todo = <<>>) => stack = <<>>
    /\ stop # "halted" /\ (Next1("ret") \/ Next1("link")) => stack = <<>>
    /\ Next1("popfq") \/ Next1("pop_r14") => stack # <<>>

Expected(g) == IF g \in Writes(Head(trace)) THEN "new" ELSE "old"

\* Forms that have moved ESP when their access faults.
MovesEsp == {"push", "push_imm", "leave", "call", "call_reg"}

Right(view, gs) ==
    Head(trace) # "movzx16" => \A g \in gs : v[view[g]] \in {Expected(g), "lost"}

\* After each instruction the guest's registers, stack pointer and memory are
\* what the instruction makes of them, wherever they live, and so is every
\* flag that is tested later in the trace, but for the forms above.
AfterInstruction ==
    where = "trace" /\ todo = <<>> =>
        /\ Right(InTrace, Guest \ Flags)
        /\ Head(trace) \notin LosesFlags => Right(InTrace, LiveBefore(Tail(trace)))

\* A linked trace starts with the whole guest state in place, on the path
\* the branch took.
AtLink ==
    Next1("link") =>
        /\ Right(InTrace, Guest \ Flags)
        /\ Head(trace) \in {"jz", "jc", "jecxz", "loop", "loope"} => v["br"] = "new"

\* The run loop finds the state after the last instruction and the EIP of
\* the next, or with a stop reason the state before the instruction and its
\* own EIP, with the flags the rest of the trace depends on, but for the forms
\* above.
AtReturn ==
    where = "out" =>
        IF stop = "none"
        THEN /\ Right(InCtx, Guest \ Flags) /\ v["ctx.eip"] \in {"new", "lost"}
             /\ Head(trace) = "iret" => Right(InCtx, Flags)
        ELSE /\ \A g \in (Guest \ Flags) \cup LiveBefore(trace) :
                  \/ v[InCtx[g]] = "old"
                  \/ g \in Flags /\ Head(trace) \in LosesFlags
                  \/ g = "sp" /\ stop = "page_fault" /\ Head(trace) \in MovesEsp
             /\ v["ctx.eip"] = "old"

\* The generated code implements the guest's instructions.
GuestStateKept == AfterInstruction /\ AtLink /\ AtReturn
=============================================================================
