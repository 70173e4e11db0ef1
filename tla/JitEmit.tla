------------------------------- MODULE JitEmit ------------------------------
(* The code the trace builder generates: the sequences of emitter.hpp and    *)
(* the handlers of trace_builder.cpp, as sequences of micro-operations.  A   *)
(* micro-operation names the locations whose value it needs, before ("old")  *)
(* or after ("new") the instruction's own effect on them, the locations it   *)
(* gives their new value ("out"), and those it destroys ("bad").             *)
EXTENDS JitInsns

VARIABLE paging \* CR0.PG when the trace was built (Emitter::paging)

Op(o) == [op |-> o, old |-> {}, new |-> {}, out |-> {}, bad |-> {}, lose |-> {},
          addr |-> "none", alt |-> <<>>]

\* One host instruction, or a few that only compute.
Native(old, new, out) == [Op("exec") EXCEPT !.old = old, !.new = new, !.out = out]

Clobbering(o, bad) == [o EXCEPT !.bad = bad]

Copy(from, to) == [Op("copy") EXCEPT !.old = {from}, !.out = {to}]

-----------------------------------------------------------------------------
(* emitter.hpp.                                                              *)

SaveGp == <<Op("save_gp")>>
LoadGp == <<Op("load_gp")>>

PushFlags == <<Op("pushfq")>>
PopFlags == <<Op("popfq")>>
SaveFlags == PushFlags
RestoreFlags == PopFlags
Saving(save, s) == IF save THEN SaveFlags \o s \o RestoreFlags ELSE s

\* PUSHFQ; POP R14.
FlagsToR14 == PushFlags \o <<Op("pop_r14")>>
R14ToFlags == <<Op("push_r14")>> \o PopFlags

Ret == <<Op("ret")>>
NextEip == <<Clobbering(Native({}, {}, {"ctx.eip"}), {"r14"})>>
NextEipTaken == <<Clobbering(Native({}, {"br"}, {"ctx.eip"}), {"r14"})>>
NextEipThis == <<Clobbering(Op("restart"), {"r14"})>>
NextEipGpreg == <<Clobbering(Native({"ctx.c"}, {}, {"ctx.eip"}), {"r14"})>>
StopReason(r) == <<[Op("stop") EXCEPT !.out = {r}]>>
SaveEflags == FlagsToR14 \o <<Op("eflags_r14")>>

EpilogStatic == <<Op("link")>> \o SaveGp \o NextEip \o Ret
EpilogDynamic == SaveGp \o NextEipGpreg \o Ret

\* Jcc on a flag or on the outcome of a TEST: both paths have a link slot.
EpilogConditional(old, new) ==
    SaveGp \o <<Native(old, new, {"br"}), Op("link")>> \o NextEipTaken \o Ret

\* LEA, or for FS and GS also an ADD of the segment base.
EaToR14(base, segment) ==
    <<Clobbering(Native({base}, {}, {"r14"}), IF segment THEN Flags ELSE {})>>

LoadEspToR14 == <<Copy("ctx.sp", "r14")>>
StoreR14ToEsp == <<Copy("r14", "ctx.sp")>>

SubCtxEsp ==
    PushFlags \o <<Clobbering(Native({"ctx.sp"}, {}, {"ctx.sp"}), Flags)>> \o PopFlags

AddCtxEsp(old, new) ==
    PushFlags \o <<Clobbering(Native(old, new, {"ctx.sp"}), Flags)>> \o PopFlags

\* An access of [R12 + R14]; at: whose stack pointer or address R14 must hold.
Access(o, at) ==
    [o EXCEPT !.addr = "pa", !.old = @ \cup (IF at = "old" THEN {"r14"} ELSE {}),
              !.new = @ \cup (IF at = "new" THEN {"r14"} ELSE {})]

\* A C function: it sees the copies in ctx; with paging it may meet a fault,
\* which guest_translate drops, and what it then should give is lost.
CallAbs(old, new, out, lose) ==
    [Native(old, new, out) EXCEPT !.bad = {"a", "c"} \cup Flags, !.lose = lose]

WithVa(o) == [o EXCEPT !.addr = "va", !.new = @ \cup {"r14"}]
WithPa(o) == Access(o, "new")

\* The helpers VEH patches a faulting access with.
MmioHelper(o) == SaveFlags \o SaveGp \o <<WithPa(o)>> \o LoadGp \o RestoreFlags

\* The fault handler's CALL over the access and its padding.
Patched(helper) == MmioHelper(helper)

\* A patchable access, plain or patched.
Site(o, helper) == <<[Op("site") EXCEPT !.alt = << <<Access(o, "new")>>, Patched(helper) >>]>>

\* A fault exit that forgets the PUSHFQ.
FaultPathLeavesFlags == <<Op("restart")>> \o LoadGp \o Ret

\* The code of a failed translation: only the PUSHFQ is on the host stack.
FaultPath == <<Op("restart")>> \o LoadGp \o PopFlags \o Ret

TranslateR14 ==
    PushFlags \o SaveGp
      \o <<[Op("translate") EXCEPT !.bad = {"a", "c"} \cup Flags, !.alt = <<FaultPath>>]>>
      \o LoadGp \o PopFlags

PagingTranslate == IF paging THEN TranslateR14 ELSE <<>>

-----------------------------------------------------------------------------
(* jit_helpers.cpp, over the registers in ctx; a dropped read loses what it  *)
(* would give, a dropped write the memory.                                   *)

MmioRead(reg) == CallAbs({}, {}, {reg}, {})
MmioWrite == CallAbs({"ctx.a"}, {}, {"mem"}, {})
MmioWriteImm == CallAbs({}, {}, {"mem"}, {})

HighByteFromMem == WithPa(CallAbs({"ctx.a"}, {}, {"ctx.a"}, {}))
EspFromMem == WithPa(CallAbs({}, {}, {"ctx.sp"}, {}))
EspToMem == WithPa(CallAbs({"ctx.sp"}, {}, {"mem"}, {}))

\* Reads of the stack, and writes to it, below or above ESP.
Pushing(old) == CallAbs(old \cup {"ctx.sp"}, {}, {"ctx.sp", "mem"}, {"mem"})
Popping(out) == CallAbs({"ctx.sp"}, {}, {"ctx.sp"} \cup out, out)

PushEspHelper == Pushing({})
PopEspHelper == CallAbs({"ctx.sp"}, {}, {"ctx.sp"}, {"ctx.sp"})
PushMemHelper == WithPa(Pushing({}))
PopMemHelper == WithPa(Popping({"mem"}))
PushadHelper == Pushing({"ctx.a", "ctx.c"})
PopadHelper == Popping({"ctx.a", "ctx.c"})
PushfdHelper == Pushing({"r14"})
PopfdHelper == Popping({"a"})
IretHelper == Popping({"ctx.eip", "ctx.cf", "ctx.zf"})
RetfHelper == Popping({"ctx.eip"})
EnterHelper == CallAbs({"ctx.sp", "ctx.c"}, {}, {"ctx.sp", "ctx.c", "mem"}, {"mem"})
XlatbHelper == CallAbs({"ctx.a", "ctx.c"}, {}, {"a"}, {"a"})

\* These translate the virtual address themselves.
ReadTarget == WithVa(CallAbs({}, {}, {"a"}, {"a"}))
CallMemHelper == WithVa(CallAbs({"ctx.sp"}, {}, {"a", "ctx.sp", "mem"}, {"a", "mem"}))

\* The string helpers move ESI, EDI and ECX; they get the flags, which hold
\* DF, in R14 and give them back there, SCAS and CMPS with new ones.
Moving(old, out) == CallAbs(old \cup {"ctx.c"}, {}, out \cup {"ctx.c"}, out)
Comparing(old) == Moving(old, {"r14"})

-----------------------------------------------------------------------------
(* Handlers of trace_builder.cpp; save is the instruction's need_save.       *)

\* emit_save_all_gp; the call; emit_load_all_gp, under the saved flags.
Helper(save, o) == Saving(save, SaveGp \o <<o>> \o LoadGp)

DataEa == EaToR14("a", FALSE) \o PagingTranslate
Load == Site(Native({}, {}, {"a"}), MmioRead("ctx.a"))
Store == Site(Native({"a"}, {}, {"mem"}), MmioWrite)
StoreImm == Site(Native({}, {}, {"mem"}), MmioWriteImm)

\* An instruction without ESP or memory is copied, its short INC and DEC
\* encoded anew.
CleanInsn(old, out) == <<Native(old, {}, out)>>

EmitLea(f) ==
    EaToR14("a", FALSE) \o IF f = "lea_sp" THEN StoreR14ToEsp ELSE <<Copy("r14", "a")>>

EmitMov(f, save) ==
    CASE f = "mov" -> CleanInsn({"c"}, {"a"})
      [] f = "mov_sp_r" -> <<Native({"a"}, {}, {"ctx.sp"})>>
      [] f = "mov_r_sp" -> <<Native({"ctx.sp"}, {}, {"a"})>>
      [] f = "load" -> DataEa \o Load
      [] f = "load_fs" -> EaToR14("a", TRUE) \o PagingTranslate \o Load
      [] f = "store" -> DataEa \o Store
      [] f = "store_imm" -> DataEa \o StoreImm
      [] f = "load_hi" -> DataEa \o Helper(save, HighByteFromMem)
      [] f = "load_sp" -> DataEa \o Helper(save, EspFromMem)
      [] f = "store_sp" -> DataEa \o Helper(save, EspToMem)

\* The handler of a host divide error and exception_exit, which runs next.
DivideError == <<Op("restart")>> \o StopReason("divide_error") \o SaveGp \o Ret

Divide(o) == <<[Op("site") EXCEPT !.alt = << <<o>>, DivideError >>]>>

\* The instructions whose access of an MMIO address the fault handler does
\* in their place, with their registers and flags: arithmetic ...
EmulatesAlu == {"alu_mem", "adc_mem", "alu_sp_mem", "test_mem"}

\* ... and the bit, unary and shift ones.
EmulatesUnary == {"bts_mem", "inc_mem", "not_mem", "shl_mem"}

\* On any other it halts the CPU through exception_exit.
Halt == <<Op("restart")>> \o StopReason("halted") \o SaveGp \o Ret

\* An access that is not patchable.
Unpatched(f, o) ==
    IF f \in EmulatesAlu \cup EmulatesUnary THEN <<Access(o, "new")>>
    ELSE <<[Op("site") EXCEPT !.alt = << <<Access(o, "new")>>, Halt >>]>>

\* Register forms with ESP compute on R14, into which ESP is copied.
EmitAluEspReg(old, out) ==
    LoadEspToR14 \o <<Native({"r14"} \cup old, {}, {"r14"} \cup out)>> \o StoreR14ToEsp

EmitAlu(f, save) ==
    CASE f = "alu" -> CleanInsn({"a"}, {"a"} \cup Flags)
      [] f = "inc" -> CleanInsn({"a"}, {"a", "zf"})
      [] f = "adc" -> CleanInsn({"a", "c", "cf"}, {"a"} \cup Flags)
      [] f = "div" -> Divide(Native({"a", "c"}, {}, {"a"} \cup Flags))
      [] f = "alu_sp" -> EmitAluEspReg({}, Flags)
      [] OTHER ->
          DataEa \o
          Saving(save,
            IF f = "div_mem" THEN Divide(Access(Native({"a"}, {}, {"a"} \cup Flags), "new"))
            ELSE Unpatched(f,
              CASE f = "alu_mem" -> Native({"a"}, {}, {"mem"} \cup Flags)
                [] f = "not_mem" -> Native({}, {}, {"mem"})
                [] f = "inc_mem" -> Native({}, {}, {"mem", "zf"})
                [] f = "adc_mem" -> Native({"a", "cf"}, {}, {"a"} \cup Flags)
                [] f = "bts_mem" -> Native({"a"}, {}, {"mem", "cf"})
                [] f = "shl_mem" -> Native({"c"}, {}, {"mem"} \cup Flags)
                [] f = "xchg_mem" -> Native({"a"}, {}, {"a", "mem"})
                [] f = "alu_sp_mem" -> Native({"ctx.sp"}, {}, {"ctx.sp"} \cup Flags)))

EmitFlagMem(f) ==
    CASE f = "cmov" -> CleanInsn({"a", "c", "zf"}, {"a"})
      [] f = "cmov_sp" -> EmitAluEspReg({"a", "zf"}, {})
      [] f = "setcc_mem" -> DataEa \o Unpatched(f, Native({"zf"}, {}, {"mem"}))
      [] f = "cmov_sp_mem" -> DataEa \o Unpatched(f, Native({"zf", "ctx.sp"}, {}, {"ctx.sp"}))

EmitTestMem(save) == DataEa \o Saving(save, Unpatched("test_mem", Native({"a"}, {}, Flags)))

\* MOVZX of 16 bits: without REX.R the byte goes to ESI, and not to R14, which
\* the AND and OR that follow merge, and which holds the address.
EmitMovx(f) ==
    DataEa \o
    CASE f \in {"movzx", "movsx"} -> Load
      [] f = "movzx_sp" -> Site(Native({}, {}, {"ctx.sp"}), MmioRead("ctx.sp"))
      [] f = "movzx16" ->
          Site(Clobbering(Native({}, {}, {}), {"c"}), Clobbering(MmioRead("ctx.c"), {"ctx.c"}))
            \o <<Clobbering(Native({}, {}, {}), {"a"} \cup Flags)>>

EmitFpuMem(save) == DataEa \o Saving(save, Unpatched("fst", Native({}, {}, {"mem"})))

\* ESP moves before the translation of the address it gives.
PushValue(old) ==
    SubCtxEsp \o LoadEspToR14 \o PagingTranslate \o <<Access(Native(old, {}, {"mem"}), "new")>>

EmitPush(f, save) ==
    CASE f = "push" -> PushValue({"a"})
      [] f = "push_imm" -> PushValue({})
      [] f = "push_sp" -> Helper(save, PushEspHelper)
      [] f = "push_mem" -> DataEa \o Helper(save, PushMemHelper)

EmitPop(f, save) ==
    CASE f = "pop" ->
          LoadEspToR14 \o PagingTranslate \o <<Access(Native({}, {}, {"a"}), "old")>>
            \o AddCtxEsp({"ctx.sp"}, {})
      [] f = "pop_sp" -> Helper(save, PopEspHelper)
      [] f = "pop_mem" -> DataEa \o Helper(save, PopMemHelper)

\* LEAVE: ESP takes EBP before the saved EBP is read there.
EmitLeave ==
    <<Native({"c"}, {}, {"ctx.sp"})>> \o LoadEspToR14 \o PagingTranslate
      \o <<Access(Native({}, {}, {"c"}), "new")>> \o AddCtxEsp({}, {"ctx.sp"})

EmitEnter(save) == Helper(save, EnterHelper)

EmitXlatb(save) ==
    Saving(save, SaveGp \o <<XlatbHelper, Native({"ctx.a"}, {"a"}, {"ctx.a"})>> \o LoadGp)

EmitPushad(save) == Helper(save, PushadHelper)
EmitPopad(save) == Helper(save, PopadHelper)

\* The capture of the flags under the saved ones.
EmitPushfdNested(save) ==
    Saving(save, FlagsToR14 \o SaveGp \o <<PushfdHelper>> \o LoadGp)

EmitPushfd(save) == FlagsToR14 \o Helper(save, PushfdHelper)

\* The result in EAX becomes the flags (PUSH RAX; POPFQ).
EmitPopfd ==
    SaveGp \o <<PopfdHelper, Native({}, {"a"}, Flags)>> \o LoadGp

EmitString(f) ==
    LET helper == CASE f = "movs" -> Moving({}, {"mem"})
                    [] f = "stos" -> Moving({"ctx.a"}, {"mem"})
                    [] f = "lods" -> Moving({"ctx.a"}, {"ctx.a"})
                    [] f = "cmps" -> Comparing({})
                    [] f = "scas" -> Comparing({"ctx.a"})
    IN  FlagsToR14 \o SaveGp \o <<helper>> \o LoadGp \o R14ToFlags

-----------------------------------------------------------------------------
(* Terminators.                                                              *)

EmitCond(f) == EpilogConditional({IF f = "jz" THEN "zf" ELSE "cf"}, {})

\* The target is what a helper returns in EAX.
ToHelperTarget(helper) ==
    EaToR14("a", FALSE) \o SaveGp \o <<helper, Native({}, {"a"}, {"ctx.eip"})>> \o LoadGp \o Ret

EmitJmp(f) ==
    CASE f = "jmp" -> EpilogStatic
      [] f = "jmp_reg" -> EpilogDynamic
      [] f = "jmp_mem" -> ToHelperTarget(ReadTarget)

EmitCall(f) ==
    CASE f = "call" -> PushValue({}) \o EpilogStatic
      [] f = "call_reg" -> PushValue({}) \o EpilogDynamic
      [] f = "call_mem" -> ToHelperTarget(CallMemHelper)

\* EAX carries the return address and is restored from ctx.
EmitRet ==
    SaveGp \o LoadEspToR14 \o PagingTranslate \o <<Access(Native({}, {}, {"a"}), "old")>>
      \o AddCtxEsp({"ctx.sp"}, {}) \o <<Native({}, {"a"}, {"ctx.eip"}), Copy("ctx.a", "a")>>
      \o Ret

EmitRetf ==
    SaveGp \o <<RetfHelper>> \o LoadGp \o Ret

EmitIret ==
    SaveGp \o <<IretHelper, Op("r14_eflags")>> \o R14ToFlags \o LoadGp \o Ret

\* TEST ECX, ECX and DEC ECX leave their own flags.
TestEcx(c) ==
    <<Clobbering(Native(IF c = "old" THEN {"c"} ELSE {}, IF c = "new" THEN {"c"} ELSE {}, {"zf"}),
                 {"cf"})>>

DecEcx == <<Clobbering(Native({"c"}, {}, {"c"}), Flags)>>
EmitJecxz == TestEcx("old") \o EpilogConditional({}, {"zf"})
EmitLoop == DecEcx \o TestEcx("new") \o EpilogConditional({}, {"zf"})
EmitLoope ==
    <<[Native({"zf"}, {}, {"br"}) EXCEPT !.op = "fork",
          !.alt = << DecEcx \o TestEcx("new") \o EpilogConditional({}, {"br", "zf"}),
                     DecEcx \o EpilogStatic >>]>>

\* Undefined and privileged instructions, MOV of CR and DR, leave to the run loop.
Trap(reason) == SaveGp \o SaveEflags \o NextEipThis \o StopReason(reason) \o Ret

-----------------------------------------------------------------------------
(* build, phase 3: the code of the first instruction of a trace, and the     *)
(* static exit if the trace ends there without a terminator.                 *)

EmitTerminator(f) ==
    CASE f \in {"jz", "jc"} -> EmitCond(f)
      [] f \in {"jmp", "jmp_reg", "jmp_mem"} -> EmitJmp(f)
      [] f \in {"call", "call_reg", "call_mem"} -> EmitCall(f)
      [] f = "ret" -> EmitRet
      [] f = "retf" -> EmitRetf
      [] f = "iret" -> EmitIret
      [] f = "jecxz" -> EmitJecxz
      [] f = "loop" -> EmitLoop
      [] f = "loope" -> EmitLoope

EmitBody(f, save) ==
    CASE f \in IntegerClass.lea -> EmitLea(f)
      [] f \in IntegerClass.mov_mem -> EmitMov(f, save)
      [] f \in IntegerClass.alu_mem -> EmitAlu(f, save)
      [] f \in IntegerClass.flagmem -> EmitFlagMem(f)
      [] f \in IntegerClass.test_mem -> EmitTestMem(save)
      [] f \in IntegerClass.movx_mem -> EmitMovx(f)
      [] f \in MediaClass.fpu_mem -> EmitFpuMem(save)
      [] f \in IntegerClass.push -> EmitPush(f, save)
      [] f \in IntegerClass.pop -> EmitPop(f, save)
      [] f = "leave" -> EmitLeave
      [] f = "enter" -> EmitEnter(save)
      [] f = "xlatb" -> EmitXlatb(save)
      [] f = "pushad" -> EmitPushad(save)
      [] f = "popad" -> EmitPopad(save)
      [] f = "pushfd" -> EmitPushfd(save)
      [] f = "popfd" -> EmitPopfd
      [] f \in IntegerClass.string -> EmitString(f)

Traps(f) == f \in {"priv", "mov_cr", "ud2"}

Emit(trace) ==
    LET f == Head(trace)
    IN  CASE f \in Terminators -> EmitTerminator(f)
          [] f = "ud2" -> Trap("invalid_opcode")
          [] f \in {"priv", "mov_cr"} -> Trap("privileged")
          [] OTHER -> EmitBody(f, NeedSave(trace))
                        \o IF Tail(trace) = <<>> THEN EpilogStatic ELSE <<>>
=============================================================================
