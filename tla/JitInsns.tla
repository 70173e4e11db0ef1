------------------------------ MODULE JitInsns ------------------------------
(* The instruction forms the trace builder tells apart, what the x86         *)
(* architecture says each of them does, the class the dispatch table gives   *)
(* it (insn_dispatch.hpp) and the flag liveness of a trace                   *)
(* (TraceBuilder::build, phases 1 and 2).                                    *)
(*                                                                           *)
(* Guest state is abstracted to two registers (a: EAX, clobbered by every    *)
(* call; c: ECX, and EBP where a form uses it), the stack pointer sp, memory *)
(* and two flags, one that INC and DEC write and one that they do not.       *)
EXTENDS Naturals, Sequences, SequencesExt

Flags == {"cf", "zf"}
Guest == {"a", "c", "sp", "mem"} \cup Flags

\* Per form, the flags it tests (t) and the guest state it writes (w).
Insns ==
  [ alu |-> [t |-> {}, w |-> {"a"} \cup Flags],
    inc |-> [t |-> {}, w |-> {"a", "zf"}],
    adc |-> [t |-> {"cf"}, w |-> {"a"} \cup Flags],
    div |-> [t |-> {}, w |-> {"a"} \cup Flags],
    div_mem |-> [t |-> {}, w |-> {"a"} \cup Flags],
    cmov |-> [t |-> {"zf"}, w |-> {"a"}],
    lea |-> [t |-> {}, w |-> {"a"}],
    lea_sp |-> [t |-> {}, w |-> {"sp"}],
    mov |-> [t |-> {}, w |-> {"a"}],
    mov_sp_r |-> [t |-> {}, w |-> {"sp"}],
    mov_r_sp |-> [t |-> {}, w |-> {"a"}],
    load |-> [t |-> {}, w |-> {"a"}],
    load_fs |-> [t |-> {}, w |-> {"a"}],
    load_hi |-> [t |-> {}, w |-> {"a"}],
    load_sp |-> [t |-> {}, w |-> {"sp"}],
    store |-> [t |-> {}, w |-> {"mem"}],
    store_imm |-> [t |-> {}, w |-> {"mem"}],
    store_sp |-> [t |-> {}, w |-> {"mem"}],
    alu_sp |-> [t |-> {}, w |-> {"sp"} \cup Flags],
    cmov_sp |-> [t |-> {"zf"}, w |-> {"sp"}],
    alu_mem |-> [t |-> {}, w |-> {"mem"} \cup Flags],
    not_mem |-> [t |-> {}, w |-> {"mem"}],
    inc_mem |-> [t |-> {}, w |-> {"mem", "zf"}],
    adc_mem |-> [t |-> {"cf"}, w |-> {"a"} \cup Flags],
    bts_mem |-> [t |-> {}, w |-> {"mem", "cf"}],
    shl_mem |-> [t |-> {}, w |-> {"mem"} \cup Flags],
    xchg_mem |-> [t |-> {}, w |-> {"a", "mem"}],
    alu_sp_mem |-> [t |-> {}, w |-> {"sp"} \cup Flags],
    test_mem |-> [t |-> {}, w |-> Flags],
    setcc_mem |-> [t |-> {"zf"}, w |-> {"mem"}],
    cmov_sp_mem |-> [t |-> {"zf"}, w |-> {"sp"}],
    movzx |-> [t |-> {}, w |-> {"a"}],
    movzx_sp |-> [t |-> {}, w |-> {"sp"}],
    movzx16 |-> [t |-> {}, w |-> {"a"}],
    movsx |-> [t |-> {}, w |-> {"a"}],
    fst |-> [t |-> {}, w |-> {"mem"}],
    push |-> [t |-> {}, w |-> {"sp", "mem"}],
    push_imm |-> [t |-> {}, w |-> {"sp", "mem"}],
    push_sp |-> [t |-> {}, w |-> {"sp", "mem"}],
    push_mem |-> [t |-> {}, w |-> {"sp", "mem"}],
    pop |-> [t |-> {}, w |-> {"sp", "a"}],
    pop_sp |-> [t |-> {}, w |-> {"sp"}],
    pop_mem |-> [t |-> {}, w |-> {"sp", "mem"}],
    leave |-> [t |-> {}, w |-> {"sp", "c"}],
    enter |-> [t |-> {}, w |-> {"sp", "c", "mem"}],
    xlatb |-> [t |-> {}, w |-> {"a"}],
    pushad |-> [t |-> {}, w |-> {"sp", "mem"}],
    popad |-> [t |-> {}, w |-> {"sp", "a", "c"}],
    pushfd |-> [t |-> Flags, w |-> {"sp", "mem"}],
    popfd |-> [t |-> {}, w |-> {"sp"} \cup Flags],
    movs |-> [t |-> {}, w |-> {"c", "mem"}],
    stos |-> [t |-> {}, w |-> {"c", "mem"}],
    lods |-> [t |-> {}, w |-> {"a", "c"}],
    cmps |-> [t |-> {}, w |-> {"c"} \cup Flags],
    scas |-> [t |-> {}, w |-> {"c"} \cup Flags],
    jz |-> [t |-> {"zf"}, w |-> {}],
    jc |-> [t |-> {"cf"}, w |-> {}],
    jmp |-> [t |-> {}, w |-> {}],
    jmp_reg |-> [t |-> {}, w |-> {}],
    jmp_mem |-> [t |-> {}, w |-> {}],
    call |-> [t |-> {}, w |-> {"sp", "mem"}],
    call_reg |-> [t |-> {}, w |-> {"sp", "mem"}],
    call_mem |-> [t |-> {}, w |-> {"sp", "mem"}],
    ret |-> [t |-> {}, w |-> {"sp"}],
    retf |-> [t |-> {}, w |-> {"sp"}],
    iret |-> [t |-> {}, w |-> {"sp"} \cup Flags],
    jecxz |-> [t |-> {}, w |-> {}],
    loop |-> [t |-> {}, w |-> {"c"}],
    loope |-> [t |-> {"zf"}, w |-> {"c"}],
    priv |-> [t |-> {}, w |-> {}],
    mov_cr |-> [t |-> {}, w |-> {}],
    ud2 |-> [t |-> {}, w |-> {}] ]

Forms == DOMAIN Insns
Writes(f) == Insns[f].w

-----------------------------------------------------------------------------
(* Classes.                                                                  *)

Terminators == {"jz", "jc", "jmp", "jmp_reg", "jmp_mem", "call", "call_reg", "call_mem",
                "ret", "retf", "iret", "jecxz", "loop", "loope"}

\* The class of each form but the terminators and the multimedia ones.
IntegerClass ==
  [ lea |-> {"lea", "lea_sp"},
    mov_mem |-> {"mov", "mov_sp_r", "mov_r_sp", "load", "load_fs", "load_hi", "load_sp",
                 "store", "store_imm", "store_sp", "mov_cr"},
    alu_mem |-> {"alu", "inc", "adc", "div", "div_mem", "alu_sp", "alu_mem", "not_mem",
                 "inc_mem", "adc_mem", "bts_mem", "shl_mem", "xchg_mem", "alu_sp_mem"},
    test_mem |-> {"test_mem"},
    flagmem |-> {"cmov", "cmov_sp", "setcc_mem", "cmov_sp_mem"},
    movx_mem |-> {"movzx", "movzx_sp", "movzx16", "movsx"},
    push |-> {"push", "push_imm", "push_sp", "push_mem"},
    pop |-> {"pop", "pop_sp", "pop_mem"},
    frame |-> {"leave", "enter"},
    helper |-> {"xlatb", "pushad", "popad", "pushfd", "popfd"},
    string |-> {"movs", "stos", "lods", "cmps", "scas"},
    privileged |-> {"priv"} ]

\* x87, MMX and SSE forms share the handler that rewrites their operand.
MediaClass == [fpu_mem |-> {"fst"}]

\* ICF_HAS_DISPATCH: every class with a handler but the clean ones and LEA.
HasDispatch ==
    (UNION { IntegerClass[k] : k \in DOMAIN IntegerClass \ {"lea", "privileged"} })
      \cup MediaClass.fpu_mem

-----------------------------------------------------------------------------
(* Phases 1 and 2.                                                           *)

\* The scan ends at the first terminator or privileged instruction.
Scanned(trace) ==
    { i \in DOMAIN trace : \A k \in 1 .. i - 1 : trace[k] \notin Terminators \cup {"priv"} }

\* What a flag that is tested and written by one form would cost, if the two
\* were applied in the other order.
LiveBeforeKilled(trace) ==
    { l \in Flags : \E i \in Scanned(trace) :
          l \in Insns[trace[i]].t /\ \A k \in 1 .. i : l \notin Insns[trace[k]].w }

\* Flags alive before the first instruction of a trace; none survives its end.
\* Going backwards, a write ends the life of a flag and a test begins it: a
\* flag is alive if some instruction tests it and none before that writes it.
LiveBefore(trace) ==
    { l \in Flags : \E i \in Scanned(trace) :
          l \in Insns[trace[i]].t /\ \A k \in 1 .. i - 1 : l \notin Insns[trace[k]].w }

NeedSave(trace) == Head(trace) \in HasDispatch /\ LiveBefore(trace) # {}
=============================================================================
