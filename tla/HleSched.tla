------------------------------ MODULE HleSched ------------------------------
(***************************************************************************)
(* XboxSystem and the cooperative scheduler of run_step (bootstrap.hpp):   *)
(* thread slots, the round-robin choice, promotion of new threads, and     *)
(* what a run of the executor leaves behind.                               *)
(*                                                                         *)
(* A context is [of, at]: the thread whose registers these are (0 for a    *)
(* DPC's) and where it goes on.  `at' is                                   *)
(*   "app"   in the title's code;                                          *)
(*   "wait"  in the stub of KeWaitForSingleObject;                         *)
(*   "lost"  at address 0, after PsTerminateSystemThread.                  *)
(* A call that yields halts the processor inside handle_privileged, which  *)
(* run() takes for HLT and answers with EIP + 1: the RET of the stub is    *)
(* skipped and the thread goes on in the stub of the next ordinal.  For    *)
(* KeWaitForMultipleObjects that is KeWaitForSingleObject, which yields    *)
(* again; for the exit calls, which set EIP to 0xFFFFFFFF, it is 0.        *)
(***************************************************************************)
EXTENDS HleKernel

Threads == 1 .. MaxThreads
Places == {"app", "wait", "lost"}
Context == [of : 0 .. MaxThreads, at : Places]
Slot == [alive : BOOLEAN, ctx : Context, stack : 0 .. HeapUnits + 1]

\* The stack of the main thread, 11 MB, and the registers a DPC leaves.
MainStack == HeapUnits + 1
DpcLeft == [of |-> 0, at |-> "app"]
StartOf(t) == [of |-> t, at |-> "app"]

BootModes == {"none", "hle", "lle", "llek", "nbox"}
System == [ports : BOOLEAN, calls : BOOLEAN, running : BOOLEAN, started : BOOLEAN,
           threads : Seq(Slot), current : 0 .. MaxThreads]

\* XboxSystem(): `ports' tells whether xbox_setup has registered its devices
\* with the executor, `calls' whether it has an hle_handler.
NewSystem == [ports |-> FALSE, calls |-> FALSE, running |-> FALSE, started |-> FALSE,
              threads |-> << >>, current |-> 0]

Alive(s) == { t \in DOMAIN s.threads : s.threads[t].alive }

NextAliveStays(s, from) ==
    IF from \in Alive(s) THEN from
    ELSE IF Alive(s) = {} THEN 0 ELSE CHOOSE t \in Alive(s) : \A u \in Alive(s) : t <= u

\* The next alive thread after `from', around the slots; 0 if none.
NextAlive(s, from) ==
    LET n == Len(s.threads)
        after(i) == ((from + i - 1) % n) + 1
        steps == { i \in 1 .. n : after(i) \in Alive(s) }
    IN  IF steps = {} THEN 0 ELSE after(CHOOSE i \in steps : \A j \in steps : i <= j)

StackForSame(k, i) == IF k.next < HeapUnits THEN k.next ELSE FallbackStack

\* promote_pending: a slot and a stack for every thread that waits.
StackFor(k, i) == IF k.next + i - 1 < HeapUnits THEN k.next + i - 1 ELSE FallbackStack

Promoted(s, k) ==
    [s EXCEPT !.threads = @ \o [i \in 1 .. k.pending |->
        [alive |-> TRUE, ctx |-> StartOf(Len(s.threads) + i), stack |-> StackFor(k, i)]]]
AfterPromotion(k) ==
    [k EXCEPT !.pending = 0,
              !.next = IF @ + k.pending < HeapUnits THEN @ + k.pending ELSE HeapUnits]

\* At the first call the main thread becomes the first slot.
WithMain(s) ==
    IF s.threads # << >> THEN [s EXCEPT !.started = TRUE]
    ELSE [s EXCEPT !.started = TRUE, !.current = 1,
                   !.threads = << [alive |-> TRUE, ctx |-> StartOf(1), stack |-> MainStack] >>]

\* The thread to run: the current one, or the next if it has died.
ToRun(s) == IF s.current \in Alive(s) THEN s.current ELSE NextAlive(s, s.current)

\* restore_thread, save_thread
Restored(s, t) == s.threads[t].ctx
Saved(s, t, ctx) == [s EXCEPT !.threads[t].ctx = ctx]

\* After a run that the thread survives: the next thread's turn.
Rotated(s) == [s EXCEPT !.current = NextAlive(s, s.current)]

\* After a run that ended at the sentinel: the thread is dead, threads it
\* created get their slots, and without a thread left the system stops.
Buried(s, k) ==
    LET dead == Promoted([s EXCEPT !.threads[s.current].alive = FALSE], k)
    IN  IF Alive(dead) = {} THEN [dead EXCEPT !.running = FALSE] ELSE Rotated(dead)
=============================================================================
