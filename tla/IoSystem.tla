------------------------------ MODULE IoSystem ------------------------------
(***************************************************************************)
(* The host I/O system of nboxkrnl (IoSystem in nboxkrnl_io.hpp): the      *)
(* emulation thread submits, retries and queries requests from the guest's *)
(* port writes and never blocks (try_lock), a worker thread serves them,   *)
(* and stop() ends the worker.                                             *)
(*                                                                         *)
(* A critical section of the emulation thread is one step: nothing it does *)
(* in it can be seen before the unlock, except pending_flag, on which the  *)
(* worker only wakes to ask for the same lock.  The worker's are two, so   *)
(* that a try_lock can fail while it is inside.                            *)
(***************************************************************************)
EXTENDS IoRequests

VARIABLES
    req,         \* id -> the outstanding request, or NoRequest
    hstate,      \* what the guest knows of its handles
    queue,       \* work_queue, as ids
    pending,     \* pending_vec, as ids
    hasPending,  \* has_pending_packets
    flag,        \* pending_flag
    wpc,         \* where the worker is
    cur,         \* the request the worker took, as {id}, or {}
    outcome,     \* the status it got
    completed,   \* completed_map: id -> status, or "none"
    mapped,      \* handle_map: the handles with a FileInfo
    spc          \* where stop() is

guestVars == <<req, hstate>>
queueVars == <<queue, pending, hasPending, flag>>
workVars == <<cur, outcome, completed, mapped>>
vars == <<req, hstate, queue, pending, hasPending, flag, wpc, cur, outcome,
          completed, mapped, spc>>

\* "locked" holds queue_mtx, "storing" holds completed_mtx.
WorkerStates == {"wait", "woken", "lock", "locked", "process", "store",
                 "storing", "exited"}
StopStates == {"run", "requested", "join", "joined"}

TypeOK ==
    /\ req \in [Ids -> Request \cup {NoRequest}]
    /\ hstate \in [Handles -> HandleStates]
    /\ queue \in Seq(Ids) /\ pending \in Seq(Ids)
    /\ hasPending \in BOOLEAN /\ flag \in BOOLEAN
    /\ wpc \in WorkerStates
    /\ cur \in SUBSET Ids
    /\ Cardinality(cur) = IF wpc \in {"process", "store", "storing"} THEN 1 ELSE 0
    /\ outcome \in Outcomes
    /\ completed \in [Ids -> Outcomes \cup {"none"}]
    /\ mapped \subseteq Handles
    /\ spc \in StopStates

Init ==
    /\ req = [i \in Ids |-> NoRequest]
    /\ hstate = [h \in Handles |-> "free"]
    /\ queue = <<>> /\ pending = <<>>
    /\ hasPending = FALSE /\ flag = FALSE
    /\ wpc = "wait"
    /\ cur = {}
    /\ outcome = "error"
    /\ completed = [i \in Ids |-> "none"]
    /\ mapped = {}
    /\ spc = "run"

-----------------------------------------------------------------------------
(* The emulation thread, until stop() is called.                          *)

\* Mutant of Enqueue: a request is dropped when the queue is busy.
EnqueueOrDrop(i) ==
    IF wpc # "locked"
    THEN /\ queue' = Append(queue, i)
         /\ flag' = TRUE
         /\ UNCHANGED <<pending, hasPending>>
    ELSE UNCHANGED queueVars

\* enqueue: into the work queue, or aside when the worker holds queue_mtx.
Enqueue(i) ==
    IF wpc # "locked"
    THEN /\ queue' = Append(queue, i)
         /\ flag' = TRUE
         /\ UNCHANGED <<pending, hasPending>>
    ELSE /\ pending' = Append(pending, i)
         /\ hasPending' = TRUE
         /\ UNCHANGED <<queue, flag>>

\* OUT 0x206: submit_io_packet.
Submit(i, r) ==
    /\ spc = "run"
    /\ MayIssue(req, hstate, i, r)
    /\ req' = [req EXCEPT ![i] = r]
    /\ hstate' = AfterIssue(hstate, r)
    /\ Enqueue(i)
    /\ UNCHANGED <<wpc, workVars, spc>>

\* Mutant of Flush: what was handed over stays in pending_vec as well.
FlushKeepsPending ==
    /\ spc = "run"
    /\ hasPending
    /\ pending # <<>>
    /\ wpc # "locked"
    /\ queue' = queue \o pending
    /\ pending' = pending
    /\ hasPending' = FALSE
    /\ flag' = TRUE
    /\ UNCHANGED <<guestVars, wpc, workVars, spc>>

\* OUT 0x207, after IN 0x20A said so: flush_pending_packets.
Flush ==
    /\ spc = "run"
    /\ hasPending
    /\ pending # <<>>
    /\ wpc # "locked"
    /\ queue' = queue \o pending
    /\ pending' = <<>>
    /\ hasPending' = FALSE
    /\ flag' = TRUE
    /\ UNCHANGED <<guestVars, wpc, workVars, spc>>

\* Mutant of Query: the answered request stays in completed_map.
QueryKeepsCompleted(i) ==
    /\ spc = "run"
    /\ req[i] # NoRequest
    /\ wpc # "storing"
    /\ completed[i] # "none"
    /\ req' = [req EXCEPT ![i] = NoRequest]
    /\ hstate' = AfterAnswer(hstate, req[i], completed[i])
    /\ UNCHANGED <<queueVars, wpc, workVars, spc>>

\* OUT 0x208: query_io_packet, when it finds the answer.
Query(i) ==
    /\ spc = "run"
    /\ req[i] # NoRequest
    /\ wpc # "storing"
    /\ completed[i] # "none"
    /\ completed' = [completed EXCEPT ![i] = "none"]
    /\ req' = [req EXCEPT ![i] = NoRequest]
    /\ hstate' = AfterAnswer(hstate, req[i], completed[i])
    /\ UNCHANGED <<queueVars, wpc, cur, outcome, mapped, spc>>

-----------------------------------------------------------------------------
(* The worker thread.                                                     *)

GoTo(from, to) == wpc = from /\ wpc' = to

\* pending_flag.wait(false) returns.
Wake ==
    /\ GoTo("wait", "woken")
    /\ flag
    /\ UNCHANGED <<guestVars, queueVars, workVars, spc>>

\* stop_requested() is false ...
NotStopped ==
    /\ GoTo("woken", "lock")
    /\ spc = "run"
    /\ UNCHANGED <<guestVars, queueVars, workVars, spc>>

\* ... or true: clean up and return.
Exit ==
    /\ GoTo("woken", "exited")
    /\ spc # "run"
    /\ hasPending' = FALSE
    /\ queue' = <<>> /\ pending' = <<>>
    /\ completed' = [i \in Ids |-> "none"]
    /\ mapped' = {}
    /\ UNCHANGED <<guestVars, flag, cur, outcome, spc>>

LockQueue ==
    /\ GoTo("lock", "locked")
    /\ UNCHANGED <<guestVars, queueVars, workVars, spc>>

Idle ==
    /\ GoTo("locked", "wait")
    /\ queue = <<>>
    /\ flag' = FALSE
    /\ UNCHANGED <<guestVars, queue, pending, hasPending, workVars, spc>>

\* Mutant of Take: the flag is cleared for every request that is taken.
TakeClearsFlag ==
    /\ GoTo("locked", "process")
    /\ queue # <<>>
    /\ cur' = {Head(queue)}
    /\ queue' = Tail(queue)
    /\ flag' = FALSE
    /\ UNCHANGED <<guestVars, pending, hasPending, outcome, completed, mapped, spc>>

Take ==
    /\ GoTo("locked", "process")
    /\ queue # <<>>
    /\ cur' = {Head(queue)}
    /\ queue' = Tail(queue)
    /\ UNCHANGED <<guestVars, pending, hasPending, flag, outcome, completed, mapped, spc>>

\* process_open or process_other.
Process ==
    /\ GoTo("process", "store")
    /\ \E i \in cur : \E effect \in Effects(mapped, req[i]) :
          /\ mapped' = effect.mapped
          /\ outcome' = effect.outcome
    /\ UNCHANGED <<guestVars, queueVars, cur, completed, spc>>

LockCompleted ==
    /\ GoTo("store", "storing")
    /\ UNCHANGED <<guestVars, queueVars, workVars, spc>>

\* Mutant of Store: the moved request is not let go.
StoreKeepsCur ==
    /\ GoTo("storing", "wait")
    /\ completed' = [i \in Ids |-> IF i \in cur /\ completed[i] = "none"
                                   THEN outcome ELSE completed[i]]
    /\ cur' = cur
    /\ UNCHANGED <<guestVars, queueVars, outcome, mapped, spc>>

\* completed_map.emplace: an entry that is there already is kept.
Store ==
    /\ GoTo("storing", "wait")
    /\ completed' = [i \in Ids |-> IF i \in cur /\ completed[i] = "none"
                                   THEN outcome ELSE completed[i]]
    /\ cur' = {}
    /\ UNCHANGED <<guestVars, queueVars, outcome, mapped, spc>>

Worker ==
    Wake \/ NotStopped \/ Exit \/ LockQueue \/ Idle \/ Take \/ Process
    \/ LockCompleted \/ Store

-----------------------------------------------------------------------------
(* stop(), by the thread that ran the guest or after it has ended.        *)

RequestStop ==
    /\ spc = "run"
    /\ spc' = "requested"
    /\ UNCHANGED <<guestVars, queueVars, wpc, workVars>>

SetFlag ==
    /\ spc = "requested"
    /\ wpc # "locked"
    /\ flag' = TRUE
    /\ spc' = "join"
    /\ UNCHANGED <<guestVars, queue, pending, hasPending, wpc, workVars>>

Join ==
    /\ spc = "join"
    /\ wpc = "exited"
    /\ spc' = "joined"
    /\ UNCHANGED <<guestVars, queueVars, wpc, workVars>>

-----------------------------------------------------------------------------
Next ==
    \/ \E i \in Ids, r \in Request : Submit(i, r)
    \/ Flush
    \/ \E i \in Ids : Query(i)
    \/ Worker
    \/ RequestStop \/ SetFlag \/ Join

Spec == Init /\ [][Next]_vars

\* The worker is a thread of its own.  The guest polls a request (0x208) and
\* retries (0x207) until it is answered: a try_lock that finds the mutex
\* free again and again succeeds in the end.
FairSpec ==
    /\ Spec
    /\ WF_vars(Worker)
    /\ WF_vars(SetFlag) /\ WF_vars(Join)
    /\ SF_vars(Flush)
    /\ \A i \in Ids : SF_vars(Query(i))

-----------------------------------------------------------------------------
(* Properties.                                                            *)

InSeq(s, i) == \E n \in 1 .. Len(s) : s[n] = i

\* The places where a request can be: how often i is in one of them.
Places(i) ==
    Cardinality({n \in 1 .. Len(queue) : queue[n] = i})
    + Cardinality({n \in 1 .. Len(pending) : pending[n] = i})
    + (IF i \in cur THEN 1 ELSE 0)
    + (IF completed[i] # "none" THEN 1 ELSE 0)

\* Between submit_io_packet and the query that answers it a request is in
\* exactly one of work_queue, pending_vec, the worker's hands and
\* completed_map; an id that is free is in none.
NoRequestLost ==
    wpc # "exited" =>
        \A i \in Ids : Places(i) = IF req[i] = NoRequest THEN 0 ELSE 1

\* No lost wakeup: the worker never sleeps on a cleared pending_flag while
\* there is work in the queue.
WorkIsNoticed == wpc = "wait" /\ queue # <<>> => flag

\* The guest's and the host's view of a handle agree: a handle whose open
\* was answered with success has a FileInfo until its close is served.
HeldIsMapped ==
    wpc # "exited" => \A h \in Handles : hstate[h] = "held" => h \in mapped

\* Every request of a guest that keeps polling is answered, unless the
\* emulator is stopped.
Answered ==
    \A i \in Ids : (req[i] # NoRequest) ~> (req[i] = NoRequest \/ spc # "run")

\* The io tests call stop() and go on (tests/test_nboxkrnl_io.cpp): stop()
\* wakes the worker, which leaves, and the join returns.
StopReturns == spc = "requested" ~> spc = "joined"

\* What the guest sees is the plain service of module IoService.
Service ==
    INSTANCE IoService WITH
        result <- [i \in Ids |->
                     IF i \in cur /\ wpc \in {"store", "storing"} THEN outcome
                     ELSE completed[i]],
        up <- wpc # "exited"

ImplementsService == Service!Spec
=============================================================================
