----------------------------- MODULE IoService ------------------------------
(***************************************************************************)
(* What the host I/O system promises the guest kernel: a request that was  *)
(* submitted is served exactly once, in some order, answered once with the *)
(* status that serving it gave, and only then may its id be used again.    *)
(* No queue, no thread, no lock.  Module IoSystem implements it.           *)
(***************************************************************************)
EXTENDS IoRequests

VARIABLES
    req,     \* id -> the outstanding request, or NoRequest
    result,  \* id -> the status of a served request, or "none"
    mapped,  \* the handles the host has open
    hstate,  \* what the guest knows of its handles
    up       \* the service runs

vars == <<req, result, mapped, hstate, up>>

Init ==
    /\ req = [i \in Ids |-> NoRequest]
    /\ result = [i \in Ids |-> "none"]
    /\ mapped = {}
    /\ hstate = [h \in Handles |-> "free"]
    /\ up = TRUE

Submit(i, r) ==
    /\ up
    /\ MayIssue(req, hstate, i, r)
    /\ req' = [req EXCEPT ![i] = r]
    /\ hstate' = AfterIssue(hstate, r)
    /\ UNCHANGED <<result, mapped, up>>

Serve(i) ==
    /\ up
    /\ req[i] # NoRequest /\ result[i] = "none"
    /\ \E effect \in Effects(mapped, req[i]) :
          /\ mapped' = effect.mapped
          /\ result' = [result EXCEPT ![i] = effect.outcome]
    /\ UNCHANGED <<req, hstate, up>>

Answer(i) ==
    /\ up
    /\ result[i] # "none"
    /\ req' = [req EXCEPT ![i] = NoRequest]
    /\ result' = [result EXCEPT ![i] = "none"]
    /\ hstate' = AfterAnswer(hstate, req[i], result[i])
    /\ UNCHANGED <<mapped, up>>

\* The host closes everything; what was outstanding is never answered.
Shutdown ==
    /\ up
    /\ up' = FALSE
    /\ result' = [i \in Ids |-> "none"]
    /\ mapped' = {}
    /\ UNCHANGED <<req, hstate>>

Next ==
    \/ \E i \in Ids : (\E r \in Request : Submit(i, r)) \/ Serve(i) \/ Answer(i)
    \/ Shutdown

Spec == Init /\ [][Next]_vars
=============================================================================
