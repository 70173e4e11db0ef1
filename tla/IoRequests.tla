----------------------------- MODULE IoRequests -----------------------------
(***************************************************************************)
(* File I/O requests of the guest kernel (nboxkrnl_io.hpp): which requests *)
(* the guest issues, what serving one does to the host's handle map, and   *)
(* what its answer means to the guest.                                     *)
(*                                                                         *)
(* Reads and writes differ in the direction of the copy alone: both are a  *)
(* "transfer" here.  The host file system decides whether an open or a     *)
(* transfer succeeds.  The device number is part of the handle.            *)
(***************************************************************************)
EXTENDS Naturals, Sequences, FiniteSets

CONSTANTS
    Ids,          \* request ids (header.id)
    Handles,      \* handles the guest opens
    RawHandles    \* handles below FIRST_FREE_HANDLE: whole devices

ASSUME IoAssumption ==
    /\ IsFiniteSet(Ids)
    /\ Handles \cap RawHandles = {}

Kinds == {"open", "transfer", "close", "remove"}
Request == [kind : Kinds, handle : Handles \cup RawHandles]
NoRequest == [kind |-> "none"]
Outcomes == {"ok", "error"}

\* What the guest knows of a handle.
HandleStates == {"free", "opening", "held", "closing"}

-----------------------------------------------------------------------------
(* The guest kernel: an id names one outstanding request, a handle is used *)
(* between the answers to its open and its close, and it is closed by the  *)
(* last reference to the file.                                             *)

Outstanding(req) == {i \in Ids : req[i] # NoRequest}

MayIssue(req, hstate, i, r) ==
    /\ req[i] = NoRequest
    /\ r.kind = "open" => r.handle \in Handles /\ hstate[r.handle] = "free"
    /\ r.kind # "open" /\ r.handle \in Handles => hstate[r.handle] = "held"
    /\ r.kind = "close" => \A j \in Outstanding(req) : req[j].handle # r.handle

AfterIssue(hstate, r) ==
    IF r.kind = "open" THEN [hstate EXCEPT ![r.handle] = "opening"]
    ELSE IF r.kind = "close" /\ r.handle \in Handles
    THEN [hstate EXCEPT ![r.handle] = "closing"] ELSE hstate

AfterAnswer(hstate, r, outcome) ==
    IF r.kind = "open"
    THEN [hstate EXCEPT ![r.handle] = IF outcome = "ok" THEN "held" ELSE "free"]
    ELSE IF r.kind = "close" /\ r.handle \in Handles
    THEN [hstate EXCEPT ![r.handle] = "free"] ELSE hstate

-----------------------------------------------------------------------------
(* The host: process_open and process_other.  The possible effects of r on *)
(* the set of the handles with a FileInfo, each with the status it gives.  *)

ServeOpen(mapped, r) ==
    {[mapped |-> mapped \cup {r.handle}, outcome |-> "ok"],
     [mapped |-> mapped, outcome |-> "error"]}

ServeUnmapped(mapped, r) ==
    {[mapped |-> mapped,
      outcome |-> IF r.handle \in RawHandles /\ r.kind # "remove" THEN "ok" ELSE "error"]}

\* Mutant of ServeMapped: any request closes the file when it fails.
ServeMappedErases(mapped, r) ==
    IF r.kind = "close"
    THEN {[mapped |-> mapped \ {r.handle}, outcome |-> "ok"]}
    ELSE {[mapped |-> IF o = "ok" THEN mapped ELSE mapped \ {r.handle}, outcome |-> o] :
            o \in IF r.kind = "remove" THEN {"ok"} ELSE Outcomes}

ServeMapped(mapped, r) ==
    IF r.kind = "close"
    THEN {[mapped |-> mapped \ {r.handle}, outcome |-> "ok"]}
    ELSE {[mapped |-> mapped, outcome |-> o] :
            o \in IF r.kind = "remove" THEN {"ok"} ELSE Outcomes}

Effects(mapped, r) ==
    IF r.kind = "open" THEN ServeOpen(mapped, r)
    ELSE IF r.handle \in mapped THEN ServeMapped(mapped, r)
    ELSE ServeUnmapped(mapped, r)
=============================================================================
