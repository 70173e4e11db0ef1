---------------------------- MODULE MCTraceCache ----------------------------
(***************************************************************************)
(* Instances of TraceCache for TLC.  Pages have 4 bytes, so that the two   *)
(* second-level slots of a page are {0,1} and {2,3}.                       *)
(***************************************************************************)
EXTENDS TraceCache

\* Exits of the guest programs.  In both, the content of a page decides how
\* the code of the page goes on.
\*   page 0: entries 0 and 2      page 1: entries 4 and 6
MCExits ==
    [e \in Entries |-> [c \in Contents |->
        Entries \cap (IF c = "a" THEN {e + 2, e + 4} ELSE {2, e - 2})]]

\* Page tables that map every page to the frame of the same number.
FlatOnly == [v \in Pages |-> {v}]

\* Page tables that may map a page to any frame; page 1 may be absent too.
AnyMap == [v \in Pages |-> IF v = 1 THEN Pages \cup {NoPage} ELSE Pages]

\* The shape of the kernel's mapping: a high page is a window on a low frame.
HighMap == [v \in Pages |-> IF v = 0 THEN {0} ELSE {v - 1}]
=============================================================================
