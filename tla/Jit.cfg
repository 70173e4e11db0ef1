CONSTANT Traces <- MCTraces
SPECIFICATION Spec
INVARIANTS TypeOK HostStackBalanced GuestStateKept
