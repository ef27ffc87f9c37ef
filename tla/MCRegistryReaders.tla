------------------------- MODULE MCRegistryReaders --------------------------
(* RegistryReaders with writers that start, and tear down, F.              *)
EXTENDS RegistryReaders

CONSTANTS F, P1, P2, NoPid, Bare, NoEntry

Ops == INSTANCE RegistryOps WITH
    Features <- {F}, Pids <- {P1, P2}, Runtimes <- {Bare}

MCDocs == Ops!Registry
MCEmptyDoc == Ops!EmptyRegistry
MCChanges == {"write_ahead", "teardown"}

MCApply(c, d) ==
    CASE c = "write_ahead" -> Ops!RecordSetupStarted(d, F, P1, Bare)
      [] c = "teardown"    -> Ops!RecordTeardown(d, F)
=============================================================================
