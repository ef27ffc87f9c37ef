-------------------------- MODULE MCRegistryStore ---------------------------
(* RegistryStore on the feature registry: the calls that a start of F and  *)
(* a teardown of G make.                                                   *)
EXTENDS RegistryStore, TLC

CONSTANTS F, G, P1, P2, Bare, RT, NoPid, NoEntry

Ops == INSTANCE RegistryOps WITH
    Features <- {F, G}, Pids <- {P1, P2}, Runtimes <- {Bare, RT}

MCDocs == Ops!Registry
MCEmptyDoc == Ops!EmptyRegistry
Started == Ops!StartEntry("active", NoPid, RT)
MCLegacyDoc == [Ops!EmptyRegistry EXCEPT ![G] = Started]

(* "sync" is refused until F is listed. *)
MCChanges == {"write_ahead", "teardown", "sync"}

MCApply(c, d) ==
    CASE c = "write_ahead" -> Ops!RecordSetupStarted(d, F, P1, Bare)
      [] c = "teardown"    -> Ops!RecordTeardown(d, G)
      [] c = "sync"        -> Ops!RecordDevcontainerSync(d, F, FALSE)
=============================================================================
