\* Provisioning commands beside each other; commands one by one while the provider fails; the
\* same while the runtime of a start fails.
SPECIFICATION Spec
CONSTANTS
    Procs = {P1, P2}
    Tunnels = {T1, T2, T3}
    NoTunnel = NoTunnel
    Weathers = {
        {"overlap", "lookup", "client"},
        {"lookup", "configure", "token", "client", "env"},
        {"lookup", "client", "env", "runtime"}}
INVARIANTS
    TypeOK
    NoSilentLeak
    ConnectorOwn
CHECK_DEADLOCK FALSE
