--------------------------- MODULE AtomicRegistry ---------------------------
(***************************************************************************)
(* What a file kept by atomic_fs promises its callers: a change takes      *)
(* effect in one atomic step on the current document, an "ok" answer is    *)
(* given only once the change would survive a power loss, and a call that  *)
(* fails, or whose process dies, has either taken effect entirely or not   *)
(* at all.  RegistryStore is the protocol that implements this.            *)
(***************************************************************************)
CONSTANTS
    Procs,        \* processes (or threads) that change the file
    Docs,         \* documents the file can hold
    EmptyDoc,     \* the document of a repository with no file
    Changes,      \* the changes a caller may ask for
    Apply(_, _),  \* Apply(c, d): the document c makes of d, or Rejected
    Rejected,     \* the outcome of a change that fails on the document
    FirstDoc      \* the document found at the start

NoCall == [phase |-> "none"]
Pending(c) == [phase |-> "pending", change |-> c]
Committed(c) == [phase |-> "committed", change |-> c]

VARIABLES
    registry,  \* the document every process sees
    durable,   \* the document a power loss falls back to
    call,      \* [Procs -> the call in progress]
    answer     \* [Procs -> what the last call answered]

vars == <<registry, durable, call, answer>>

Init ==
    /\ registry = FirstDoc
    /\ durable = FirstDoc
    /\ call = [p \in Procs |-> NoCall]
    /\ answer = [p \in Procs |-> "none"]

Call(p, c) ==
    /\ call[p] = NoCall
    /\ call' = [call EXCEPT ![p] = Pending(c)]
    /\ answer' = [answer EXCEPT ![p] = "none"]
    /\ UNCHANGED <<registry, durable>>

Commit(p) ==
    /\ call[p].phase = "pending"
    /\ Apply(call[p].change, registry) # Rejected
    /\ registry' = Apply(call[p].change, registry)
    /\ call' = [call EXCEPT ![p] = Committed(@.change)]
    /\ UNCHANGED <<durable, answer>>

Flush ==
    /\ durable' = registry
    /\ UNCHANGED <<registry, call, answer>>

Acknowledge(p) ==
    /\ call[p].phase = "committed"
    /\ durable = registry
    /\ call' = [call EXCEPT ![p] = NoCall]
    /\ answer' = [answer EXCEPT ![p] = "ok"]
    /\ UNCHANGED <<registry, durable>>

Reject(p) ==
    /\ call[p].phase = "pending"
    /\ Apply(call[p].change, registry) = Rejected
    /\ call' = [call EXCEPT ![p] = NoCall]
    /\ answer' = [answer EXCEPT ![p] = "rejected"]
    /\ UNCHANGED <<registry, durable>>

(* The lock was not to be had in time: the change certainly did not happen. *)
TimeOut(p) ==
    /\ call[p].phase = "pending"
    /\ call' = [call EXCEPT ![p] = NoCall]
    /\ answer' = [answer EXCEPT ![p] = "locked"]
    /\ UNCHANGED <<registry, durable>>

(* An I/O error: before or after the change took effect. *)
Fail(p) ==
    /\ call[p] # NoCall
    /\ call' = [call EXCEPT ![p] = NoCall]
    /\ answer' = [answer EXCEPT ![p] = "error"]
    /\ UNCHANGED <<registry, durable>>

Crash(p) ==
    /\ call' = [call EXCEPT ![p] = NoCall]
    /\ answer' = [answer EXCEPT ![p] = "none"]
    /\ UNCHANGED <<registry, durable>>

PowerLoss ==
    /\ registry' = durable
    /\ call' = [p \in Procs |-> NoCall]
    /\ answer' = [p \in Procs |-> "none"]
    /\ UNCHANGED durable

Next ==
    \/ \E p \in Procs :
        \/ \E c \in Changes : Call(p, c)
        \/ Commit(p)
        \/ Acknowledge(p)
        \/ Reject(p)
        \/ TimeOut(p)
        \/ Fail(p)
        \/ Crash(p)
    \/ Flush
    \/ PowerLoss

Spec == Init /\ [][Next]_vars
=============================================================================
