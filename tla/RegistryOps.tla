---------------------------- MODULE RegistryOps -----------------------------
(***************************************************************************)
(* The feature registry as a document, and the changes that the closures   *)
(* passed to FeatureStateStore::mutate make of it.  A registry maps a      *)
(* feature to its entry, or to NoEntry.  Of an entry's fields only those   *)
(* that a decision somewhere in the program reads are kept.                *)
(***************************************************************************)
CONSTANTS
    Features,   \* feature names (work_feature)
    Pids,       \* process ids a setup marker can carry
    NoPid,      \* an entry without a setup marker
    Runtimes,   \* what RuntimeMetadata can say: a provider, perhaps an identity
    NoEntry,    \* a feature the registry does not list
    Rejected    \* the outcome of a change that returns an error

(* list_features also reports "degraded" and "orphaned"; neither is stored. *)
StoredStatus == {"active", "failed_retained", "removed"}
(* FeatureTunnelStatus: a tunnel is "active", pending or manual alike, until it is removed. *)
TunnelStatus == {"none", "active", "disabled"}

Entry ==
    [status   : StoredStatus,
     setup    : Pids \cup {NoPid},
     runtime  : Runtimes,
     tunnel   : TunnelStatus,
     outdated : BOOLEAN]

Registry == [Features -> Entry \cup {NoEntry}]
EmptyRegistry == [f \in Features |-> NoEntry]

Listed(reg, f) == reg[f] # NoEntry

(* SetupRecord is keyed by the recording process. *)
MarkedBy(reg, f, pid) == Listed(reg, f) /\ reg[f].setup = pid

(* The entry of a start: written ahead with the process's id, before any   *)
(* runtime exists, and at the end with NoPid.                              *)
StartEntry(status, pid, runtime) ==
    [status |-> status, setup |-> pid, runtime |-> runtime,
     tunnel |-> "none", outdated |-> FALSE]

(* A new record replaces the entry but keeps a tunnel it knows nothing of. *)
UpsertStartedFeature(reg, f, entry) ==
    [reg EXCEPT ![f] =
        IF Listed(reg, f) /\ entry.tunnel = "none"
        THEN [entry EXCEPT !.tunnel = reg[f].tunnel]
        ELSE entry]

RecordStart(reg, f, entry) == UpsertStartedFeature(reg, f, entry)

(* Slip: a live entry is started afresh as well. *)
RecordSetupAfresh(reg, f, pid, runtime) ==
    UpsertStartedFeature(reg, f, StartEntry("active", pid, runtime))

(* A live entry (a start that reuses its worktree) only gains the marker.  *)
RecordSetupStarted(reg, f, pid, runtime) ==
    IF Listed(reg, f) /\ reg[f].status # "removed"
    THEN [reg EXCEPT ![f].setup = pid]
    ELSE UpsertStartedFeature(reg, f, StartEntry("active", pid, runtime))

(* Slip: whose marker the entry carries is not asked. *)
DiscardAnySetup(reg, f, pid, previous) ==
    IF Listed(reg, f) THEN [reg EXCEPT ![f] = previous] ELSE reg

(* previous is NoEntry if there was none. *)
DiscardSetup(reg, f, pid, previous) ==
    IF MarkedBy(reg, f, pid) THEN [reg EXCEPT ![f] = previous] ELSE reg

RecordSetupRuntime(reg, f, pid, runtime) ==
    IF MarkedBy(reg, f, pid) THEN [reg EXCEPT ![f].runtime = runtime] ELSE reg

(* Unlike the two above, whoever set the entry up. *)
RecordTeardown(reg, f) ==
    IF Listed(reg, f)
    THEN [reg EXCEPT ![f] = [@ EXCEPT
             !.status = "removed",
             !.setup = NoPid,
             !.tunnel = IF reg[f].tunnel = "none" THEN "none" ELSE "disabled"]]
    ELSE reg

(* update_feature, as tunnel_open and tunnel_remove use it. *)
UpdateTunnel(reg, f, status) ==
    IF Listed(reg, f) THEN [reg EXCEPT ![f].tunnel = status] ELSE Rejected

RecordDevcontainerSync(reg, f, success) ==
    IF Listed(reg, f) THEN [reg EXCEPT ![f].outdated = ~success] ELSE Rejected
=============================================================================
