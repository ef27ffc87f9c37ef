---------------------------- MODULE TunnelState ----------------------------
(***************************************************************************)
(* The tunnel of one feature: at Cloudflare, where it is found by its      *)
(* name; in the registry, as the tunnel state of the feature's entry; and  *)
(* in two files, the token store's under .branchbox/secure/tunnels and the *)
(* worktree's .cloudflared.env, from which the connector takes its token.  *)
(* Commands run one at a time, unless the weather lets those that only     *)
(* provision overlap.  Credentials are set, and the hostname stays the     *)
(* same.                                                                   *)
(***************************************************************************)
EXTENDS FiniteSets

CONSTANTS
    Procs,     \* processes, each with one command at a time
    Tunnels,   \* ids that Cloudflare may give out, each once
    NoTunnel,  \* no tunnel, no token, no DNS record
    Weathers   \* sets of faults; one of them holds for a whole behaviour

(* Calls that may fail, and "overlap". *)
Faults == {"lookup", "configure", "token", "client", "env", "runtime", "overlap"}

ASSUME TunnelStateAssumption ==
    /\ NoTunnel \notin Tunnels
    /\ Weathers \subseteq SUBSET Faults

VARIABLES
    faults,  \* what may fail, one of Weathers
    live,    \* tunnels of the feature's name that Cloudflare has
    fresh,   \* ids not given out yet
    dns,     \* the tunnel that the hostname's CNAME names, or NoTunnel
    store,   \* the tunnel whose token the token store's file holds, or NoTunnel
    env,     \* the one whose token .cloudflared.env holds, or NoTunnel
    entry,   \* the registry entry: feature, tunnel status, descriptor
    job,     \* [Procs -> the command a process is at]
    told     \* history: live tunnels when a command warned about the provider

cloud == <<live, fresh, dns>>
files == <<store, env>>
vars == <<faults, cloud, files, entry, job, told>>

MaybeTunnel == Tunnels \cup {NoTunnel}
Removals == {"remove", "teardown"}

(* A descriptor: tunnel_id, and whether token_path is there. *)
Descriptors == [id : MaybeTunnel, path : BOOLEAN]
NoDescriptor == [id |-> NoTunnel, path |-> FALSE]

Entries ==
    [feature : {"absent", "active", "removed"},
     tunnel : {"none", "pending", "active", "manual", "disabled"},
     descriptor : Descriptors]

(* The token that provision returns is job[p].token; what is to be         *)
(* recorded, or was read to be removed, is job[p].descriptor.              *)
Jobs ==
    [op : {"idle", "open", "start"} \cup Removals,
     step : {"idle", "find", "create", "configure", "keep", "persist", "up",
             "rollback", "record", "delete", "clean", "forget"},
     force : BOOLEAN, token : MaybeTunnel, descriptor : Descriptors,
     tunnel : {"pending", "active", "manual"}]

NoJob ==
    [op |-> "idle", step |-> "idle", force |-> FALSE, token |-> NoTunnel,
     descriptor |-> NoDescriptor, tunnel |-> "pending"]

Init ==
    /\ faults \in Weathers
    /\ live = {}
    /\ fresh = Tunnels
    /\ dns = NoTunnel
    /\ store = NoTunnel
    /\ env = NoTunnel
    /\ entry = [feature |-> "absent", tunnel |-> "none", descriptor |-> NoDescriptor]
    /\ job = [p \in Procs |-> NoJob]
    /\ told = {}

AllIdle == \A p \in Procs : job[p].op = "idle"
Goto(p, step) == job' = [job EXCEPT ![p].step = step]
Finish(p) == job' = [job EXCEPT ![p] = NoJob]

(* Whether a command may begin beside the others. *)
Admitted(op) ==
    \/ AllIdle
    \/ /\ "overlap" \in faults
       /\ op \notin Removals
       /\ \A p \in Procs : job[p].op \notin Removals

(* A warning or an error that names the provider or the descriptor. *)
Tell == told' = told \cup live

(***************************************************************************)
(* Provisioning: tunnel_open, and prepare_tunnel_state in a start.         *)
(***************************************************************************)
(* Bound: some tunnel is there, or an id is left. *)
Open(p) ==
    /\ job[p].op = "idle" /\ Admitted("open")
    /\ live \cup fresh # {}
    /\ entry.feature = "active"
    /\ job' = [job EXCEPT ![p] = [@ EXCEPT !.op = "open", !.step = "find"]]
    /\ UNCHANGED <<faults, cloud, files, entry, told>>

(* With the write-ahead entry, which keeps the tunnel of an existing one. *)
Start(p) ==
    /\ job[p].op = "idle" /\ Admitted("start")
    /\ live \cup fresh # {}
    /\ entry' = [entry EXCEPT !.feature = "active"]
    /\ job' = [job EXCEPT ![p] = [@ EXCEPT !.op = "start", !.step = "find"]]
    /\ UNCHANGED <<faults, cloud, files, told>>

Provisioned(p) == IF job[p].op = "start" THEN "up" ELSE "record"

(* invoke_tunnel_provider turns an error into manual instructions, and a   *)
(* warning that is printed at the end.                                     *)
ProviderFails(p) ==
    job' = [job EXCEPT ![p] = [@ EXCEPT !.step = Provisioned(p), !.tunnel = "manual",
                                        !.descriptor = NoDescriptor, !.token = NoTunnel]]

Find(p) ==
    /\ job[p].step = "find"
    /\ \/ live = {} /\ Goto(p, "create")
       \/ \E t \in live :
              job' = [job EXCEPT ![p] = [@ EXCEPT !.step = "configure", !.descriptor.id = t]]
       \/ "lookup" \in faults /\ ProviderFails(p)
    /\ UNCHANGED <<faults, cloud, files, entry, told>>

(* Cloudflare refuses the name of a tunnel it has. *)
Create(p) ==
    /\ job[p].step = "create"
    /\ IF live = {}
       THEN \E t \in fresh :
                /\ live' = {t}
                /\ fresh' = fresh \ {t}
                /\ job' = [job EXCEPT ![p] = [@ EXCEPT !.step = "configure", !.token = t,
                                                       !.descriptor.id = t]]
       ELSE /\ ProviderFails(p)
            /\ UNCHANGED <<live, fresh>>
    /\ UNCHANGED <<faults, dns, files, entry, told>>

(* configure_tunnel and ensure_cname_record. *)
Configure(p) ==
    /\ job[p].step = "configure"
    /\ \/ /\ dns' = job[p].descriptor.id
          /\ Goto(p, "keep")
       \/ /\ "configure" \in faults
          /\ ProviderFails(p)
          /\ UNCHANGED dns
    /\ UNCHANGED <<faults, live, fresh, files, entry, told>>

(* The token of a new tunnel is stored; that of an existing one is         *)
(* expected in the store's file, whatever that holds.                      *)
Keep(p) ==
    /\ job[p].step = "keep"
    /\ IF job[p].token = NoTunnel
       THEN /\ job' = [job EXCEPT ![p] = [@ EXCEPT !.step = "persist",
                                                   !.descriptor.path = store # NoTunnel]]
            /\ UNCHANGED store
       ELSE \/ /\ store' = job[p].token
               /\ job' = [job EXCEPT ![p] = [@ EXCEPT !.step = "persist",
                                                      !.descriptor.path = TRUE]]
            \/ /\ "token" \in faults
               /\ store' \in {store, NoTunnel}
               /\ ProviderFails(p)
    /\ UNCHANGED <<faults, cloud, env, entry, told>>

(* persist_tunnel_credentials.  Without a token, or when the write fails   *)
(* or truncates the file, the tunnel stays pending.                        *)
Persist(p) ==
    /\ job[p].step = "persist"
    /\ LET token == IF job[p].token # NoTunnel THEN job[p].token
                    ELSE IF job[p].descriptor.path THEN store ELSE NoTunnel
       IN  \/ /\ token # NoTunnel
              /\ env' = token
              /\ job' = [job EXCEPT ![p] = [@ EXCEPT !.step = Provisioned(p), !.tunnel = "active"]]
           \/ /\ token = NoTunnel \/ "env" \in faults
              /\ env' \in IF token = NoTunnel THEN {env} ELSE {env, NoTunnel}
              /\ Goto(p, Provisioned(p))
    /\ UNCHANGED <<faults, cloud, store, entry, told>>

(* The runtime is prepared and its environment started, or one of them     *)
(* fails.                                                                  *)
BringUp(p) ==
    /\ job[p].step = "up"
    /\ \/ Goto(p, "record")
       \/ "runtime" \in faults /\ Goto(p, "rollback")
    /\ UNCHANGED <<faults, cloud, files, entry, told>>

(* CloudflaredProvider::teardown. *)
Delete(t) ==
    /\ live' = live \ {t}
    /\ dns' = NoTunnel
    /\ UNCHANGED fresh

(* Slip: only a tunnel that became active is rolled back. *)
RollBackActive(p) ==
    /\ job[p].step = "rollback"
    /\ IF job[p].tunnel = "active"
       THEN Delete(job[p].descriptor.id)
       ELSE UNCHANGED cloud
    /\ Finish(p)
    /\ UNCHANGED <<faults, files, entry, told>>

(* rollback_prepared_tunnel leaves the store's file; the start fails. *)
RollBack(p) ==
    /\ job[p].step = "rollback"
    /\ IF job[p].descriptor.id = NoTunnel
       THEN UNCHANGED cloud
       ELSE Delete(job[p].descriptor.id)
    /\ Finish(p)
    /\ UNCHANGED <<faults, files, entry, told>>

(* update_feature of tunnel_open, or record_start. *)
Record(p) ==
    /\ job[p].step = "record"
    /\ job[p].op \in {"open", "start"}
    /\ entry' = [entry EXCEPT !.tunnel = job[p].tunnel, !.descriptor = job[p].descriptor]
    /\ IF job[p].tunnel = "manual" THEN Tell ELSE UNCHANGED told
    /\ Finish(p)
    /\ UNCHANGED <<faults, cloud, files>>

(***************************************************************************)
(* tunnel_remove, on its own or in a teardown, which tries it only for a   *)
(* registered feature and goes on when it is refused.                      *)
(***************************************************************************)
Remove(p, op, force) ==
    /\ job[p].op = "idle" /\ Admitted(op)
    /\ IF op = "remove" THEN entry.tunnel # "none" ELSE entry.feature = "active"
    /\ job' = [job EXCEPT ![p] = [@ EXCEPT
                   !.op = op, !.force = force, !.descriptor = entry.descriptor,
                   !.step = IF entry.tunnel = "none" THEN "forget" ELSE "delete"]]
    /\ UNCHANGED <<faults, cloud, files, entry, told>>

(* Without a descriptor the provider is passed over, with a warning.  When *)
(* the client cannot be built, only force goes on.                         *)
DeleteTunnel(p) ==
    /\ job[p].step = "delete"
    /\ \/ /\ job[p].descriptor.id = NoTunnel
          /\ Goto(p, "clean")
          /\ Tell
          /\ UNCHANGED cloud
       \/ /\ job[p].descriptor.id # NoTunnel
          /\ Delete(job[p].descriptor.id)
          /\ Goto(p, "clean")
          /\ UNCHANGED told
       \/ /\ job[p].descriptor.id # NoTunnel
          /\ "client" \in faults
          /\ IF job[p].force THEN Goto(p, "clean")
             ELSE IF job[p].op = "teardown" THEN Goto(p, "forget")
             ELSE Finish(p)
          /\ Tell
          /\ UNCHANGED cloud
    /\ UNCHANGED <<faults, files, entry>>

(* Slip: the store's file is not removed. *)
CleanEnvOnly(p) ==
    /\ job[p].step = "clean"
    /\ env' = NoTunnel
    /\ Goto(p, "record")
    /\ UNCHANGED <<faults, cloud, store, entry, told>>

Clean(p) ==
    /\ job[p].step = "clean"
    /\ store' = IF job[p].descriptor.path THEN NoTunnel ELSE store
    /\ env' = NoTunnel
    /\ Goto(p, "record")
    /\ UNCHANGED <<faults, cloud, entry, told>>

(* Slip: the descriptor stays. *)
DisabledOnly == [entry EXCEPT !.tunnel = "disabled"]

Disabled == [entry EXCEPT !.tunnel = "disabled", !.descriptor = NoDescriptor]

RecordRemoved(p) ==
    /\ job[p].step = "record"
    /\ job[p].op \in Removals
    /\ entry' = Disabled
    /\ IF job[p].op = "teardown" THEN Goto(p, "forget") ELSE Finish(p)
    /\ UNCHANGED <<faults, cloud, files, told>>

(* The rest of a teardown: the worktree goes, and record_teardown. *)
Forget(p) ==
    /\ job[p].step = "forget"
    /\ env' = NoTunnel
    /\ entry' = [(IF entry.tunnel = "none" THEN entry ELSE Disabled)
                    EXCEPT !.feature = "removed"]
    /\ Finish(p)
    /\ UNCHANGED <<faults, cloud, store, told>>

Next ==
    \E p \in Procs :
        \/ Open(p)
        \/ Start(p)
        \/ Find(p)
        \/ Create(p)
        \/ Configure(p)
        \/ Keep(p)
        \/ Persist(p)
        \/ BringUp(p)
        \/ RollBack(p)
        \/ Record(p)
        \/ \E op \in Removals, force \in BOOLEAN : Remove(p, op, force)
        \/ DeleteTunnel(p)
        \/ Clean(p)
        \/ RecordRemoved(p)
        \/ Forget(p)

Spec == Init /\ [][Next]_vars

(***************************************************************************)
(* Properties.                                                             *)
(***************************************************************************)
(* The types of the variables, and a descriptor in the entry just as       *)
(* FeatureTunnelState's constructors put it there.                         *)
TypeOK ==
    /\ faults \in Weathers
    /\ live \subseteq Tunnels
    /\ fresh \subseteq Tunnels
    /\ dns \in MaybeTunnel
    /\ store \in MaybeTunnel
    /\ env \in MaybeTunnel
    /\ entry \in Entries
    /\ entry.descriptor.id # NoTunnel <=> entry.tunnel \in {"pending", "active"}
    /\ job \in [Procs -> Jobs]
    /\ told \subseteq Tunnels

(* No tunnel is left at Cloudflare in silence: between commands each one   *)
(* is named by the descriptor that tunnel_remove would use, or a command   *)
(* has warned about the provider while it was there.                       *)
NoSilentLeak ==
    AllIdle => \A t \in live : entry.descriptor.id = t \/ t \in told

(* Between commands, a tunnel that is recorded as active (listed as        *)
(* online) and that Cloudflare has is the one whose token the worktree's   *)
(* connector got from tunnel_open or start.                                *)
ConnectorOwn ==
    /\ AllIdle
    /\ entry.tunnel = "active"
    /\ entry.descriptor.id \in live
    => env = entry.descriptor.id
=============================================================================
