---------------------------- MODULE AgentReports ----------------------------
(***************************************************************************)
(* What branchbox-agent tells the control plane about features: the IPC    *)
(* and gRPC handlers, which first operate and then record what was done,   *)
(* the table of worktrees and the events in SQLite, the heartbeat's        *)
(* snapshots of that table, commands that change features beside the       *)
(* agent, its shutdown and its death.                                      *)
(***************************************************************************)
EXTENDS Naturals, FiniteSets

CONSTANTS
    Handlers,  \* the connections that are served at a time
    Features,
    Overlaps,  \* whether calls on one feature may be under way together
    MaxCalls,  \* bound: calls of the agent and of other processes
    MaxDeaths  \* bound: ends of the agent

ASSUME AgentReportsAssumption ==
    /\ Features # {}
    /\ Overlaps \subseteq BOOLEAN /\ Overlaps # {}
    /\ MaxCalls \in Nat
    /\ MaxDeaths \in Nat

VARIABLES
    status,     \* the registry: "none", "active", "unfinished" or "removed"
    table,      \* table worktrees: a row's status, or "none" without a row
    told,       \* table events, read in the order of the ids: a feature's
                \* last event, or the heartbeat that has listed it since
    job,        \* the locals of each handler
    snapshot,   \* the heartbeat's snapshot, or NoSnapshot
    agent,      \* "up", "stopping", "ending" or "down"
    overlap,    \* whether calls on one feature overlap in this behaviour
    unrecorded, \* history: features that changed and were not recorded since
    calls,      \* count: calls so far
    deaths      \* count: ends of the agent so far

database == <<table, told>>
bounds == <<overlap, calls, deaths>>
reportVars == <<status, database, job, snapshot, agent, unrecorded, bounds>>

Kinds == {"start", "teardown"}
NoSnapshot == <<>>
Idle == [stage |-> "idle"]
Jobs == [stage : {"operate", "record", "kept", "event"}, kind : Kinds, feature : Features]

InitReports ==
    /\ status = [f \in Features |-> "none"]
    /\ table = [f \in Features |-> "none"]
    /\ told = [f \in Features |-> "none"]
    /\ job = [h \in Handlers |-> Idle]
    /\ snapshot = NoSnapshot
    /\ agent = "down"
    /\ overlap \in Overlaps
    /\ unrecorded = {}
    /\ calls = 0
    /\ deaths = 0

Busy == {h \in Handlers : job[h].stage # "idle"}

\* The calls whose outcome is still to be recorded.
Unreported == {h \in Handlers : job[h].stage \in {"record", "kept"}}

\* Nobody works on the feature.
Undisturbed(f) == \A h \in Busy : job[h].feature # f

\* What WorktreeRecord says of a start and of a teardown.
Recorded(kind) == IF kind = "start" THEN "active" ELSE "removed"

\* The mutex of the connection, which a recording keeps for its two statements.
ConnFree == \A h \in Handlers : job[h].stage # "event"

Finish(h) == job' = [job EXCEPT ![h] = Idle]
Forgotten(f) == unrecorded' = unrecorded \union {f}

-----------------------------------------------------------------------------
(* The handlers.                                                           *)

Call(h, kind, f) ==
    /\ agent \in {"up", "stopping"}
    /\ job[h] = Idle
    /\ calls < MaxCalls
    /\ ~overlap => Undisturbed(f)
    /\ job' = [job EXCEPT ![h] = [stage |-> "operate", kind |-> kind, feature |-> f]]
    /\ calls' = calls + 1
    /\ UNCHANGED <<status, database, snapshot, agent, unrecorded, overlap, deaths>>

\* The runtime's blocking pool takes no task any more: what was done is not recorded.
Proceed(h, stage) ==
    IF agent = "ending"
    THEN Finish(h) /\ Forgotten(job[h].feature)
    ELSE job' = [job EXCEPT ![h].stage = stage] /\ UNCHANGED unrecorded

\* ops::start_feature succeeds.
Started(h) ==
    /\ job[h].stage = "operate" /\ job[h].kind = "start"
    /\ status' = [status EXCEPT ![job[h].feature] = "active"]
    /\ Proceed(h, "record")
    /\ UNCHANGED <<database, snapshot, agent, bounds>>

\* It fails and leaves an entry whose setup is unfinished.
LeftUnfinished(h) ==
    /\ job[h].stage = "operate" /\ job[h].kind = "start"
    /\ status[job[h].feature] # "active"
    /\ status' = [status EXCEPT ![job[h].feature] = "unfinished"]
    /\ Finish(h)
    /\ Forgotten(job[h].feature)
    /\ UNCHANGED <<database, snapshot, agent, bounds>>

\* ops::teardown_feature succeeds; forced, also for a feature that has no entry, and leaves none.
TornDown(h) ==
    /\ job[h].stage = "operate" /\ job[h].kind = "teardown"
    /\ status' = [status EXCEPT ![job[h].feature] = IF @ = "none" THEN "none" ELSE "removed"]
    /\ Proceed(h, "record")
    /\ UNCHANGED <<database, snapshot, agent, bounds>>

\* A forced teardown succeeds, but its worktree cannot be removed: the registry stays as it is.
Kept(h) ==
    /\ job[h].stage = "operate" /\ job[h].kind = "teardown"
    /\ Proceed(h, "kept")
    /\ UNCHANGED <<status, database, snapshot, agent, bounds>>

(* Slip: an operation that failed is recorded. *)
RefusedRecorded(h) ==
    /\ job[h].stage = "operate"
    /\ Proceed(h, "record")
    /\ UNCHANGED <<status, database, snapshot, agent, bounds>>

\* The operation fails and has changed nothing.
Refused(h) ==
    /\ job[h].stage = "operate"
    /\ Finish(h)
    /\ UNCHANGED <<status, database, snapshot, agent, unrecorded, bounds>>

\* record_feature_start and record_feature_teardown: the row of the table, or an error.
Upsert(h) ==
    /\ job[h].stage \in {"record", "kept"}
    /\ agent # "ending"
    /\ ConnFree
    /\ table' = [table EXCEPT ![job[h].feature] = Recorded(job[h].kind)]
    /\ unrecorded' = IF job[h].stage = "kept" THEN unrecorded \union {job[h].feature}
                                              ELSE unrecorded \ {job[h].feature}
    /\ job' = [job EXCEPT ![h].stage = "event"]
    /\ UNCHANGED <<status, told, snapshot, agent, bounds>>

NotRecorded(h) ==
    /\ job[h].stage \in {"record", "kept"}
    /\ Finish(h)
    /\ Forgotten(job[h].feature)
    /\ UNCHANGED <<status, database, snapshot, agent, bounds>>

\* Their second statement: the event, or an error after which the row stays.
InsertEvent(h) ==
    /\ job[h].stage = "event"
    /\ told' = [told EXCEPT ![job[h].feature] = Recorded(job[h].kind)]
    /\ Finish(h)
    /\ UNCHANGED <<status, table, snapshot, agent, unrecorded, bounds>>

EventLost(h) ==
    /\ job[h].stage = "event"
    /\ Finish(h)
    /\ UNCHANGED <<status, database, snapshot, agent, unrecorded, bounds>>

Handler(h) ==
    \/ Started(h) \/ LeftUnfinished(h)
    \/ TornDown(h) \/ Kept(h) \/ Refused(h)
    \/ Upsert(h) \/ NotRecorded(h)
    \/ InsertEvent(h) \/ EventLost(h)

-----------------------------------------------------------------------------
(* The heartbeat: a snapshot, and its insertion by another database call.  *)

(* Slip: only features that are there are listed. *)
SnapshotActive ==
    /\ agent = "up"
    /\ snapshot = NoSnapshot
    /\ ConnFree
    /\ snapshot' = [f \in Features |-> IF table[f] = "active" THEN "active" ELSE "none"]
    /\ UNCHANGED <<status, database, job, agent, unrecorded, bounds>>

Snapshot ==
    /\ agent = "up"
    /\ snapshot = NoSnapshot
    /\ ConnFree
    /\ snapshot' = table
    /\ UNCHANGED <<status, database, job, agent, unrecorded, bounds>>

InsertHeartbeat ==
    /\ snapshot # NoSnapshot
    /\ ConnFree
    /\ told' = [f \in Features |->
                   IF snapshot[f] = "none" THEN told[f] ELSE snapshot[f]]
    /\ snapshot' = NoSnapshot
    /\ UNCHANGED <<status, table, job, agent, unrecorded, bounds>>

HeartbeatLost ==
    /\ snapshot # NoSnapshot
    /\ snapshot' = NoSnapshot
    /\ UNCHANGED <<status, database, job, agent, unrecorded, bounds>>

-----------------------------------------------------------------------------
(* Other processes, and the life of the agent.                             *)

\* The command line starts a feature or tears one down; the agent is not told.
Aside(f) ==
    /\ calls < MaxCalls
    /\ ~overlap => Undisturbed(f)
    /\ status' = [status EXCEPT ![f] = IF @ = "active" THEN "removed" ELSE "active"]
    /\ Forgotten(f)
    /\ calls' = calls + 1
    /\ UNCHANGED <<database, job, snapshot, agent, overlap, deaths>>

\* A signal cancels the token: no more IPC connections and heartbeats.
Signal ==
    /\ agent = "up"
    /\ deaths < MaxDeaths
    /\ agent' = "stopping"
    /\ deaths' = deaths + 1
    /\ UNCHANGED <<status, database, job, snapshot, unrecorded, overlap, calls>>

\* run returns when its own loops have ended; connections are not awaited.
End ==
    /\ agent = "stopping"
    /\ snapshot = NoSnapshot
    /\ agent' = "ending"
    /\ UNCHANGED <<status, database, job, snapshot, unrecorded, bounds>>

\* The process ends when no thread is in an operation or a statement.
Exit ==
    /\ agent = "ending"
    /\ Busy = {}
    /\ agent' = "down"
    /\ UNCHANGED <<status, database, job, snapshot, unrecorded, bounds>>

Die ==
    /\ agent \notin {"down", "ending"}
    /\ deaths < MaxDeaths
    /\ agent' = "down"
    /\ deaths' = deaths + 1
    /\ job' = [h \in Handlers |-> Idle]
    /\ snapshot' = NoSnapshot
    /\ unrecorded' = unrecorded \union {job[h].feature : h \in Unreported}
    /\ UNCHANGED <<status, database, overlap, calls>>

Relaunch ==
    /\ agent = "down"
    /\ agent' = "up"
    /\ UNCHANGED <<status, database, job, snapshot, unrecorded, bounds>>

NextReports ==
    \/ \E h \in Handlers :
          \/ \E kind \in Kinds, f \in Features : Call(h, kind, f)
          \/ Handler(h)
    \/ Snapshot \/ InsertHeartbeat \/ HeartbeatLost
    \/ \E f \in Features : Aside(f)
    \/ Signal \/ End \/ Exit \/ Die \/ Relaunch

SpecReports == InitReports /\ [][NextReports]_reportVars

\* The scheduler serves handlers, timer and shutdown, the service manager restarts
\* the agent, and the database does not fail for ever.
Fairness ==
    /\ \A h \in Handlers : WF_reportVars(Handler(h))
    /\ WF_reportVars(Snapshot) /\ SF_reportVars(InsertHeartbeat)
    /\ WF_reportVars(End) /\ WF_reportVars(Exit) /\ WF_reportVars(Relaunch)

FairSpecReports == SpecReports /\ Fairness

-----------------------------------------------------------------------------

(* The types of all variables. *)
ReportsTypeOK ==
    /\ status \in [Features -> {"none", "active", "unfinished", "removed"}]
    /\ table \in [Features -> {"none", "active", "removed"}]
    /\ told \in [Features -> {"none", "active", "removed"}]
    /\ job \in [Handlers -> {Idle} \union Jobs]
    /\ snapshot = NoSnapshot \/ snapshot \in [Features -> {"none", "active", "removed"}]
    /\ agent \in {"up", "stopping", "ending", "down"}
    /\ overlap \in BOOLEAN
    /\ unrecorded \subseteq Features
    /\ calls \in 0..MaxCalls
    /\ deaths \in 0..MaxDeaths

\* A row says what the registry says. A feature without an entry may have a row that
\* calls it removed: a forced teardown that found no entry is recorded as any other.
Agrees(row, entry) == row = entry \/ <<row, entry>> = <<"removed", "none">>

(* When calls on one feature do not overlap, the agent's table agrees with the   *)
(* registry on every feature, unless a change was made beside the agent, its     *)
(* record failed, or a forced teardown could not remove the worktree: the        *)
(* handlers record what they did, and nothing they did not do. A feature that    *)
(* the registry does not have is never listed as active, and one it has is       *)
(* listed with its status.                                                       *)
TableCurrent ==
    ~overlap => \A f \in Features :
        f \notin unrecorded \union {job[h].feature : h \in Unreported}
            => Agrees(table[f], status[f])

(* What the events say of each feature comes to agree with the table, although   *)
(* an event may be lost after its row was written, and a heartbeat may insert a  *)
(* snapshot taken before the row changed: the next heartbeats repair both.       *)
ReportsConverge == <>[](told = table)

=============================================================================
