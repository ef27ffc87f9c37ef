----------------------------- MODULE AgentDrain -----------------------------
(***************************************************************************)
(* branchbox-agent's event queue: events recorded in SQLite by the IPC     *)
(* handlers and the heartbeat, the event loop that sends them in batches   *)
(* to the control plane, what the control plane answers or fails to        *)
(* answer, the acknowledgement cursor that survives a restart, and the     *)
(* agent's death between any two statements.                               *)
(***************************************************************************)
EXTENDS Naturals, FiniteSets

CONSTANTS
    MaxEvents,  \* bound: events queued
    BatchSize,  \* event_batch_size
    MaxBatchId, \* i64::MAX, where saturating_add stops
    MaxCrashes, \* bound: deaths of the agent
    Modes,      \* "drain" to the control plane, "log" only
    Truncation  \* whether an answer's body may break off

ASSUME AgentDrainAssumption ==
    /\ MaxEvents \in Nat
    /\ BatchSize \in Nat \ {0}
    /\ MaxBatchId \in Nat \ {0}
    /\ MaxCrashes \in Nat
    /\ Modes \subseteq {"drain", "log"} /\ Modes # {}
    /\ Truncation \in BOOLEAN

VARIABLES
    last,      \* table events: the ids 1..last are queued
    delivered, \* table events: the ids with a delivered_at
    ack,       \* control_plane_status.last_ack_event_id, 0 for NULL
    nextBatch, \* control_plane_status.next_batch_id
    mode,      \* the configuration the agent runs with
    pc,        \* "down", or where the event loop stands
    batch,     \* the ids it has dequeued
    batchId,   \* the id allocated for them
    answer,    \* ack_id
    waiting,   \* the backoff has not run out
    reported,  \* external: the events the control plane or the log has
    sentIds,   \* history: the batch ids that were sent
    crashes    \* count: deaths so far

tables == <<last, delivered, ack, nextBatch>>
loop == <<pc, batch, batchId, answer, waiting>>
vars == <<tables, mode, loop, reported, sentIds, crashes>>

Init ==
    /\ last = 0
    /\ delivered = {}
    /\ ack = 0
    /\ nextBatch = 1
    /\ mode \in Modes
    /\ pc = "down"
    /\ batch = {}
    /\ batchId = 0
    /\ answer = 0
    /\ waiting = FALSE
    /\ reported = {}
    /\ sentIds = {}
    /\ crashes = 0

(* Slip: the acknowledgement, not the delivered flags, says what is left.  *)
PendingAfterAck == {e \in 1..last : e > ack} \ delivered

(* dequeue_events: delivered_at IS NULL ORDER BY id ASC LIMIT. *)
Pending == (1..last) \ delivered

(* Slip: the newest events first. *)
NewestPending == {e \in Pending : Cardinality({n \in Pending : n > e}) < BatchSize}

OldestPending == {e \in Pending : Cardinality({n \in Pending : n < e}) < BatchSize}

(***************************************************************************)
(* The event loop.                                                         *)
(***************************************************************************)
(* The IPC handlers and the heartbeat, at any time. *)
Enqueue ==
    /\ pc # "down"
    /\ last < MaxEvents
    /\ last' = last + 1
    /\ UNCHANGED <<delivered, ack, nextBatch, mode, loop, reported, sentIds, crashes>>

(* A tick that finds nothing, or the backoff running, does nothing. *)
Dequeue ==
    /\ pc = "wait"
    /\ Pending # {}
    /\ ~ waiting
    /\ batch' = OldestPending
    /\ pc' = IF mode = "log" THEN "log" ELSE "allocate"
    /\ UNCHANGED <<tables, mode, batchId, answer, waiting, reported, sentIds, crashes>>

(* Slip: the counter is not saved. *)
AllocateUnsaved ==
    /\ pc = "allocate"
    /\ batchId' = nextBatch
    /\ pc' = "send"
    /\ UNCHANGED <<tables, mode, batch, answer, waiting, reported, sentIds, crashes>>

(* Slip: the counter is not saturating. *)
AllocateWrapping ==
    /\ pc = "allocate"
    /\ batchId' = nextBatch
    /\ nextBatch' = nextBatch + 1
    /\ pc' = "send"
    /\ UNCHANGED <<last, delivered, ack, mode, batch, answer, waiting, reported, sentIds, crashes>>

(* next_batch_id: the counter is saved before the batch is sent. *)
Allocate ==
    /\ pc = "allocate"
    /\ batchId' = nextBatch
    /\ nextBatch' = IF nextBatch < MaxBatchId THEN nextBatch + 1 ELSE nextBatch
    /\ pc' = "send"
    /\ UNCHANGED <<last, delivered, ack, mode, batch, answer, waiting, reported, sentIds, crashes>>

AllocateFails ==
    /\ pc = "allocate"
    /\ pc' = "wait"
    /\ UNCHANGED <<tables, mode, batch, batchId, answer, waiting, reported, sentIds, crashes>>

(* The control plane takes the batch's events up to some id, in order. *)
UpTo(id) == {e \in batch : e <= id}
Answers == {0} \cup batch

LastEventId == CHOOSE id \in batch : \A e \in batch : e <= id

(* It says how far it got.  A success without a number acknowledges the    *)
(* whole batch, and one whose body breaks off reads like that.             *)
Answered ==
    /\ pc = "send"
    /\ \E id \in Answers :
        /\ reported' = reported \cup UpTo(id)
        /\ answer' \in {id} \cup (IF Truncation THEN {LastEventId} ELSE {})
    /\ sentIds' = sentIds \cup {batchId}
    /\ pc' = "mark"
    /\ UNCHANGED <<tables, mode, batch, batchId, waiting, crashes>>

(* The request has gone out, and the control plane takes what it takes.    *)
Unanswered ==
    /\ pc = "send"
    /\ \E id \in Answers : reported' = reported \cup UpTo(id)
    /\ sentIds' = sentIds \cup {batchId}

(* An error status, or an answer that is lost. *)
SendFails ==
    /\ Unanswered
    /\ waiting' = TRUE
    /\ pc' = "wait"
    /\ UNCHANGED <<tables, mode, batch, batchId, answer, crashes>>

(* Slip: an answer acknowledges its batch, whatever it says. *)
AckedWhole == batch

Acked == UpTo(answer)

(* mark_events_delivered, in one transaction. *)
Mark ==
    /\ pc = "mark"
    /\ delivered' = delivered \cup Acked
    /\ pc' = "saveAck"
    /\ UNCHANGED <<last, ack, nextBatch, mode, batch, batchId, answer, waiting, reported, sentIds, crashes>>

(* A failed update is logged, and the loop goes on. *)
MarkFails ==
    /\ pc = "mark"
    /\ pc' = "saveAck"
    /\ UNCHANGED <<tables, mode, batch, batchId, answer, waiting, reported, sentIds, crashes>>

SaveAck ==
    /\ pc = "saveAck"
    /\ ack' \in {ack, IF ack < answer THEN answer ELSE ack}
    /\ waiting' = (waiting /\ Acked # batch)
    /\ pc' = "wait"
    /\ UNCHANGED <<last, delivered, nextBatch, mode, batch, batchId, answer, reported, sentIds, crashes>>

(* Log-only, or without a control plane. *)
Log ==
    /\ pc = "log"
    /\ reported' = reported \cup batch
    /\ pc' = "markLogged"
    /\ UNCHANGED <<tables, mode, batch, batchId, answer, waiting, sentIds, crashes>>

MarkLogged ==
    /\ pc = "markLogged"
    /\ delivered' = delivered \cup batch
    /\ pc' = "wait"
    /\ UNCHANGED <<last, ack, nextBatch, mode, batch, batchId, answer, waiting, reported, sentIds, crashes>>

MarkLoggedFails ==
    /\ pc = "markLogged"
    /\ pc' = "wait"
    /\ UNCHANGED <<tables, mode, batch, batchId, answer, waiting, reported, sentIds, crashes>>

(* At most three minutes. *)
BackoffElapses ==
    /\ waiting
    /\ waiting' = FALSE
    /\ UNCHANGED <<tables, mode, pc, batch, batchId, answer, reported, sentIds, crashes>>

(***************************************************************************)
(* Death and restart.                                                      *)
(***************************************************************************)
Crash ==
    /\ pc # "down"
    /\ crashes < MaxCrashes
    /\ Unanswered \/ UNCHANGED <<reported, sentIds>>
    /\ crashes' = crashes + 1
    /\ pc' = "down"
    /\ batch' = {}
    /\ batchId' = 0
    /\ answer' = 0
    /\ waiting' = FALSE
    /\ UNCHANGED <<tables, mode>>

(* Slip: everything queued before the restart counts as acknowledged. *)
ReconciledAll == 1..last

(* reconcile_control_plane_cursor. *)
Reconciled == delivered \cup {e \in 1..last : e <= ack}

Restart ==
    /\ pc = "down"
    /\ delivered' = Reconciled
    /\ mode' \in Modes
    /\ pc' = "wait"
    /\ UNCHANGED <<last, ack, nextBatch, batch, batchId, answer, waiting, reported, sentIds, crashes>>

LoopStep ==
    \/ Dequeue
    \/ Allocate
    \/ AllocateFails
    \/ Answered
    \/ SendFails
    \/ Mark
    \/ MarkFails
    \/ SaveAck
    \/ Log
    \/ MarkLogged
    \/ MarkLoggedFails

Next == Enqueue \/ LoopStep \/ BackoffElapses \/ Crash \/ Restart

Spec == Init /\ [][Next]_vars

(* The loop ticks on and the backoff runs out; the agent is started again. *)
(* The database is not broken for ever, nor is the control plane: an       *)
(* attempt repeated for ever is at last taken whole, and saved.            *)
FairSpec ==
    /\ Spec
    /\ WF_vars(LoopStep)
    /\ WF_vars(BackoffElapses)
    /\ WF_vars(Restart)
    /\ SF_vars(Allocate)
    /\ SF_vars(Answered /\ answer' = LastEventId)
    /\ SF_vars(Mark /\ Acked = batch)
    /\ SF_vars(MarkLogged)

(***************************************************************************)
(* Properties.                                                             *)
(***************************************************************************)
(* The types of the variables. *)
TypeOK ==
    /\ last \in 0..MaxEvents
    /\ delivered \subseteq 1..last
    /\ ack \in 0..last
    /\ nextBatch \in 1..MaxBatchId
    /\ mode \in Modes
    /\ pc \in {"down", "wait", "allocate", "send", "mark", "saveAck", "log", "markLogged"}
    /\ batch \subseteq 1..last
    /\ batchId \in 0..MaxBatchId
    /\ answer \in 0..last
    /\ waiting \in BOOLEAN
    /\ reported \subseteq 1..last
    /\ sentIds \subseteq 1..MaxBatchId
    /\ crashes \in 0..MaxCrashes

(* An event is taken off the queue only once it has reached the control    *)
(* plane or the log, through partial answers, lost answers and restarts    *)
(* (architecture.md: drain failures leave events queued).                  *)
NothingLost == delivered \subseteq reported

(* No event overtakes an older one: what is off the queue is a prefix of   *)
(* it, also after a restart trusted the acknowledgement.                   *)
DeliveredInOrder == \A e \in delivered : 1..e \subseteq delivered

(* A batch id is never sent twice, whatever died in between, as long as    *)
(* the counter has ids left.                                               *)
BatchIdsFresh ==
    [][pc = "send" /\ pc' \in {"mark", "wait"} /\ batchId < MaxBatchId =>
        batchId \notin sentIds]_vars

(* The flags, the acknowledgement and the restart implement one cursor. *)
Cursor == INSTANCE EventCursor WITH queued <- last, cursor <- Cardinality(delivered)
ImplementsCursor == Cursor!Spec

(* Every event gets off the queue, even if its acknowledgement could not   *)
(* be saved at first.                                                      *)
EventuallyDelivered == \A e \in 1..MaxEvents : (e <= last) ~> (e \in delivered)
=============================================================================
