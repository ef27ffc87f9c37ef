---------------------------- MODULE AgentProofs -----------------------------
(***************************************************************************)
(* What the agent's event queue guarantees for any number of events, any   *)
(* batch size, any number of batch ids and deaths, and any mode; and, in   *)
(* the last part, that the table its handlers write follows the registry,  *)
(* for any number of connections, features, calls and deaths.              *)
(***************************************************************************)
EXTENDS AgentDrain, AgentReports, FiniteSetTheorems, TLAPS

(* Events leave the queue from its front. *)
PrefixInv == \E d \in 0..last : delivered = 1..d

(* A batch is the stretch of the queue right behind what has left it.      *)
BatchSteps == {"allocate", "send", "mark", "log", "markLogged"}

BatchInv ==
    pc \in BatchSteps =>
        \E d \in 0..last, m \in 0..last : d < m /\ delivered = 1..d /\ batch = d+1..m

AnswerInv == pc \in {"mark", "saveAck"} => answer \in Answers

(* The counter is beyond every id that was sent, until it is used up.      *)
IdInv ==
    /\ \A id \in sentIds : id < nextBatch \/ id = MaxBatchId
    /\ pc = "send" =>
        /\ batchId \in 1..MaxBatchId
        /\ batchId < nextBatch \/ batchId = MaxBatchId
        /\ batchId < MaxBatchId => batchId \notin sentIds

IInv == TypeOK /\ PrefixInv /\ BatchInv /\ AnswerInv /\ IdInv

(* What has left the queue, and what is about to, has been reported.       *)
ReportInv ==
    /\ delivered \subseteq reported
    /\ 1..ack \subseteq reported
    /\ pc \in {"mark", "saveAck"} => 1..answer \subseteq reported
    /\ pc = "markLogged" => batch \subseteq reported

(***************************************************************************)
(* The queue is a prefix, and a batch is an interval.                      *)
(***************************************************************************)
LEMMA OldestIsInterval ==
  ASSUME TypeOK, PrefixInv, Pending # {}
  PROVE  \E d \in 0..last, m \in 0..last :
            d < m /\ delivered = 1..d /\ OldestPending = d+1..m
<1> USE AgentDrainAssumption
<1>1. last \in Nat
  BY DEF TypeOK
<1>2. PICK d \in 0..last : delivered = 1..d
  BY DEF PrefixInv
<1>3. Pending = d+1..last
  BY <1>1, <1>2 DEF Pending
<1>4. d < last
  BY <1>1, <1>3
<1>5. ASSUME NEW e \in Pending
      PROVE  Cardinality({n \in Pending : n < e}) = e - 1 - d
  <2>1. e \in d+1..last
    BY <1>3, <1>5
  <2>2. {n \in Pending : n < e} = d+1..e-1
    BY <1>1, <1>3, <2>1
  <2>3. Cardinality(d+1..e-1) = IF d+1 > e-1 THEN 0 ELSE e-1-(d+1)+1
    BY <1>1, <2>1, FS_Interval
  <2>4. Cardinality(d+1..e-1) = e - 1 - d
    BY <1>1, <2>1, <2>3
  <2> QED  BY <2>2, <2>4
<1> DEFINE m == IF d + BatchSize < last THEN d + BatchSize ELSE last
<1>6. m \in 0..last /\ d < m
  BY <1>1, <1>4
<1>7. OldestPending = {e \in Pending : e - 1 - d < BatchSize}
  BY <1>5 DEF OldestPending
<1>8. {e \in Pending : e - 1 - d < BatchSize} = d+1..m
  BY <1>1, <1>3, <1>6
<1> QED  BY <1>2, <1>6, <1>7, <1>8

(* Marking an answered batch moves the front of the queue. *)
LEMMA MarkMoves ==
  ASSUME TypeOK, BatchInv, AnswerInv, pc = "mark"
  PROVE  \E d \in 0..last :
            /\ delivered = 1..d
            /\ delivered \cup UpTo(answer) = IF d < answer THEN 1..answer ELSE 1..d
<1>1. last \in Nat /\ answer \in 0..last
  BY DEF TypeOK
<1>2. PICK d \in 0..last, m \in 0..last : d < m /\ delivered = 1..d /\ batch = d+1..m
  BY DEF BatchInv, BatchSteps
<1>3. CASE answer = 0
  <2>1. UpTo(answer) = {}
    BY <1>1, <1>2, <1>3 DEF UpTo
  <2> QED  BY <1>1, <1>2, <1>3, <2>1
<1>4. CASE answer # 0
  <2>1. answer \in d+1..m
    BY <1>2, <1>4 DEF AnswerInv, Answers
  <2>2. UpTo(answer) = d+1..answer
    BY <1>1, <1>2, <2>1 DEF UpTo
  <2>3. delivered \cup UpTo(answer) = 1..answer
    BY <1>1, <1>2, <2>1, <2>2
  <2> QED  BY <1>1, <1>2, <2>3
<1> QED  BY <1>3, <1>4

(* So does a restart that finds an acknowledgement beyond it. *)
LEMMA ReconcileMoves ==
  ASSUME TypeOK, PrefixInv
  PROVE  \E d \in 0..last : delivered = 1..d /\ Reconciled = IF d < ack THEN 1..ack ELSE 1..d
<1>1. last \in Nat /\ ack \in 0..last
  BY DEF TypeOK
<1>2. PICK d \in 0..last : delivered = 1..d
  BY DEF PrefixInv
<1>3. Reconciled = 1..d \cup 1..ack
  BY <1>1, <1>2 DEF Reconciled
<1>4. 1..d \cup 1..ack = IF d < ack THEN 1..ack ELSE 1..d
  BY <1>1
<1> QED  BY <1>2, <1>3, <1>4

LEMMA LogMoves ==
  ASSUME TypeOK, BatchInv, pc = "markLogged"
  PROVE  \E d \in 0..last, m \in 0..last :
            d < m /\ delivered = 1..d /\ batch = d+1..m /\ delivered \cup batch = 1..m
<1>1. last \in Nat
  BY DEF TypeOK
<1>2. PICK d \in 0..last, m \in 0..last : d < m /\ delivered = 1..d /\ batch = d+1..m
  BY DEF BatchInv, BatchSteps
<1> QED  BY <1>1, <1>2

(***************************************************************************)
(* The invariant.                                                          *)
(***************************************************************************)
LEMMA InitInv == ASSUME Init PROVE IInv
<1> USE AgentDrainAssumption DEF Init
<1>1. TypeOK
  <2>1. /\ 0 \in 0..MaxEvents /\ 0 \in 0..0 /\ 0 \in 0..MaxCrashes
        /\ 1 \in 1..MaxBatchId /\ 0 \in 0..MaxBatchId
    BY SMT DEF AgentDrainAssumption
  <2> QED  BY <2>1 DEF TypeOK
<1>2. PrefixInv
  BY DEF PrefixInv
<1>3. BatchInv /\ AnswerInv /\ IdInv
  BY DEF BatchInv, BatchSteps, AnswerInv, IdInv
<1> QED  BY <1>1, <1>2, <1>3 DEF IInv

(* What a step keeps that leaves the queue and the batch alone.            *)
LEMMA QueueKept ==
  ASSUME PrefixInv, BatchInv, UNCHANGED <<last, delivered, batch>>
  PROVE  /\ PrefixInv'
         /\ (pc' \in BatchSteps => pc \in BatchSteps) => BatchInv'
BY DEF PrefixInv, BatchInv

LEMMA EnqueueInv == ASSUME IInv, Enqueue PROVE IInv'
<1> USE AgentDrainAssumption DEF IInv, Enqueue, loop
<1>1. last \in Nat /\ last' = last + 1
  BY DEF TypeOK
<1>2. TypeOK'
  <2>1. 0..last \subseteq 0..last' /\ 1..last \subseteq 1..last'
    BY <1>1
  <2>2. last' \in 0..MaxEvents
    BY <1>1 DEF TypeOK
  <2> QED  BY <2>1, <2>2 DEF TypeOK
<1>3. PrefixInv' /\ BatchInv'
  <2>1. 0..last \subseteq 0..last'
    BY <1>1
  <2> QED  BY <2>1 DEF PrefixInv, BatchInv
<1>4. AnswerInv' /\ IdInv'
  BY DEF AnswerInv, Answers, IdInv
<1> QED  BY <1>2, <1>3, <1>4

LEMMA DequeueInv == ASSUME IInv, Dequeue PROVE IInv'
<1> USE AgentDrainAssumption DEF IInv, Dequeue, tables
<1>1. OldestPending \subseteq 1..last
  BY DEF OldestPending, Pending
<1>2. TypeOK'
  BY <1>1 DEF TypeOK
<1>3. PrefixInv'
  BY DEF PrefixInv
<1>4. BatchInv'
  BY OldestIsInterval DEF BatchInv
<1>5. AnswerInv' /\ IdInv'
  BY DEF AnswerInv, IdInv
<1> QED  BY <1>2, <1>3, <1>4, <1>5

LEMMA AllocateInv == ASSUME IInv, Allocate PROVE IInv'
<1> USE AgentDrainAssumption DEF IInv, Allocate
<1>1. TypeOK'
  BY DEF TypeOK
<1>2. PrefixInv' /\ BatchInv'
  BY QueueKept DEF BatchSteps
<1>3. AnswerInv'
  BY DEF AnswerInv
<1>4. IdInv'
  BY DEF TypeOK, IdInv
<1> QED  BY <1>1, <1>2, <1>3, <1>4

(* A batch's ids are in the queue. *)
LEMMA AnswersTyped == ASSUME TypeOK PROVE Answers \subseteq 0..last
BY DEF TypeOK, Answers

LEMMA LastIsAnswer == ASSUME TypeOK, BatchInv, pc = "send" PROVE LastEventId \in batch
<1>1. last \in Nat
  BY DEF TypeOK
<1>2. PICK d \in 0..last, m \in 0..last : d < m /\ batch = d+1..m
  BY DEF BatchInv, BatchSteps
<1>3. m \in batch /\ \A e \in batch : e <= m
  BY <1>1, <1>2
<1> QED  BY <1>3 DEF LastEventId

LEMMA SentIdsTyped ==
  ASSUME IdInv, TypeOK, pc = "send"
  PROVE  sentIds \cup {batchId} \subseteq 1..MaxBatchId
BY DEF IdInv, TypeOK

LEMMA AnsweredInv == ASSUME IInv, Answered PROVE IInv'
<1> USE AgentDrainAssumption DEF IInv, Answered, tables
<1>1. PICK id \in Answers :
        /\ reported' = reported \cup UpTo(id)
        /\ answer' \in {id} \cup (IF Truncation THEN {LastEventId} ELSE {})
  OBVIOUS
<1>2. answer' \in Answers
  BY <1>1, LastIsAnswer DEF Answers
<1>3. TypeOK'
  BY <1>1, <1>2, AnswersTyped, SentIdsTyped DEF TypeOK, UpTo
<1>4. PrefixInv' /\ BatchInv'
  BY QueueKept DEF BatchSteps
<1>5. AnswerInv'
  BY <1>2 DEF AnswerInv, Answers
<1>6. IdInv'
  BY DEF IdInv
<1> QED  BY <1>3, <1>4, <1>5, <1>6

(* The two steps on which a batch goes out and no answer comes back.       *)
LEMMA UnansweredKeeps ==
  ASSUME IInv, Unanswered
  PROVE  /\ reported' \subseteq 1..last
         /\ sentIds' \subseteq 1..MaxBatchId
         /\ \A id \in sentIds' : id < nextBatch \/ id = MaxBatchId
<1> USE DEF IInv, Unanswered
<1>1. reported' \subseteq 1..last
  BY DEF TypeOK, UpTo
<1>2. sentIds' \subseteq 1..MaxBatchId
  BY SentIdsTyped
<1>3. \A id \in sentIds' : id < nextBatch \/ id = MaxBatchId
  BY DEF IdInv
<1> QED  BY <1>1, <1>2, <1>3

LEMMA SendFailsInv == ASSUME IInv, SendFails PROVE IInv'
<1> USE DEF IInv, SendFails, tables
<1>1. TypeOK'
  BY UnansweredKeeps DEF TypeOK
<1>2. PrefixInv' /\ BatchInv'
  BY QueueKept DEF BatchSteps
<1>3. AnswerInv' /\ IdInv'
  BY UnansweredKeeps DEF AnswerInv, IdInv
<1> QED  BY <1>1, <1>2, <1>3

LEMMA MarkInv == ASSUME IInv, Mark PROVE IInv'
<1> USE AgentDrainAssumption DEF IInv, Mark
<1>1. PICK d \in 0..last :
        delivered \cup UpTo(answer) = IF d < answer THEN 1..answer ELSE 1..d
  BY MarkMoves
<1>2. TypeOK'
  BY DEF TypeOK, Acked, UpTo
<1>3. PrefixInv'
  BY <1>1 DEF PrefixInv, Acked, TypeOK
<1>4. BatchInv' /\ AnswerInv' /\ IdInv'
  BY DEF BatchInv, BatchSteps, AnswerInv, Answers, IdInv
<1> QED  BY <1>2, <1>3, <1>4

LEMMA SaveAckInv == ASSUME IInv, SaveAck PROVE IInv'
<1> USE AgentDrainAssumption DEF IInv, SaveAck
<1>1. TypeOK'
  BY DEF TypeOK
<1>2. PrefixInv' /\ BatchInv'
  BY QueueKept DEF BatchSteps
<1>3. AnswerInv' /\ IdInv'
  BY DEF AnswerInv, IdInv
<1> QED  BY <1>1, <1>2, <1>3

LEMMA LogInv == ASSUME IInv, Log PROVE IInv'
<1> USE DEF IInv, Log, tables
<1>1. TypeOK'
  BY DEF TypeOK
<1>2. PrefixInv' /\ BatchInv'
  BY QueueKept DEF BatchSteps
<1>3. AnswerInv' /\ IdInv'
  BY DEF AnswerInv, IdInv
<1> QED  BY <1>1, <1>2, <1>3

LEMMA MarkLoggedInv == ASSUME IInv, MarkLogged PROVE IInv'
<1> USE DEF IInv, MarkLogged
<1>1. TypeOK'
  BY DEF TypeOK
<1>2. PrefixInv'
  BY LogMoves DEF PrefixInv
<1>3. BatchInv' /\ AnswerInv' /\ IdInv'
  BY DEF BatchInv, BatchSteps, AnswerInv, IdInv
<1> QED  BY <1>1, <1>2, <1>3

(* Failed statements, and the backoff. *)
LEMMA IdleInv ==
  ASSUME IInv, AllocateFails \/ MarkFails \/ MarkLoggedFails \/ BackoffElapses
  PROVE  IInv'
<1> USE DEF IInv, AllocateFails, MarkFails, MarkLoggedFails, BackoffElapses, tables
<1>1. TypeOK'
  BY DEF TypeOK
<1>2. PrefixInv' /\ BatchInv'
  BY QueueKept DEF BatchSteps
<1>3. AnswerInv' /\ IdInv'
  BY DEF AnswerInv, Answers, IdInv
<1> QED  BY <1>1, <1>2, <1>3

LEMMA CrashInv == ASSUME IInv, Crash PROVE IInv'
<1> USE AgentDrainAssumption DEF IInv, Crash, tables
<1>1. /\ reported' \subseteq 1..last
      /\ sentIds' \subseteq 1..MaxBatchId
      /\ \A id \in sentIds' : id < nextBatch \/ id = MaxBatchId
  BY UnansweredKeeps DEF TypeOK, IdInv
<1>2. TypeOK'
  <2>1. 0 \in 0..last /\ 0 \in 0..MaxBatchId /\ crashes' \in 0..MaxCrashes
    BY DEF TypeOK
  <2> QED  BY <1>1, <2>1 DEF TypeOK
<1>3. PrefixInv' /\ BatchInv' /\ AnswerInv' /\ IdInv'
  BY <1>1 DEF PrefixInv, BatchInv, BatchSteps, AnswerInv, IdInv
<1> QED  BY <1>2, <1>3

LEMMA RestartInv == ASSUME IInv, Restart PROVE IInv'
<1> USE AgentDrainAssumption DEF IInv, Restart
<1>1. PICK d \in 0..last : Reconciled = IF d < ack THEN 1..ack ELSE 1..d
  BY ReconcileMoves
<1>2. TypeOK'
  BY DEF TypeOK, Reconciled
<1>3. PrefixInv'
  BY <1>1 DEF PrefixInv, TypeOK
<1>4. BatchInv' /\ AnswerInv' /\ IdInv'
  BY DEF BatchInv, BatchSteps, AnswerInv, IdInv
<1> QED  BY <1>2, <1>3, <1>4

LEMMA NextInv == ASSUME IInv, [Next]_vars PROVE IInv'
<1>1. CASE Enqueue
  BY <1>1, EnqueueInv
<1>2. CASE Dequeue
  BY <1>2, DequeueInv
<1>3. CASE Allocate
  BY <1>3, AllocateInv
<1>4. CASE Answered
  BY <1>4, AnsweredInv
<1>5. CASE SendFails
  BY <1>5, SendFailsInv
<1>6. CASE Mark
  BY <1>6, MarkInv
<1>7. CASE SaveAck
  BY <1>7, SaveAckInv
<1>8. CASE Log
  BY <1>8, LogInv
<1>9. CASE MarkLogged
  BY <1>9, MarkLoggedInv
<1>10. CASE AllocateFails \/ MarkFails \/ MarkLoggedFails \/ BackoffElapses
  BY <1>10, IdleInv
<1>11. CASE Crash
  BY <1>11, CrashInv
<1>12. CASE Restart
  BY <1>12, RestartInv
<1>13. CASE UNCHANGED vars
  BY <1>13 DEF IInv, TypeOK, PrefixInv, BatchInv, AnswerInv, Answers, IdInv, vars, tables, loop
<1> QED
  BY <1>1, <1>2, <1>3, <1>4, <1>5, <1>6, <1>7, <1>8, <1>9, <1>10, <1>11, <1>12, <1>13
  DEF Next, LoopStep

LEMMA InvHolds == Spec => []IInv
<1>1. Init => IInv
  BY InitInv
<1>2. IInv /\ [Next]_vars => IInv'
  BY NextInv
<1> QED  BY <1>1, <1>2, PTL DEF Spec

(***************************************************************************)
(* What holds whatever the answers look like.                              *)
(***************************************************************************)
(* The types, for any bounds.                                              *)
THEOREM TypeCorrectness == Spec => []TypeOK
BY InvHolds, PTL DEF IInv

(* No event overtakes an older one, also when a restart takes the          *)
(* acknowledgement for the flags that could not be written.                *)
THEOREM OrderKept == Spec => []DeliveredInOrder
<1>1. ASSUME IInv PROVE DeliveredInOrder
  <2>1. PICK d \in 0..last : delivered = 1..d
    BY <1>1 DEF IInv, PrefixInv
  <2>2. last \in Nat
    BY <1>1 DEF IInv, TypeOK
  <2> QED  BY <2>1, <2>2 DEF DeliveredInOrder
<1> QED  BY <1>1, InvHolds, PTL

(* No two batches go out under one id, whatever died in between, as long   *)
(* as next_batch_id has ids left.                                          *)
THEOREM BatchIdsNeverReused == Spec => BatchIdsFresh
<1>1. IInv => (pc = "send" /\ pc' \in {"mark", "wait"} /\ batchId < MaxBatchId
                => batchId \notin sentIds)
  BY DEF IInv, IdInv
<1> QED  BY <1>1, InvHolds, PTL DEF BatchIdsFresh

(***************************************************************************)
(* What holds if no answer breaks off.                                     *)
(***************************************************************************)
LEMMA ReportInit == ASSUME Init PROVE ReportInv
BY DEF Init, ReportInv

(* What the control plane says it has taken, and everything before it, it  *)
(* has.                                                                    *)
LEMMA AnswerReported ==
  ASSUME IInv, pc = "send", delivered \subseteq reported, NEW id \in Answers
  PROVE  1..id \subseteq reported \cup UpTo(id)
<1>1. last \in Nat
  BY DEF IInv, TypeOK
<1>2. PICK d \in 0..last, m \in 0..last : d < m /\ delivered = 1..d /\ batch = d+1..m
  BY DEF IInv, BatchInv, BatchSteps
<1>3. 1..id \subseteq delivered \cup UpTo(id)
  BY <1>1, <1>2 DEF Answers, UpTo
<1> QED  BY <1>3

LEMMA ReportNext ==
  ASSUME ~ Truncation, IInv, ReportInv, [Next]_vars
  PROVE  ReportInv'
<1> USE DEF ReportInv
<1>0. last \in Nat /\ answer \in 0..last /\ ack \in 0..last /\ batch \subseteq 1..last
  BY DEF IInv, TypeOK
<1>1. CASE Answered
  <2>1. PICK id \in Answers : reported' = reported \cup UpTo(id) /\ answer' = id
    BY <1>1 DEF Answered
  <2>2. 1..answer' \subseteq reported'
    BY <1>1, <2>1, AnswerReported DEF Answered
  <2> QED  BY <1>1, <2>1, <2>2 DEF Answered, tables
<1>2. CASE Mark
  <2>1. ASSUME NEW e \in Acked PROVE e \in 1..answer
    <3>1. e \in 1..last /\ e <= answer
      BY <1>0 DEF Acked, UpTo
    <3> QED  BY <1>0, <3>1
  <2> QED  BY <1>2, <2>1 DEF Mark
<1>3. CASE SaveAck
  <2>1. ack' = ack \/ ack' = answer
    BY <1>3 DEF SaveAck
  <2> QED  BY <1>3, <2>1 DEF SaveAck
<1>4. CASE Restart
  <2>1. Reconciled \subseteq delivered \cup 1..ack
    BY <1>0 DEF Reconciled
  <2> QED  BY <1>4, <2>1 DEF Restart
<1>5. CASE SendFails \/ Crash
  BY <1>5 DEF SendFails, Crash, Unanswered, tables
<1>6. CASE Log \/ MarkLogged \/ MarkLoggedFails
  BY <1>6 DEF Log, MarkLogged, MarkLoggedFails, tables
<1>7. CASE Enqueue \/ Dequeue \/ Allocate \/ AllocateFails
  BY <1>7 DEF Enqueue, Dequeue, Allocate, AllocateFails, tables, loop
<1>8. CASE MarkFails \/ BackoffElapses \/ UNCHANGED vars
  BY <1>8 DEF MarkFails, BackoffElapses, vars, tables, loop
<1> QED
  BY <1>1, <1>2, <1>3, <1>4, <1>5, <1>6, <1>7, <1>8 DEF Next, LoopStep

LEMMA ReportHolds == ASSUME ~ Truncation PROVE Spec => []ReportInv
<1>1. Init => ReportInv
  BY ReportInit
<1>2. IInv /\ ReportInv /\ [Next]_vars => ReportInv'
  BY ReportNext
<1> QED  BY <1>1, <1>2, InvHolds, PTL DEF Spec

(* Every event that has left the queue has reached the control plane or    *)
(* the log, through partial and lost answers, failed statements, deaths    *)
(* and restarts.                                                           *)
THEOREM NoEventLost == ASSUME ~ Truncation PROVE Spec => []NothingLost
BY ReportHolds, PTL DEF ReportInv, NothingLost

(***************************************************************************)
(* The queue implements the cursor.                                        *)
(***************************************************************************)
LEMMA CursorIs == ASSUME NEW d \in Nat PROVE Cardinality(1..d) = d
<1>1. Cardinality(1..d) = IF 1 > d THEN 0 ELSE d - 1 + 1
  BY FS_Interval
<1> QED  BY <1>1

(* A batch that arrives, in whole or in part, with or without an answer.   *)
LEMMA Reports ==
  ASSUME IInv, pc \in {"send", "log"}, NEW events \in SUBSET batch,
         reported' = reported \cup events, UNCHANGED <<last, delivered>>
  PROVE  Cursor!Report
<1>1. last \in Nat
  BY DEF IInv, TypeOK
<1>2. PICK d \in 0..last, m \in 0..last : d < m /\ delivered = 1..d /\ batch = d+1..m
  BY DEF IInv, BatchInv, BatchSteps
<1>3. Cardinality(delivered) = d
  BY <1>1, <1>2, CursorIs
<1>4. events \in SUBSET (Cardinality(delivered) + 1 .. last)
  BY <1>1, <1>2, <1>3
<1> QED  BY <1>4 DEF Cursor!Report

LEMMA Advances ==
  ASSUME TypeOK, NEW d \in 0..last, NEW n \in 0..last,
         delivered = 1..d, delivered' = IF d < n THEN 1..n ELSE 1..d,
         1..n \subseteq reported, UNCHANGED <<last, reported>>
  PROVE  [Cursor!Next]_(Cursor!vars)
<1>1. last \in Nat
  BY DEF TypeOK
<1>2. CASE d < n
  <2>1. Cardinality(delivered) = d /\ Cardinality(delivered') = n
    BY <1>1, <1>2, CursorIs
  <2>2. n \in Cardinality(delivered) + 1 .. last
    BY <1>1, <1>2, <2>1
  <2>3. Cursor!Advance
    BY <2>1, <2>2 DEF Cursor!Advance
  <2> QED  BY <2>3 DEF Cursor!Next
<1>3. CASE ~ (d < n)
  BY <1>3 DEF Cursor!vars
<1> QED  BY <1>2, <1>3

LEMMA CursorInit == ASSUME Init PROVE Cursor!Init
<1>1. Cardinality({}) = 0
  BY FS_EmptySet
<1> QED  BY <1>1 DEF Init, Cursor!Init

LEMMA CursorStep ==
  ASSUME IInv, ReportInv, [Next]_vars
  PROVE  [Cursor!Next]_(Cursor!vars)
<1>0. TypeOK
  BY DEF IInv
<1>1. CASE Enqueue
  BY <1>1 DEF Enqueue, Cursor!Next, Cursor!Enqueue
<1>2. CASE Answered
  <2>1. PICK id \in Answers : reported' = reported \cup UpTo(id)
    BY <1>2 DEF Answered
  <2>2. UpTo(id) \in SUBSET batch
    BY DEF UpTo
  <2> QED  BY <1>2, <2>1, <2>2, Reports DEF Answered, tables, Cursor!Next
<1>3. CASE (SendFails \/ Crash) /\ Unanswered
  <2>1. PICK id \in Answers : reported' = reported \cup UpTo(id)
    BY <1>3 DEF Unanswered
  <2>2. UpTo(id) \in SUBSET batch
    BY DEF UpTo
  <2>3. pc = "send" /\ UNCHANGED <<last, delivered>>
    BY <1>3 DEF SendFails, Crash, Unanswered, tables
  <2> QED  BY <2>1, <2>2, <2>3, Reports DEF Cursor!Next
<1>4. CASE Log
  BY <1>4, Reports DEF Log, tables, Cursor!Next
<1>5. CASE Mark
  <2>1. PICK d \in 0..last :
          /\ delivered = 1..d
          /\ delivered \cup UpTo(answer) = IF d < answer THEN 1..answer ELSE 1..d
    BY <1>5, MarkMoves DEF IInv, Mark
  <2>2. answer \in 0..last /\ 1..answer \subseteq reported
    BY <1>0, <1>5 DEF TypeOK, ReportInv, Mark
  <2> QED  BY <1>0, <1>5, <2>1, <2>2, Advances DEF Mark, Acked
<1>6. CASE MarkLogged
  <2>1. PICK d \in 0..last, m \in 0..last :
          d < m /\ delivered = 1..d /\ batch = d+1..m /\ delivered \cup batch = 1..m
    BY <1>6, LogMoves DEF IInv, MarkLogged
  <2>2. 1..m \subseteq reported
    BY <1>6, <2>1 DEF ReportInv, MarkLogged
  <2> QED  BY <1>0, <1>6, <2>1, <2>2, Advances DEF MarkLogged
<1>7. CASE Restart
  <2>1. PICK d \in 0..last :
          delivered = 1..d /\ Reconciled = IF d < ack THEN 1..ack ELSE 1..d
    BY ReconcileMoves DEF IInv
  <2>2. ack \in 0..last /\ 1..ack \subseteq reported
    BY <1>0 DEF TypeOK, ReportInv
  <2> QED  BY <1>0, <1>7, <2>1, <2>2, Advances DEF Restart
<1>8. CASE Crash /\ UNCHANGED <<reported, sentIds>>
  BY <1>8 DEF Crash, tables, Cursor!vars
<1>9. CASE Dequeue \/ Allocate \/ AllocateFails \/ MarkFails \/ SaveAck
  BY <1>9 DEF Dequeue, Allocate, AllocateFails, MarkFails, SaveAck, tables, Cursor!vars
<1>10. CASE MarkLoggedFails \/ BackoffElapses \/ UNCHANGED vars
  BY <1>10 DEF MarkLoggedFails, BackoffElapses, vars, tables, loop, Cursor!vars
<1> QED
  BY <1>1, <1>2, <1>3, <1>4, <1>5, <1>6, <1>7, <1>8, <1>9, <1>10
  DEF Next, LoopStep, SendFails, Crash

(* Flags, acknowledgement and restart together are one cursor that passes  *)
(* only what has been reported, and never goes back.                       *)
THEOREM CursorImplemented == ASSUME ~ Truncation PROVE Spec => ImplementsCursor
<1>1. Init => Cursor!Init
  BY CursorInit
<1>2. IInv /\ ReportInv /\ [Next]_vars => [Cursor!Next]_(Cursor!vars)
  BY CursorStep
<1> QED
  BY <1>1, <1>2, InvHolds, ReportHolds, PTL DEF ImplementsCursor, Cursor!Spec, Spec

---------------------------------------------------------------------------
(***************************************************************************)
(* The agent's handlers and its table: AgentReports.                       *)
(***************************************************************************)
(* What a record of the table can be, and what a job is. *)
Rows == {"none", "active", "removed"}

LEMMA RecordedRow ==
    \A kind : /\ Recorded(kind) \in Rows
              /\ Recorded(kind) \in {"none", "active", "unfinished", "removed"}
BY DEF Recorded, Rows

LEMMA JobFacts ==
    /\ Idle.stage = "idle" /\ Idle \notin Jobs
    /\ \A j \in Jobs :
          /\ j.stage \in {"operate", "record", "kept", "event"}
          /\ j.kind \in Kinds /\ j.feature \in Features
          /\ \A stage \in {"operate", "record", "kept", "event"} :
                /\ [j EXCEPT !.stage = stage] \in Jobs
                /\ [j EXCEPT !.stage = stage].stage = stage
                /\ [j EXCEPT !.stage = stage].kind = j.kind
                /\ [j EXCEPT !.stage = stage].feature = j.feature
    /\ \A kind \in Kinds, f \in Features :
          [stage |-> "operate", kind |-> kind, feature |-> f] \in Jobs
BY DEF Idle, Jobs

---------------------------------------------------------------------------
(* The handlers' jobs.                                                     *)

(* The job of one handler changes. *)
LEMMA Assigns ==
  ASSUME ReportsTypeOK, NEW h \in Handlers, NEW j \in {Idle} \union Jobs,
         job' = [job EXCEPT ![h] = j]
  PROVE  /\ job' \in [Handlers -> {Idle} \union Jobs]
         /\ job'[h] = j
         /\ \A g \in Handlers : g # h => job'[g] = job[g]
BY DEF ReportsTypeOK

LEMMA BusyJob ==
  ASSUME ReportsTypeOK, NEW h \in Handlers, job[h].stage # "idle"
  PROVE  /\ job[h] \in Jobs /\ job[h].feature \in Features /\ job[h].kind \in Kinds
         /\ h \in Busy
BY JobFacts DEF ReportsTypeOK, Busy

LEMMA JobAdvances ==
  ASSUME ReportsTypeOK, NEW h \in Handlers, job[h].stage # "idle",
         NEW stage \in {"operate", "record", "kept", "event"}, job' = [job EXCEPT ![h].stage = stage]
  PROVE  /\ job' \in [Handlers -> {Idle} \union Jobs]
         /\ job'[h].stage = stage /\ job'[h].kind = job[h].kind /\ job'[h].feature = job[h].feature
         /\ \A g \in Handlers : g # h => job'[g] = job[g]
<1>1. [job[h] EXCEPT !.stage = stage] \in Jobs
  BY BusyJob, JobFacts
<1>2. job' = [job EXCEPT ![h] = [job[h] EXCEPT !.stage = stage]]
  OBVIOUS
<1>3. /\ job' \in [Handlers -> {Idle} \union Jobs]
      /\ job'[h] = [job[h] EXCEPT !.stage = stage]
      /\ \A g \in Handlers : g # h => job'[g] = job[g]
  BY <1>1, <1>2, Assigns
<1> QED  BY <1>3, BusyJob, JobFacts

LEMMA Finishes ==
  ASSUME ReportsTypeOK, NEW h \in Handlers, Finish(h)
  PROVE  /\ job' \in [Handlers -> {Idle} \union Jobs]
         /\ job'[h].stage = "idle"
         /\ \A g \in Handlers : g # h => job'[g] = job[g]
<1>1. Idle \in {Idle} \union Jobs /\ job' = [job EXCEPT ![h] = Idle]
  BY DEF Finish
<1>2. /\ job' \in [Handlers -> {Idle} \union Jobs] /\ job'[h] = Idle
      /\ \A g \in Handlers : g # h => job'[g] = job[g]
  BY <1>1, Assigns
<1> QED  BY <1>2, JobFacts

(* A handler ends its operation, and its outcome is recorded or not. *)
LEMMA Proceeds ==
  ASSUME ReportsTypeOK, NEW h \in Handlers, job[h].stage = "operate",
         NEW stage \in {"record", "kept"}, Proceed(h, stage)
  PROVE  /\ job' \in [Handlers -> {Idle} \union Jobs]
         /\ unrecorded' \subseteq Features
         /\ \A g \in Handlers : g # h => job'[g] = job[g]
         /\ \/ job'[h].stage = "idle" /\ unrecorded' = unrecorded \union {job[h].feature}
            \/ /\ job'[h].stage = stage /\ job'[h].kind = job[h].kind /\ job'[h].feature = job[h].feature
               /\ unrecorded' = unrecorded
<1>1. CASE Finish(h) /\ Forgotten(job[h].feature)
  BY <1>1, Finishes, BusyJob DEF Forgotten, ReportsTypeOK
<1>2. CASE job' = [job EXCEPT ![h].stage = stage] /\ UNCHANGED unrecorded
  BY <1>2, JobAdvances DEF ReportsTypeOK
<1> QED  BY <1>1, <1>2 DEF Proceed

---------------------------------------------------------------------------
(* Types.                                                                  *)

LEMMA ReportsTypeStep == ASSUME ReportsTypeOK, [NextReports]_reportVars
                  PROVE ReportsTypeOK'
<1>1. ASSUME NEW h \in Handlers, NEW kind \in Kinds, NEW f \in Features,
             Call(h, kind, f) PROVE ReportsTypeOK'
  <2>1. job' \in [Handlers -> {Idle} \union Jobs]
    BY <1>1, JobFacts, Assigns DEF Call
  <2>2. calls' \in 0..MaxCalls
    BY <1>1, AgentReportsAssumption DEF Call, ReportsTypeOK
  <2> QED  BY <1>1, <2>1, <2>2 DEF Call, ReportsTypeOK, database
<1>2. ASSUME NEW h \in Handlers, Started(h) \/ TornDown(h) \/ Kept(h)
      PROVE ReportsTypeOK'
  <2>1. job' \in [Handlers -> {Idle} \union Jobs] /\ unrecorded' \subseteq Features
    BY <1>2, Proceeds DEF Started, TornDown, Kept
  <2>2. status' \in [Features -> {"none", "active", "unfinished", "removed"}]
    BY <1>2 DEF Started, TornDown, Kept, ReportsTypeOK
  <2> QED  BY <1>2, <2>1, <2>2
           DEF Started, TornDown, Kept, ReportsTypeOK, database, bounds
<1>3. ASSUME NEW h \in Handlers,
             LeftUnfinished(h) \/ Refused(h) \/ NotRecorded(h) PROVE ReportsTypeOK'
  <2>1. job' \in [Handlers -> {Idle} \union Jobs]
    BY <1>3, Finishes DEF LeftUnfinished, Refused, NotRecorded
  <2>2. unrecorded' \subseteq Features
    BY <1>3, BusyJob
    DEF LeftUnfinished, Refused, NotRecorded, Forgotten, ReportsTypeOK
  <2>3. status' \in [Features -> {"none", "active", "unfinished", "removed"}]
    BY <1>3 DEF LeftUnfinished, Refused, NotRecorded, ReportsTypeOK
  <2> QED  BY <1>3, <2>1, <2>2, <2>3
           DEF LeftUnfinished, Refused, NotRecorded, ReportsTypeOK, database,
               bounds
<1>4. ASSUME NEW h \in Handlers, Upsert(h) PROVE ReportsTypeOK'
  <2>1. job[h].stage # "idle" /\ job' = [job EXCEPT ![h].stage = "event"]
    BY <1>4 DEF Upsert
  <2>2. job' \in [Handlers -> {Idle} \union Jobs] /\ job[h].feature \in Features
    BY <2>1, JobAdvances, BusyJob
  <2>3. table' \in [Features -> {"none", "active", "removed"}]
    BY <1>4, RecordedRow DEF Upsert, ReportsTypeOK, Rows
  <2> QED  BY <1>4, <2>2, <2>3 DEF Upsert, ReportsTypeOK, bounds
<1>5. ASSUME NEW h \in Handlers, InsertEvent(h) \/ EventLost(h) PROVE ReportsTypeOK'
  <2>1. job' \in [Handlers -> {Idle} \union Jobs]
    BY <1>5, Finishes DEF InsertEvent, EventLost
  <2>2. told' \in [Features -> {"none", "active", "removed"}]
    BY <1>5, RecordedRow DEF InsertEvent, EventLost, ReportsTypeOK, Rows, database
  <2> QED  BY <1>5, <2>1, <2>2
           DEF InsertEvent, EventLost, ReportsTypeOK, bounds, database
<1>6. CASE Snapshot \/ HeartbeatLost
  BY <1>6 DEF Snapshot, HeartbeatLost, ReportsTypeOK, database, bounds
<1>7. CASE InsertHeartbeat
  BY <1>7 DEF InsertHeartbeat, ReportsTypeOK, bounds
<1>8. ASSUME NEW f \in Features, Aside(f) PROVE ReportsTypeOK'
  <2>1. calls' \in 0..MaxCalls
    BY <1>8, AgentReportsAssumption DEF Aside, ReportsTypeOK
  <2>2. status' \in [Features -> {"none", "active", "unfinished", "removed"}]
    BY <1>8, AgentReportsAssumption DEF Aside, ReportsTypeOK
  <2> QED  BY <1>8, <2>1, <2>2 DEF Aside, Forgotten, ReportsTypeOK, database
<1>9. CASE Signal \/ End \/ Exit \/ Relaunch
  <2>1. deaths' \in 0..MaxDeaths
    BY <1>9, AgentReportsAssumption DEF Signal, End, Exit, Relaunch, ReportsTypeOK, bounds
  <2> QED  BY <1>9, <2>1
           DEF Signal, End, Exit, Relaunch, ReportsTypeOK, database,
               bounds
<1>10. CASE Die
  <2>1. deaths' \in 0..MaxDeaths
    BY <1>10, AgentReportsAssumption DEF Die, ReportsTypeOK
  <2>2. unrecorded' \subseteq Features
    BY <1>10, BusyJob DEF Die, Unreported, ReportsTypeOK
  <2> QED  BY <1>10, <2>1, <2>2 DEF Die, ReportsTypeOK, database
<1>11. CASE UNCHANGED reportVars
  BY <1>11 DEF reportVars, ReportsTypeOK, database, bounds
<1> QED  BY <1>1, <1>2, <1>3, <1>4, <1>5, <1>6, <1>7, <1>8, <1>9, <1>10, <1>11
         DEF NextReports, Handler

---------------------------------------------------------------------------
(* The table.                                                              *)

(* Without overlap no two handlers are at one feature, and the outcome that *)
(* a handler is about to record is what the registry says.                 *)
ApartInv == ~overlap => \A h, g \in Handlers :
    job[h].stage # "idle" /\ job[g].stage # "idle" /\ job[h].feature = job[g].feature => h = g

RecordInv == ~overlap => \A h \in Handlers :
    job[h].stage = "record" => Agrees(Recorded(job[h].kind), status[job[h].feature])

TableInv == ApartInv /\ RecordInv /\ TableCurrent

(* TableCurrent, spelled out. *)
LEMMA Current ==
    TableCurrent <=> (~overlap => \A f \in Features :
        \/ f \in unrecorded
        \/ \E h \in Handlers : job[h].stage \in {"record", "kept"} /\ job[h].feature = f
        \/ Agrees(table[f], status[f]))
BY DEF TableCurrent, Unreported

LEMMA CurrentNext ==
    TableCurrent' <=> (~overlap' => \A f \in Features :
        \/ f \in unrecorded'
        \/ \E h \in Handlers : job'[h].stage \in {"record", "kept"} /\ job'[h].feature = f
        \/ Agrees(table'[f], status'[f]))
BY DEF TableCurrent, Unreported

(* A step of one handler, which touches its own feature. *)
LEMMA OneHandler ==
  ASSUME ReportsTypeOK, TableInv, NEW h \in Handlers, job[h].stage # "idle", overlap' = overlap,
         \A g \in Handlers : g # h => job'[g] = job[g],
         job'[h].stage # "idle" => job'[h].feature = job[h].feature,
         \A f \in Features : f # job[h].feature => /\ status'[f] = status[f] /\ table'[f] = table[f]
                                                   /\ (f \in unrecorded => f \in unrecorded'),
         ~overlap /\ job'[h].stage = "record"
            => Agrees(Recorded(job'[h].kind), status'[job[h].feature]),
         ~overlap => \/ job[h].feature \in unrecorded'
                     \/ job'[h].stage \in {"record", "kept"}
                     \/ Agrees(table'[job[h].feature], status'[job[h].feature])
  PROVE  TableInv'
<1>1. ApartInv'
  BY DEF TableInv, ApartInv
<1>2. RecordInv'
  <2> SUFFICES ASSUME ~overlap, NEW g \in Handlers, job'[g].stage = "record"
               PROVE  Agrees(Recorded(job'[g].kind), status'[job'[g].feature])
    BY DEF RecordInv
  <2>1. CASE g = h
    BY <2>1
  <2>2. CASE g # h
    <3>1. job'[g] = job[g] /\ job[g].feature \in Features /\ job[g].feature # job[h].feature
      BY <2>2, BusyJob DEF TableInv, ApartInv
    <3> QED  BY <3>1 DEF TableInv, RecordInv
  <2> QED  BY <2>1, <2>2
<1>3. TableCurrent'
  <2> SUFFICES ASSUME ~overlap, NEW f \in Features
               PROVE  \/ f \in unrecorded'
                      \/ \E g \in Handlers :
                            job'[g].stage \in {"record", "kept"} /\ job'[g].feature = f
                      \/ Agrees(table'[f], status'[f])
    BY CurrentNext
  <2>1. CASE f = job[h].feature
    BY <2>1
  <2>2. CASE f # job[h].feature
    BY <2>2, Current DEF TableInv
  <2> QED  BY <2>1, <2>2
<1> QED  BY <1>1, <1>2, <1>3 DEF TableInv

LEMMA SameTable ==
  ASSUME TableInv, UNCHANGED <<status, table, job, unrecorded, overlap>>
  PROVE  TableInv'
BY Current, CurrentNext DEF TableInv, ApartInv, RecordInv

LEMMA TableStep == ASSUME ReportsTypeOK, TableInv, [NextReports]_reportVars PROVE TableInv'
<1>1. ASSUME NEW h \in Handlers, NEW kind \in Kinds, NEW f \in Features,
             Call(h, kind, f) PROVE TableInv'
  <2>1. /\ job'[h] = [stage |-> "operate", kind |-> kind, feature |-> f]
        /\ \A g \in Handlers : g # h => job'[g] = job[g]
        /\ job[h].stage = "idle"
    <3>1. [stage |-> "operate", kind |-> kind, feature |-> f] \in {Idle} \union Jobs
      BY JobFacts
    <3>2. /\ job' = [job EXCEPT ![h] = [stage |-> "operate", kind |-> kind, feature |-> f]]
          /\ job[h] = Idle
      BY <1>1 DEF Call
    <3> DEFINE j == [stage |-> "operate", kind |-> kind, feature |-> f]
    <3> HIDE DEF j
    <3>3. job'[h] = j /\ \A g \in Handlers : g # h => job'[g] = job[g]
      BY <3>1, <3>2, Assigns DEF j
    <3> QED  BY <3>2, <3>3, JobFacts DEF j
  <2>2. job'[h].stage = "operate" /\ job'[h].feature = f
    BY <2>1
  <2>3. /\ UNCHANGED <<status, table, unrecorded, overlap>>
        /\ ~overlap => \A g \in Handlers : job[g].stage # "idle" => job[g].feature # f
    BY <1>1 DEF Call, database, Undisturbed, Busy
  <2>4. ApartInv' /\ RecordInv'
    BY <2>1, <2>2, <2>3 DEF TableInv, ApartInv, RecordInv
  <2>5. TableCurrent'
    BY <2>1, <2>3, Current, CurrentNext DEF TableInv
  <2> QED  BY <2>4, <2>5 DEF TableInv
<1>2. ASSUME NEW h \in Handlers, Started(h) \/ TornDown(h) PROVE TableInv'
  <2>1. PICK stage \in {"record", "kept"} :
            stage = "record" /\ Proceed(h, stage) /\ job[h].stage = "operate"
    BY <1>2 DEF Started, TornDown
  <2>2. UNCHANGED <<table, overlap>>
    BY <1>2 DEF Started, TornDown, database, bounds
  <2>3. job[h].feature \in Features
    BY <2>1, BusyJob
  <2>4. /\ Agrees(Recorded(job[h].kind), status'[job[h].feature])
        /\ \A f \in Features : f # job[h].feature => status'[f] = status[f]
    BY <1>2, <2>3 DEF Started, TornDown, Agrees, Recorded, ReportsTypeOK
  <2> QED  BY <2>1, <2>2, <2>4, Proceeds, OneHandler
<1>3. ASSUME NEW h \in Handlers, Kept(h) PROVE TableInv'
  <2>1. PICK stage \in {"record", "kept"} :
            stage = "kept" /\ Proceed(h, stage) /\ job[h].stage = "operate"
    BY <1>3 DEF Kept
  <2>2. UNCHANGED <<status, table, overlap>>
    BY <1>3 DEF Kept, database, bounds
  <2> QED  BY <2>1, <2>2, Proceeds, OneHandler
<1>4. ASSUME NEW h \in Handlers, LeftUnfinished(h) \/ NotRecorded(h) PROVE TableInv'
  <2>1. /\ Finish(h) /\ job[h].stage # "idle"
        /\ unrecorded' = unrecorded \union {job[h].feature}
        /\ UNCHANGED <<table, overlap>>
    BY <1>4 DEF LeftUnfinished, NotRecorded, Forgotten, database, bounds
  <2>2. \A f \in Features : f # job[h].feature => status'[f] = status[f]
    BY <1>4 DEF LeftUnfinished, NotRecorded, ReportsTypeOK
  <2> QED  BY <2>1, <2>2, Finishes, OneHandler
<1>5. ASSUME NEW h \in Handlers, Refused(h) \/ InsertEvent(h) \/ EventLost(h)
      PROVE TableInv'
  <2>1. /\ Finish(h) /\ job[h].stage \in {"operate", "event"}
        /\ UNCHANGED <<status, table, unrecorded, overlap>>
    BY <1>5 DEF Refused, InsertEvent, EventLost, database, bounds
  <2>2. job[h].feature \in Features
    BY <2>1, BusyJob
  <2>3. ~overlap => job[h].feature \in unrecorded \/ Agrees(table[job[h].feature], status[job[h].feature])
    BY <2>1, <2>2, Current DEF TableInv, ApartInv
  <2> QED  BY <2>1, <2>3, Finishes, OneHandler
<1>6. ASSUME NEW h \in Handlers, Upsert(h) PROVE TableInv'
  <2>1. /\ job[h].stage \in {"record", "kept"} /\ UNCHANGED <<status, overlap>>
        /\ job' = [job EXCEPT ![h].stage = "event"]
        /\ table' = [table EXCEPT ![job[h].feature] = Recorded(job[h].kind)]
        /\ unrecorded' = IF job[h].stage = "kept" THEN unrecorded \union {job[h].feature}
                                                  ELSE unrecorded \ {job[h].feature}
    BY <1>6 DEF Upsert, bounds
  <2>2. job[h].feature \in Features
    BY <2>1, BusyJob
  <2>3. /\ table'[job[h].feature] = Recorded(job[h].kind)
        /\ \A f \in Features : f # job[h].feature => table'[f] = table[f]
    BY <2>1, <2>2 DEF ReportsTypeOK
  <2>4. /\ job'[h].stage = "event" /\ job'[h].feature = job[h].feature
        /\ \A g \in Handlers : g # h => job'[g] = job[g]
    BY <2>1, JobAdvances
  <2>5. ~overlap => job[h].feature \in unrecorded'
                    \/ Agrees(table'[job[h].feature], status'[job[h].feature])
    BY <2>1, <2>3 DEF TableInv, RecordInv
  <2> QED  BY <2>1, <2>3, <2>4, <2>5, OneHandler
<1>7. ASSUME NEW f \in Features, Aside(f) PROVE TableInv'
  <2>1. /\ UNCHANGED <<table, job, overlap>> /\ unrecorded' = unrecorded \union {f}
        /\ \A e \in Features : e # f => status'[e] = status[e]
        /\ ~overlap => \A g \in Handlers : job[g].stage # "idle" => job[g].feature # f
    BY <1>7
    DEF Aside, database, Forgotten, ReportsTypeOK, Undisturbed, Busy
  <2>2. ApartInv'
    BY <2>1 DEF TableInv, ApartInv
  <2>3. RecordInv'
    BY <2>1, BusyJob DEF TableInv, RecordInv
  <2>4. TableCurrent'
    BY <2>1, Current, CurrentNext DEF TableInv
  <2> QED  BY <2>2, <2>3, <2>4 DEF TableInv
<1>8. CASE Die
  <2>1. /\ UNCHANGED <<status, table, overlap>>
        /\ \A h \in Handlers : job'[h].stage = "idle"
        /\ unrecorded' = unrecorded \union {job[h].feature : h \in Unreported}
    BY <1>8, JobFacts DEF Die, database
  <2>2. ApartInv' /\ RecordInv'
    BY <2>1 DEF ApartInv, RecordInv
  <2>3. TableCurrent'
    BY <2>1 DEF TableInv, TableCurrent
  <2> QED  BY <2>2, <2>3 DEF TableInv
<1>9. CASE \/ Snapshot \/ InsertHeartbeat \/ HeartbeatLost
           \/ Signal \/ End \/ Exit \/ Relaunch \/ UNCHANGED reportVars
  BY <1>9, SameTable
  DEF Snapshot, InsertHeartbeat, HeartbeatLost, Signal, End,
      Exit, Relaunch, reportVars, database, bounds
<1> QED  BY <1>1, <1>2, <1>3, <1>4, <1>5, <1>6, <1>7, <1>8, <1>9 DEF NextReports, Handler

---------------------------------------------------------------------------

LEMMA TableInvariance == SpecReports => [](ReportsTypeOK /\ TableInv)
<1>1. InitReports => ReportsTypeOK /\ TableInv
  <2> SUFFICES ASSUME InitReports PROVE ReportsTypeOK /\ TableInv
    OBVIOUS
  <2>1. ReportsTypeOK
    BY AgentReportsAssumption DEF InitReports, ReportsTypeOK
  <2>2. \A h \in Handlers : job[h].stage = "idle"
    BY JobFacts DEF InitReports
  <2> QED  BY <2>1, <2>2 DEF InitReports, TableInv, ApartInv, RecordInv, TableCurrent, Agrees
<1>2. ReportsTypeOK /\ TableInv /\ [NextReports]_reportVars => (ReportsTypeOK /\ TableInv)'
  BY ReportsTypeStep, TableStep
<1> QED  BY <1>1, <1>2, PTL DEF SpecReports

(* The variables of AgentReports keep their types: the handlers of the     *)
(* agent's socket, its heartbeat and its shutdown.                         *)
THEOREM TableTypes == SpecReports => []ReportsTypeOK
BY TableInvariance, PTL

(* The table agrees with the registry, wherever the agent dies, except of  *)
(* features whose change it could not record: upsert_feature after a       *)
(* handler's operation. A row may call a feature removed that the registry *)
(* never had (Agrees).                                                     *)
THEOREM TableFollows == SpecReports => []TableCurrent
<1>1. TableInv => TableCurrent
  BY DEF TableInv
<1> QED  BY <1>1, TableInvariance, PTL

=============================================================================
