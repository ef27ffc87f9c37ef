------------------------------ MODULE ToolReplay ------------------------------
(* The dispatch of one tool request of an in-guest runtime                    *)
(* (src/core/src/runtime/in_guest.rs): a consumer in the devcontainer leaves  *)
(* a request file in the spool, dispatchers on the host take it, record a     *)
(* claim in the replay ledger, relay the request to the trusted endpoint,     *)
(* record the response, write it to the spool and clean up.                   *)
(*                                                                            *)
(* Everything is about one request id, whose files no other id shares. A      *)
(* payload is the request without its capability; Forged are the payloads     *)
(* whose envelope does not validate. A dispatcher may be stopped at any step, *)
(* by an error of the system or by its death; a power loss forgets what the   *)
(* ledger's directory holds unsynced.                                         *)
EXTENDS Naturals, FiniteSets

CONSTANTS
    Dispatchers,  \* processes that run `feature dispatch-tool`
    Payloads,     \* what the consumer may ask under this request id
    Forged,       \* those whose envelope fails validation
    Answers,      \* what the endpoint may answer
    None,         \* no file, no answer, nobody
    Torn,         \* a response file that holds part of a response
    MaxSubmits,   \* bound: requests the consumer writes
    MaxLosses,    \* bound: relays that return no valid answer
    MaxStops,     \* bound: dispatches stopped midway
    MaxOutages    \* bound: power losses of the host

ASSUME ForgedPayloads == Forged \subseteq Payloads
ASSUME NoneDistinct == None \notin Dispatchers \cup Payloads \cup Answers /\ Torn \notin Answers /\ Torn # None
ASSUME MaxLossesIsNat == MaxLosses \in Nat

VARIABLES
    policy,       \* the lease's replay_policy
    request,      \* requests/ID.json
    staged,       \* .processing/ID.json, invisible to the consumer
    temporary,    \* responses/ID.json.tmp
    response,     \* responses/ID.json
    claim,        \* the ledger's ID.claim: the payload it records
    done,         \* the ledger's ID.done: payload and answer
    links,        \* the ledger's files that still have their staging link
    synced,       \* claim and done as the directory has them on disk
    holder,       \* who holds the flock on ID.attempt
    pc, pending, replay,  \* per dispatcher: its step, pending_request, its record
    orphan,       \* a response writer in the container outlived its dispatcher
    executed,     \* how often the endpoint executed a payload, up to MaxLosses + 2
    memory,       \* what an endpoint that deduplicates remembers
    returned,     \* the answers that dispatches returned
    submits, losses, stops, outages

spool == <<request, staged, temporary, response>>
ledger == <<claim, done, links, synced>>
endpoint == <<executed, memory, losses>>
vars == <<policy, spool, ledger, holder, pc, pending, replay, orphan, endpoint, returned, submits, stops, outages>>

Policies == {"none", "exact-digest-replay-v1"}
Exact == policy = "exact-digest-replay-v1"
Records == [request : Payloads, response : Answers \cup {None}]
ASSUME NoRecord == None \notin Records

Init ==
    /\ policy \in Policies
    /\ request = None /\ staged = None /\ temporary = None /\ response = None
    /\ claim = None /\ done = None /\ links = {} /\ synced = [claim |-> None, done |-> None]
    /\ holder = None
    /\ pc = [d \in Dispatchers |-> "idle"]
    /\ pending = [d \in Dispatchers |-> None]
    /\ replay = [d \in Dispatchers |-> None]
    /\ orphan = FALSE
    /\ executed = [p \in Payloads |-> 0] /\ memory = [p \in Payloads |-> None]
    /\ returned = {}
    /\ submits = 0 /\ losses = 0 /\ stops = 0 /\ outages = 0

-----------------------------------------------------------------------------
(* The consumer renames a finished request into requests/, over one that is   *)
(* still there.                                                               *)
Submit(p) ==
    /\ submits < MaxSubmits
    /\ submits' = submits + 1
    /\ request' = p
    /\ UNCHANGED <<policy, staged, temporary, response, ledger, holder, pc, pending, replay, orphan, endpoint, returned, stops, outages>>

-----------------------------------------------------------------------------
At(d, step) == pc[d] = step
Goto(d, step) == pc' = [pc EXCEPT ![d] = step]

\* The dispatch of d is over, with a result or an error: its flock goes with it.
End(d) ==
    /\ Goto(d, "idle")
    /\ holder' = IF holder = d THEN None ELSE holder
    /\ pending' = [pending EXCEPT ![d] = None]
    /\ replay' = [replay EXCEPT ![d] = None]

Begin(d) ==
    /\ At(d, "idle")
    /\ Goto(d, "lock")
    /\ UNCHANGED <<policy, spool, ledger, holder, pending, replay, orphan, endpoint, returned, submits, stops, outages>>

\* The attempt lock is taken before the spool is looked at.
AcquireAttempt(d) ==
    /\ At(d, "lock")
    /\ holder = None
    /\ holder' = d
    /\ Goto(d, "read")
    /\ UNCHANGED <<policy, spool, ledger, pending, replay, orphan, endpoint, returned, submits, stops, outages>>

\* Slip: a waiting request replaces the staged one.
ReadSpooledGreedy(d) ==
    /\ At(d, "read")
    /\ LET taken == IF request # None THEN request ELSE staged IN
       /\ staged' = taken
       /\ request' = None
       /\ IF taken \in Forged
          THEN End(d)
          ELSE /\ Goto(d, "load")
               /\ pending' = [pending EXCEPT ![d] = taken]
               /\ UNCHANGED <<holder, replay>>
    /\ UNCHANGED <<policy, temporary, response, ledger, orphan, endpoint, returned, submits, stops, outages>>

(* READ_TOOL_REQUEST_SCRIPT: a request that is already staged is read again,  *)
(* unless a new one waits beside it; else a waiting request is staged. None   *)
(* at all is not an error yet: the ledger may know the request. A request     *)
(* that does not validate ends the dispatch, and stays staged.                *)
ReadSpooled(d) ==
    /\ At(d, "read")
    /\ IF staged # None /\ request # None
       THEN End(d) /\ UNCHANGED <<request, staged>>
       ELSE LET taken == IF staged # None THEN staged ELSE request IN
            /\ staged' = taken
            /\ request' = None
            /\ IF taken \in Forged
               THEN End(d)
               ELSE /\ Goto(d, "load")
                    /\ pending' = [pending EXCEPT ![d] = taken]
                    /\ UNCHANGED <<holder, replay>>
    /\ UNCHANGED <<policy, temporary, response, ledger, orphan, endpoint, returned, submits, stops, outages>>

\* Slip: only the answers are looked for.
ExistingDone == done

\* load_existing_tool_request_replay looks for ID.done, then for ID.claim.
Existing ==
    IF done # None THEN done
    ELSE IF claim # None THEN [request |-> claim, response |-> None]
    ELSE None

OnDisk == [claim |-> claim', done |-> done']

Found == IF done # None THEN {"done"} ELSE IF claim # None THEN {"claim"} ELSE {}

\* Slip: the staging link of a dead dispatcher is left.
RepairNothing == UNCHANGED ledger

\* A file of the ledger that kept its staging link is repaired before it is read.
Repair ==
    /\ links' = links \ Found
    /\ UNCHANGED <<claim, done>>
    /\ synced' = IF links \cap Found # {} THEN OnDisk ELSE synced

\* Slip: the policy is not asked.
ReplayableAlways(p) == Found \cap links' = {} /\ (p # None => p = Existing.request)

(* A record is replayed when its file has no other link, for the exact        *)
(* request, under the exact policy.                                           *)
Replayable(p) ==
    /\ Found \cap links' = {}
    /\ p # None => p = Existing.request
    /\ Exact

AfterClaim(record) == IF record.response = None THEN "relay" ELSE "write"

LoadOrClaim(d) ==
    /\ At(d, "load")
    /\ Repair
    /\ \/ /\ Existing # None /\ Replayable(pending[d])
          /\ replay' = [replay EXCEPT ![d] = Existing]
          /\ Goto(d, IF pending[d] # None THEN "unstage" ELSE AfterClaim(Existing))
          /\ UNCHANGED <<holder, pending>>
       \/ Existing # None /\ ~Replayable(pending[d]) /\ End(d)
       \/ Existing = None /\ pending[d] = None /\ End(d)
       \/ /\ Existing = None /\ pending[d] # None
          /\ Goto(d, "claim")
          /\ UNCHANGED <<holder, pending, replay>>
    /\ UNCHANGED <<policy, spool, orphan, endpoint, returned, submits, stops, outages>>

(* persist_new_owner_only_file links a synced staging file to the record's    *)
(* name, removes the staging name and syncs the directory. That the name is   *)
(* taken already cannot be: the record was looked for under the same flock.   *)
LinkClaim(d) ==
    /\ At(d, "claim")
    /\ claim' = pending[d]
    /\ links' = links \cup {"claim"}
    /\ replay' = [replay EXCEPT ![d] = [request |-> pending[d], response |-> None]]
    /\ Goto(d, "unlinkclaim")
    /\ UNCHANGED <<policy, spool, done, synced, holder, pending, orphan, endpoint, returned, submits, stops, outages>>

Unlink(d, step, file, next) ==
    /\ At(d, step)
    /\ links' = links \ {file}
    /\ Goto(d, next)
    /\ UNCHANGED <<policy, spool, claim, done, synced, holder, pending, replay, orphan, endpoint, returned, submits, stops, outages>>

SyncDirectory(d, step, next) ==
    /\ At(d, step)
    /\ UNCHANGED <<claim, done, links>>
    /\ synced' = OnDisk
    /\ Goto(d, next)
    /\ UNCHANGED <<policy, spool, holder, pending, replay, orphan, endpoint, returned, submits, stops, outages>>

PersistClaim(d) == Unlink(d, "unlinkclaim", "claim", "syncclaim") \/ SyncDirectory(d, "syncclaim", "unstage")

Unstage(d) ==
    /\ At(d, "unstage")
    /\ staged' = None
    /\ Goto(d, AfterClaim(replay[d]))
    /\ UNCHANGED <<policy, request, temporary, response, ledger, holder, pending, replay, orphan, endpoint, returned, submits, stops, outages>>

-----------------------------------------------------------------------------
\* An endpoint behind an exact-replay lease answers a request it knows as before.
AnswersTo(p) == IF Exact /\ memory[p] # None THEN {memory[p]} ELSE Answers

Execute(p, a) ==
    /\ executed' = [executed EXCEPT ![p] = IF @ < MaxLosses + 2 THEN @ + 1 ELSE @]
    /\ memory' = [memory EXCEPT ![p] = a]

\* The endpoint executes the request, and its answer arrives.
Relay(d) ==
    /\ At(d, "relay")
    /\ \E a \in AnswersTo(replay[d].request) :
          /\ Execute(replay[d].request, a)
          /\ replay' = [replay EXCEPT ![d].response = a]
    /\ Goto(d, "done")
    /\ UNCHANGED <<policy, spool, ledger, holder, pending, orphan, losses, returned, submits, stops, outages>>

(* The endpoint is not reached, or executes and its answer is lost, late or   *)
(* not correlated: the dispatch ends, retryable or not, and the claim stays.  *)
RelayLost(d) ==
    /\ At(d, "relay")
    /\ losses < MaxLosses
    /\ losses' = losses + 1
    /\ \/ UNCHANGED <<executed, memory>>
       \/ \E a \in AnswersTo(replay[d].request) : Execute(replay[d].request, a)
    /\ End(d)
    /\ UNCHANGED <<policy, spool, ledger, orphan, returned, submits, stops, outages>>

-----------------------------------------------------------------------------
\* complete_tool_request_replay: ID.done is persisted, then ID.claim removed.
LinkDone(d) ==
    /\ At(d, "done")
    /\ done' = replay[d]
    /\ links' = links \cup {"done"}
    /\ Goto(d, "unlinkdone")
    /\ UNCHANGED <<policy, spool, claim, synced, holder, pending, replay, orphan, endpoint, returned, submits, stops, outages>>

PersistDone(d) == Unlink(d, "unlinkdone", "done", "syncdone") \/ SyncDirectory(d, "syncdone", "dropclaim")

DropClaim(d) ==
    /\ At(d, "dropclaim")
    /\ claim' = None
    /\ Goto(d, "syncdrop")
    /\ UNCHANGED <<policy, spool, done, links, synced, holder, pending, replay, orphan, endpoint, returned, submits, stops, outages>>

SyncDrop(d) == SyncDirectory(d, "syncdrop", "write")

-----------------------------------------------------------------------------
(* WRITE_TOOL_RESPONSE_SCRIPT in the container: it refuses to start over a    *)
(* temporary file, which its exit trap removes; else it copies its input into *)
(* one, a part at a time.                                                     *)
WriteBegins(d) ==
    /\ At(d, "write")
    /\ IF temporary # None
       THEN temporary' = None /\ End(d)
       ELSE /\ temporary' = Torn
            /\ Goto(d, "stream")
            /\ UNCHANGED <<holder, pending, replay>>
    /\ UNCHANGED <<policy, request, staged, response, ledger, orphan, endpoint, returned, submits, stops, outages>>

\* The script renames the temporary file, or finds the same response there.
Commit(content) ==
    /\ temporary' = None
    /\ response' = IF response = None THEN content ELSE response

(* Without its temporary file, taken by another script, it fails; if that one *)
(* renamed it, the rest of the response has gone into the response file.      *)
WriteEnds(d) ==
    /\ At(d, "stream")
    /\ IF temporary # None THEN Commit(replay[d].response)
       ELSE /\ temporary' = None
            /\ response' \in IF response = Torn THEN {Torn, replay[d].response} ELSE {response}
    /\ IF temporary # None /\ response \in {None, replay[d].response}
       THEN Goto(d, "clean") /\ UNCHANGED <<holder, pending, replay>>
       ELSE End(d)
    /\ UNCHANGED <<policy, request, staged, ledger, orphan, endpoint, returned, submits, stops, outages>>

(* The script goes on when its dispatcher dies, with the input it got; or its *)
(* container stops, and the temporary file stays.                             *)
OrphanWrites ==
    /\ orphan
    /\ orphan' = FALSE
    /\ IF temporary = None THEN UNCHANGED <<temporary, response>> ELSE Commit(temporary)
    /\ UNCHANGED <<policy, request, staged, ledger, holder, pc, pending, replay, endpoint, returned, submits, stops, outages>>

OrphanKilled ==
    /\ orphan
    /\ orphan' = FALSE
    /\ UNCHANGED <<policy, spool, ledger, holder, pc, pending, replay, endpoint, returned, submits, stops, outages>>

\* remove_spooled_tool_request removes both names, whatever they hold by now.
Clean(d) ==
    /\ At(d, "clean")
    /\ request' = None /\ staged' = None
    /\ returned' = returned \cup {replay[d].response}
    /\ End(d)
    /\ UNCHANGED <<policy, temporary, response, ledger, orphan, endpoint, submits, stops, outages>>

-----------------------------------------------------------------------------
\* A step of d fails or d dies: what it did so far stays.
Stop(d) ==
    /\ pc[d] \notin {"idle", "lock"}
    /\ stops < MaxStops
    /\ stops' = stops + 1
    /\ orphan' = (orphan \/ At(d, "stream"))
    /\ End(d)
    /\ UNCHANGED <<policy, spool, ledger, endpoint, returned, submits, outages>>

\* Of each name in the ledger's directory the disk has the old or the new state.
PowerLoss ==
    /\ outages < MaxOutages
    /\ outages' = outages + 1
    /\ claim' \in {claim, synced.claim}
    /\ done' \in {done, synced.done}
    /\ synced' = OnDisk
    /\ links' = {f \in links : (f = "claim" /\ claim' # None) \/ (f = "done" /\ done' # None)}
    /\ orphan' = FALSE
    /\ holder' = None
    /\ pc' = [d \in Dispatchers |-> "idle"]
    /\ pending' = [d \in Dispatchers |-> None]
    /\ replay' = [d \in Dispatchers |-> None]
    /\ UNCHANGED <<policy, spool, endpoint, returned, submits, stops>>

Step(d) ==
    \/ Begin(d) \/ AcquireAttempt(d) \/ ReadSpooled(d) \/ LoadOrClaim(d)
    \/ LinkClaim(d) \/ PersistClaim(d) \/ Unstage(d) \/ Relay(d)
    \/ LinkDone(d) \/ PersistDone(d) \/ DropClaim(d) \/ SyncDrop(d)
    \/ WriteBegins(d) \/ WriteEnds(d) \/ Clean(d)

Next ==
    \/ \E p \in Payloads : Submit(p)
    \/ \E d \in Dispatchers : Step(d) \/ RelayLost(d) \/ Stop(d)
    \/ OrphanWrites \/ OrphanKilled
    \/ PowerLoss

(* Dispatchers take their steps, and are started again: run_dispatch_tool     *)
(* retries within its wait, and whoever waits for the answer calls it again.  *)
Fairness == \A d \in Dispatchers : WF_vars(Step(d) \/ RelayLost(d))
Spec == Init /\ [][Next]_vars /\ Fairness

-----------------------------------------------------------------------------
Steps == {"idle", "lock", "read", "load", "claim", "unlinkclaim", "syncclaim", "unstage", "relay", "done",
          "unlinkdone", "syncdone", "dropclaim", "syncdrop", "write", "stream", "clean"}

\* The types of the spool, the ledger, the dispatchers and the endpoint.
TypeOK ==
    /\ policy \in Policies
    /\ request \in Payloads \cup {None} /\ staged \in Payloads \cup {None}
    /\ temporary \in Answers \cup {None, Torn} /\ response \in Answers \cup {None, Torn}
    /\ claim \in Payloads \cup {None} /\ done \in Records \cup {None}
    /\ synced \in [claim : Payloads \cup {None}, done : Records \cup {None}]
    /\ links \subseteq {"claim", "done"}
    /\ holder \in Dispatchers \cup {None}
    /\ pc \in [Dispatchers -> Steps]
    /\ pending \in [Dispatchers -> Payloads \cup {None}]
    /\ replay \in [Dispatchers -> Records \cup {None}]
    /\ orphan \in BOOLEAN
    /\ executed \in [Payloads -> 0..(MaxLosses + 2)] /\ memory \in [Payloads -> Answers \cup {None}]
    /\ returned \subseteq Answers
    /\ outages \in Nat

\* A lease that denies replay has its request executed at most once, whatever
\* dies in between and however often the consumer asks again.
AtMostOnce == ~Exact => \A p, q \in Payloads : executed[p] + executed[q] > 1 => p = q /\ executed[p] = 1

(* A record that a dispatcher linked and did not live to sync is trusted as   *)
(* it is by the next one, so an outage may still take it back; without exact  *)
(* replay a record that is found is refused anyway.                           *)
RecordsLast == Exact => outages = 0

\* The endpoint executes one payload only for a request id.
OnePayload == RecordsLast => \A p, q \in Payloads : executed[p] > 0 /\ executed[q] > 0 => p = q

\* What is recorded, what the consumer reads and what dispatches return is one
\* answer.
OneAnswer ==
    LET told == returned \cup ({response} \cap Answers) \cup {r.response : r \in {done} \ {None}}
    IN  RecordsLast => Cardinality(told) <= 1

\* A request leaves .processing only when the ledger has it: no death between
\* reading and claiming loses it, nor does a request written after it.
StagedUntilClaimed ==
    [][staged \notin {None, staged'} => claim = staged \/ (done # None /\ done.request = staged)]_vars

\* Once its answer is recorded a request is not executed again: who waited for
\* the attempt lock sees what its holder recorded.
ExecutedBeforeDone == [][executed' # executed => done = None]_vars

\* A response the consumer can read whole stays as it is, whatever writers of
\* dead dispatchers do to its temporary file.
ResponseStays == [][(response \in Answers) => response' = response]_vars

(* What another request of the consumer does under the same id: a staged      *)
(* request is never given up, neither for a new one beside it nor because it  *)
(* differs from the claim.                                                    *)
Blocked == staged # None /\ (request # None \/ staged # Existing.request)

\* Under exact replay a claimed request has a response in the end, if somebody
\* keeps dispatching it: whatever answers were lost or records left linked,
\* unless the consumer's own requests block it for good. (The response may be
\* torn: ResponseWhole.)
EventuallyAnswered == (Exact /\ claim # None) ~> (response # None \/ [](Existing = None \/ Blocked))

\* The consumer's response file appears whole or not at all.
ResponseWhole == response # Torn

==============================================================================
