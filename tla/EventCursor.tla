---------------------------- MODULE EventCursor -----------------------------
(***************************************************************************)
(* What the agent's event queue promises (architecture.md, Offline-First   *)
(* Design): events are numbered as they are queued, reach the endpoint or  *)
(* the log in any number of attempts, and a single cursor says which of    *)
(* them need not be sent again.  The cursor passes only events that got    *)
(* there, and never goes back.                                             *)
(***************************************************************************)
EXTENDS Naturals

VARIABLES
    queued,   \* the number of the last event
    reported, \* the events that have reached the endpoint or the log
    cursor    \* the events up to here are done with

vars == <<queued, reported, cursor>>

Init ==
    /\ queued = 0
    /\ reported = {}
    /\ cursor = 0

Enqueue ==
    /\ queued' = queued + 1
    /\ UNCHANGED <<reported, cursor>>

Report ==
    /\ \E events \in SUBSET (cursor + 1 .. queued) : reported' = reported \cup events
    /\ UNCHANGED <<queued, cursor>>

(* Everything the cursor passes has been reported. *)
Advance ==
    /\ \E n \in cursor + 1 .. queued :
        /\ 1..n \subseteq reported
        /\ cursor' = n
    /\ UNCHANGED <<queued, reported>>

Next == Enqueue \/ Report \/ Advance

Spec == Init /\ [][Next]_vars
=============================================================================
