-------------------------- MODULE RegistryReaders ---------------------------
(***************************************************************************)
(* RegistryStore with the history of what a lock-free reader could have    *)
(* been answered: the documents that were current since its load began.    *)
(***************************************************************************)
EXTENDS RegistryStore

VARIABLE seen  \* [Readers -> documents current since the load began]

readerHistory == <<vars, seen>>

InitReaders ==
    /\ Init
    /\ seen = [r \in Readers |-> {}]

NextReaders ==
    /\ Next
    /\ seen' = [r \in Readers |->
        IF rpc'[r] = "idle" THEN {} ELSE seen[r] \cup {Current, Current'}]

SpecReaders == InitReaders /\ [][NextReaders]_readerHistory

(* A reader gets a document that was the registry at some moment of its    *)
(* load, although it takes no lock (FeatureStateStore: "Readers take no    *)
(* lock: they always see a complete document").  With a feature.json one   *)
(* that looks for both files while they are replaced may find neither.     *)
ReadersSeeCommitted == \A r \in Readers : rpc[r] = "done" => got[r] \in seen[r]
=============================================================================
