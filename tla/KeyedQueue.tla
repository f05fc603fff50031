----------------------------- MODULE KeyedQueue -----------------------------
(***************************************************************************)
(* What a layer of AKO expects of its work queue, without the machinery:   *)
(* a key is requested, a request made while the key is being processed is  *)
(* not forgotten, at most one key of a shard is processed at a time, and   *)
(* only a closed shard may drop a request.  WorkQueue implements it.       *)
(***************************************************************************)
CONSTANTS Keys,     \* model names or object keys
          Shards,   \* the shards of the queue
          Shard     \* the shard of each key, a function on Keys

VARIABLES requested,  \* keys whose latest state has yet to be looked at
          running,    \* keys handed to the sync function
          closed      \* shards that were shut down

kqvars == <<requested, running, closed>>

Init == requested = {} /\ running = {} /\ closed = {}

Request(k) ==
    /\ Shard[k] \notin closed
    /\ requested' = requested \cup {k}
    /\ UNCHANGED <<running, closed>>

\* A repeated request may be served by more than one run, never by none.
Start(k) ==
    /\ k \in requested
    /\ \A j \in running : Shard[j] # Shard[k]
    /\ running' = running \cup {k}
    /\ requested' \in {requested, requested \ {k}}
    /\ UNCHANGED closed

Finish(k) ==
    /\ k \in running
    /\ running' = running \ {k}
    /\ UNCHANGED <<requested, closed>>

Close(s) ==
    /\ closed' = closed \cup {s}
    /\ UNCHANGED <<requested, running>>

Drop(k) ==
    /\ Shard[k] \in closed
    /\ requested' = requested \ {k}
    /\ UNCHANGED <<running, closed>>

Next ==
    \/ \E k \in Keys : Request(k) \/ Start(k) \/ Finish(k) \/ Drop(k)
    \/ \E s \in Shards : Close(s)

Spec == Init /\ [][Next]_kqvars
=============================================================================
