---------------------------- MODULE MCWorkQueue -----------------------------
(***************************************************************************)
(* Small instances of WorkQueue: two keys share shard 0, one is in shard   *)
(* 1.  In each behaviour the queue is one of the layers with a plain       *)
(* worker (`part' is "fast") or the slow retry layer, whose worker takes   *)
(* batches ("slow").                                                       *)
(***************************************************************************)
EXTENDS WorkQueue, TLC

CONSTANTS k1, k2, k3

VARIABLE part

MCHash == (k1 :> 2) @@ (k2 :> 4) @@ (k3 :> 7)

Batches == INSTANCE WorkQueue WITH Slow <- TRUE

MCInit == part \in {"fast", "slow"} /\ Init

MCNext ==
    \/ part = "fast" /\ Next /\ UNCHANGED part
    \/ part = "slow" /\ Batches!Next /\ UNCHANGED part

\* Fairness of WorkQueue, for either worker.
MCFairSpec ==
    /\ MCInit /\ [][MCNext]_<<part, vars>>
    /\ \A w \in Workers :
          /\ WF_vars(part = "fast" /\ runWorker(w) /\ UNCHANGED part)
          /\ WF_vars(part = "slow" /\ Batches!runWorker(w) /\ UNCHANGED part)
    /\ \A k \in Keys : WF_vars(Add(k) /\ UNCHANGED part)
    /\ WF_vars(stopNext > 0 /\ StopWorkers /\ UNCHANGED part)

\* StopWorkers ends every goroutine (WorkersExit of WorkQueue).  The batching
\* worker sleeps on its timer and does not look at an empty queue again.
FastWorkersExit ==
    (part = "fast" /\ stopNext = NumWorkers) ~> (\A w \in Workers : pc[w] = "done")
=============================================================================
