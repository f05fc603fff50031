---------------------------- MODULE MCRestLayer ----------------------------
(* Instances of RestLayer: one virtual service with two pools, a pool group *)
(* and a policy set.                                                        *)
EXTENDS RestLayer

CONSTANTS p1, p2, pg, hp, vs

MCSubs == {p1, p2, pg, hp}
MCKind == [o \in {p1, p2, pg, hp, vs} |->
              CASE o \in {p1, p2} -> "Pool" [] o = pg -> "PoolGroup"
                [] o = hp -> "HTTPPolicySet" [] o = vs -> "VirtualService"]

\* The first version of the group holds p1, the second p2; the second version
\* of the virtual service has no policy set.
MCRefs == [o \in {p1, p2, pg, hp, vs} |->
              CASE o \in {p1, p2} -> [c \in 0..3 |-> {}]
                [] o = pg -> [c \in 0..3 |-> CASE c = 0 -> {} [] c = 1 -> {p1} [] c > 1 -> {p2}]
                [] o = hp -> [c \in 0..3 |-> IF c = 0 THEN {} ELSE {pg}]
                [] o = vs -> [c \in 0..3 |-> CASE c = 0 -> {} [] c = 1 -> {pg, hp} [] c > 1 -> {pg}]]

NoGraph == [o \in {p1, p2, pg, hp, vs} |-> 0]
First == [NoGraph EXCEPT ![p1] = 1, ![pg] = 1, ![hp] = 1, ![vs] = 1]
Second == [NoGraph EXCEPT ![p2] = 1, ![pg] = 2, ![vs] = 2]
Third == [First EXCEPT ![p1] = 2]

AllGraphs == {First, Second, Third, NoGraph}
NoObjs == {}

\* Every change; only changes after which no object returns to a version it had
\* before; only the deletion.
AnyChange == AllGraphs \X AllGraphs
Forward == {First} \X {Second, Third, NoGraph} \cup {Third} \X {Second, NoGraph}
               \cup {<<Second, NoGraph>>}
There == {<<First, NoGraph>>}

-----------------------------------------------------------------------------
\* Every variable has its type; when nothing is queued or running the controller
\* holds the model (HoldsModel) and the caches say what it holds (CacheTruth), in
\* spite of errors, lost replies, timeouts and restarts.
RestSound == TypeOK /\ HoldsModel /\ CacheTruth

\* Once edits and faults are over everything wanted arrives and stays
\* (EventuallyWanted), and after server errors only, nothing besides
\* (EventuallyModel): no error takes the key out of all queues for good.
EventuallyServed == EventuallyModel /\ EventuallyWanted
=============================================================================
