-------------------------- MODULE HighAvailability --------------------------
(***************************************************************************)
(* The replicas of AKO: the election by a lease, the callbacks that turn a *)
(* replica into a leader or a follower, and what the role means for the    *)
(* REST layer, for one virtual service.  The leader writes to the Avi      *)
(* controller; a follower sends a GET for every operation and fills its    *)
(* caches with the answer.  A version of the virtual service is its        *)
(* checksum, 0 for absent.                                                 *)
(***************************************************************************)
EXTENDS Naturals, Sequences, FiniteSets

CONSTANTS
    Pods,        \* the replicas
    None,        \* nobody
    Wanted,      \* the versions Kubernetes calls for, one after the other
    Prompt,      \* a callback changes the role before its replica's next round of the election
    MaxFailures  \* bound: crashes, lost leases and shutdowns

ASSUME HAAssumption ==
    /\ IsFiniteSet(Pods) /\ None \notin Pods
    /\ Wanted \in Seq(Nat)
    /\ Prompt \in BOOLEAN /\ MaxFailures \in Nat

VARIABLES
    lease,     \* HolderIdentity of the lease
    expired,   \* it has not been renewed for LeaseDuration
    k8s,       \* number of versions called for so far
    ctrl,      \* the virtual service on the controller
    posts,     \* objects created there so far: the source of uuids
    pod,       \* state of every replica
    failures,
    invalid,   \* history: a callback met a transition the FSM does not have
    trespass   \* history: a write while another replica had the lease

vars == <<lease, expired, k8s, ctrl, posts, pod, failures, invalid, trespass>>

Want(n) == IF n = 0 THEN 0 ELSE Wanted[n]

Absent == [sum |-> 0, uuid |-> 0]
Idle == [role |-> "FOLLOWER", method |-> "none", sum |-> 0, uuid |-> 0]

\* A replica that is not running.
Down == [stage |-> "down",        \* down, wait (for readyCh), run
         state |-> "UNKNOWN",     \* State.current
         isLeader |-> FALSE,      \* AKOControlConfig().IsLeader()
         elector |-> "acquiring", \* of client-go: acquiring, leading, stopped
         reported |-> None,       \* the leader last reported to OnNewLeader
         calls |-> {},            \* callbacks under way
         ready |-> FALSE,         \* readyCh is closed
         seen |-> 0,              \* the versions it has been told of
         model |-> 0,             \* its model
         missed |-> FALSE,        \* history: a deletion no event told of
         cache |-> Absent,        \* VsCacheMeta
         queued |-> FALSE,        \* the key is in the graph queue
         retry |-> FALSE,         \* ... in a retry queue
         op |-> Idle]             \* the operation under way

Init ==
    /\ lease = None /\ expired = FALSE /\ k8s = 0
    /\ ctrl = Absent /\ posts = 0
    /\ pod = [p \in Pods |-> Down]
    /\ failures = 0 /\ invalid = FALSE /\ trespass = FALSE

-----------------------------------------------------------------------------
(* Roles.                                                                  *)

\* Mutant: no callback is known to the machine for a leader that stops.
EventIgnoresLoss(from, to) ==
    CASE from = "UNKNOWN"  /\ to = "LEADER"   -> "BOOT_UP_AS_LEADER"
      [] from = "UNKNOWN"  /\ to = "FOLLOWER" -> "BOOT_UP_AS_FOLLOWER"
      [] from = "FOLLOWER" /\ to = "LEADER"   -> "FOLLOWER_TO_LEADER"
      [] from = "LEADER"   /\ to = "FOLLOWER" -> "BOOT_UP_AS_LEADER"
      [] OTHER                                -> "invalid"

\* NewFSM
Event(from, to) ==
    CASE from = "UNKNOWN"  /\ to = "LEADER"   -> "BOOT_UP_AS_LEADER"
      [] from = "UNKNOWN"  /\ to = "FOLLOWER" -> "BOOT_UP_AS_FOLLOWER"
      [] from = "FOLLOWER" /\ to = "LEADER"   -> "FOLLOWER_TO_LEADER"
      [] from = "LEADER"   /\ to = "FOLLOWER" -> "LOST_LEADERSHIP"
      [] OTHER                                -> "invalid"

\* OnStartedLeading, OnNewLeader and OnStoppedLeading look up an event, ...
Spawned(kind) == [kind |-> kind, at |-> "spawned"]
Goal(kind) == IF kind = "started" THEN "LEADER" ELSE "FOLLOWER"

\* The callbacks that have not changed the role yet.
Undecided(r) == {c \in r.calls : c.at # "changed"}
Settled(p) == Prompt => Undecided(pod[p]) = {}

Exit(p) == pod' = [pod EXCEPT ![p] = Down]

Lookup(p, c) ==
    LET event == Event(pod[p].state, Goal(c.kind)) IN
    /\ c \in pod[p].calls /\ c.at = "spawned"
    /\ IF event = "invalid" THEN Exit(p)
       ELSE pod' = [pod EXCEPT ![p].calls = (@ \ {c}) \cup {[c EXCEPT !.at = event]}]
    /\ invalid' = (invalid \/ event = "invalid")
    /\ UNCHANGED <<lease, expired, k8s, ctrl, posts, failures, trespass>>

Changed(p, c, role) ==
    pod' = [pod EXCEPT ![p].state = role,
                       ![p].isLeader = (role = "LEADER"),
                       ![p].calls = (@ \ {c}) \cup {[c EXCEPT !.at = "changed"]}]

\* Mutant: the flag is not set.
TransitionToLeaderSilent(p, c) ==
    pod' = [pod EXCEPT ![p].state = "LEADER",
                       ![p].calls = (@ \ {c}) \cup {[c EXCEPT !.at = "changed"]}]

TransitionToLeader(p, c) == Changed(p, c, "LEADER")
TransitionToFollower(p, c) == Changed(p, c, "FOLLOWER")

\* ... make the transition (which ends the process if the leadership is lost) ...
Transition(p, c) ==
    /\ c \in pod[p].calls
    /\ \/ c.at \in {"BOOT_UP_AS_LEADER", "FOLLOWER_TO_LEADER"} /\ TransitionToLeader(p, c)
       \/ c.at = "BOOT_UP_AS_FOLLOWER" /\ TransitionToFollower(p, c)
       \/ c.at = "LOST_LEADERSHIP" /\ Exit(p)
    /\ UNCHANGED <<lease, expired, k8s, ctrl, posts, failures, invalid, trespass>>

\* publishAllParentVSKeysToRestLayer: every key with a model or in the cache.
HasKey(p) == pod[p].cache # Absent \/ pod[p].model # 0

\* ... and run its handler, after which OnNewLeaderElected closes readyCh.
Handler(p, c) ==
    /\ c \in pod[p].calls /\ c.at = "changed"
    /\ pod' = [pod EXCEPT ![p].calls = @ \ {c},
                          ![p].queued = @ \/ HasKey(p),
                          ![p].ready = @ \/ c.kind # "stopped"]
    /\ UNCHANGED <<lease, expired, k8s, ctrl, posts, failures, invalid, trespass>>

-----------------------------------------------------------------------------
(* The election.                                                           *)

\* InitController up to the election: PopulateCache and FullSyncK8s.
Boot(p) ==
    /\ pod[p].stage = "down"
    /\ pod' = [pod EXCEPT ![p] = [Down EXCEPT !.stage = "wait", !.seen = k8s,
                                    !.model = Want(k8s), !.cache = ctrl]]
    /\ UNCHANGED <<lease, expired, k8s, ctrl, posts, failures, invalid, trespass>>

\* A round of the election: the lease is free, has this identity on it, or is
\* known to have expired since it was first seen.
Acquire(p) ==
    /\ pod[p].stage # "down" /\ pod[p].elector = "acquiring" /\ Settled(p)
    /\ lease \in {p, None} \/ (expired /\ pod[p].reported = lease)
    /\ lease' = p /\ expired' = FALSE
    /\ pod' = [pod EXCEPT ![p].elector = "leading", ![p].reported = p,
                          ![p].calls = @ \cup {Spawned("started")}]
    /\ UNCHANGED <<k8s, ctrl, posts, failures, invalid, trespass>>

\* Another one has it; OnNewLeader is called when that is news.
Observe(p) ==
    /\ pod[p].stage # "down" /\ pod[p].elector = "acquiring" /\ Settled(p)
    /\ lease \notin {p, None} /\ lease # pod[p].reported
    /\ pod' = [pod EXCEPT ![p].reported = lease,
                          ![p].calls = @ \cup {Spawned("new")}]
    /\ UNCHANGED <<lease, expired, k8s, ctrl, posts, failures, invalid, trespass>>

\* The lease has been released but another replica is faster: nobody is reported.
Conflict(p) ==
    /\ pod[p].stage # "down" /\ pod[p].elector = "acquiring" /\ Settled(p)
    /\ lease = None /\ pod[p].reported # None
    /\ \E q \in Pods \ {p} :
          /\ pod[q].stage # "down" /\ pod[q].elector = "acquiring" /\ Settled(q)
          /\ lease' = q
          /\ pod' = [pod EXCEPT ![q].elector = "leading", ![q].reported = q,
                                ![q].calls = @ \cup {Spawned("started")},
                                ![p].reported = None,
                                ![p].calls = @ \cup {Spawned("new")}]
    /\ UNCHANGED <<expired, k8s, ctrl, posts, failures, invalid, trespass>>

\* Nobody has renewed the lease for LeaseDuration.
Expire ==
    /\ lease # None /\ ~expired
    /\ pod[lease].elector # "leading"
    /\ expired' = TRUE
    /\ UNCHANGED <<lease, k8s, ctrl, posts, pod, failures, invalid, trespass>>

\* LeaderElector.Run ends: the lease is released if that is possible, then
\* OnStoppedLeading is called.
Stopped(p) ==
    /\ pod' = [pod EXCEPT ![p].elector = "stopped",
                          ![p].calls = @ \cup {Spawned("stopped")}]
    /\ failures' = failures + 1
    /\ UNCHANGED <<expired, k8s, ctrl, posts, invalid, trespass>>

\* The lease could not be renewed for RenewDeadline, less than LeaseDuration.
LoseLease(p) ==
    /\ pod[p].elector = "leading" /\ Settled(p) /\ failures < MaxFailures
    /\ Stopped(p)
    /\ lease' \in {lease, None}

\* InitController ends and cancels the context of the election.
Shutdown(p) ==
    /\ pod[p].stage = "run" /\ pod[p].elector # "stopped" /\ failures < MaxFailures
    /\ Stopped(p)
    /\ lease' = IF lease = p THEN None ELSE lease

Crash(p) ==
    /\ pod[p].stage # "down" /\ failures < MaxFailures
    /\ failures' = failures + 1
    /\ Exit(p)
    /\ UNCHANGED <<lease, expired, k8s, ctrl, posts, invalid, trespass>>

-----------------------------------------------------------------------------
(* The work.                                                               *)

\* Something changes in Kubernetes.
Edit ==
    /\ k8s < Len(Wanted)
    /\ k8s' = k8s + 1
    /\ UNCHANGED <<lease, expired, ctrl, posts, pod, failures, invalid, trespass>>

\* Mutant: the workers start before the role is known.
StartWorkersEarly(p) ==
    /\ pod[p].stage = "wait"
    /\ pod' = [pod EXCEPT ![p].stage = "run", ![p].seen = k8s, ![p].model = Want(k8s),
                          ![p].queued = @ \/ Want(k8s) # pod[p].model]
    /\ UNCHANGED <<lease, expired, k8s, ctrl, posts, failures, invalid, trespass>>

\* InitController after the election: SetupEventHandlers, and the queues run.
\* The handlers are told of what exists, not of what was deleted since the sync.
StartWorkers(p) ==
    /\ pod[p].stage = "wait" /\ pod[p].ready
    /\ LET news == Want(k8s) # pod[p].model
       IN pod' = [pod EXCEPT ![p].stage = "run", ![p].seen = k8s,
                             ![p].model = IF Want(k8s) = 0 THEN @ ELSE Want(k8s),
                             ![p].queued = @ \/ (news /\ Want(k8s) # 0),
                             ![p].missed = pod[p].seen # k8s /\ Want(k8s) = 0]
    /\ UNCHANGED <<lease, expired, k8s, ctrl, posts, failures, invalid, trespass>>

\* An event reaches the ingestion queue, the model is built, saved and published.
DequeueIngestion(p) ==
    /\ pod[p].stage = "run" /\ pod[p].seen < k8s
    /\ LET sum == Want(pod[p].seen + 1)
       IN pod' = [pod EXCEPT ![p].seen = @ + 1, ![p].model = sum, ![p].missed = FALSE,
                             ![p].queued = @ \/ sum # pod[p].model]
    /\ UNCHANGED <<lease, expired, k8s, ctrl, posts, failures, invalid, trespass>>

Method(sum, cached) ==
    CASE sum = cached            -> "none"
      [] sum = 0 /\ cached # 0   -> "DELETE"
      [] sum # 0 /\ cached = 0   -> "POST"
      [] OTHER                   -> "PUT"

\* Mutant: every replica writes.
OperationWrites(p) ==
    [role |-> "LEADER", method |-> Method(pod[p].model, pod[p].cache.sum),
     sum |-> pod[p].model, uuid |-> pod[p].cache.uuid]

\* Mutant: the operator of a follower, whatever the role.
OperationReads(p) ==
    [role |-> "FOLLOWER", method |-> Method(pod[p].model, pod[p].cache.sum),
     sum |-> pod[p].model, uuid |-> pod[p].cache.uuid]

\* The operation that takes the cached version to the model's.
Operation(p) ==
    [role |-> IF pod[p].isLeader THEN "LEADER" ELSE "FOLLOWER",
     method |-> Method(pod[p].model, pod[p].cache.sum),
     sum |-> pod[p].model, uuid |-> pod[p].cache.uuid]

\* NewRestOperations takes the role, DequeueNodes builds the operation.
DequeueNodes(p) ==
    /\ pod[p].stage = "run" /\ pod[p].queued /\ pod[p].op = Idle
    /\ pod' = [pod EXCEPT ![p].queued = FALSE,
                          ![p].op = IF Operation(p).method = "none" THEN Idle ELSE Operation(p)]
    /\ UNCHANGED <<lease, expired, k8s, ctrl, posts, failures, invalid, trespass>>

Finish(p, cache, retry) ==
    pod' = [pod EXCEPT ![p].op = Idle, ![p].cache = cache, ![p].retry = @ \/ retry]

\* The object the operation addresses by its uuid is on the controller.
There(op) == ctrl.sum # 0 /\ ctrl.uuid = op.uuid

\* leader.AviRestOperate, and what ExecuteRestAndPopulateCache makes of the answer.
LeaderOperate(p) ==
    LET op == pod[p].op
        created == [sum |-> op.sum, uuid |-> posts + 1]
    IN /\ op.role = "LEADER" /\ op.method # "none"
       /\ CASE op.method = "POST" /\ ctrl.sum = 0 ->
                 ctrl' = created /\ posts' = posts + 1 /\ Finish(p, created, FALSE)
            [] op.method = "POST" /\ ctrl.sum # 0 ->
                 UNCHANGED <<ctrl, posts>> /\ Finish(p, ctrl, TRUE)
            [] op.method # "POST" /\ ~There(op) ->
                 UNCHANGED <<ctrl, posts>> /\ Finish(p, Absent, op.method = "PUT")
            [] op.method = "PUT" /\ There(op) ->
                 ctrl' = [ctrl EXCEPT !.sum = op.sum] /\ UNCHANGED posts /\ Finish(p, ctrl', FALSE)
            [] op.method = "DELETE" /\ There(op) ->
                 ctrl' = Absent /\ UNCHANGED posts /\ Finish(p, Absent, FALSE)
       /\ trespass' = (trespass \/ (ctrl' # ctrl /\ lease \notin {p, None}))
       /\ UNCHANGED <<lease, expired, k8s, failures, invalid>>

\* follower.AviRestOperate, and what ExecuteRestAndPopulateCache makes of the answer.
FollowerOperate(p) ==
    LET op == pod[p].op
    IN /\ op.role = "FOLLOWER" /\ op.method # "none"
       /\ CASE op.method = "POST" -> Finish(p, ctrl, ctrl.sum = 0)
            [] op.method = "PUT" -> Finish(p, IF There(op) THEN ctrl ELSE Absent, ~There(op))
            [] op.method = "DELETE" -> Finish(p, IF There(op) THEN pod[p].cache ELSE Absent, There(op))
       /\ UNCHANGED <<lease, expired, k8s, ctrl, posts, failures, invalid, trespass>>

\* DequeueFastRetry and DequeueSlowRetry
DequeueRetry(p) ==
    /\ pod[p].stage = "run" /\ pod[p].retry
    /\ pod' = [pod EXCEPT ![p].retry = FALSE, ![p].queued = TRUE]
    /\ UNCHANGED <<lease, expired, k8s, ctrl, posts, failures, invalid, trespass>>

-----------------------------------------------------------------------------
PodNext(p) ==
    \/ \E c \in pod[p].calls : Lookup(p, c) \/ Transition(p, c) \/ Handler(p, c)
    \/ Boot(p) \/ Acquire(p) \/ Observe(p)
    \/ StartWorkers(p) \/ DequeueIngestion(p) \/ DequeueNodes(p)
    \/ LeaderOperate(p) \/ FollowerOperate(p) \/ DequeueRetry(p)

Failure(p) == Conflict(p) \/ LoseLease(p) \/ Shutdown(p) \/ Crash(p)

Next == Edit \/ Expire \/ \E p \in Pods : PodNext(p) \/ Failure(p)

Spec == Init /\ [][Next]_vars

\* Every goroutine of a running replica gets on, a replica that ended is started
\* again, and the clock runs.  Nothing has to fail, and nothing has to be edited.
Fairness ==
    /\ WF_vars(Expire)
    /\ \A p \in Pods :
          /\ WF_vars(Boot(p)) /\ WF_vars(Acquire(p)) /\ WF_vars(Observe(p))
          /\ WF_vars(\E c \in pod[p].calls : Lookup(p, c) \/ Transition(p, c) \/ Handler(p, c))
          /\ WF_vars(StartWorkers(p)) /\ WF_vars(DequeueIngestion(p))
          /\ WF_vars(DequeueNodes(p)) /\ WF_vars(DequeueRetry(p))
          /\ WF_vars(LeaderOperate(p) \/ FollowerOperate(p))

FairSpec == Spec /\ Fairness

-----------------------------------------------------------------------------
(* Properties.                                                             *)

Versions == {0} \cup {Wanted[i] : i \in DOMAIN Wanted}
Events == {"BOOT_UP_AS_LEADER", "BOOT_UP_AS_FOLLOWER", "FOLLOWER_TO_LEADER", "LOST_LEADERSHIP"}
Objects == [sum : Versions, uuid : Nat]

Calls == [kind : {"started", "new", "stopped"}, at : Events \cup {"spawned", "changed"}]
Operations == [role : {"LEADER", "FOLLOWER"}, method : {"none", "POST", "PUT", "DELETE"},
               sum : Versions, uuid : Nat]
Replicas ==
    [stage : {"down", "wait", "run"}, state : {"UNKNOWN", "LEADER", "FOLLOWER"},
     isLeader : BOOLEAN, elector : {"acquiring", "leading", "stopped"},
     reported : Pods \cup {None}, calls : SUBSET Calls, ready : BOOLEAN,
     seen : Nat, model : Versions, missed : BOOLEAN, cache : Objects,
     queued : BOOLEAN, retry : BOOLEAN, op : Operations]

\* Types; beyond them, a replica that is down or waits for its role has no work
\* under way: InitController starts the workers only after readyCh is closed.
TypeOK ==
    /\ lease \in Pods \cup {None} /\ expired \in BOOLEAN
    /\ k8s \in 0 .. Len(Wanted) /\ ctrl \in Objects /\ posts \in Nat
    /\ failures \in 0 .. MaxFailures /\ invalid \in BOOLEAN /\ trespass \in BOOLEAN
    /\ pod \in [Pods -> Replicas]
    /\ \A p \in Pods :
          /\ pod[p].seen <= k8s
          /\ pod[p].op # Idle => pod[p].stage = "run" /\ pod[p].state # "UNKNOWN"

\* OnStoppedLeading has been called and has yet to end the process: the lease may have
\* been released, and taken by another replica, before that (ReleaseOnCancel).
Stopping(p) == \E c \in Undecided(pod[p]) : c.kind = "stopped"

\* A replica that takes itself for the leader (IsLeader) has its name on the lease,
\* unless OnStoppedLeading is about to end it.
LeaseGuardsLeader ==
    \A p \in Pods : pod[p].isLeader => lease = p \/ Stopping(p)

\* The controller is only ever changed by the replica whose name is on the lease, or by
\* a leader that OnStoppedLeading is about to end: neither a follower's operator nor the
\* operator of a leader that was replaced and goes on writes (NewRestOperator,
\* OnLostLeadership).
WritesUnderLease ==
    [][ctrl' # ctrl => \E p \in Pods : /\ pod[p].op # Idle /\ pod'[p].op = Idle
                                       /\ pod[p].isLeader
                                       /\ lease = p \/ Stopping(p)]_vars

\* Every variable has its type, and the lease guards the leader: a replica whose
\* IsLeader() is true, and that therefore writes to the controller, has its own name
\* on the lease or is about to end, so that two replicas lead at once only while
\* OnStoppedLeading is under way in all but one of them.
LeaseSound == TypeOK /\ LeaseGuardsLeader

\* The fields of a replica agree: one that is down remembers nothing, one that is
\* ready has a role, and only one that runs has work under way.
Consistent(r) ==
    /\ r.isLeader <=> r.state = "LEADER"
    /\ r.stage = "down" => r = Down
    /\ r.ready \/ r.stage = "run" \/ (\E c \in r.calls : c.at = "changed") => r.state # "UNKNOWN"
    /\ r.op # Idle => r.stage = "run"

\* What a role and the callbacks under way say of the lease when every callback
\* changes the role before its replica's next round of the election (Prompt).  A leader has
\* the lease until OnStoppedLeading ends it; a replica that stopped has this
\* callback to come, and one that was elected and is no leader yet has
\* OnStartedLeading to come; OnNewLeader is never left to undo a promotion.
Elected(p, r, holder) ==
    /\ r.op.role = "LEADER" => r.isLeader
    /\ r.isLeader => r.elector # "acquiring"
    /\ r.elector = "leading" =>
          /\ holder = p
          /\ r.state = "LEADER" \/ (\E c \in Undecided(r) : c.kind = "started")
    /\ r.elector = "stopped" => \E c \in Undecided(r) : c.kind = "stopped"
    /\ r.elector = "acquiring" /\ (r.calls # {} \/ r.state # "UNKNOWN") => holder # p
    /\ \A c \in Undecided(r) :
          /\ c.kind = "started" =>
                /\ r.elector # "acquiring"
                /\ c.at \in {"spawned", "BOOT_UP_AS_LEADER", "FOLLOWER_TO_LEADER"}
          /\ c.kind = "new" =>
                /\ r.elector # "leading" /\ ~r.isLeader
                /\ c.at \in {"spawned", "BOOT_UP_AS_FOLLOWER"}
          /\ c.kind = "stopped" =>
                /\ r.elector = "stopped" /\ r.state # "UNKNOWN"
                /\ c.at \in {"spawned", "LOST_LEADERSHIP"}
          /\ \A d \in Undecided(r) : c.kind = d.kind \/ "stopped" \in {c.kind, d.kind}

\* The inductive invariant of HighAvailabilityProofs.
HAInv ==
    /\ TypeOK
    /\ \A p \in Pods : Consistent(pod[p])
    /\ Prompt => /\ \A p \in Pods : Elected(p, pod[p], lease)
                 /\ expired => lease # None /\ pod[lease].elector # "leading"

\* Once the failures stop, some replica has the lease and acts as the leader,
\* for good: no order of callbacks leaves the holder a follower.
EventuallyLed ==
    <>[](\E p \in Pods : lease = p /\ pod[p].isLeader /\ pod[p].stage = "run")

\* The leader takes a virtual service that is gone for one that is wanted: it was
\* deleted between FullSyncK8s and SetupEventHandlers, and no event told of that.
Unaware == \E p \in Pods : pod[p].isLeader /\ pod[p].missed

\* Once the failures and the changes stop, the controller has the version that
\* Kubernetes calls for, whoever leads and whatever the new leader had cached as a
\* follower (OnStartedLeadingAfterFailover publishes every key).  This is so after
\* one failure, and for a deletion after none: the caches are not read again at a
\* failover, so what a leader that was behind did last may go unnoticed.  Nor does the new
\* leader notice a write of the old one's after it took over (trespass).
EventuallySynced ==
    <>[](\/ ctrl.sum = Want(k8s)
         \/ failures > 1 \/ trespass
         \/ Want(k8s) = 0 /\ (Unaware \/ failures > 0))

-----------------------------------------------------------------------------
(* What the code takes for granted, and TLC refutes.                       *)

\* A callback never asks for a transition that NewFSM does not have; if it does,
\* the code calls it invalid and ends the process.
NoInvalidTransition == ~invalid
=============================================================================
