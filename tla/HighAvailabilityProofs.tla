---------------------- MODULE HighAvailabilityProofs -----------------------
(***************************************************************************)
(* For any number of replicas, any sequence of versions and any number of  *)
(* failures: the types, and, when every callback changes the role before   *)
(* its replica's next round of the election, the lease as the guard of the *)
(* leader and of what is written to the Avi controller.                    *)
(***************************************************************************)
EXTENDS HighAvailability, TLAPS

\* A version that Kubernetes calls for is one of the Versions.
LEMMA WantType == ASSUME NEW n \in 0 .. Len(Wanted) PROVE Want(n) \in Versions
  BY HAAssumption DEF Want, Versions

\* The constants of the module have their types.
LEMMA ConstTypes ==
    Down \in Replicas /\ Idle \in Operations /\ Absent \in Objects /\ Consistent(Down)
  BY Zenon DEF Down, Replicas, Idle, Operations, Absent, Objects, Versions, Consistent

\* A replica that is down holds no lease as a leader.
LEMMA DownElected == ASSUME NEW p, NEW holder PROVE Elected(p, Down, holder)
  BY Zenon DEF Elected, Down, Undecided, Idle

\* A step that replaces the state of one replica keeps the types.
LEMMA ReplaceType ==
    ASSUME TypeOK, NEW p \in Pods, NEW r \in Replicas, pod' = [pod EXCEPT ![p] = r],
           r.seen <= k8s, Consistent(r), k8s' = k8s,
           lease' \in Pods \cup {None}, expired' \in BOOLEAN, ctrl' \in Objects, posts' \in Nat,
           failures' \in 0 .. MaxFailures, invalid' \in BOOLEAN, trespass' \in BOOLEAN
    PROVE  TypeOK'
  <1>1. pod' \in [Pods -> Replicas]
    BY Zenon DEF TypeOK
  <1>2. r.op # Idle => r.stage = "run" /\ r.state # "UNKNOWN"
    BY Zenon DEF Consistent
  <1>3. \A q \in Pods : /\ pod'[q].seen <= k8s'
                        /\ pod'[q].op # Idle => pod'[q].stage = "run" /\ pod'[q].state # "UNKNOWN"
    BY Zenon, <1>2 DEF TypeOK
  <1> QED BY Zenon, <1>1, <1>3 DEF TypeOK

\* ... and the whole invariant, if the lease stays as it is.
LEMMA Replace ==
    ASSUME HAInv, NEW p \in Pods, NEW r \in Replicas, pod' = [pod EXCEPT ![p] = r],
           r.seen <= k8s, Consistent(r), Prompt => Elected(p, r, lease),
           pod[p].elector = "leading" \/ r.elector # "leading",
           lease' = lease, expired' = expired, k8s' = k8s, ctrl' \in Objects, posts' \in Nat,
           failures' \in 0 .. MaxFailures, invalid' \in BOOLEAN, trespass' \in BOOLEAN
    PROVE  HAInv'
  <1>1. TypeOK'
    BY Zenon, ReplaceType DEF HAInv, TypeOK
  <1>2. \A q \in Pods : pod'[q] = IF q = p THEN r ELSE pod[q]
    BY Zenon DEF HAInv, TypeOK
  <1>3. \A q \in Pods : Consistent(pod'[q])
    BY Zenon, <1>2 DEF HAInv
  <1>4. ASSUME Prompt PROVE \A q \in Pods : Elected(q, pod'[q], lease')
    BY Zenon, <1>2, <1>4 DEF HAInv
  <1>5. ASSUME Prompt, expired' PROVE lease' # None /\ pod'[lease'].elector # "leading"
    BY Zenon, <1>2, <1>5 DEF HAInv, TypeOK
  <1> QED BY Zenon, <1>1, <1>3, <1>4, <1>5 DEF HAInv

\* The process ends: the replica is down.
LEMMA ExitInv ==
    ASSUME HAInv, NEW p \in Pods, Exit(p), UNCHANGED <<lease, expired, k8s, ctrl, posts, trespass>>,
           failures' \in 0 .. MaxFailures, invalid' \in BOOLEAN
    PROVE  HAInv'
  <1>1. /\ Down.seen <= k8s /\ Down.elector # "leading" /\ ctrl' \in Objects /\ posts' \in Nat
        /\ trespass' \in BOOLEAN
    BY HAAssumption DEF Down, HAInv, TypeOK
  <1> QED BY Zenon, <1>1, Replace, ConstTypes, DownElected DEF Exit

\* A callback looks up the event of its transition.
LEMMA LookupInv ==
    ASSUME HAInv, NEW p \in Pods, NEW c \in pod[p].calls, Lookup(p, c)
    PROVE  HAInv'
  <1> DEFINE event == Event(pod[p].state, Goal(c.kind))
             d == [c EXCEPT !.at = event]
             r == [pod[p] EXCEPT !.calls = (@ \ {c}) \cup {d}]
  <1>1. /\ pod[p] \in Replicas /\ c \in Calls /\ ctrl \in Objects /\ posts \in Nat /\ trespass \in BOOLEAN
        /\ failures \in 0 .. MaxFailures /\ invalid' \in BOOLEAN /\ trespass' \in BOOLEAN
    BY Zenon DEF HAInv, TypeOK, Replicas, Lookup
  <1>2. CASE event = "invalid"
    BY Zenon, <1>1, <1>2, ExitInv DEF Lookup
  <1>3. CASE event # "invalid"
    <2>1. c.at = "spawned" /\ pod' = [pod EXCEPT ![p] = r]
      BY Zenon, <1>1, <1>3 DEF Lookup, HAInv, TypeOK
    <2>2. d \in Calls /\ d.kind = c.kind /\ d.at = event /\ event \in Events
      BY Zenon, <1>1, <1>3 DEF Event, Calls, Events
    <2>3. r \in Replicas
      BY Zenon, <1>1, <2>2 DEF Replicas
    <2>4. r.calls = (pod[p].calls \ {c}) \cup {d}
      BY Zenon, <1>1 DEF Replicas
    <2>5. /\ r.stage = pod[p].stage /\ r.state = pod[p].state /\ r.isLeader = pod[p].isLeader
          /\ r.elector = pod[p].elector /\ r.ready = pod[p].ready /\ r.seen = pod[p].seen
          /\ r.op = pod[p].op
      BY Zenon, <1>1 DEF Replicas
    <2>6. pod[p].stage # "down"
      BY DEF HAInv, Consistent, Down
    <2> HIDE DEF r
    <2>7. Consistent(r)
      BY ZenonT(30), <2>2, <2>4, <2>5, <2>6 DEF HAInv, Consistent, Events
    <2>8. ASSUME Prompt PROVE Elected(p, r, lease)
      <3>1. Elected(p, pod[p], lease) /\ Consistent(pod[p])
        BY Zenon, <2>8 DEF HAInv
      <3>2. Undecided(r) = (Undecided(pod[p]) \ {c}) \cup {d} /\ c \in Undecided(pod[p])
        BY Zenon, <2>1, <2>2, <2>4 DEF Undecided, Events
      <3>3. d.at = Event(pod[p].state, Goal(c.kind))
        BY Zenon, <2>2
      <3>4. pod[p].state \in {"UNKNOWN", "LEADER", "FOLLOWER"}
        BY Zenon, <1>1 DEF Replicas
      <3> HIDE DEF d, event
      <3> QED BY <1>3, <2>2, <2>4, <2>5, <3>1, <3>2, <3>3, <3>4 DEF Elected, Event, Goal, Consistent, event
    <2> QED BY Zenon, <1>1, <2>1, <2>3, <2>5, <2>7, <2>8, Replace DEF Lookup, HAInv, TypeOK
  <1> QED BY Zenon, <1>2, <1>3

\* A callback makes its transition: the role changes, or the process ends.
LEMMA TransitionInv ==
    ASSUME HAInv, NEW p \in Pods, NEW c \in pod[p].calls, Transition(p, c)
    PROVE  HAInv'
  <1>1. /\ pod[p] \in Replicas /\ c \in Calls /\ ctrl \in Objects /\ posts \in Nat /\ trespass \in BOOLEAN
        /\ failures \in 0 .. MaxFailures /\ invalid \in BOOLEAN /\ trespass \in BOOLEAN
        /\ UNCHANGED <<lease, expired, k8s, ctrl, posts, failures, invalid, trespass>>
    BY Zenon DEF HAInv, TypeOK, Replicas, Transition
  <1>2. CASE Exit(p)
    BY Zenon, <1>1, <1>2, ExitInv
  <1>3. ASSUME NEW role \in {"LEADER", "FOLLOWER"}, Changed(p, c, role), c.at # "changed",
               role = "LEADER" => c.at \in {"BOOT_UP_AS_LEADER", "FOLLOWER_TO_LEADER"},
               role = "FOLLOWER" => c.at = "BOOT_UP_AS_FOLLOWER"
        PROVE  HAInv'
    <2> DEFINE d == [c EXCEPT !.at = "changed"]
               b == (role = "LEADER")
               r == [pod[p] EXCEPT !.state = role, !.isLeader = b, !.calls = (@ \ {c}) \cup {d}]
    <2>1. pod' = [pod EXCEPT ![p] = r]
      BY Zenon, <1>1, <1>3 DEF Changed, HAInv, TypeOK
    <2>2. d \in Calls /\ d.kind = c.kind /\ d.at = "changed"
      BY Zenon, <1>1 DEF Calls
    <2>3. b \in BOOLEAN
      OBVIOUS
    <2>4. r.calls = (pod[p].calls \ {c}) \cup {d} /\ r.state = role /\ (r.isLeader <=> role = "LEADER")
      BY Zenon, <1>1 DEF Replicas
    <2>5. /\ r.stage = pod[p].stage /\ r.elector = pod[p].elector /\ r.ready = pod[p].ready
          /\ r.seen = pod[p].seen /\ r.op = pod[p].op
      BY Zenon, <1>1 DEF Replicas
    <2>6. pod[p].stage # "down"
      BY DEF HAInv, Consistent, Down
    <2> HIDE DEF b
    <2>7. r \in Replicas
      BY Zenon, <1>1, <2>2, <2>3 DEF Replicas
    <2> HIDE DEF r
    <2>8. Consistent(r)
      BY Zenon, <2>4, <2>5, <2>6 DEF HAInv, Consistent
    <2>9. ASSUME Prompt PROVE Elected(p, r, lease)
      <3>1. Elected(p, pod[p], lease) /\ Consistent(pod[p])
        BY Zenon, <2>9 DEF HAInv
      <3>2. Undecided(r) = Undecided(pod[p]) \ {c} /\ c \in Undecided(pod[p])
        BY Zenon, <1>3, <2>2, <2>4 DEF Undecided
      <3>3. c.kind \in {"started", "new", "stopped"}
        BY Zenon, <1>1 DEF Calls
      <3> HIDE DEF d
      <3> QED BY <1>3, <2>4, <2>5, <3>1, <3>2, <3>3 DEF Elected, Consistent
    <2> QED BY Zenon, <1>1, <2>1, <2>5, <2>7, <2>8, <2>9, Replace DEF HAInv, TypeOK
  <1> QED BY Zenon, <1>2, <1>3 DEF Transition, TransitionToLeader, TransitionToFollower

\* A callback runs its handler and is done.
LEMMA HandlerInv ==
    ASSUME HAInv, NEW p \in Pods, NEW c \in pod[p].calls, Handler(p, c)
    PROVE  HAInv'
  <1> DEFINE q == pod[p].queued \/ HasKey(p)
             y == pod[p].ready \/ c.kind # "stopped"
             r == [pod[p] EXCEPT !.calls = @ \ {c}, !.queued = q, !.ready = y]
  <1>1. /\ pod[p] \in Replicas /\ c \in Calls /\ ctrl \in Objects /\ posts \in Nat /\ trespass \in BOOLEAN
        /\ failures \in 0 .. MaxFailures /\ invalid \in BOOLEAN /\ trespass \in BOOLEAN
        /\ UNCHANGED <<lease, expired, k8s, ctrl, posts, failures, invalid, trespass>> /\ c.at = "changed"
    BY Zenon DEF HAInv, TypeOK, Replicas, Handler
  <1>2. pod' = [pod EXCEPT ![p] = r]
    BY Zenon, <1>1 DEF Handler, HAInv, TypeOK
  <1>3. q \in BOOLEAN /\ y \in BOOLEAN
    OBVIOUS
  <1>4. pod[p].stage # "down"
    BY DEF HAInv, Consistent, Down
  <1> HIDE DEF q, y
  <1>5. /\ r.calls = pod[p].calls \ {c} /\ r.stage = pod[p].stage /\ r.elector = pod[p].elector
        /\ r.state = pod[p].state /\ r.isLeader = pod[p].isLeader /\ r.seen = pod[p].seen
        /\ r.op = pod[p].op
    BY Zenon, <1>1 DEF Replicas
  <1>6. r \in Replicas
    BY Zenon, <1>1, <1>3 DEF Replicas
  <1> HIDE DEF r
  <1>7. Consistent(r)
    BY Zenon, <1>1, <1>4, <1>5 DEF HAInv, Consistent
  <1>8. ASSUME Prompt PROVE Elected(p, r, lease)
    <2>1. Elected(p, pod[p], lease)
      BY Zenon, <1>8 DEF HAInv
    <2>2. Undecided(r) = Undecided(pod[p])
      BY Zenon, <1>1, <1>5 DEF Undecided
    <2> QED BY <1>1, <1>5, <2>1, <2>2 DEF Elected
  <1> QED BY Zenon, <1>1, <1>2, <1>5, <1>6, <1>7, <1>8, Replace DEF HAInv, TypeOK

\* A replica starts.
LEMMA BootInv == ASSUME HAInv, NEW p \in Pods, Boot(p) PROVE HAInv'
  <1> DEFINE r == [Down EXCEPT !.stage = "wait", !.seen = k8s, !.model = Want(k8s), !.cache = ctrl]
  <1>1. /\ k8s \in Nat /\ Want(k8s) \in Versions /\ ctrl \in Objects /\ posts \in Nat /\ trespass \in BOOLEAN
        /\ failures \in 0 .. MaxFailures /\ invalid \in BOOLEAN /\ trespass \in BOOLEAN
        /\ UNCHANGED <<lease, expired, k8s, ctrl, posts, failures, invalid, trespass>>
        /\ pod' = [pod EXCEPT ![p] = r]
    BY WantType, HAAssumption DEF HAInv, TypeOK, Boot
  <1>2. r \in Replicas
    BY Zenon, <1>1, ConstTypes DEF Replicas
  <1>3. /\ r.stage = "wait" /\ r.state = "UNKNOWN" /\ ~r.isLeader /\ r.elector = "acquiring"
        /\ r.calls = {} /\ ~r.ready /\ r.seen = k8s /\ r.op = Idle
    BY Zenon DEF Down
  <1> HIDE DEF r
  <1>4. Consistent(r) /\ Elected(p, r, lease)
    BY <1>3 DEF Consistent, Elected, Undecided, Idle
  <1>5. r.seen <= k8s /\ r.elector # "leading"
    BY <1>1, <1>3
  <1> QED BY Zenon, <1>1, <1>2, <1>4, <1>5, Replace
\* A replica that takes part in a round of the election does not lead.
LEMMA DoesNotLead ==
    ASSUME HAInv, Prompt, NEW p \in Pods, pod[p].elector = "acquiring", Settled(p)
    PROVE  ~pod[p].isLeader /\ Undecided(pod[p]) = {} /\ pod[p].op.role # "LEADER"
  <1>1. Undecided(pod[p]) = {} /\ Elected(p, pod[p], lease)
    BY Zenon DEF Settled, HAInv
  <1> QED BY Zenon, <1>1 DEF Elected

\* A replica other than the one that gets the lease in a round does not renew it, and
\* what its role says of the lease stays true: it may be a leader that is to be stopped.
LEMMA OthersElected ==
    ASSUME HAInv, Prompt, NEW p \in Pods, NEW q \in Pods, q # p, lease # q \/ expired
    PROVE  Elected(q, pod[q], p)
  <1>1. Elected(q, pod[q], lease)
    BY Zenon DEF HAInv
  <1>2. pod[q].elector # "leading"
    BY Zenon, <1>1 DEF Elected, HAInv
  <1> QED BY ZenonT(40), <1>1, <1>2 DEF Elected

\* r is the replica p with a new callback.
Told(p, r, elector, kind) ==
    /\ r \in Replicas /\ r.elector = elector /\ r.calls = pod[p].calls \cup {Spawned(kind)}
    /\ r.stage = pod[p].stage /\ r.ready = pod[p].ready /\ r.seen = pod[p].seen
    /\ r.state = pod[p].state /\ r.isLeader = pod[p].isLeader /\ r.op = pod[p].op

\* A replica that is elected, stopped or told of a leader has a callback to come.
LEMMA ToldInv ==
    ASSUME HAInv, NEW p \in Pods, pod[p].stage # "down", NEW elector, NEW kind,
           NEW r, Told(p, r, elector, kind)
    PROVE  /\ Consistent(r) /\ r.seen <= k8s
           /\ Undecided(r) = Undecided(pod[p]) \cup {Spawned(kind)}
           /\ Spawned(kind).kind = kind /\ Spawned(kind).at = "spawned"
  <1>1. Consistent(pod[p]) /\ pod[p].seen <= k8s
    BY Zenon DEF HAInv, TypeOK
  <1>2. Spawned(kind).at = "spawned" /\ Spawned(kind).kind = kind
    BY Zenon DEF Spawned
  <1>3. Consistent(r)
    BY Zenon, <1>1, <1>2 DEF Consistent, Told
  <1>4. Undecided(r) = Undecided(pod[p]) \cup {Spawned(kind)}
    BY Zenon, <1>2 DEF Undecided, Told
  <1> QED BY Zenon, <1>1, <1>2, <1>3, <1>4 DEF Told

\* A replica that has just got the lease is one that OnStartedLeading will promote.
LEMMA ElectedNow ==
    ASSUME HAInv, Prompt, NEW p \in Pods, Settled(p), pod[p].stage # "down",
           pod[p].elector = "acquiring", NEW r, Told(p, r, "leading", "started")
    PROVE  Elected(p, r, p)
  <1>1. /\ Undecided(r) = Undecided(pod[p]) \cup {Spawned("started")}
        /\ Spawned("started").kind = "started" /\ Spawned("started").at = "spawned"
    BY ToldInv
  <1>2. Undecided(pod[p]) = {} /\ Elected(p, pod[p], lease)
    BY Zenon DEF Settled, HAInv
  <1> QED BY Zenon, <1>1, <1>2 DEF Elected, Told

\* A replica that is told of another one's lease follows.
LEMMA FollowsNow ==
    ASSUME HAInv, Prompt, NEW p \in Pods, Settled(p), pod[p].stage # "down",
           pod[p].elector = "acquiring", NEW holder \in Pods \cup {None}, holder # p,
           NEW r, Told(p, r, "acquiring", "new")
    PROVE  Elected(p, r, holder)
  <1>1. /\ Undecided(r) = Undecided(pod[p]) \cup {Spawned("new")}
        /\ Spawned("new").kind = "new" /\ Spawned("new").at = "spawned"
    BY ToldInv
  <1>2. /\ ~pod[p].isLeader /\ Undecided(pod[p]) = {} /\ pod[p].op.role # "LEADER"
    BY Zenon, DoesNotLead
  <1> QED BY Zenon, <1>1, <1>2 DEF Elected, Told

\* A round that gives the lease to a replica.
LEMMA AcquireInv == ASSUME HAInv, NEW p \in Pods, Acquire(p) PROVE HAInv'
  <1> DEFINE r == [pod[p] EXCEPT !.elector = "leading", !.reported = p,
                                 !.calls = @ \cup {Spawned("started")}]
  <1>1. /\ pod[p].stage # "down" /\ pod[p].elector = "acquiring" /\ Settled(p)
        /\ lease \in {p, None} \/ expired
        /\ lease' = p /\ expired' = FALSE /\ UNCHANGED <<k8s, ctrl, posts, failures, invalid, trespass>>
    BY Zenon DEF Acquire
  <1>2. pod' = [pod EXCEPT ![p] = r]
    BY Zenon DEF Acquire, HAInv, TypeOK
  <1>3. Told(p, r, "leading", "started")
    <2>1. pod[p] \in Replicas /\ Spawned("started") \in Calls
      BY Zenon DEF HAInv, TypeOK, Spawned, Calls
    <2> QED BY Zenon, <2>1 DEF Told, Replicas
  <1> HIDE DEF r
  <1>4. ASSUME Prompt PROVE Elected(p, r, p)
    BY Zenon, <1>1, <1>3, <1>4, ElectedNow
  <1>5. r \in Replicas /\ Consistent(r) /\ r.seen <= k8s /\ (r.op # Idle => r.stage = "run" /\ r.state # "UNKNOWN")
    <2>1. Consistent(r) /\ r.seen <= k8s
      BY Zenon, <1>1, <1>3, ToldInv
    <2>2. pod[p].op # Idle => pod[p].stage = "run" /\ pod[p].state # "UNKNOWN"
      BY Zenon DEF HAInv, TypeOK
    <2> QED BY Zenon, <1>3, <2>1, <2>2 DEF Told
  <1>6. \A q \in Pods : pod'[q] = IF q = p THEN r ELSE pod[q]
    BY Zenon, <1>2 DEF HAInv, TypeOK
  <1>7. TypeOK'
    BY Zenon, <1>1, <1>2, <1>5, ReplaceType DEF HAInv, TypeOK
  <1>8. \A q \in Pods : Consistent(pod'[q])
    BY Zenon, <1>5, <1>6 DEF HAInv
  <1>9. ASSUME Prompt, NEW q \in Pods, q # p PROVE Elected(q, pod[q], p)
    <2>1. lease # q \/ expired
      BY Zenon, <1>1, <1>9, HAAssumption
    <2> QED BY Zenon, <1>9, <2>1, OthersElected
  <1> QED BY Zenon, <1>1, <1>4, <1>6, <1>7, <1>8, <1>9 DEF HAInv

\* A round that tells a replica of a leader.
LEMMA ObserveInv == ASSUME HAInv, NEW p \in Pods, Observe(p) PROVE HAInv'
  <1> DEFINE r == [pod[p] EXCEPT !.reported = lease, !.calls = @ \cup {Spawned("new")}]
  <1>1. /\ pod[p].stage # "down" /\ pod[p].elector = "acquiring" /\ Settled(p)
        /\ lease \notin {p, None}
        /\ UNCHANGED <<lease, expired, k8s, ctrl, posts, failures, invalid, trespass>>
    BY Zenon DEF Observe
  <1>2. pod' = [pod EXCEPT ![p] = r]
    BY Zenon DEF Observe, HAInv, TypeOK
  <1>3. Told(p, r, "acquiring", "new")
    <2>1. pod[p] \in Replicas /\ Spawned("new") \in Calls /\ lease \in Pods \cup {None}
      BY Zenon DEF HAInv, TypeOK, Spawned, Calls
    <2> QED BY Zenon, <1>1, <2>1 DEF Told, Replicas
  <1> HIDE DEF r
  <1>4. Consistent(r) /\ r.seen <= k8s /\ r \in Replicas /\ r.elector # "leading"
    BY <1>1, <1>3, ToldInv DEF Told
  <1>5. Prompt => Elected(p, r, lease)
    BY Zenon, <1>1, <1>3, FollowsNow DEF HAInv, TypeOK
  <1>6. /\ ctrl' \in Objects /\ posts' \in Nat /\ failures' \in 0 .. MaxFailures
        /\ invalid' \in BOOLEAN /\ trespass' \in BOOLEAN
    BY Zenon, <1>1 DEF HAInv, TypeOK
  <1> QED BY Zenon, <1>1, <1>2, <1>4, <1>5, <1>6, Replace
\* Two replicas take part: one gets the lease, the other one is told of nobody.
LEMMA ConflictInv == ASSUME HAInv, NEW p \in Pods, Conflict(p) PROVE HAInv'
  <1>1. PICK q \in Pods \ {p} :
           /\ pod[q].stage # "down" /\ pod[q].elector = "acquiring" /\ Settled(q) /\ lease' = q
           /\ pod' = [pod EXCEPT ![q].elector = "leading", ![q].reported = q,
                                 ![q].calls = @ \cup {Spawned("started")},
                                 ![p].reported = None,
                                 ![p].calls = @ \cup {Spawned("new")}]
    BY Zenon DEF Conflict
  <1> DEFINE s == [pod[q] EXCEPT !.elector = "leading", !.reported = q,
                                 !.calls = @ \cup {Spawned("started")}]
             r == [pod[p] EXCEPT !.reported = None, !.calls = @ \cup {Spawned("new")}]
  <1>2. /\ pod[p].stage # "down" /\ pod[p].elector = "acquiring" /\ Settled(p) /\ lease = None
        /\ UNCHANGED <<expired, k8s, ctrl, posts, failures, invalid, trespass>>
    BY Zenon DEF Conflict
  <1>3. pod' = [pod EXCEPT ![q] = s, ![p] = r]
    BY Zenon, <1>1 DEF HAInv, TypeOK
  <1>4. Told(q, s, "leading", "started")
    <2>1. pod[q] \in Replicas /\ Spawned("started") \in Calls
      BY Zenon DEF HAInv, TypeOK, Spawned, Calls
    <2> QED BY Zenon, <2>1 DEF Told, Replicas
  <1>5. Told(p, r, "acquiring", "new")
    <2>1. pod[p] \in Replicas /\ Spawned("new") \in Calls
      BY Zenon DEF HAInv, TypeOK, Spawned, Calls
    <2> QED BY Zenon, <1>2, <2>1 DEF Told, Replicas
  <1> HIDE DEF r, s
  <1>6. Consistent(s) /\ s.seen <= k8s /\ s \in Replicas
    BY ZenonT(30), <1>1, <1>4, ToldInv DEF Told
  <1>7. Consistent(r) /\ r.seen <= k8s /\ r \in Replicas
    BY <1>2, <1>5, ToldInv DEF Told
  <1>8. /\ \A u \in Pods : pod'[u] = IF u = p THEN r ELSE IF u = q THEN s ELSE pod[u]
        /\ pod' \in [Pods -> Replicas]
    BY Zenon, <1>3, <1>6, <1>7 DEF HAInv, TypeOK
  <1>9. \A u \in Pods : Consistent(pod'[u]) /\ pod'[u].seen <= k8s'
    BY Zenon, <1>2, <1>6, <1>7, <1>8 DEF HAInv, TypeOK
  <1>10. TypeOK'
    BY Zenon, <1>1, <1>2, <1>8, <1>9 DEF HAInv, TypeOK, Consistent
  <1>11. ASSUME Prompt PROVE \A u \in Pods : Elected(u, pod'[u], lease')
    <2>1. Elected(q, s, q)
      BY Zenon, <1>1, <1>2, <1>4, <1>11, ElectedNow
    <2>2. Elected(p, r, q)
      BY Zenon, <1>1, <1>2, <1>5, <1>11, FollowsNow, HAAssumption
    <2>3. ASSUME NEW u \in Pods \ {p, q} PROVE Elected(u, pod[u], q)
      <3>1. lease # u
        BY Zenon, <1>2, HAAssumption
      <3> QED BY Zenon, <1>1, <1>11, <3>1, OthersElected
    <2> QED BY Zenon, <1>1, <1>8, <2>1, <2>2, <2>3
  <1>12. Prompt => ~expired'
    BY Zenon, <1>2 DEF HAInv
  <1> QED BY Zenon, <1>9, <1>10, <1>11, <1>12 DEF HAInv

\* The lease expires.
LEMMA ExpireInv == ASSUME HAInv, Expire PROVE HAInv'
  <1>1. TypeOK'
    BY Zenon DEF HAInv, TypeOK, Expire
  <1> QED BY Zenon, <1>1 DEF HAInv, Expire

\* The election of a replica that has a role ends, with the lease or without it.
LEMMA StoppedInv ==
    ASSUME HAInv, NEW p \in Pods, Stopped(p), failures < MaxFailures,
           pod[p].stage # "down",
           lease' \in Pods \cup {None}, lease' \in {lease, None}, Prompt => lease' = lease \/ lease = p,
           Prompt => /\ pod[p].elector = "leading" \/ (pod[p].elector # "stopped" /\ pod[p].stage = "run")
                     /\ pod[p].state # "UNKNOWN"
    PROVE  HAInv'
  <1> DEFINE r == [pod[p] EXCEPT !.elector = "stopped", !.calls = @ \cup {Spawned("stopped")}]
  <1>1. failures' = failures + 1 /\ UNCHANGED <<expired, k8s, ctrl, posts, invalid, trespass>>
    BY Zenon DEF Stopped
  <1>2. pod' = [pod EXCEPT ![p] = r]
    BY Zenon DEF Stopped, HAInv, TypeOK
  <1>3. Told(p, r, "stopped", "stopped")
    <2>1. pod[p] \in Replicas /\ Spawned("stopped") \in Calls
      BY Zenon DEF HAInv, TypeOK, Spawned, Calls
    <2> QED BY Zenon, <2>1 DEF Told, Replicas
  <1> HIDE DEF r
  <1>4. /\ Consistent(r) /\ r.seen <= k8s /\ r \in Replicas
        /\ Undecided(r) = Undecided(pod[p]) \cup {Spawned("stopped")}
        /\ Spawned("stopped").kind = "stopped" /\ Spawned("stopped").at = "spawned"
    BY <1>3, ToldInv DEF Told
  <1>5. failures' \in 0 .. MaxFailures
    BY <1>1, HAAssumption DEF HAInv, TypeOK
  <1>6. TypeOK'
    BY Zenon, <1>1, <1>2, <1>4, <1>5, ReplaceType DEF HAInv, TypeOK
  <1>7. \A q \in Pods : pod'[q] = IF q = p THEN r ELSE pod[q]
    BY Zenon, <1>2 DEF HAInv, TypeOK
  <1>8. \A q \in Pods : Consistent(pod'[q])
    BY Zenon, <1>4, <1>7 DEF HAInv
  <1>9. ASSUME Prompt PROVE Elected(p, r, lease')
    BY <1>3, <1>4, <1>9 DEF Told, Elected, HAInv
  <1>10. ASSUME Prompt, NEW q \in Pods, q # p PROVE Elected(q, pod[q], lease')
    BY <1>10, HAAssumption DEF Elected, HAInv
  <1>11. ASSUME Prompt, expired' PROVE lease' # None /\ pod'[lease'].elector # "leading"
    <2>1. expired /\ lease # None /\ pod[lease].elector # "leading" /\ Elected(p, pod[p], lease)
      BY Zenon, <1>1, <1>11 DEF HAInv
    <2>2. pod[p].elector \in {"acquiring", "leading", "stopped"}
      BY Zenon DEF HAInv, TypeOK, Replicas
    <2>3. lease' = lease
      BY Zenon, <1>11, <2>1, <2>2 DEF Elected
    <2> QED BY Zenon, <1>3, <1>7, <2>1, <2>3 DEF Told, HAInv, TypeOK
  <1> QED BY Zenon, <1>6, <1>7, <1>8, <1>9, <1>10, <1>11 DEF HAInv
\* The election ends because the lease could not be renewed, or with the process.
LEMMA EndInv ==
    ASSUME HAInv, NEW p \in Pods, LoseLease(p) \/ Shutdown(p)
    PROVE  HAInv'
  <1>1. Consistent(pod[p]) /\ lease \in Pods \cup {None} /\ (Prompt => Elected(p, pod[p], lease))
    BY Zenon DEF HAInv, TypeOK
  <1>2. CASE LoseLease(p)
    <2>1. /\ pod[p].elector = "leading" /\ Settled(p) /\ failures < MaxFailures /\ Stopped(p)
          /\ lease' \in {lease, None}
      BY Zenon, <1>2 DEF LoseLease
    <2>2. pod[p].stage # "down"
      BY <1>1, <2>1 DEF Consistent, Down
    <2>3. ASSUME Prompt PROVE pod[p].state # "UNKNOWN" /\ lease = p
      BY Zenon, <1>1, <2>1, <2>3 DEF Settled, Elected
    <2> QED BY Zenon, <1>1, <2>1, <2>2, <2>3, StoppedInv
  <1>3. CASE Shutdown(p)
    <2>1. /\ pod[p].stage = "run" /\ pod[p].elector # "stopped" /\ failures < MaxFailures /\ Stopped(p)
          /\ lease' = IF lease = p THEN None ELSE lease
      BY Zenon, <1>3 DEF Shutdown
    <2>2. pod[p].state # "UNKNOWN"
      BY Zenon, <1>1, <2>1 DEF Consistent
    <2> QED BY Zenon, <1>1, <2>1, <2>2, StoppedInv
  <1> QED BY Zenon, <1>2, <1>3

\* The process crashes.
LEMMA CrashInv == ASSUME HAInv, NEW p \in Pods, Crash(p) PROVE HAInv'
  <1>1. failures' \in 0 .. MaxFailures /\ invalid' \in BOOLEAN
    BY HAAssumption DEF Crash, HAInv, TypeOK
  <1> QED BY Zenon, <1>1, ExitInv DEF Crash

\* Kubernetes changes.
LEMMA EditInv == ASSUME HAInv, Edit PROVE HAInv'
  <1>1. k8s' \in 0 .. Len(Wanted) /\ k8s <= k8s' /\ k8s \in Nat
    BY HAAssumption DEF Edit, HAInv, TypeOK
  <1>2. ASSUME NEW p \in Pods PROVE pod[p].seen <= k8s'
    <2>1. pod[p].seen \in Nat /\ pod[p].seen <= k8s /\ k8s' \in Nat
      BY <1>1, HAAssumption DEF HAInv, TypeOK, Replicas
    <2> QED BY <1>1, <2>1
  <1>3. TypeOK'
    BY Zenon, <1>1, <1>2 DEF Edit, HAInv, TypeOK
  <1> QED BY Zenon, <1>3 DEF Edit, HAInv

\* A step of the work of a replica that has its role: the queues run or start to,
\* and an operation is the leader's only if the replica is the leader.
Works(p, r) ==
    /\ r \in Replicas /\ r.stage = "run"
    /\ pod[p].stage = "run" \/ pod[p].ready
    /\ r.state = pod[p].state /\ r.isLeader = pod[p].isLeader /\ r.elector = pod[p].elector
    /\ r.calls = pod[p].calls /\ r.ready = pod[p].ready
    /\ r.op.role = "LEADER" => pod[p].isLeader \/ pod[p].op.role = "LEADER"

\* A step of the work does not disturb the election.
LEMMA WorksInv ==
    ASSUME HAInv, NEW p \in Pods, NEW r, Works(p, r), pod' = [pod EXCEPT ![p] = r],
           r.seen <= k8s, UNCHANGED <<lease, expired, k8s, failures, invalid>>,
           ctrl' \in Objects, posts' \in Nat, trespass' \in BOOLEAN
    PROVE  HAInv'
  <1>1. Consistent(r)
    BY Zenon DEF Consistent, Works, HAInv
  <1>2. Prompt => Elected(p, r, lease)
    <2>1. Undecided(r) = Undecided(pod[p])
      BY Zenon DEF Undecided, Works
    <2> QED BY <2>1 DEF Elected, Works, HAInv
  <1>3. r \in Replicas /\ (pod[p].elector = "leading" \/ r.elector # "leading")
    BY Zenon DEF Works
  <1>4. failures' \in 0 .. MaxFailures /\ invalid' \in BOOLEAN
    BY Zenon DEF HAInv, TypeOK
  <1> QED BY Zenon, <1>1, <1>2, <1>3, <1>4, Replace

\* The workers start.
LEMMA StartWorkersInv == ASSUME HAInv, NEW p \in Pods, StartWorkers(p) PROVE HAInv'
  <1> DEFINE news == (pod[p].queued \/ (Want(k8s) # pod[p].model /\ Want(k8s) # 0))
             missed == (pod[p].seen # k8s /\ Want(k8s) = 0)
             model == IF Want(k8s) = 0 THEN pod[p].model ELSE Want(k8s)
             r == [pod[p] EXCEPT !.stage = "run", !.seen = k8s, !.model = model,
                                 !.queued = news, !.missed = missed]
  <1>1. /\ pod[p] \in Replicas /\ k8s \in Nat /\ Want(k8s) \in Versions
        /\ ctrl \in Objects /\ posts \in Nat /\ trespass \in BOOLEAN
    BY WantType, HAAssumption DEF HAInv, TypeOK
  <1>2. pod' = [pod EXCEPT ![p] = r] /\ pod[p].ready
    BY Zenon DEF StartWorkers, HAInv, TypeOK
  <1>3. news \in BOOLEAN /\ missed \in BOOLEAN
    <2>1. pod[p].queued \in BOOLEAN
      BY Zenon, <1>1 DEF Replicas
    <2> QED BY Zenon, <2>1
  <1>4. model \in Versions
    BY Zenon, <1>1 DEF Replicas
  <1> HIDE DEF news, missed, model
  <1>5. Works(p, r) /\ r.seen = k8s
    BY Zenon, <1>1, <1>2, <1>3, <1>4 DEF Works, Replicas
  <1>6. UNCHANGED <<lease, expired, k8s, ctrl, posts, failures, invalid, trespass>>
    BY Zenon DEF StartWorkers
  <1> HIDE DEF r
  <1>7. r.seen <= k8s
    BY <1>1, <1>5
  <1> QED BY Zenon, <1>1, <1>2, <1>5, <1>6, <1>7, WorksInv

\* An event of Kubernetes is worked off.
LEMMA DequeueIngestionInv == ASSUME HAInv, NEW p \in Pods, DequeueIngestion(p) PROVE HAInv'
  <1> DEFINE n == pod[p].seen + 1
             sum == Want(n)
             news == (pod[p].queued \/ sum # pod[p].model)
             r == [pod[p] EXCEPT !.seen = n, !.model = sum, !.missed = FALSE, !.queued = news]
  <1>1. /\ pod[p] \in Replicas /\ k8s \in Nat /\ pod[p].seen \in Nat /\ pod[p].seen < k8s
        /\ k8s \in 0 .. Len(Wanted)
        /\ ctrl \in Objects /\ posts \in Nat /\ trespass \in BOOLEAN /\ pod[p].stage = "run"
    BY HAAssumption DEF DequeueIngestion, HAInv, TypeOK, Replicas
  <1>2. pod' = [pod EXCEPT ![p] = r]
    BY Zenon DEF DequeueIngestion, HAInv, TypeOK
  <1>3. news \in BOOLEAN
    <2>1. pod[p].queued \in BOOLEAN
      BY Zenon, <1>1 DEF Replicas
    <2> QED BY Zenon, <2>1
  <1>4. sum \in Versions
    <2>1. n \in 0 .. Len(Wanted)
      BY <1>1, HAAssumption
    <2> QED BY Zenon, <2>1, WantType
  <1>n. n \in Nat /\ n <= k8s
    BY <1>1
  <1> HIDE DEF n, news, sum
  <1>5. Works(p, r) /\ r.seen = n
    BY Zenon, <1>1, <1>3, <1>4, <1>n DEF Works, Replicas
  <1>6. UNCHANGED <<lease, expired, k8s, ctrl, posts, failures, invalid, trespass>>
    BY Zenon DEF DequeueIngestion
  <1> HIDE DEF r
  <1>7. r.seen <= k8s
    BY Zenon, <1>5, <1>n
  <1> QED BY Zenon, <1>1, <1>2, <1>5, <1>6, <1>7, WorksInv
\* An operation of the REST layer has the role of the replica.
LEMMA DequeueNodesInv == ASSUME HAInv, NEW p \in Pods, DequeueNodes(p) PROVE HAInv'
  <1> DEFINE op == IF Operation(p).method = "none" THEN Idle ELSE Operation(p)
             r == [pod[p] EXCEPT !.queued = FALSE, !.op = op]
  <1>1. /\ pod[p] \in Replicas /\ pod[p].stage = "run" /\ pod[p].seen <= k8s
        /\ ctrl \in Objects /\ posts \in Nat /\ trespass \in BOOLEAN
    BY Zenon DEF DequeueNodes, HAInv, TypeOK
  <1>2. pod' = [pod EXCEPT ![p] = r]
    BY Zenon DEF DequeueNodes, HAInv, TypeOK
  <1>3. op \in Operations /\ (op.role = "LEADER" => pod[p].isLeader)
    <2>1. Method(pod[p].model, pod[p].cache.sum) \in {"none", "POST", "PUT", "DELETE"}
      BY Zenon DEF Method
    <2>2. pod[p].model \in Versions /\ pod[p].cache.uuid \in Nat
      BY Zenon, <1>1 DEF Replicas, Objects
    <2>3. /\ Operation(p) \in Operations
          /\ Operation(p).role = "LEADER" => pod[p].isLeader
      BY Zenon, <2>1, <2>2 DEF Operation, Operations
    <2>4. Idle.role # "LEADER"
      BY Zenon DEF Idle
    <2> QED BY Zenon, <2>3, <2>4, ConstTypes
  <1> HIDE DEF op
  <1>4. Works(p, r) /\ r.seen = pod[p].seen
    BY Zenon, <1>1, <1>3 DEF Works, Replicas
  <1>5. UNCHANGED <<lease, expired, k8s, ctrl, posts, failures, invalid, trespass>>
    BY Zenon DEF DequeueNodes
  <1> HIDE DEF r
  <1> QED BY Zenon, <1>1, <1>2, <1>4, <1>5, WorksInv

\* An operation ends: the cache is brought up to date, and a failure is retried.
LEMMA FinishInv ==
    ASSUME HAInv, NEW p \in Pods, NEW cache \in Objects, NEW retry \in BOOLEAN,
           Finish(p, cache, retry), pod[p].op # Idle,
           UNCHANGED <<lease, expired, k8s, failures, invalid>>,
           ctrl' \in Objects, posts' \in Nat, trespass' \in BOOLEAN
    PROVE  HAInv'
  <1> DEFINE again == (pod[p].retry \/ retry)
             r == [pod[p] EXCEPT !.op = Idle, !.cache = cache, !.retry = again]
  <1>1. pod[p] \in Replicas /\ pod[p].stage = "run" /\ pod[p].seen <= k8s
    BY Zenon DEF HAInv, TypeOK
  <1>2. pod' = [pod EXCEPT ![p] = r]
    BY Zenon DEF Finish, HAInv, TypeOK
  <1>3. again \in BOOLEAN
    <2>1. pod[p].retry \in BOOLEAN
      BY Zenon, <1>1 DEF Replicas
    <2> QED BY Zenon, <2>1
  <1>4. Idle.role # "LEADER"
    BY Zenon DEF Idle
  <1> HIDE DEF again
  <1>5. Works(p, r) /\ r.seen = pod[p].seen
    BY Zenon, <1>1, <1>3, <1>4, ConstTypes DEF Works, Replicas
  <1> HIDE DEF r
  <1> QED BY Zenon, <1>1, <1>2, <1>5, WorksInv

\* The operator of a leader.
LEMMA LeaderOperateInv == ASSUME HAInv, NEW p \in Pods, LeaderOperate(p) PROVE HAInv'
  <1> DEFINE op == pod[p].op
             created == [sum |-> op.sum, uuid |-> posts + 1]
             set == [ctrl EXCEPT !.sum = op.sum]
  <1>1. op \in Operations /\ ctrl \in Objects /\ posts \in Nat /\ posts + 1 \in Nat
    BY DEF HAInv, TypeOK, Replicas
  <1>2. op # Idle /\ UNCHANGED <<lease, expired, k8s, failures, invalid>> /\ trespass' \in BOOLEAN
    BY DEF LeaderOperate, Idle, HAInv, TypeOK
  <1>3. created \in Objects /\ set \in Objects
    BY Zenon, <1>1 DEF Operations, Objects
  <1>4. CASE op.method = "POST" /\ ctrl.sum = 0
    BY Zenon, <1>1, <1>2, <1>3, <1>4, FinishInv DEF LeaderOperate
  <1>5. CASE op.method = "POST" /\ ctrl.sum # 0
    BY Zenon, <1>1, <1>2, <1>5, FinishInv DEF LeaderOperate
  <1>6. CASE op.method # "POST" /\ ~There(op)
    <2>1. /\ UNCHANGED <<ctrl, posts>> /\ Finish(p, Absent, op.method = "PUT")
      BY Zenon, <1>6 DEF LeaderOperate
    <2>2. (op.method = "PUT") \in BOOLEAN
      OBVIOUS
    <2> QED BY Zenon, <1>1, <1>2, <2>1, <2>2, FinishInv, ConstTypes
  <1>7. CASE op.method = "PUT" /\ There(op)
    <2>1. ctrl' = set /\ UNCHANGED posts /\ Finish(p, set, FALSE)
      BY Zenon, <1>7 DEF LeaderOperate
    <2> QED BY Zenon, <1>1, <1>2, <1>3, <2>1, FinishInv
  <1>8. CASE op.method = "DELETE" /\ There(op)
    BY Zenon, <1>1, <1>2, <1>8, FinishInv, ConstTypes DEF LeaderOperate
  <1>9. op.method \in {"POST", "PUT", "DELETE"}
    BY Zenon, <1>1 DEF LeaderOperate, Operations
  <1> QED BY Zenon, <1>4, <1>5, <1>6, <1>7, <1>8, <1>9
\* The operator of a follower.
LEMMA FollowerOperateInv == ASSUME HAInv, NEW p \in Pods, FollowerOperate(p) PROVE HAInv'
  <1> DEFINE op == pod[p].op
  <1>1. /\ op \in Operations /\ ctrl \in Objects /\ posts \in Nat /\ trespass \in BOOLEAN /\ pod[p].cache \in Objects
        /\ Absent \in Objects
    BY Zenon, ConstTypes DEF HAInv, TypeOK, Replicas
  <1>2. op # Idle /\ UNCHANGED <<lease, expired, k8s, ctrl, posts, failures, invalid, trespass>>
    BY DEF FollowerOperate, Idle
  <1>3. There(op) \in BOOLEAN /\ (~There(op)) \in BOOLEAN /\ (ctrl.sum = 0) \in BOOLEAN
    BY Zenon DEF There
  <1>4. CASE op.method = "POST"
    <2>1. Finish(p, ctrl, ctrl.sum = 0)
      BY Zenon, <1>4 DEF FollowerOperate
    <2> QED BY Zenon, <1>1, <1>2, <1>3, <2>1, FinishInv
  <1>5. CASE op.method = "PUT"
    <2> DEFINE cache == IF There(op) THEN ctrl ELSE Absent
    <2>1. Finish(p, cache, ~There(op))
      BY Zenon, <1>5 DEF FollowerOperate
    <2>2. cache \in Objects
      BY Zenon, <1>1
    <2> HIDE DEF cache
    <2> QED BY Zenon, <1>1, <1>2, <1>3, <2>1, <2>2, FinishInv
  <1>6. CASE op.method = "DELETE"
    <2> DEFINE cache == IF There(op) THEN pod[p].cache ELSE Absent
    <2>1. Finish(p, cache, There(op))
      BY Zenon, <1>6 DEF FollowerOperate
    <2>2. cache \in Objects
      BY Zenon, <1>1
    <2> HIDE DEF cache
    <2> QED BY Zenon, <1>1, <1>2, <1>3, <2>1, <2>2, FinishInv
  <1>7. op.method \in {"POST", "PUT", "DELETE"}
    BY Zenon, <1>1 DEF FollowerOperate, Operations
  <1> QED BY Zenon, <1>4, <1>5, <1>6, <1>7

\* A key comes back from a retry queue.
LEMMA DequeueRetryInv == ASSUME HAInv, NEW p \in Pods, DequeueRetry(p) PROVE HAInv'
  <1> DEFINE r == [pod[p] EXCEPT !.retry = FALSE, !.queued = TRUE]
  <1>1. /\ pod[p] \in Replicas /\ pod[p].stage = "run" /\ pod[p].seen <= k8s
        /\ ctrl \in Objects /\ posts \in Nat /\ trespass \in BOOLEAN
    BY Zenon DEF DequeueRetry, HAInv, TypeOK
  <1>2. pod' = [pod EXCEPT ![p] = r]
    BY Zenon DEF DequeueRetry, HAInv, TypeOK
  <1>3. Works(p, r) /\ r.seen = pod[p].seen
    BY Zenon, <1>1 DEF Works, Replicas
  <1>4. UNCHANGED <<lease, expired, k8s, ctrl, posts, failures, invalid, trespass>>
    BY Zenon DEF DequeueRetry
  <1> HIDE DEF r
  <1> QED BY Zenon, <1>1, <1>2, <1>3, <1>4, WorksInv

\* The invariant holds at first.
LEMMA InitInv == ASSUME Init PROVE HAInv
  <1>1. pod \in [Pods -> Replicas] /\ \A p \in Pods : pod[p] = Down
    BY Zenon, ConstTypes DEF Init
  <1>2. Down.seen = 0 /\ Down.op = Idle
    BY Zenon DEF Down
  <1>3. \A p \in Pods : pod[p].seen <= 0 /\ pod[p].op = Idle
    BY <1>1, <1>2
  <1>4. Len(Wanted) \in Nat /\ 0 \in 0 .. Len(Wanted) /\ 0 \in 0 .. MaxFailures
    BY HAAssumption
  <1>5. TypeOK
    BY Zenon, <1>1, <1>3, <1>4, ConstTypes DEF Init, TypeOK
  <1> QED BY Zenon, <1>1, <1>5, ConstTypes, DownElected DEF Init, HAInv

\* Every step keeps the invariant.
LEMMA NextInv == ASSUME HAInv, [Next]_vars PROVE HAInv'
  <1>1. CASE UNCHANGED vars
    <2>1. TypeOK'
      BY Zenon, <1>1 DEF vars, HAInv, TypeOK
    <2> QED BY Zenon, <1>1, <2>1 DEF vars, HAInv
  <1>2. CASE Edit \/ Expire
    BY Zenon, <1>2, EditInv, ExpireInv
  <1>3. ASSUME NEW p \in Pods, PodNext(p) PROVE HAInv'
    BY Zenon, <1>3, LookupInv, TransitionInv, HandlerInv, BootInv, AcquireInv, ObserveInv,
       StartWorkersInv, DequeueIngestionInv, DequeueNodesInv, LeaderOperateInv,
       FollowerOperateInv, DequeueRetryInv
    DEF PodNext
  <1>4. ASSUME NEW p \in Pods, Failure(p) PROVE HAInv'
    BY Zenon, <1>4, ConflictInv, EndInv, CrashInv DEF Failure
  <1> QED BY Zenon, <1>1, <1>2, <1>3, <1>4 DEF Next

\* In every state every variable has its type, whatever the order of the callbacks
\* and of the rounds of the election: a replica has no operation under way before
\* InitController has started its workers, which waits for readyCh and so for a role.
THEOREM TypesHold == Spec => []TypeOK
  <1>1. HAInv => TypeOK
    BY Zenon DEF HAInv
  <1> QED BY <1>1, InitInv, NextInv, PTL DEF Spec

\* What the invariant says of a replica for which IsLeader() is true: it has the lease,
\* or OnStoppedLeading is under way.
LEMMA LeaderHolds ==
    ASSUME HAInv, Prompt, NEW p \in Pods, pod[p].isLeader
    PROVE  lease = p \/ Stopping(p)
  <1>1. Elected(p, pod[p], lease) /\ pod[p] \in Replicas
    BY Zenon DEF HAInv, TypeOK
  <1>2. pod[p].elector \in {"acquiring", "leading", "stopped"}
    BY Zenon, <1>1 DEF Replicas
  <1> QED BY Zenon, <1>1, <1>2 DEF Elected, Stopping

\* If a callback changes the role before its replica's next round of the election, a
\* replica for which IsLeader() is true has its name on the lease or is about to be
\* ended by OnStoppedLeading, for any number of replicas and through any number of
\* crashes, lost leases and shutdowns.  Nothing is assumed of the order of one replica's
\* callbacks and the rounds of another one, which may take a lease that was released
\* (ReleaseOnCancel) before the old leader has ended.
THEOREM LeaseGuardsTheLeader == ASSUME Prompt PROVE Spec => []LeaseSound
  <1>1. HAInv => LeaseSound
    BY Zenon, LeaderHolds DEF HAInv, LeaseSound, LeaseGuardsLeader
  <1> QED BY <1>1, InitInv, NextInv, PTL DEF Spec

\* Only the operator of a leader changes the controller.
LEMMA OnlyTheLeaderWrites ==
    ASSUME HAInv, Prompt, Next, ctrl' # ctrl
    PROVE  \E p \in Pods : /\ pod[p].op # Idle /\ pod'[p].op = Idle
                           /\ pod[p].isLeader
                           /\ lease = p \/ Stopping(p)
  <1>1. ~Edit /\ ~Expire
    BY Zenon DEF Edit, Expire
  <1>2. \A p \in Pods : ~Failure(p)
    BY Zenon DEF Failure, Conflict, LoseLease, Shutdown, Crash, Stopped
  <1>3. PICK p \in Pods : LeaderOperate(p)
    <2>1. PICK p \in Pods : PodNext(p)
      BY Zenon, <1>1, <1>2 DEF Next
    <2>2. \A c \in pod[p].calls : ~(Lookup(p, c) \/ Transition(p, c) \/ Handler(p, c))
      BY Zenon DEF Lookup, Transition, Handler
    <2>3. ~Boot(p) /\ ~Acquire(p) /\ ~Observe(p)
      BY Zenon DEF Boot, Acquire, Observe
    <2>4. ~StartWorkers(p) /\ ~DequeueIngestion(p) /\ ~DequeueNodes(p)
      BY Zenon DEF StartWorkers, DequeueIngestion, DequeueNodes
    <2>5. ~FollowerOperate(p) /\ ~DequeueRetry(p)
      BY Zenon DEF FollowerOperate, DequeueRetry
    <2> QED BY Zenon, <2>1, <2>2, <2>3, <2>4, <2>5 DEF PodNext
  <1>4. pod[p].op.role = "LEADER" /\ pod[p].op # Idle /\ Elected(p, pod[p], lease)
    BY <1>3 DEF LeaderOperate, Idle, HAInv
  <1>5. pod \in [Pods -> Replicas] /\ pod[p].op.method \in {"POST", "PUT", "DELETE"}
    BY Zenon, <1>3 DEF LeaderOperate, HAInv, TypeOK, Replicas, Operations
  <1>6. PICK cache, retry : Finish(p, cache, retry)
    <2> USE <1>3 DEF LeaderOperate
    <2>1. CASE pod[p].op.method = "POST" /\ ctrl.sum = 0
      BY Zenon, <2>1
    <2>2. CASE pod[p].op.method = "POST" /\ ctrl.sum # 0
      BY Zenon, <2>2
    <2>3. CASE pod[p].op.method # "POST" /\ ~There(pod[p].op)
      BY Zenon, <2>3
    <2>4. CASE pod[p].op.method = "PUT" /\ There(pod[p].op)
      BY Zenon, <2>4
    <2>5. CASE pod[p].op.method = "DELETE" /\ There(pod[p].op)
      BY Zenon, <2>5
    <2> QED BY Zenon, <1>5, <2>1, <2>2, <2>3, <2>4, <2>5
  <1>7. pod'[p].op = Idle
    BY <1>5, <1>6 DEF Finish, Replicas
  <1>8. pod[p].isLeader
    BY Zenon, <1>4 DEF Elected
  <1> QED BY Zenon, <1>4, <1>7, <1>8, LeaderHolds

\* Under the same condition every change of the controller is the end of an operation
\* of a replica that is the leader and either has its name on the lease or has
\* OnStoppedLeading under way: no other replica writes, and a leader that was replaced
\* writes only until that callback ends it.
THEOREM WritesAreGuarded == ASSUME Prompt PROVE Spec => WritesUnderLease
  <1> DEFINE Guarded == ctrl' # ctrl =>
                \E p \in Pods : /\ pod[p].op # Idle /\ pod'[p].op = Idle
                                /\ pod[p].isLeader
                                /\ lease = p \/ Stopping(p)
  <1>1. HAInv /\ [Next]_vars => [Guarded]_vars
    BY Zenon, OnlyTheLeaderWrites
  <1> QED BY <1>1, InitInv, NextInv, PTL DEF Spec, WritesUnderLease
=============================================================================
