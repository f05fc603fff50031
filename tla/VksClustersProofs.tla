------------------------- MODULE VksClustersProofs --------------------------
(***************************************************************************)
(* That the VKS cluster watcher keeps the Secret of a managed cluster in   *)
(* order, with credentials that work, and loses track of nothing on the    *)
(* controller, for any tenants, passwords, goroutines and disturbances.    *)
(***************************************************************************)
EXTENDS VksClusters, TLAPS

Clusters == [uid : Uids \cup {0}, phase : {"none", "Provisioned", "Deleting"}, managed : BOOLEAN]
Workers ==
    [at : {"idle", "credentials", "write"}, uid : Uids \cup {0}, user : Uids \cup {0},
     password : Passwords \cup {0}, tenant : Tenants \cup {None}]
Stages == [at : {"done", "objects", "user", "roles", "secret"}, uid : Uids \cup {0}]

\* The values a variable starts with have their types.
LEMMA Constants ==
    /\ NoSecret \in Secrets /\ NoSecret.uid = 0 /\ ~NoSecret.label
    /\ NoCluster \in Clusters /\ NoCluster.uid = 0 /\ NoCluster.phase = "none" /\ ~NoCluster.managed
    /\ Idle \in Workers /\ Idle.at = "idle" /\ Idle.uid = 0
    /\ Done \in Stages /\ Done.at = "done" /\ Done.uid = 0
<1>1. NoSecret \in Secrets /\ NoSecret.uid = 0 /\ ~NoSecret.label
  BY DEF NoSecret, Secrets
<1>2. NoCluster \in Clusters /\ NoCluster.uid = 0 /\ NoCluster.phase = "none" /\ ~NoCluster.managed
  BY DEF NoCluster, Clusters
<1>3. Idle \in Workers /\ Idle.at = "idle" /\ Idle.uid = 0
  BY DEF Idle, Workers
<1>4. Done \in Stages /\ Done.at = "done" /\ Done.uid = 0
  BY DEF Done, Stages
<1> QED BY Zenon, <1>1, <1>2, <1>3, <1>4

\* What TypeOK says of each variable.
LEMMA Shapes ==
    ASSUME TypeOK
    PROVE  /\ cluster \in Clusters /\ tenant \in Tenants /\ secret \in Secrets /\ listed \in Secrets
           /\ current \in BOOLEAN /\ events \in BOOLEAN /\ queued \in BOOLEAN /\ timer \in BOOLEAN
           /\ users \in [Uids -> Passwords \cup {0}] /\ roles \subseteq Uids
           /\ objects \subseteq Uids \X Tenants
           /\ worker \in Workers /\ cleanups \in [Cleanups -> Stages]
BY Zenon DEF TypeOK, Clusters, Workers, Stages

\* The converse.
LEMMA Typed ==
    ASSUME /\ cluster \in Clusters /\ tenant \in Tenants /\ secret \in Secrets /\ listed \in Secrets
           /\ current \in BOOLEAN /\ events \in BOOLEAN /\ queued \in BOOLEAN /\ timer \in BOOLEAN
           /\ users \in [Uids -> Passwords \cup {0}] /\ roles \subseteq Uids
           /\ objects \subseteq Uids \X Tenants
           /\ worker \in Workers /\ cleanups \in [Cleanups -> Stages]
    PROVE  TypeOK
BY Zenon DEF TypeOK, Clusters, Workers, Stages

\* The fields of the records.
LEMMA Fields ==
    /\ \A s \in Secrets :
          /\ s.uid \in Uids \cup {0} /\ s.user \in Uids \cup {0} /\ s.password \in Passwords \cup {0}
          /\ s.tenant \in Tenants \cup {None} /\ s.label \in BOOLEAN
    /\ \A x \in Clusters : x.uid \in Uids \cup {0} /\ x.managed \in BOOLEAN
    /\ \A w \in Workers :
          /\ w.at \in {"idle", "credentials", "write"} /\ w.uid \in Uids \cup {0}
          /\ w.user \in Uids \cup {0} /\ w.password \in Passwords \cup {0} /\ w.tenant \in Tenants \cup {None}
    /\ \A g \in Stages : g.at \in {"done", "objects", "user", "roles", "secret"} /\ g.uid \in Uids \cup {0}
BY Zenon DEF Secrets, Clusters, Workers, Stages

\* A password that is in use nowhere.
LEMMA FreshIsNew ==
    ASSUME WellFormed, TypeOK
    PROVE  Fresh \in Passwords
<1>1. /\ users \in [Uids -> Passwords \cup {0}] /\ secret.password \in Passwords \cup {0}
      /\ listed.password \in Passwords \cup {0} /\ worker.password \in Passwords \cup {0}
  BY Zenon, Shapes, Fields
<1>2. \E w \in Passwords :
         w \notin {users[u] : u \in Uids} \cup {secret.password, listed.password, worker.password}
  BY Zenon, <1>1 DEF WellFormed
<1> QED BY Zenon, <1>2 DEF Fresh

\* What has not happened after a step has not happened before it.
LEMMA Earlier ==
    ASSUME happened \subseteq happened'
    PROVE  /\ \A d : d \notin happened' => d \notin happened
           /\ \A S : NoneOf(S)' => NoneOf(S)
           /\ Labelled' /\ ("stripped" \in happened' => "stripped" \in happened) => Labelled
BY Zenon DEF NoneOf, Labelled

\* A turn of the worker for the cluster concerns no uid that was not concerned before.
LEMMA UidsStay ==
    ASSUME {cluster.uid, secret.uid, listed.uid, worker.uid} \cup {cleanups[c].uid : c \in Cleanups} \subseteq {0, 1},
           UNCHANGED <<cluster, secret, listed, cleanups>>,
           worker'.uid \in {0, worker.uid, cluster.uid}
    PROVE  {cluster.uid, secret.uid, listed.uid, worker.uid}' \cup {cleanups[c].uid : c \in Cleanups}' \subseteq {0, 1}
<1>1. {cluster.uid, secret.uid, listed.uid, worker.uid} \subseteq {0, 1}
  BY Zenon
<1>2. /\ cluster'.uid \in {0, 1} /\ secret'.uid \in {0, 1}
      /\ listed'.uid \in {0, 1} /\ worker'.uid \in {0, 1}
  BY Zenon, <1>1
<1>3. \A c \in Cleanups : cleanups[c].uid \in {0, 1}
  BY Zenon
<1>4. \A c \in Cleanups : cleanups'[c].uid \in {0, 1}
  BY Zenon, <1>3
<1>5. {cluster.uid, secret.uid, listed.uid, worker.uid}' \subseteq {0, 1}
  BY Zenon, <1>2
<1>6. {cleanups[c].uid : c \in Cleanups}' \subseteq {0, 1}
  BY Zenon, <1>4
<1> QED BY Zenon, <1>5, <1>6

\* The invariants that a step leaves alone.
LEMMA ShapeFrame ==
    ASSUME ShapeInv, UNCHANGED <<cluster, secret, listed, worker, cleanups>>
    PROVE  ShapeInv'
BY Zenon DEF ShapeInv, Whole
LEMMA CredentialsFrame ==
    ASSUME CredentialsInv, UNCHANGED <<secret, listed, users, worker, cleanups>>, happened \subseteq happened'
    PROVE  CredentialsInv'
BY Zenon, Earlier DEF CredentialsInv, Valid, SameCredentials, CleaningUp
LEMMA LeftoversFrame ==
    ASSUME LeftoversInv, UNCHANGED <<tenant, secret, listed, users, roles, objects, worker, cleanups>>,
           happened \subseteq happened', "raced" \in happened' => "raced" \in happened,
           NoneOf(Untraceable)' => cluster'.uid \in {0, 1}
    PROVE  LeftoversInv'
<1> SUFFICES ASSUME NoneOf(Untraceable)' PROVE LeftoversInv'
  BY Zenon DEF LeftoversInv
<1>1. NoneOf(Untraceable)
  BY Zenon, Earlier
<1>2. Home(secret)' /\ Home(listed)' /\ (CleaningUp' <=> CleaningUp)
  BY Zenon, <1>1 DEF LeftoversInv, Home, CleaningUp
<1>3. \A c \in Cleanups : StageInv(c)'
  BY Zenon, <1>1 DEF LeftoversInv, StageInv
<1>4. \A u \in Uids : (Nothing(u)' <=> Nothing(u)) /\ (Named(u)' <=> Named(u))
  BY Zenon DEF Nothing, Named, Valid
<1>5. {cluster.uid, secret.uid, listed.uid, worker.uid}' \cup {cleanups[c].uid : c \in Cleanups}' \subseteq {0, 1}
  BY Zenon, <1>1 DEF LeftoversInv
<1> QED BY Zenon, <1>1, <1>2, <1>3, <1>4, <1>5 DEF LeftoversInv

\* A cluster is created (AddFunc).
LEMMA ClusterAddKeeps ==
    ASSUME WellFormed, VksInv, ClusterAdd
    PROVE  VksInv'
<1>1. PICK u \in Uids, managed \in BOOLEAN :
          /\ cluster.uid = 0 /\ cluster' = [uid |-> u, phase |-> "Provisioned", managed |-> managed]
          /\ \/ u = 1 /\ "deletion" \notin happened /\ happened' = happened
             \/ happened' = happened \cup {"again"}
          /\ queued' = TRUE
          /\ UNCHANGED <<tenant, secretState, aviState, worker, cleanups, timer>>
  BY Zenon DEF ClusterAdd, ProcessAdmissionRequest, disturbance
<1>2. cluster'.uid = u /\ cluster'.phase = "Provisioned" /\ cluster'.managed = managed /\ u # 0
  BY Zenon, <1>1 DEF WellFormed
<1>3. happened \subseteq happened' /\ ("stripped" \in happened' => "stripped" \in happened)
  BY Zenon, <1>1
<1> USE DEF VksInv
<1>4. TypeOK'
  <2>1. cluster' \in Clusters
    BY <1>1 DEF Clusters
  <2> QED BY Zenon, <1>1, <2>1 DEF TypeOK, Clusters, secretState, aviState
<1>5. ShapeInv'
  BY Zenon, <1>1, <1>2 DEF ShapeInv, Whole, secretState
<1>6. HistoryInv'
  BY Zenon, <1>1, <1>2 DEF HistoryInv, secretState
<1>7. SecretInv'
  <2>1. ("kubeError" \notin happened' /\ current' => listed' = secret')
    BY Zenon, <1>1, <1>3 DEF SecretInv, secretState
  <2>2. "stripped" \notin happened' =>
          (secret'.uid # 0 => secret'.label) /\ (~current' /\ secret'.uid = 0 => events')
    BY Zenon, <1>1, <1>3 DEF SecretInv, secretState
  <2>3. CASE "again" \in happened'
    BY Zenon, <1>1, <2>1, <2>2, <2>3 DEF SecretInv, NoneOf, Labelled, AnotherTurn
  <2>4. CASE "again" \notin happened'
    <3>1. Pristine /\ happened' = happened
      BY Zenon, <1>1, <2>4 DEF HistoryInv
    <3>2. ~CleaningUp' /\ {secret'.uid, listed'.uid, worker'.uid} \subseteq {0, cluster'.uid}
      BY Zenon, <3>1, <1>1, Constants DEF Pristine, CleaningUp, secretState, ShapeInv
    <3> QED BY Zenon, <1>1, <2>1, <2>2, <3>1, <3>2 DEF SecretInv, AnotherTurn, Pristine
  <2> QED BY Zenon, <2>3, <2>4
<1>8. CredentialsInv'
  BY Zenon, <1>1, <1>3, CredentialsFrame DEF secretState, aviState
<1>9. LeftoversInv'
  <2>1. CASE "again" \in happened'
    BY Zenon, <2>1 DEF LeftoversInv, NoneOf, Untraceable
  <2>2. CASE "again" \notin happened'
    <3>1. cluster'.uid = 1 /\ happened' = happened
      BY Zenon, <1>1, <1>2, <2>2
    <3> QED BY Zenon, <1>1, <1>3, <3>1, LeftoversFrame DEF secretState, aviState
  <2> QED BY Zenon, <2>1, <2>2
<1> QED BY Zenon, <1>4, <1>5, <1>6, <1>7, <1>8, <1>9

\* A step that queues the cluster and leaves the Secret and the worker alone.
LEMMA SecretQueued ==
    ASSUME SecretInv, queued' = TRUE, UNCHANGED <<secret, listed, current, events, worker, cleanups>>,
           happened \subseteq happened', "stripped" \in happened' => "stripped" \in happened,
           ShouldManage' => (ShouldManage /\ cluster'.uid = cluster.uid) \/ "label" \in happened'
    PROVE  SecretInv'
<1>1. /\ "kubeError" \notin happened' /\ current' => listed' = secret'
      /\ "stripped" \notin happened' =>
           (secret'.uid # 0 => secret'.label) /\ (~current' /\ secret'.uid = 0 => events')
  BY Zenon, Earlier DEF SecretInv
<1>2. ShouldManage' /\ NoneOf({"label", "again"})' =>
           ~CleaningUp' /\ {secret'.uid, listed'.uid, worker'.uid} \subseteq {0, cluster'.uid}
  BY Zenon, Earlier DEF SecretInv, CleaningUp, NoneOf
<1>3. ShouldManage' /\ "stripped" \in happened' /\ Labelled' => secret'.uid # 0
  BY Zenon, Earlier DEF SecretInv, Labelled, NoneOf
<1> QED BY Zenon, <1>1, <1>2, <1>3 DEF SecretInv, AnotherTurn

\* A cluster changes its label or is being deleted (UpdateFunc).
LEMMA ClusterUpdateKeeps ==
    ASSUME WellFormed, VksInv, ClusterUpdate
    PROVE  VksInv'
<1> USE DEF VksInv
<1>1. /\ cluster.phase = "Provisioned" /\ queued' = TRUE
      /\ UNCHANGED <<tenant, secret, listed, current, events, users, roles, objects, worker, cleanups, timer>>
      /\ cluster \in Clusters
  BY Zenon, Shapes DEF ClusterUpdate, secretState, aviState
<1>2. /\ cluster' \in Clusters /\ cluster'.uid = cluster.uid
      /\ \/ cluster'.phase = "Provisioned" /\ happened' = happened \cup {"label"}
         \/ cluster'.phase = "Deleting" /\ happened' = happened
  <2>1. CASE cluster' = [cluster EXCEPT !.managed = ~@] /\ Disturb("label")
    BY Zenon, <1>1, <2>1 DEF Clusters, Disturb, DisturbAnd
  <2>2. CASE cluster' = [cluster EXCEPT !.phase = "Deleting"] /\ UNCHANGED disturbance
    BY <1>1, <2>2 DEF Clusters, disturbance
  <2> QED BY Zenon, <2>1, <2>2 DEF ClusterUpdate
<1>3. /\ happened \subseteq happened' /\ ("stripped" \in happened' => "stripped" \in happened)
      /\ ("raced" \in happened' => "raced" \in happened)
      /\ ("deletion" \in happened' <=> "deletion" \in happened)
  BY Zenon, <1>2
<1>4. cluster.uid # 0
  BY Zenon, <1>1, Constants DEF ShapeInv
<1>5. TypeOK'
  BY Zenon, <1>1, <1>2 DEF TypeOK, Clusters
<1>6. ShapeInv'
  BY Zenon, <1>1, <1>2, <1>4 DEF ShapeInv, Whole
<1>7. HistoryInv'
  BY Zenon, <1>2, <1>3, <1>4 DEF HistoryInv
<1>8. SecretInv'
  <2>1. ShouldManage' => (ShouldManage /\ cluster'.uid = cluster.uid) \/ "label" \in happened'
    BY Zenon, <1>2 DEF ShouldManage
  <2> QED BY Zenon, <1>1, <1>3, <2>1, SecretQueued
<1>9. CredentialsInv'
  BY Zenon, <1>1, <1>3, CredentialsFrame
<1>10. LeftoversInv'
  <2>1. NoneOf(Untraceable)' => cluster'.uid \in {0, 1}
    BY Zenon, <1>2, <1>3, Earlier DEF LeftoversInv
  <2> QED BY Zenon, <1>1, <1>3, <2>1, LeftoversFrame
<1> QED BY Zenon, <1>5, <1>6, <1>7, <1>8, <1>9, <1>10

\* A cluster is gone (DeleteFunc).
LEMMA ClusterDeleteKeeps ==
    ASSUME WellFormed, VksInv, ClusterDelete
    PROVE  VksInv'
<1> USE DEF VksInv
<1>1. /\ cluster' = NoCluster /\ queued' = TRUE /\ happened' = happened \cup {"deletion"}
      /\ UNCHANGED <<tenant, secret, listed, current, events, users, roles, objects, worker, cleanups, timer>>
  BY Zenon DEF ClusterDelete, secretState, aviState
<1>2. cluster' \in Clusters /\ cluster'.uid = 0 /\ ~ShouldManage'
  BY Zenon, <1>1, Constants DEF ShouldManage
<1>3. /\ happened \subseteq happened' /\ ("stripped" \in happened' => "stripped" \in happened)
      /\ ("raced" \in happened' => "raced" \in happened) /\ "deletion" \in happened'
  BY Zenon, <1>1
<1>4. TypeOK'
  BY Zenon, <1>1, <1>2 DEF TypeOK, Clusters
<1>5. ShapeInv'
  BY Zenon, <1>1 DEF ShapeInv, Whole
<1>6. HistoryInv'
  BY Zenon, <1>2, <1>3 DEF HistoryInv
<1>7. SecretInv'
  BY Zenon, <1>1, <1>2, <1>3, SecretQueued
<1>8. CredentialsInv'
  BY Zenon, <1>1, <1>3, CredentialsFrame
<1>9. LeftoversInv'
  BY Zenon, <1>1, <1>2, <1>3, LeftoversFrame
<1> QED BY Zenon, <1>4, <1>5, <1>6, <1>7, <1>8, <1>9

\* The AfterFunc of requeueOnError queues the cluster.
LEMMA TimerKeeps ==
    ASSUME WellFormed, VksInv, TimerFires
    PROVE  VksInv'
<1> USE DEF VksInv
<1>1. /\ timer = TRUE /\ timer' = FALSE /\ queued' = TRUE
      /\ UNCHANGED <<cluster, tenant, secret, listed, current, events, users, roles, objects, worker,
                     cleanups, happened>>
  BY Zenon, Shapes DEF TimerFires, secretState, aviState, disturbance
<1>2. TypeOK'
  BY Zenon, <1>1 DEF TypeOK
<1>3. HistoryInv'
  BY Zenon, <1>1 DEF HistoryInv, Pristine
<1>4. SecretInv'
  <2>1. ShouldManage' => ShouldManage /\ cluster'.uid = cluster.uid
    BY Zenon, <1>1 DEF ShouldManage
  <2> QED BY Zenon, <1>1, <2>1, SecretQueued
<1>5. ShapeInv' /\ CredentialsInv'
  BY Zenon, <1>1, ShapeFrame, CredentialsFrame
<1>6. LeftoversInv'
  <2>1. NoneOf(Untraceable)' => cluster'.uid \in {0, 1}
    BY Zenon, <1>1, Earlier DEF LeftoversInv
  <2> QED BY Zenon, <1>1, <2>1, LeftoversFrame
<1> QED BY Zenon, <1>2, <1>3, <1>4, <1>5, <1>6

\* The invariants that a step of the controller leaves alone.
LEMMA HistoryFrame ==
    ASSUME HistoryInv, UNCHANGED <<cluster, secret, listed, current, queued, worker, cleanups, timer>>,
           happened \subseteq happened', "stripped" \in happened' => "stripped" \in happened,
           "deletion" \in happened' => "deletion" \in happened
    PROVE  HistoryInv'
BY Zenon DEF HistoryInv, Pristine, CleaningUp
LEMMA SecretFrame ==
    ASSUME SecretInv, UNCHANGED <<cluster, secret, listed, current, events, queued, worker, cleanups>>,
           happened \subseteq happened', "stripped" \in happened' => "stripped" \in happened
    PROVE  SecretInv'
<1>1. /\ (ShouldManage' <=> ShouldManage) /\ (CleaningUp' <=> CleaningUp) /\ (Labelled' => Labelled)
      /\ (InOrder' <=> InOrder) /\ (AnotherTurn' <=> AnotherTurn)
  BY Zenon, Earlier DEF ShouldManage, CleaningUp, InOrder, AnotherTurn, ToCome
<1> QED BY Zenon, <1>1, Earlier DEF SecretInv

\* The annotations of the namespace change.
LEMMA NamespaceKeeps ==
    ASSUME WellFormed, VksInv, NamespaceUpdate
    PROVE  VksInv'
<1> USE DEF VksInv
<1>1. /\ tenant' \in Tenants /\ happened' = happened \cup {"tenant"}
      /\ UNCHANGED <<cluster, secret, listed, current, events, users, roles, objects, queued, worker,
                     cleanups, timer>>
  BY Zenon DEF NamespaceUpdate, secretState, aviState, Disturb, DisturbAnd
<1>2. /\ happened \subseteq happened' /\ ("stripped" \in happened' => "stripped" \in happened)
      /\ ("deletion" \in happened' => "deletion" \in happened) /\ "tenant" \in happened'
  BY Zenon, <1>1
<1>3. TypeOK'
  BY Zenon, <1>1 DEF TypeOK
<1>4. ShapeInv' /\ HistoryInv' /\ SecretInv' /\ CredentialsInv'
  BY Zenon, <1>1, <1>2, ShapeFrame, HistoryFrame, SecretFrame, CredentialsFrame
<1>5. LeftoversInv'
  BY Zenon, <1>2 DEF LeftoversInv, NoneOf, Untraceable
<1> QED BY Zenon, <1>3, <1>4, <1>5

\* The AKO of the cluster creates objects.
LEMMA CreateObjectsKeeps ==
    ASSUME WellFormed, VksInv, CreateObjects
    PROVE  VksInv'
<1> USE DEF VksInv
<1>1. /\ cluster.phase = "Provisioned" /\ secret.uid = cluster.uid /\ secret.tenant # None /\ Valid(secret)
      /\ objects' = objects \cup {<<secret.uid, secret.tenant>>}
      /\ UNCHANGED <<cluster, tenant, secret, listed, current, events, users, roles, queued, worker,
                     cleanups, timer>>
  BY Zenon DEF CreateObjects, secretState
<1>2. /\ happened \subseteq happened' /\ ("stripped" \in happened' => "stripped" \in happened)
      /\ ("deletion" \in happened' => "deletion" \in happened)
      /\ ("raced" \in happened' => "raced" \in happened)
      /\ "late" \notin happened' => \A c \in Cleanups : cleanups[c].at \in {"done", "objects"}
  BY Zenon DEF CreateObjects
<1>3. secret.uid \in Uids /\ secret.uid # 0 /\ secret.tenant \in Tenants
  BY Zenon, <1>1, Shapes, Fields DEF Valid
<1>4. TypeOK'
  <2>1. objects' \subseteq Uids \X Tenants
    BY <1>1, <1>3, Shapes
  <2> QED BY Zenon, <1>1, <2>1 DEF TypeOK
<1>5. ShapeInv' /\ HistoryInv' /\ SecretInv' /\ CredentialsInv'
  BY Zenon, <1>1, <1>2, ShapeFrame, HistoryFrame, SecretFrame, CredentialsFrame
<1>6. LeftoversInv'
  <2> SUFFICES ASSUME NoneOf(Untraceable)' PROVE LeftoversInv'
    BY Zenon DEF LeftoversInv
  <2>1. NoneOf(Untraceable) /\ "late" \notin happened' /\ "stripped" \notin happened
    BY Zenon, <1>2, Earlier DEF NoneOf, Untraceable
  <2>2. secret.uid = 1 /\ secret.tenant = tenant
    BY Zenon, <1>1, <1>3, <2>1 DEF LeftoversInv, Home
  <2>3. Home(secret)' /\ Home(listed)' /\ (CleaningUp' <=> CleaningUp)
    BY Zenon, <1>1, <2>1 DEF LeftoversInv, Home, CleaningUp
  <2>4. \A c \in Cleanups : StageInv(c)'
    BY Zenon, <1>1, <1>2, <2>1 DEF StageInv
  <2>5. \A u \in Uids : (Named(u)' <=> Named(u)) /\ (u # 1 => (Nothing(u) => Nothing(u)'))
    <3>1. \A u \in Uids, t \in Tenants : u # 1 => (<<u, t>> \in objects' => <<u, t>> \in objects)
      BY <1>1, <2>2
    <3> QED BY Zenon, <1>1, <3>1 DEF Named, Nothing, Valid
  <2>6. Named(secret.uid)
    BY Zenon, <1>1, <1>3, <2>1 DEF Named, SecretInv
  <2>7. \A o \in objects' : o[2] = tenant'
    BY <1>1, <2>1, <2>2 DEF LeftoversInv
  <2>8. {cluster.uid, secret.uid, listed.uid, worker.uid}' \cup {cleanups[c].uid : c \in Cleanups}' \subseteq {0, 1}
    BY ZenonT(40), <1>1, <2>1 DEF LeftoversInv
  <2> QED BY ZenonT(40), <1>1, <1>2, <2>1, <2>2, <2>3, <2>4, <2>5, <2>6, <2>7, <2>8 DEF LeftoversInv
<1> QED BY Zenon, <1>4, <1>5, <1>6

\* Somebody deletes the Secret, its label or a field of it.
LEMMA OutOfBandKeeps ==
    ASSUME WellFormed, VksInv, OutOfBand
    PROVE  VksInv'
<1> USE DEF VksInv
<1>1. /\ secret.uid # 0 /\ current' = FALSE /\ events' = (events \/ secret.label)
      /\ UNCHANGED <<cluster, tenant, listed, users, roles, objects, queued, worker, cleanups, timer>>
  BY Zenon DEF OutOfBand, SecretChanged, aviState
<1>2. /\ happened \subseteq happened' /\ ("raced" \in happened' => "raced" \in happened)
      /\ ("deletion" \in happened' => "deletion" \in happened)
      /\ \/ secret' = NoSecret /\ "deleted" \in happened' /\ ("stripped" \in happened' => "stripped" \in happened)
         \/ secret' = [secret EXCEPT !.label = FALSE] /\ secret.label /\ "stripped" \in happened'
         \/ secret' = [secret EXCEPT !.tenant = None] /\ ("stripped" \in happened' => "stripped" \in happened)
  BY Zenon DEF OutOfBand, SecretChanged, Disturb, DisturbAnd
<1>3. /\ secret \in Secrets /\ secret' \in Secrets
      /\ \/ /\ secret' = NoSecret /\ "deleted" \in happened' /\ ("stripped" \in happened' => "stripped" \in happened)
         \/ /\ secret'.uid = secret.uid /\ secret'.user = secret.user /\ secret'.password = secret.password
            /\ secret'.label = FALSE /\ secret.label /\ "stripped" \in happened'
         \/ /\ secret'.uid = secret.uid /\ secret'.user = secret.user /\ secret'.password = secret.password
            /\ secret'.label = secret.label /\ secret'.tenant = None
            /\ ("stripped" \in happened' => "stripped" \in happened)
  <2>1. secret \in Secrets /\ NoSecret \in Secrets
    BY Zenon, Shapes, Constants
  <2>2. CASE secret' = NoSecret /\ "deleted" \in happened' /\ ("stripped" \in happened' => "stripped" \in happened)
    BY Zenon, <2>1, <2>2
  <2>3. CASE secret' = [secret EXCEPT !.label = FALSE] /\ secret.label /\ "stripped" \in happened'
    BY Zenon, <2>1, <2>3 DEF Secrets
  <2>4. CASE secret' = [secret EXCEPT !.tenant = None] /\ ("stripped" \in happened' => "stripped" \in happened)
    BY <2>1, <2>4 DEF Secrets
  <2> QED BY Zenon, <1>2, <2>2, <2>3, <2>4
<1>4. TypeOK'
  <2>1. {secret', listed'} \subseteq Secrets /\ {current', events', queued', timer'} \subseteq BOOLEAN
    BY ZenonT(40), <1>1, <1>3, Shapes
  <2> QED BY ZenonT(40), <1>1, <2>1 DEF TypeOK
<1>5. ShapeInv'
  <2>1. Whole(secret)' /\ Whole(listed)'
    BY Zenon, <1>1, <1>3, Constants DEF ShapeInv, Whole
  <2> QED BY Zenon, <1>1, <2>1 DEF ShapeInv
<1>6. HistoryInv'
  BY Zenon, <1>1, <1>2 DEF HistoryInv, Pristine
<1>7. SecretInv'
  <2>1. "kubeError" \notin happened' /\ current' => listed' = secret'
    BY Zenon, <1>1
  <2>2. "stripped" \notin happened' =>
          (secret'.uid # 0 => secret'.label) /\ (~current' /\ secret'.uid = 0 => events')
    BY Zenon, <1>1, <1>2, <1>3, Constants DEF SecretInv
  <2>3. (ShouldManage' <=> ShouldManage) /\ (CleaningUp' <=> CleaningUp) /\ secret'.uid \in {0, secret.uid}
    BY Zenon, <1>1, <1>3, Constants DEF ShouldManage, CleaningUp
  <2>4. ShouldManage' /\ NoneOf({"label", "again"})' =>
          ~CleaningUp' /\ {secret'.uid, listed'.uid, worker'.uid} \subseteq {0, cluster'.uid}
    BY Zenon, <1>1, <1>2, <2>3, Earlier DEF SecretInv
  <2>5. ShouldManage' /\ "stripped" \in happened' /\ Labelled' => secret'.uid # 0
    BY Zenon, <1>1, <1>3 DEF Labelled, NoneOf
  <2>6. ShouldManage' /\ "kubeError" \notin happened' /\ Labelled' => InOrder' \/ AnotherTurn'
    <3> SUFFICES ASSUME ShouldManage', "kubeError" \notin happened', Labelled' PROVE InOrder' \/ AnotherTurn'
      BY Zenon
    <3>1. CASE secret.label
      BY Zenon, <1>1, <3>1 DEF AnotherTurn, ToCome
    <3>2. CASE ~secret.label
      <4>1. secret'.uid # 0 /\ secret'.label = FALSE /\ Labelled /\ "stripped" \in happened
        BY Zenon, <1>1, <1>2, <1>3, <3>2, Earlier, Shapes, Fields DEF SecretInv, Labelled, NoneOf
      <4>2. AnotherTurn
        BY Zenon, <1>2, <2>3, <3>2, <4>1 DEF SecretInv, InOrder
      <4>3. CASE queued \/ (worker.at # "idle" /\ worker.uid = cluster.uid)
        BY Zenon, <1>1, <4>3 DEF AnotherTurn
      <4>4. CASE ~current /\ ToCome
        BY Zenon, <1>1, <4>1, <4>4 DEF AnotherTurn, ToCome
      <4> QED BY Zenon, <4>2, <4>3, <4>4 DEF AnotherTurn
    <3> QED BY Zenon, <3>1, <3>2
  <2>7. ShouldManage' /\ worker'.at # "idle" => worker'.uid = cluster'.uid \/ queued'
    BY Zenon, <1>1, <2>3 DEF SecretInv
  <2> QED BY Zenon, <2>1, <2>2, <2>4, <2>5, <2>6, <2>7 DEF SecretInv
<1>8. CredentialsInv'
  <2>1. secret'.uid # 0 => SameCredentials(secret', secret) /\ secret'.uid = secret.uid /\ (Valid(secret)' <=> Valid(secret))
    BY Zenon, <1>1, <1>3, Constants DEF SameCredentials, Valid
  <2>2. (CleaningUp' <=> CleaningUp) /\ (Valid(worker)' <=> Valid(worker))
    BY Zenon, <1>1 DEF CleaningUp, Valid
  <2> QED BY Zenon, <1>1, <1>2, <2>1, <2>2, Earlier DEF CredentialsInv, SameCredentials
<1>9. LeftoversInv'
  <2> SUFFICES ASSUME NoneOf(Untraceable)' PROVE LeftoversInv'
    BY Zenon DEF LeftoversInv
  <2>1. NoneOf(Untraceable) /\ "deleted" \notin happened' /\ "stripped" \notin happened'
    BY Zenon, <1>2, Earlier DEF NoneOf, Untraceable
  <2>2. /\ secret'.uid = secret.uid /\ secret'.user = secret.user /\ secret'.password = secret.password
        /\ secret'.label = secret.label /\ secret'.tenant = None
    BY Zenon, <1>3, <2>1
  <2>3. Home(secret)' /\ Home(listed)' /\ (CleaningUp' <=> CleaningUp)
    BY Zenon, <1>1, <2>1, <2>2 DEF LeftoversInv, Home, CleaningUp
  <2>4. \A c \in Cleanups : StageInv(c)'
    BY Zenon, <1>1, <2>1 DEF LeftoversInv, StageInv
  <2>5. \A u \in Uids : (Nothing(u)' <=> Nothing(u)) /\ (Named(u)' <=> Named(u))
    BY Zenon, <1>1, <2>2 DEF Nothing, Named, Valid
  <2>6. {cluster.uid, secret.uid, listed.uid, worker.uid}' \cup {cleanups[c].uid : c \in Cleanups}' \subseteq {0, 1}
    BY Zenon, <1>1, <2>1, <2>2 DEF LeftoversInv
  <2> QED BY Zenon, <1>1, <1>2, <2>1, <2>2, <2>3, <2>4, <2>5, <2>6 DEF LeftoversInv
<1> QED BY Zenon, <1>4, <1>5, <1>6, <1>7, <1>8, <1>9

\* What makes a Secret useless also makes a leftover untraceable, but for credentials
\* that are made beside a clean-up.
LEMMA Traceable ==
    ASSUME LeftoversInv, NoneOf(Untraceable)
    PROVE  NoneOf(Unfinished)
BY Zenon DEF LeftoversInv, NoneOf, Untraceable, Unfinished

\* The informer delivers the Secret (AddVKSSecretEventHandler).
LEMMA DeliverKeeps ==
    ASSUME WellFormed, VksInv, VKSSecretEventHandler
    PROVE  VksInv'
<1> USE DEF VksInv
<1>1. /\ ~current /\ listed' = secret /\ current' = TRUE /\ events' = FALSE /\ queued' = (queued \/ ToCome)
      /\ UNCHANGED <<cluster, tenant, secret, users, roles, objects, worker, cleanups, timer>>
  BY Zenon DEF VKSSecretEventHandler, ToCome, aviState
<1>2. /\ happened \subseteq happened' /\ ("stripped" \in happened' => "stripped" \in happened)
      /\ ("deletion" \in happened' => "deletion" \in happened)
      /\ ("raced" \in happened' => "raced" \in happened)
      /\ "overtaken" \notin happened' => ~(worker.at = "write" /\ listed.uid # 0 /\ secret.uid = 0)
  BY Zenon DEF VKSSecretEventHandler
<1>3. TypeOK'
  <2>1. queued' \in BOOLEAN
    BY ZenonT(40), <1>1
  <2> QED BY ZenonT(40), <1>1, <2>1 DEF TypeOK
<1>4. ShapeInv'
  BY Zenon, <1>1 DEF ShapeInv, Whole
<1>5. HistoryInv'
  BY Zenon, <1>1, <1>2 DEF HistoryInv, Pristine
<1>6. SecretInv'
  <2>1. (ShouldManage' <=> ShouldManage) /\ (CleaningUp' <=> CleaningUp) /\ (Labelled' => Labelled)
    BY Zenon, <1>1, <1>2, Earlier DEF ShouldManage, CleaningUp
  <2>2. (InOrder' <=> InOrder) /\ (AnotherTurn => AnotherTurn')
    BY Zenon, <1>1 DEF InOrder, AnotherTurn
  <2>3. "stripped" \notin happened' =>
          (secret'.uid # 0 => secret'.label) /\ (~current' /\ secret'.uid = 0 => events')
    BY Zenon, <1>1, <1>2, Earlier DEF SecretInv
  <2>4. ShouldManage' /\ NoneOf({"label", "again"})' =>
          ~CleaningUp' /\ {secret'.uid, listed'.uid, worker'.uid} \subseteq {0, cluster'.uid}
    BY Zenon, <1>1, <1>2, <2>1, Earlier DEF SecretInv
  <2> QED BY Zenon, <1>1, <1>2, <2>1, <2>2, <2>3, <2>4, Earlier DEF SecretInv
<1>7. CredentialsInv'
  <2> SUFFICES ASSUME NoneOf(Unfinished)' PROVE CredentialsInv'
    BY Zenon DEF CredentialsInv
  <2>1. NoneOf(Unfinished) /\ ~(worker.at = "write" /\ listed.uid # 0 /\ secret.uid = 0)
    BY Zenon, <1>2, Earlier DEF NoneOf, Unfinished
  <2>2. (CleaningUp' <=> CleaningUp) /\ (Valid(worker)' <=> Valid(worker)) /\ (Valid(secret)' <=> Valid(secret))
    BY Zenon, <1>1 DEF CleaningUp, Valid
  <2> QED BY Zenon, <1>1, <2>1, <2>2 DEF CredentialsInv, SameCredentials
<1>8. LeftoversInv'
  <2> SUFFICES ASSUME NoneOf(Untraceable)' PROVE LeftoversInv'
    BY Zenon DEF LeftoversInv
  <2>1. NoneOf(Untraceable) /\ NoneOf(Unfinished)
    BY Zenon, <1>2, Earlier, Traceable
  <2>2. worker.at = "write" /\ listed.uid = 0 => listed'.uid = 0
    BY Zenon, <1>1, <2>1 DEF CredentialsInv
  <2>3. Home(secret)' /\ Home(listed)' /\ (CleaningUp' <=> CleaningUp)
    BY Zenon, <1>1, <2>1 DEF LeftoversInv, Home, CleaningUp
  <2>4. \A c \in Cleanups : StageInv(c)'
    BY Zenon, <1>1, <2>1 DEF LeftoversInv, StageInv
  <2>5. \A u \in Uids : (Nothing(u)' <=> Nothing(u)) /\ (Named(u)' <=> Named(u))
    BY Zenon, <1>1 DEF Nothing, Named, Valid
  <2>6. {cluster.uid, secret.uid, listed.uid, worker.uid}' \cup {cleanups[c].uid : c \in Cleanups}' \subseteq {0, 1}
    BY Zenon, <1>1, <2>1 DEF LeftoversInv
  <2> QED BY Zenon, <1>1, <1>2, <2>1, <2>2, <2>3, <2>4, <2>5, <2>6 DEF LeftoversInv
<1> QED BY Zenon, <1>3, <1>4, <1>5, <1>6, <1>7, <1>8

\* ako-infra ends and starts again.
LEMMA RestartKeeps ==
    ASSUME WellFormed, VksInv, Restart
    PROVE  VksInv'
<1> USE DEF VksInv
<1>1. /\ happened' = happened \cup {"crash"}
      /\ listed' = secret /\ current' = TRUE /\ events' = FALSE /\ queued' = (cluster.uid # 0)
      /\ worker' = Idle /\ cleanups' = [c \in Cleanups |-> Done] /\ timer' = FALSE
      /\ UNCHANGED <<cluster, tenant, secret, users, roles, objects>>
  BY Zenon DEF Restart, aviState, Disturb, DisturbAnd
<1>2. /\ happened \subseteq happened' /\ ("stripped" \in happened' => "stripped" \in happened)
      /\ ("deletion" \in happened' => "deletion" \in happened) /\ "crash" \in happened'
  BY Zenon, <1>1
<1>3. \A c \in Cleanups : cleanups'[c] = Done
  BY Zenon, <1>1
<1>4. ~CleaningUp' /\ worker'.at = "idle" /\ worker'.uid = 0
  BY Zenon, <1>1, <1>3, Constants DEF CleaningUp
<1>5. TypeOK'
  <2>1. worker' \in Workers /\ cleanups' \in [Cleanups -> Stages] /\ queued' \in BOOLEAN
    BY Zenon, <1>1, Constants
  <2> QED BY Zenon, <1>1, <2>1 DEF TypeOK, Workers, Stages
<1>6. ShapeInv'
  BY Zenon, <1>1, <1>3, <1>4, Constants DEF ShapeInv, Whole
<1>7. HistoryInv'
  <2>1. Pristine => (cluster.uid = 0 => Pristine')
    BY Zenon, <1>1, <1>2, <1>4 DEF Pristine
  <2> QED BY Zenon, <1>1, <1>2, <2>1 DEF HistoryInv
<1>8. SecretInv'
  <2>1. (ShouldManage' <=> ShouldManage) /\ (Labelled' => Labelled)
    BY Zenon, <1>1, <1>2, Earlier DEF ShouldManage
  <2>2. ShouldManage' => AnotherTurn'
    BY Zenon, <1>1, Constants DEF ShouldManage, AnotherTurn, ShapeInv
  <2>3. "stripped" \notin happened' =>
          (secret'.uid # 0 => secret'.label) /\ (~current' /\ secret'.uid = 0 => events')
    BY Zenon, <1>1, <1>2, Earlier DEF SecretInv
  <2>4. ShouldManage' /\ NoneOf({"label", "again"})' =>
          ~CleaningUp' /\ {secret'.uid, listed'.uid, worker'.uid} \subseteq {0, cluster'.uid}
    BY Zenon, <1>1, <1>2, <1>4, <2>1, Earlier DEF SecretInv
  <2>5. ShouldManage' /\ "stripped" \in happened' /\ Labelled' => secret'.uid # 0
    BY Zenon, <1>1, <1>2, <2>1 DEF SecretInv
  <2> QED BY Zenon, <1>1, <1>4, <2>2, <2>3, <2>4, <2>5 DEF SecretInv
<1>9. CredentialsInv' /\ LeftoversInv'
  BY Zenon, <1>2 DEF CredentialsInv, LeftoversInv, NoneOf, Unfinished, Untraceable
<1> QED BY Zenon, <1>5, <1>6, <1>7, <1>8, <1>9

\* A goroutine of cleanupClusterAviObjects starts.
LEMMA StartKeeps ==
    ASSUME WellFormed, VksInv, NEW v \in Uids, Start(v), queued' \in BOOLEAN, ShouldManage => queued' = TRUE,
           v \in {cluster.uid, listed.uid}, cluster.uid = 0 => "deletion" \in happened,
           ~(ShouldManage /\ NoneOf({"label", "again"})), worker.at = "idle" \/ listed.uid # 0,
           UNCHANGED <<cluster, tenant, secret, listed, current, events, users, roles, objects, worker, timer>>
    PROVE  VksInv'
<1> USE DEF VksInv
<1>1. PICK g \in Cleanups :
          cleanups[g] = Done /\ cleanups' = [cleanups EXCEPT ![g] = [at |-> "objects", uid |-> v]]
  BY Zenon DEF Start
<1>2. /\ happened \subseteq happened' /\ ("stripped" \in happened' => "stripped" \in happened)
      /\ ("raced" \in happened' => "raced" \in happened) /\ ("deletion" \in happened' <=> "deletion" \in happened)
      /\ "overlap" \notin happened' => ~CleaningUp /\ current
      /\ "beside" \notin happened' => worker.at = "idle"
  BY Zenon DEF Start
<1>3. /\ cleanups' \in [Cleanups -> Stages] /\ cleanups'[g].at = "objects" /\ cleanups'[g].uid = v
      /\ \A c \in Cleanups : c # g => cleanups'[c] = cleanups[c]
  <2>1. cleanups \in [Cleanups -> Stages] /\ [at |-> "objects", uid |-> v] \in Stages
    BY Zenon, Shapes DEF Stages
  <2>2. cleanups'[g] = [at |-> "objects", uid |-> v]
    BY Zenon, <1>1, <2>1
  <2> QED BY Zenon, <1>1, <2>1, <2>2
<1>4. cleanups[g].at = "done" /\ cleanups'[g] # Done
  BY Zenon, <1>1, <1>3, Constants
<1>5. TypeOK'
  BY ZenonT(40), <1>3 DEF TypeOK, Stages
<1>6. ShapeInv'
  BY Zenon, <1>3, Constants DEF ShapeInv, Whole
<1>7. HistoryInv'
  BY Zenon, <1>2 DEF HistoryInv
<1>8. SecretInv'
  <2>1. /\ (ShouldManage' <=> ShouldManage) /\ (Labelled' => Labelled)
        /\ (NoneOf({"label", "again"})' => NoneOf({"label", "again"}))
    BY Zenon, <1>2, Earlier DEF ShouldManage
  <2>2. ShouldManage' => AnotherTurn'
    BY Zenon, <2>1 DEF AnotherTurn
  <2> QED BY Zenon, <1>2, <2>1, <2>2, Earlier DEF SecretInv
<1>9. CredentialsInv'
  <2>1. (Valid(worker)' <=> Valid(worker)) /\ (Valid(secret)' <=> Valid(secret))
    BY Zenon DEF Valid
  <2>2. \A c \in Cleanups : cleanups[c].at \in {"roles", "secret"} => cleanups'[c].at \in {"roles", "secret"}
    BY Zenon, <1>3, <1>4
  <2> QED BY Zenon, <1>2, <2>1, <2>2, Earlier DEF CredentialsInv, SameCredentials
<1>10. LeftoversInv'
  <2> SUFFICES ASSUME NoneOf(Untraceable)' PROVE LeftoversInv'
    BY Zenon DEF LeftoversInv
  <2>1. /\ NoneOf(Untraceable) /\ "kubeError" \notin happened
        /\ "overlap" \notin happened' /\ "beside" \notin happened'
    BY Zenon, <1>2, Earlier DEF NoneOf, Untraceable
  <2>2. ~CleaningUp /\ worker.at = "idle" /\ listed = secret
    BY Zenon, <1>2, <2>1 DEF SecretInv
  <2>3. v = 1
    BY Zenon, <2>1 DEF LeftoversInv, WellFormed
  <2>4. Home(secret)' /\ Home(listed)' /\ \A c \in Cleanups : c # g => cleanups'[c] = Done
    BY Zenon, <1>3, <2>1, <2>2 DEF LeftoversInv, Home, CleaningUp
  <2>5. \A c \in Cleanups : StageInv(c)'
    BY Zenon, <1>3, <2>4, Constants DEF StageInv
  <2>6. \A u \in Uids : (Nothing(u)' <=> Nothing(u)) /\ (Named(u)' <=> Named(u))
    BY Zenon DEF Nothing, Named, Valid
  <2>7. \A u \in Uids : Nothing(u)' \/ (u = 1 /\ Named(u)')
    <3>1. \A c \in Cleanups : cleanups[c].at # "roles"
      BY Zenon, <2>2, Constants DEF CleaningUp
    <3> QED BY Zenon, <2>1, <2>2, <2>6, <3>1 DEF LeftoversInv
  <2>8. {cluster.uid, secret.uid, listed.uid, worker.uid}' \cup {cleanups[c].uid : c \in Cleanups}' \subseteq {0, 1}
    BY ZenonT(40), <1>3, <2>1, <2>3, <2>4, Constants DEF LeftoversInv
  <2> QED BY Zenon, <1>2, <2>1, <2>2, <2>4, <2>5, <2>7, <2>8 DEF LeftoversInv
<1> QED BY Zenon, <1>5, <1>6, <1>7, <1>8, <1>9, <1>10

\* The worker takes the cluster (handleClusterAddOrUpdate, handleClusterDeletion).
LEMMA HandleClusterKeeps ==
    ASSUME WellFormed, VksInv, HandleCluster
    PROVE  VksInv'
<1> USE DEF VksInv
<1>1. /\ worker.at = "idle" /\ worker = Idle /\ queued = TRUE /\ queued' = FALSE
      /\ UNCHANGED <<cluster, tenant, secret, listed, current, events, users, roles, objects, timer>>
  BY Zenon, Shapes DEF HandleCluster, secretState, aviState, ShapeInv
<1>2. cluster.uid = 0 => "deletion" \in happened
  BY Zenon, <1>1 DEF HistoryInv, Pristine
<1>3. CASE ShouldManage
  <2>1. /\ worker' = [Idle EXCEPT !.at = "credentials", !.uid = cluster.uid, !.tenant = tenant]
        /\ UNCHANGED cleanups
        /\ happened' = happened \cup (IF CleaningUp THEN {"beside"} ELSE {})
    BY Zenon, <1>3 DEF HandleCluster
  <2>2. cluster.uid \in Uids /\ tenant \in Tenants
    BY Zenon, <1>3, Shapes, Fields, Constants DEF ShapeInv, ShouldManage
  <2>3. /\ worker' \in Workers /\ worker'.at = "credentials" /\ worker'.uid = cluster.uid
        /\ worker'.tenant = tenant
    BY Zenon, <2>1, <2>2 DEF Idle, Workers
  <2>4. /\ happened \subseteq happened' /\ ("stripped" \in happened' => "stripped" \in happened)
        /\ ("raced" \in happened' => "raced" \in happened)
        /\ ("beside" \notin happened' => ~CleaningUp)
    BY Zenon, <2>1
  <2>5. TypeOK'
    BY Zenon, <1>1, <2>1, <2>3 DEF TypeOK, Workers
  <2>6. ShapeInv'
    BY Zenon, <1>1, <2>1, <2>2, <2>3 DEF ShapeInv, Whole
  <2>7. HistoryInv'
    <3>1. "deletion" \in happened' <=> "deletion" \in happened
      BY Zenon, <2>1
    <3>2. "again" \in happened => "again" \in happened'
      BY Zenon, <2>4
    <3> QED BY Zenon, <1>1, <1>2, <3>1, <3>2 DEF HistoryInv
  <2>8. SecretInv'
    <3>1. (ShouldManage' <=> ShouldManage) /\ (CleaningUp' <=> CleaningUp) /\ (Labelled' => Labelled) /\ AnotherTurn'
      BY Zenon, <1>1, <2>1, <2>3, <2>4, Earlier DEF ShouldManage, CleaningUp, AnotherTurn
    <3>2. ShouldManage' /\ NoneOf({"label", "again"})' =>
            ~CleaningUp' /\ {secret'.uid, listed'.uid, worker'.uid} \subseteq {0, cluster'.uid}
      BY Zenon, <1>1, <2>3, <2>4, <3>1, Earlier DEF SecretInv
    <3> QED BY Zenon, <1>1, <2>3, <2>4, <3>1, <3>2, Earlier DEF SecretInv
  <2>9. CredentialsInv'
    <3>1. Valid(secret)' <=> Valid(secret)
      BY Zenon, <1>1 DEF Valid
    <3> QED BY Zenon, <1>1, <2>1, <2>3, <2>4, <3>1, Earlier DEF CredentialsInv, SameCredentials
  <2>10. LeftoversInv'
    <3> SUFFICES ASSUME NoneOf(Untraceable)' PROVE LeftoversInv'
      BY Zenon DEF LeftoversInv
    <3>1. NoneOf(Untraceable) /\ ~CleaningUp
      BY Zenon, <2>4, Earlier DEF NoneOf, Untraceable
    <3>2. Home(secret)' /\ Home(listed)' /\ ~CleaningUp'
      BY Zenon, <1>1, <2>1, <3>1 DEF LeftoversInv, Home, CleaningUp
    <3>3. \A c \in Cleanups : StageInv(c)'
      BY Zenon, <1>1, <2>1, <3>1 DEF LeftoversInv, StageInv
    <3>4. \A u \in Uids : (Nothing(u)' <=> Nothing(u)) /\ (Named(u)' <=> Named(u))
      BY Zenon, <1>1 DEF Nothing, Named, Valid
    <3>5. {cluster.uid, secret.uid, listed.uid, worker.uid}' \cup {cleanups[c].uid : c \in Cleanups}' \subseteq {0, 1}
      <4>1. {cluster.uid, secret.uid, listed.uid, worker.uid} \cup {cleanups[c].uid : c \in Cleanups} \subseteq {0, 1}
        BY Zenon, <3>1 DEF LeftoversInv
      <4>2. UNCHANGED <<cluster, secret, listed, cleanups>> /\ worker'.uid \in {0, worker.uid, cluster.uid}
        BY Zenon, <1>1, <2>1, <2>3
      <4> QED BY Zenon, <4>1, <4>2, UidsStay
    <3> QED BY Zenon, <1>1, <2>1, <2>3, <2>4, <3>1, <3>2, <3>3, <3>4, <3>5 DEF LeftoversInv
  <2> QED BY Zenon, <2>5, <2>6, <2>7, <2>8, <2>9, <2>10
<1>4. CASE ~ShouldManage
  <2>1. worker' = worker
    BY Zenon, <1>1, <1>4 DEF HandleCluster
  <2>2. CASE UNCHANGED <<cleanups, disturbance>>
    <3>1. UNCHANGED <<cleanups, happened>> /\ ~ShouldManage'
      BY Zenon, <1>1, <1>4, <2>2 DEF disturbance, ShouldManage
    <3>2. TypeOK'
      BY Zenon, <1>1, <2>1, <3>1 DEF TypeOK
    <3>3. HistoryInv'
      BY Zenon, <1>1, <1>2, <3>1 DEF HistoryInv
    <3>4. SecretInv'
      BY Zenon, <1>1, <3>1 DEF SecretInv
    <3>5. NoneOf(Untraceable)' => cluster'.uid \in {0, 1}
      BY Zenon, <1>1, <3>1, Earlier DEF LeftoversInv
    <3> QED BY Zenon, <1>1, <2>1, <3>1, <3>2, <3>3, <3>4, <3>5, ShapeFrame, CredentialsFrame, LeftoversFrame
  <2>3. ASSUME NEW v \in Uids, v \in {cluster.uid, listed.uid}, Start(v) PROVE VksInv'
    BY Zenon, <1>1, <1>2, <1>4, <2>1, <2>3, StartKeeps
  <2>4. \/ UNCHANGED <<cleanups, disturbance>>
        \/ cluster.uid # 0 /\ Start(cluster.uid)
        \/ listed.uid # 0 /\ Start(listed.uid)
    BY Zenon, <1>4 DEF HandleCluster, CleanupClusterDependencies
  <2>5. cluster.uid \in Uids \cup {0} /\ listed.uid \in Uids \cup {0}
    BY Zenon, Shapes, Fields
  <2> QED BY Zenon, <2>2, <2>3, <2>4, <2>5
<1> QED BY Zenon, <1>3, <1>4

\* A turn of the periodic reconciler.
LEMMA ReconcileKeeps ==
    ASSUME WellFormed, VksInv, ReconcileAllClusters
    PROVE  VksInv'
<1> USE DEF VksInv
<1>1. /\ queued' = (queued \/ ShouldManage)
      /\ UNCHANGED <<cluster, tenant, secret, listed, current, events, users, roles, objects, worker, timer>>
  BY Zenon DEF ReconcileAllClusters, secretState, aviState
<1>2. cluster.uid = 0 => "deletion" \in happened
  BY Zenon, Constants DEF ReconcileAllClusters, Orphaned, HistoryInv, Pristine, ShouldManage, ShapeInv
<1>3. queued' \in BOOLEAN /\ (ShouldManage => queued' = TRUE)
  BY Zenon, <1>1, Shapes
<1>4. CASE Orphaned
  <2>1. Start(listed.uid) /\ listed.uid \in Uids /\ listed.uid # 0
    BY Zenon, <1>4, Shapes, Fields DEF ReconcileAllClusters, Orphaned
  <2>2. ~(ShouldManage /\ NoneOf({"label", "again"}))
    BY Zenon, <1>4, <2>1 DEF Orphaned, ActiveVKSClusters, ShouldManage, SecretInv
  <2> QED BY Zenon, <1>1, <1>2, <1>3, <2>1, <2>2, StartKeeps
<1>5. CASE ~Orphaned
  <2>1. UNCHANGED <<cleanups, happened>> /\ ShouldManage /\ queued' = TRUE
    BY Zenon, <1>3, <1>5 DEF ReconcileAllClusters, disturbance
  <2>2. TypeOK'
    BY Zenon, <1>1, <2>1 DEF TypeOK
  <2>3. HistoryInv'
    BY Zenon, <1>1, <1>2, <2>1 DEF HistoryInv
  <2>4. SecretInv'
    BY Zenon, <1>1, <2>1, SecretQueued
  <2>5. NoneOf(Untraceable)' => cluster'.uid \in {0, 1}
    BY Zenon, <1>1, <2>1, Earlier DEF LeftoversInv
  <2> QED BY Zenon, <1>1, <2>1, <2>2, <2>3, <2>4, <2>5, ShapeFrame, CredentialsFrame, LeftoversFrame
<1> QED BY Zenon, <1>4, <1>5

\* A step of the worker that leaves the Secret alone.
LEMMA SecretTurn ==
    ASSUME SecretInv, UNCHANGED <<cluster, secret, listed, current, events, cleanups>>,
           happened \subseteq happened', "stripped" \in happened' => "stripped" \in happened,
           \/ worker.at # "idle" /\ worker'.at # "idle" /\ worker'.uid = worker.uid /\ queued' = queued
           \/ worker' = Idle /\ queued' = TRUE
    PROVE  SecretInv'
<1>1. /\ (ShouldManage' <=> ShouldManage) /\ (CleaningUp' <=> CleaningUp) /\ (Labelled' => Labelled)
      /\ (InOrder' <=> InOrder) /\ worker'.uid \in {0, worker.uid} /\ (AnotherTurn => AnotherTurn')
  <2>1. /\ (ShouldManage' <=> ShouldManage) /\ (CleaningUp' <=> CleaningUp) /\ (Labelled' => Labelled)
        /\ (InOrder' <=> InOrder) /\ (ToCome' <=> ToCome)
    BY Zenon, Earlier DEF ShouldManage, CleaningUp, InOrder, ToCome
  <2>2. worker'.uid \in {0, worker.uid}
    BY Zenon, Constants
  <2>3. AnotherTurn => AnotherTurn'
    BY Zenon, <2>1 DEF AnotherTurn
  <2> QED BY Zenon, <2>1, <2>2, <2>3
<1>2. ShouldManage' /\ worker'.at # "idle" => worker'.uid = cluster'.uid \/ queued'
  BY Zenon, <1>1, Constants DEF SecretInv
<1>3. ShouldManage' /\ NoneOf({"label", "again"})' =>
        ~CleaningUp' /\ {secret'.uid, listed'.uid, worker'.uid} \subseteq {0, cluster'.uid}
  BY Zenon, <1>1, Earlier DEF SecretInv
<1> QED BY Zenon, <1>1, <1>2, <1>3, Earlier DEF SecretInv

\* The worker makes a user or takes the credentials of the Secret (buildVKSClusterConfig).
LEMMA BuildKeeps ==
    ASSUME WellFormed, VksInv, BuildVKSClusterConfig
    PROVE  VksInv'
<1> USE DEF VksInv
<1>1. /\ worker.at = "credentials" /\ worker.at # "idle" /\ worker.uid \in Uids /\ worker.uid # 0
      /\ worker \in Workers /\ listed \in Secrets /\ users \in [Uids -> Passwords \cup {0}]
      /\ UNCHANGED <<cluster, tenant, secret, listed, current, events, objects, cleanups, timer>>
  BY Zenon, Shapes DEF BuildVKSClusterConfig, secretState, ShapeInv, WellFormed
<1>2. cluster.uid = 0 => "deletion" \in happened
  BY Zenon, <1>1 DEF HistoryInv, Pristine
<1>3. CASE /\ listed.uid # 0
           /\ worker' = [worker EXCEPT !.at = "write", !.user = listed.user, !.password = listed.password]
           /\ UNCHANGED <<queued, users, roles, happened>>
  <2>1. listed.user \in Uids /\ listed.password \in Passwords
    BY Zenon, <1>3 DEF ShapeInv, Whole
  <2>2. /\ worker' \in Workers /\ worker'.at = "write" /\ worker'.uid = worker.uid
        /\ worker'.tenant = worker.tenant /\ worker'.user = listed.user /\ worker'.password = listed.password
    BY Zenon, <1>1, <1>3, <2>1 DEF Workers
  <2>3. TypeOK'
    BY Zenon, <1>1, <1>3, <2>2 DEF TypeOK, Workers
  <2>4. ShapeInv'
    BY Zenon, <1>1, <2>1, <2>2 DEF ShapeInv, Whole
  <2>5. HistoryInv'
    BY Zenon, <1>1, <1>2, <1>3 DEF HistoryInv
  <2>6. SecretInv'
    BY Zenon, <1>1, <1>3, <2>2, SecretTurn
  <2>7. CredentialsInv'
    <3>1. Valid(secret)' <=> Valid(secret)
      BY Zenon, <1>1, <1>3 DEF Valid
    <3> QED BY Zenon, <1>1, <1>3, <2>2, <3>1, Earlier DEF CredentialsInv, SameCredentials
  <2>8. LeftoversInv'
    <3> SUFFICES ASSUME NoneOf(Untraceable)' PROVE LeftoversInv'
      BY Zenon DEF LeftoversInv
    <3>1. NoneOf(Untraceable)
      BY Zenon, <1>3, Earlier
    <3>2. Home(secret)' /\ Home(listed)' /\ ~CleaningUp'
      BY Zenon, <1>1, <3>1 DEF LeftoversInv, Home, CleaningUp
    <3>3. \A c \in Cleanups : StageInv(c)'
      BY Zenon, <1>1, <1>3, <3>1 DEF LeftoversInv, StageInv
    <3>4. \A u \in Uids : (Nothing(u)' <=> Nothing(u)) /\ (Named(u)' <=> Named(u))
      BY Zenon, <1>1, <1>3 DEF Nothing, Named, Valid
    <3>5. {cluster.uid, secret.uid, listed.uid, worker.uid}' \cup {cleanups[c].uid : c \in Cleanups}' \subseteq {0, 1}
      BY Zenon, <1>1, <2>2, <3>1 DEF LeftoversInv
    <3> QED BY Zenon, <1>1, <1>3, <2>2, <3>1, <3>2, <3>3, <3>4, <3>5 DEF LeftoversInv
  <2> QED BY Zenon, <2>3, <2>4, <2>5, <2>6, <2>7, <2>8
<1>4. ASSUME listed.uid = 0, users' \in [Uids -> Passwords \cup {0}], roles' \subseteq Uids,
             happened \cup Renewal \subseteq happened',
             happened' \subseteq happened \cup Renewal \cup {"cni", "aviError", "stray"},
             worker' \in Workers,
             \A u \in Uids : u # worker.uid => users'[u] = users[u] /\ (u \in roles' => u \in roles),
             \/ /\ worker'.at = "write" /\ worker'.uid = worker.uid /\ worker'.tenant = worker.tenant
                /\ worker'.user = worker.uid /\ worker'.password = Fresh /\ users'[worker.uid] = Fresh
                /\ queued' = queued
             \/ /\ worker' = Idle /\ queued' = TRUE
                /\ \/ "cni" \in happened' \/ "stray" \in happened'
                   \/ users'[worker.uid] = 0 /\ worker.uid \notin roles'
      PROVE  VksInv'
  <2>1. /\ happened \subseteq happened' /\ ("stripped" \in happened' => "stripped" \in happened)
        /\ ("deletion" \in happened' => "deletion" \in happened)
        /\ ("renewed" \notin happened' => secret.uid = 0)
        /\ ("raced" \notin happened' => ~CleaningUp)
        /\ (~CleaningUp => ("raced" \in happened' => "raced" \in happened))
    BY Zenon, <1>4 DEF Renewal
  <2>2. Fresh \in Passwords /\ Fresh # 0
    BY Zenon, FreshIsNew DEF WellFormed
  <2>3. TypeOK'
    <3>1. queued' \in BOOLEAN
      BY Zenon, <1>4, Shapes
    <3> QED BY Zenon, <1>1, <1>4, <3>1 DEF TypeOK, Workers
  <2>4. ShapeInv'
    BY Zenon, <1>1, <1>4, <2>2, Constants DEF ShapeInv, Whole
  <2>5. HistoryInv'
    BY Zenon, <1>1, <1>2, <2>1 DEF HistoryInv
  <2>6. SecretInv'
    <3>1. worker'.at = "write" => worker'.at # "idle"
      BY Zenon
    <3> QED BY Zenon, <1>1, <1>4, <2>1, <3>1, SecretTurn
  <2>7. CredentialsInv'
    <3> SUFFICES ASSUME NoneOf(Unfinished)' PROVE CredentialsInv'
      BY Zenon DEF CredentialsInv
    <3>1. secret'.uid = 0 /\ ~CleaningUp' /\ listed'.uid = 0
      BY Zenon, <1>1, <1>4, <2>1 DEF NoneOf, Unfinished, CleaningUp
    <3>2. worker'.at = "write" => Valid(worker)'
      BY Zenon, <1>1, <1>4, <2>2, Constants DEF Valid
    <3> QED BY Zenon, <3>1, <3>2 DEF CredentialsInv
  <2>8. LeftoversInv'
    <3> SUFFICES ASSUME NoneOf(Untraceable)' PROVE LeftoversInv'
      BY Zenon DEF LeftoversInv
    <3>1. /\ NoneOf(Untraceable) /\ secret.uid = 0
          /\ "cni" \notin happened' /\ "stray" \notin happened'
      BY Zenon, <2>1, Earlier DEF NoneOf, Untraceable
    <3>2. ~CleaningUp /\ ~CleaningUp' /\ Home(secret)' /\ Home(listed)'
      BY Zenon, <1>1, <3>1 DEF LeftoversInv, Home, CleaningUp
    <3>3. \A c \in Cleanups : cleanups'[c] = Done /\ cleanups[c].at = "done" /\ StageInv(c)'
      BY Zenon, <3>2, Constants DEF CleaningUp, StageInv
    <3>4. \A u \in Uids : Nothing(u)
      BY Zenon, <1>1, <3>1, <3>3 DEF LeftoversInv, Named, WellFormed
    <3>5. \A u \in Uids : u # worker.uid => Nothing(u)'
      BY Zenon, <1>1, <1>4, <3>4 DEF Nothing
    <3>6. ASSUME NEW u \in Uids, u = worker.uid, worker' = Idle PROVE Nothing(u)'
      <4>2. worker'.at # "write"
        BY Zenon, <3>6, Constants
      <4>3. users'[worker.uid] = 0 /\ worker.uid \notin roles'
        BY Zenon, <1>4, <3>1, <4>2
      <4> QED BY Zenon, <1>1, <3>4, <3>6, <4>3 DEF Nothing
    <3>7. {cluster.uid, secret.uid, listed.uid, worker.uid}' \cup {cleanups[c].uid : c \in Cleanups}' \subseteq {0, 1}
      <4>1. worker'.uid \in {0, worker.uid, cluster.uid}
        BY Zenon, <1>4, Constants
      <4>2. {cluster.uid, secret.uid, listed.uid, worker.uid} \cup {cleanups[c].uid : c \in Cleanups} \subseteq {0, 1}
        BY Zenon, <3>1 DEF LeftoversInv
      <4> QED BY Zenon, <1>1, <4>1, <4>2, UidsStay
    <3>8. /\ worker'.at # "idle" => worker'.tenant = tenant'
          /\ \A o \in objects' : o[2] = tenant'
          /\ "raced" \notin happened'
      BY Zenon, <1>1, <1>4, <2>1, <3>1, <3>2, Constants DEF LeftoversInv
    <3>9. \A u \in Uids : Nothing(u)' \/ (worker'.at = "write" /\ listed'.uid = 0 /\ worker'.uid = u)
      <4>1. listed'.uid = 0 /\ (worker' = Idle \/ (worker'.at = "write" /\ worker'.uid = worker.uid))
        BY Zenon, <1>1, <1>4
      <4> QED BY Zenon, <3>5, <3>6, <4>1
    <3> QED BY Zenon, <3>2, <3>3, <3>7, <3>8, <3>9 DEF LeftoversInv
  <2> QED BY Zenon, <2>3, <2>4, <2>5, <2>6, <2>7, <2>8
<1>5. Fresh \in Passwords
  BY Zenon, FreshIsNew
<1>6. CASE /\ listed.uid = 0 /\ CreateClusterUserWithRoles(worker.uid, Fresh) /\ CreateClusterRoles(worker.uid)
           /\ worker' = [worker EXCEPT !.at = "write", !.user = worker.uid, !.password = Fresh]
           /\ queued' = queued /\ happened' = happened \cup Renewal
  <2>1. /\ worker' \in Workers /\ worker'.at = "write" /\ worker'.uid = worker.uid
        /\ worker'.tenant = worker.tenant /\ worker'.user = worker.uid /\ worker'.password = Fresh
    BY Zenon, <1>1, <1>5, <1>6 DEF Workers
  <2>2. /\ users' \in [Uids -> Passwords \cup {0}] /\ users'[worker.uid] = Fresh
        /\ \A u \in Uids : u # worker.uid => users'[u] = users[u]
    BY <1>1, <1>5, <1>6 DEF CreateClusterUserWithRoles
  <2>3. roles' \subseteq Uids /\ \A u \in Uids : u # worker.uid => (u \in roles' => u \in roles)
    BY Zenon, <1>1, <1>6, Shapes DEF CreateClusterRoles
  <2> QED BY Zenon, <1>4, <1>6, <2>1, <2>2, <2>3
<1>7. CASE /\ listed.uid = 0 /\ CreateClusterUserWithRoles(worker.uid, Fresh) /\ CreateClusterRoles(worker.uid)
           /\ DisturbAnd("cni", Renewal) /\ Return(TRUE)
  <2>1. worker' = Idle /\ worker' \in Workers /\ queued' = TRUE
    BY Zenon, <1>7, Constants DEF Return
  <2>2. /\ users' \in [Uids -> Passwords \cup {0}]
        /\ \A u \in Uids : u # worker.uid => users'[u] = users[u]
    BY <1>1, <1>5, <1>7 DEF CreateClusterUserWithRoles
  <2>3. roles' \subseteq Uids /\ \A u \in Uids : u # worker.uid => (u \in roles' => u \in roles)
    BY Zenon, <1>1, <1>7, Shapes DEF CreateClusterRoles
  <2>4. happened' = happened \cup {"cni"} \cup Renewal /\ "cni" \in happened'
    BY Zenon, <1>7 DEF DisturbAnd
  <2> QED BY Zenon, <1>4, <1>7, <2>1, <2>2, <2>3, <2>4
<1>8. CASE /\ listed.uid = 0
           /\ users' \in {[users EXCEPT ![worker.uid] = p] : p \in {users[worker.uid], 0, Fresh}}
           /\ roles' \in {roles \cup {worker.uid}, roles \ {worker.uid}}
           /\ DisturbAnd("aviError", Renewal \cup Stray) /\ Return(TRUE)
  <2>1. worker' = Idle /\ worker' \in Workers /\ queued' = TRUE
    BY Zenon, <1>8, Constants DEF Return
  <2>2. /\ users' \in [Uids -> Passwords \cup {0}]
        /\ \A u \in Uids : u # worker.uid => users'[u] = users[u]
    <3>1. PICK p \in {users[worker.uid], 0, Fresh} : users' = [users EXCEPT ![worker.uid] = p]
      BY Zenon, <1>8
    <3>2. p \in Passwords \cup {0} /\ users \in [Uids -> Passwords \cup {0}]
      BY Zenon, <1>1, <1>5, <3>1, Shapes
    <3> QED BY <1>1, <3>1, <3>2
  <2>3. roles' \subseteq Uids /\ \A u \in Uids : u # worker.uid => (u \in roles' => u \in roles)
    BY Zenon, <1>1, <1>8, Shapes
  <2>4. happened' = happened \cup {"aviError"} \cup (Renewal \cup Stray)
    BY Zenon, <1>8 DEF DisturbAnd
  <2>5. /\ Stray \subseteq {"stray"}
        /\ "stray" \in Stray \/ (users'[worker.uid] = 0 /\ worker.uid \notin roles')
    BY Zenon DEF Stray
  <2>6. /\ happened \cup Renewal \subseteq happened'
        /\ happened' \subseteq happened \cup Renewal \cup {"cni", "aviError", "stray"}
        /\ "stray" \in happened' \/ (users'[worker.uid] = 0 /\ worker.uid \notin roles')
    BY Zenon, <2>4, <2>5
  <2> QED BY Zenon, <1>4, <1>8, <2>1, <2>2, <2>3, <2>6
<1> QED BY Zenon, <1>3, <1>6, <1>7, <1>8 DEF BuildVKSClusterConfig, disturbance

\* The worker writes the Secret (UpsertAviCredentialsSecret).
LEMMA UpsertKeeps ==
    ASSUME WellFormed, VksInv, UpsertAviCredentialsSecret
    PROVE  VksInv'
<1> USE DEF VksInv
<1>1. /\ worker.at = "write" /\ worker.at # "idle" /\ worker' = Idle
      /\ UNCHANGED <<cluster, tenant, users, roles, objects, cleanups, timer>>
  BY Zenon DEF UpsertAviCredentialsSecret, aviState, Return
<1>2. /\ worker.uid \in Uids /\ worker.uid # 0 /\ worker.tenant \in Tenants /\ worker.tenant # None
      /\ worker.user \in Uids /\ worker.password \in Passwords
  BY Zenon, <1>1 DEF ShapeInv, WellFormed
<1>3. PICK data : data = SecretData
  BY Zenon
<1>4. /\ data \in Secrets /\ data.uid = worker.uid /\ data.user = worker.user
      /\ data.password = worker.password /\ data.tenant = worker.tenant /\ data.label = TRUE
  BY <1>2, <1>3 DEF SecretData, Secrets
<1>5. Whole(data) /\ data.uid # 0
  BY Zenon, <1>2, <1>4 DEF Whole
<1>6. worker' \in Workers /\ worker'.at = "idle" /\ worker'.uid = 0
  BY Zenon, <1>1, Constants
<1>7. cluster.uid = 0 => "deletion" \in happened
  BY Zenon, <1>1 DEF HistoryInv, Pristine
<1>8. \/ /\ listed.uid = 0 /\ secret.uid = 0 /\ secret' = data /\ current' = FALSE /\ queued' = queued
         /\ UNCHANGED <<listed, events, happened>>
      \/ /\ listed.uid = 0 /\ queued' = TRUE
         /\ \/ secret.uid # 0 /\ happened' = happened
            \/ happened' = happened \cup {"kubeError"}
         /\ UNCHANGED <<secret, listed, current, events>>
      \/ /\ listed.uid # 0 /\ listed = data /\ queued' = queued
         /\ UNCHANGED <<secret, listed, current, events, happened>>
      \/ /\ listed.uid # 0 /\ current /\ secret' = data /\ listed' = data /\ current' = FALSE
         /\ queued' = queued /\ UNCHANGED <<events, happened>>
      \/ /\ listed.uid # 0 /\ listed' = data /\ queued' = TRUE
         /\ \/ ~current /\ happened' = happened
            \/ happened' = happened \cup {"kubeError"}
         /\ UNCHANGED <<secret, current, events>>
  <2>1. /\ (Return(FALSE) => queued' = queued) /\ (Return(TRUE) => queued' = TRUE)
        /\ (UNCHANGED disturbance => happened' = happened)
        /\ (Disturb("kubeError") => happened' = happened \cup {"kubeError"})
        /\ (UNCHANGED secretState => UNCHANGED <<secret, listed, current, events>>)
    BY Zenon, Shapes DEF Return, disturbance, Disturb, DisturbAnd, secretState
  <2>2. SecretCreated(data) => secret' = data /\ current' = FALSE /\ UNCHANGED <<listed, events>>
    BY Zenon DEF SecretCreated
  <2> QED BY Zenon, <1>3, <2>1, <2>2 DEF UpsertAviCredentialsSecret
<1>9. /\ happened \subseteq happened' /\ ("stripped" \in happened' <=> "stripped" \in happened)
      /\ ("deletion" \in happened' => "deletion" \in happened)
      /\ ("raced" \in happened' => "raced" \in happened)
      /\ queued' \in BOOLEAN /\ current' \in BOOLEAN
  BY Zenon, <1>8, Shapes
<1>10. (secret' = secret \/ secret' = data) /\ (listed' = listed \/ listed' = data) /\ events' = events
  BY Zenon, <1>8
<1>11. TypeOK'
  <2>1. {secret', listed'} \subseteq Secrets /\ {current', events', queued', timer'} \subseteq BOOLEAN
    BY Zenon, <1>1, <1>4, <1>9, <1>10, Shapes
  <2> QED BY Zenon, <1>1, <1>6, <2>1 DEF TypeOK, Workers
<1>12. ShapeInv'
  <2>1. Whole(secret)' /\ Whole(listed)'
    BY Zenon, <1>5, <1>10 DEF ShapeInv, Whole
  <2> QED BY Zenon, <1>1, <1>6, <2>1 DEF ShapeInv
<1>13. HistoryInv'
  BY Zenon, <1>1, <1>7, <1>9 DEF HistoryInv
<1>14. SecretInv'
  <2>1. /\ (ShouldManage' <=> ShouldManage) /\ (CleaningUp' <=> CleaningUp) /\ (Labelled' => Labelled)
        /\ (NoneOf({"label", "again"})' => NoneOf({"label", "again"}))
    BY Zenon, <1>1, <1>9, Earlier DEF ShouldManage, CleaningUp
  <2>2. "kubeError" \notin happened' /\ current' => listed' = secret'
    <3>1. CASE current' = FALSE
      BY Zenon, <3>1
    <3>2. CASE UNCHANGED <<secret, listed, current>>
      BY Zenon, <1>9, <3>2, Earlier DEF SecretInv
    <3> QED BY Zenon, <1>8, <3>1, <3>2
  <2>3. "stripped" \notin happened' =>
          (secret'.uid # 0 => secret'.label) /\ (~current' /\ secret'.uid = 0 => events')
    <3>1. CASE secret' = data
      BY Zenon, <1>4, <1>5, <3>1
    <3>2. CASE UNCHANGED <<secret, current, events>>
      BY Zenon, <1>9, <3>2 DEF SecretInv
    <3> QED BY Zenon, <1>8, <3>1, <3>2
  <2>4. ShouldManage' /\ NoneOf({"label", "again"})' =>
          ~CleaningUp' /\ {secret'.uid, listed'.uid, worker'.uid} \subseteq {0, cluster'.uid}
    BY Zenon, <1>1, <1>4, <1>6, <1>10, <2>1 DEF SecretInv
  <2>5. ShouldManage' /\ "stripped" \in happened' /\ Labelled' => secret'.uid # 0
    BY Zenon, <1>5, <1>9, <1>10, <2>1 DEF SecretInv
  <2>6. ShouldManage' /\ "kubeError" \notin happened' /\ Labelled' => InOrder' \/ AnotherTurn'
    <3> SUFFICES ASSUME ShouldManage', "kubeError" \notin happened', Labelled' PROVE InOrder' \/ AnotherTurn'
      BY Zenon
    <3>1. CASE queued' = TRUE
      BY Zenon, <3>1 DEF AnotherTurn
    <3>2. CASE queued' # TRUE
      <4>1. worker.uid = cluster.uid
        BY Zenon, <1>1, <1>8, <2>1, <3>2, Shapes DEF SecretInv
      <4>2. data.uid = cluster'.uid /\ data.label /\ data.tenant # None
        BY Zenon, <1>1, <1>2, <1>4, <4>1
      <4>3. CASE secret' = data
        BY Zenon, <4>2, <4>3 DEF InOrder
      <4>4. CASE listed' = data /\ secret' # data
        <5>1. listed.uid # 0 /\ listed = data /\ UNCHANGED <<secret, listed, current, events, happened>>
          BY Zenon, <1>5, <1>8, <3>2, <4>4
        <5>2. ~current
          BY Zenon, <4>4, <5>1 DEF SecretInv
        <5>3. secret.uid = 0 => events
          BY Zenon, <2>1, <5>1, <5>2 DEF SecretInv
        <5>4. ToCome'
          BY Zenon, <4>2, <4>4, <5>1, <5>3 DEF ToCome
        <5> QED BY Zenon, <5>1, <5>2, <5>4 DEF AnotherTurn
      <4> QED BY Zenon, <1>8, <3>2, <4>3, <4>4
    <3> QED BY Zenon, <3>1, <3>2
  <2> QED BY Zenon, <1>6, <2>2, <2>3, <2>4, <2>5, <2>6 DEF SecretInv
<1>15. CredentialsInv'
  <2> SUFFICES ASSUME NoneOf(Unfinished)' PROVE CredentialsInv'
    BY Zenon DEF CredentialsInv
  <2>1. NoneOf(Unfinished) /\ "kubeError" \notin happened /\ "kubeError" \notin happened'
    BY Zenon, <1>9, Earlier DEF NoneOf, Unfinished
  <2>2. secret'.uid # 0 /\ listed'.uid # 0 => SameCredentials(secret', listed')
    BY Zenon, <1>1, <1>4, <1>5, <1>8, <2>1 DEF CredentialsInv, SameCredentials
  <2>3. secret'.uid # 0 => Valid(secret)' \/ \E c \in Cleanups : cleanups'[c].at \in {"roles", "secret"}
    <3>1. CASE secret' = secret
      BY Zenon, <1>1, <2>1, <3>1 DEF CredentialsInv, Valid
    <3>2. CASE listed.uid = 0 /\ secret' = data /\ secret.uid = 0
      BY Zenon, <1>1, <1>4, <1>5, <2>1, <3>2 DEF CredentialsInv, Valid
    <3>3. CASE listed.uid # 0 /\ current /\ secret' = data
      <4>1. listed = secret /\ SameCredentials(data, secret)
        BY Zenon, <1>1, <1>4, <2>1, <3>3 DEF CredentialsInv, SecretInv, SameCredentials
      <4> QED BY Zenon, <1>1, <1>5, <2>1, <3>3, <4>1 DEF CredentialsInv, Valid, SameCredentials
    <3> QED BY Zenon, <1>8, <3>1, <3>2, <3>3
  <2> QED BY Zenon, <1>6, <2>2, <2>3 DEF CredentialsInv, SameCredentials
<1>16. LeftoversInv'
  <2> SUFFICES ASSUME NoneOf(Untraceable)' PROVE LeftoversInv'
    BY Zenon DEF LeftoversInv
  <2>1. NoneOf(Untraceable) /\ NoneOf(Unfinished) /\ "kubeError" \notin happened /\ "kubeError" \notin happened'
    BY Zenon, <1>9, Earlier, Traceable DEF NoneOf, Untraceable
  <2>2. ~CleaningUp /\ ~CleaningUp'
    BY Zenon, <1>1, <2>1 DEF LeftoversInv, CleaningUp
  <2>3. \A c \in Cleanups : cleanups'[c] = Done /\ cleanups[c].at = "done" /\ StageInv(c)'
    BY Zenon, <2>2, <1>1, Constants DEF CleaningUp, StageInv
  <2>4. worker.uid = 1 /\ worker.tenant = tenant
    BY Zenon, <1>1, <1>2, <2>1 DEF LeftoversInv
  <2>5. Home(secret)' /\ Home(listed)'
    BY Zenon, <1>1, <1>4, <1>10, <2>1, <2>4 DEF LeftoversInv, Home
  <2>6. {cluster.uid, secret.uid, listed.uid, worker.uid}' \cup {cleanups[c].uid : c \in Cleanups}' \subseteq {0, 1}
    <3>1. secret'.uid \in {0, 1} /\ listed'.uid \in {0, 1} /\ worker'.uid = 0
      BY Zenon, <1>4, <1>6, <1>10, <2>1, <2>4 DEF LeftoversInv
    <3>2. cluster'.uid \in {0, 1} /\ \A c \in Cleanups : cleanups'[c].uid \in {0, 1}
      BY Zenon, <1>1, <2>1 DEF LeftoversInv
    <3> QED BY Zenon, <3>1, <3>2
  <2>7. \A u \in Uids : Nothing(u)' <=> Nothing(u)
    BY Zenon, <1>1 DEF Nothing
  <2>8. \A u \in Uids : Nothing(u)' \/ (u = 1 /\ Named(u)')
    <3>1. SUFFICES ASSUME NEW u \in Uids, ~Nothing(u) PROVE u = 1 /\ Named(u)'
      BY Zenon, <2>7
    <3>2. \/ u = 1 /\ Named(u)
          \/ listed.uid = 0 /\ worker.uid = u
      BY Zenon, <2>1, <2>3, <3>1 DEF LeftoversInv
    <3>3. CASE u = 1 /\ Named(u)
      <4>1. CASE secret' = secret
        BY Zenon, <1>1, <3>3, <4>1 DEF Named, Valid
      <4>2. CASE listed.uid # 0 /\ current /\ secret' = data
        <5>1. SameCredentials(data, secret)
          BY Zenon, <1>1, <1>4, <2>1, <4>2 DEF CredentialsInv, SecretInv, SameCredentials
        <5> QED BY Zenon, <1>1, <1>4, <1>5, <2>4, <3>3, <4>2, <5>1 DEF Named, Valid, SameCredentials
      <4>3. secret.uid # 0
        BY Zenon, <3>3 DEF Named, WellFormed
      <4> QED BY Zenon, <1>8, <4>1, <4>2, <4>3
    <3>4. CASE listed.uid = 0 /\ worker.uid = u
      <4>1. secret.uid = 0 /\ Valid(worker)
        BY Zenon, <1>1, <2>1, <3>4 DEF CredentialsInv
      <4>2. secret' = data
        BY Zenon, <1>8, <2>1, <3>4, <4>1
      <4> QED BY Zenon, <1>1, <1>4, <1>5, <2>4, <3>4, <4>1, <4>2 DEF Named, Valid
    <3> QED BY Zenon, <3>2, <3>3, <3>4
  <2> QED BY Zenon, <1>1, <1>6, <1>9, <2>1, <2>2, <2>3, <2>5, <2>6, <2>8 DEF LeftoversInv
<1> QED BY Zenon, <1>11, <1>12, <1>13, <1>14, <1>15, <1>16

\* A goroutine goes on to another stage of cleanupClusterAviObjects, or ends.
Moved(g, s) ==
    /\ cleanups' \in [Cleanups -> Stages]
    /\ cleanups'[g].at = s /\ cleanups'[g].uid = cleanups[g].uid
    /\ \A c \in Cleanups : c # g => cleanups'[c] = cleanups[c]
Ended(g) ==
    /\ cleanups' \in [Cleanups -> Stages] /\ cleanups'[g] = Done
    /\ \A c \in Cleanups : c # g => cleanups'[c] = cleanups[c]
LEMMA FinishEnds ==
    ASSUME TypeOK, NEW g \in Cleanups, Finish(g)
    PROVE  Ended(g)
<1>1. cleanups \in [Cleanups -> Stages] /\ Done \in Stages
  BY Zenon, Shapes, Constants
<1> QED BY <1>1 DEF Finish, Ended
LEMMA ProceedMoves ==
    ASSUME TypeOK, NEW g \in Cleanups, Proceed(g)
    PROVE  /\ cleanups[g].at = "objects" => Moved(g, "user")
           /\ cleanups[g].at = "user" => Moved(g, "roles")
           /\ cleanups[g].at = "roles" => Moved(g, "secret")
           /\ cleanups[g].at = "secret" => Ended(g)
<1>1. cleanups \in [Cleanups -> Stages] /\ cleanups[g] \in Stages
  BY Zenon, Shapes
<1>2. ASSUME NEW s \in {"user", "roles", "secret"}, cleanups' = [cleanups EXCEPT ![g].at = s]
      PROVE  Moved(g, s)
  <2>1. [cleanups[g] EXCEPT !.at = s] \in Stages
    BY <1>1 DEF Stages
  <2>2. cleanups' = [cleanups EXCEPT ![g] = [cleanups[g] EXCEPT !.at = s]]
    BY Zenon, <1>2
  <2>3. cleanups'[g] = [cleanups[g] EXCEPT !.at = s]
    BY Zenon, <1>1, <2>2
  <2>4. cleanups'[g].at = s /\ cleanups'[g].uid = cleanups[g].uid
    BY <1>1, <2>3 DEF Stages
  <2>5. cleanups' \in [Cleanups -> Stages] /\ \A c \in Cleanups : c # g => cleanups'[c] = cleanups[c]
    BY Zenon, <1>1, <2>1, <2>2
  <2> QED BY Zenon, <2>4, <2>5 DEF Moved
<1>3. /\ NextStage("objects") = "user" /\ NextStage("user") = "roles"
      /\ NextStage("roles") = "secret" /\ NextStage("secret") = "done"
  BY DEF NextStage
<1>4. cleanups[g].at = "objects" => Moved(g, "user")
  BY Zenon, <1>2, <1>3 DEF Proceed
<1>5. cleanups[g].at = "user" => Moved(g, "roles")
  BY Zenon, <1>2, <1>3 DEF Proceed
<1>6. cleanups[g].at = "roles" => Moved(g, "secret")
  BY Zenon, <1>2, <1>3 DEF Proceed
<1>7. cleanups[g].at = "secret" => Ended(g)
  BY Zenon, <1>3, FinishEnds DEF Proceed
<1> QED BY Zenon, <1>4, <1>5, <1>6, <1>7

\* What a step of a goroutine that leaves the Secret alone keeps.
LEMMA CleanupStep ==
    ASSUME WellFormed, VksInv, NEW g \in Cleanups, cleanups[g].at # "done",
           NEW s \in {"user", "roles", "secret"}, Moved(g, s) \/ Ended(g),
           UNCHANGED <<cluster, secret, listed, current, events, queued, worker>>,
           happened \subseteq happened', "stripped" \in happened' => "stripped" \in happened,
           "deletion" \in happened' => "deletion" \in happened
    PROVE  ShapeInv' /\ HistoryInv' /\ SecretInv'
<1> USE DEF VksInv
<1>1. CleaningUp
  BY Zenon, Constants DEF CleaningUp
<1>2. ShapeInv'
  <2>1. ASSUME NEW c \in Cleanups
        PROVE  IF cleanups'[c].at = "done" THEN cleanups'[c] = Done ELSE cleanups'[c].uid \in Uids
    <3>1. CASE c = g
      BY Zenon, <3>1, Constants DEF Moved, Ended, ShapeInv
    <3>2. CASE c # g
      BY Zenon, <3>2 DEF Moved, Ended, ShapeInv
    <3> QED BY Zenon, <3>1, <3>2
  <2> QED BY Zenon, <2>1 DEF ShapeInv, Whole
<1>3. HistoryInv'
  BY Zenon, <1>1 DEF HistoryInv, Pristine
<1>4. SecretInv'
  <2>1. /\ (ShouldManage' <=> ShouldManage) /\ (Labelled' => Labelled)
        /\ (InOrder' <=> InOrder) /\ (AnotherTurn' <=> AnotherTurn)
        /\ (NoneOf({"label", "again"})' => NoneOf({"label", "again"}))
    BY Zenon, Earlier DEF ShouldManage, InOrder, AnotherTurn, ToCome
  <2> QED BY Zenon, <1>1, <2>1, Earlier DEF SecretInv
<1> QED BY Zenon, <1>2, <1>3, <1>4

\* What there is to know of the one goroutine that cleans up.
LEMMA OneCleanup ==
    ASSUME WellFormed, VksInv, NEW g \in Cleanups, cleanups[g].at # "done", NoneOf(Untraceable)
    PROVE  /\ cleanups[g].uid = 1 /\ cleanups[g].uid \in Uids /\ CleaningUp
           /\ worker.at = "idle" /\ (listed.uid = 0 <=> secret.uid = 0)
           /\ \A c \in Cleanups : c # g => cleanups[c] = Done /\ cleanups[c].at = "done"
           /\ \A u \in Uids : Nothing(u) \/ (u = 1 /\ (Named(u) \/ cleanups[g].at = "roles"))
<1> USE DEF VksInv
<1>1. cleanups[g] # Done /\ CleaningUp /\ cleanups[g].uid \in Uids
  BY Zenon, Constants DEF CleaningUp, ShapeInv
<1>2. cleanups[g].uid = 1
  BY Zenon, <1>1 DEF LeftoversInv, WellFormed
<1>3. worker.at = "idle" /\ (listed.uid = 0 <=> secret.uid = 0)
  BY Zenon, <1>1 DEF LeftoversInv
<1>4. \A c \in Cleanups : c # g => cleanups[c] = Done
  BY Zenon, <1>1 DEF LeftoversInv
<1>5. \A c \in Cleanups : c # g => cleanups[c].at = "done"
  BY Zenon, <1>4, Constants
<1>6. \A u \in Uids : Nothing(u) \/ (u = 1 /\ (Named(u) \/ cleanups[g].at = "roles"))
  BY Zenon, <1>3, <1>5 DEF LeftoversInv
<1> QED BY Zenon, <1>1, <1>2, <1>3, <1>4, <1>5, <1>6

\* How the invariant about leftovers is kept by a goroutine.
LEMMA LeftoversCleanup ==
    ASSUME WellFormed, VksInv, NEW g \in Cleanups, cleanups[g].at # "done",
           NEW s \in {"user", "roles", "secret"}, Moved(g, s) \/ Ended(g),
           UNCHANGED <<cluster, tenant, listed, worker>>, objects' \subseteq objects,
           happened \subseteq happened', "raced" \in happened' => "raced" \in happened,
           secret' = secret \/ (secret' = NoSecret /\ Ended(g)),
           NoneOf(Untraceable)' => \A u \in Uids : u # 1 => Nothing(u)',
           NoneOf(Untraceable)' /\ Moved(g, s) => StageInv(g)',
           NoneOf(Untraceable)' => \A u \in Uids : Nothing(u)' \/ Named(u)' \/ (Moved(g, s) /\ s = "roles")
    PROVE  LeftoversInv'
<1> USE DEF VksInv
<1> SUFFICES ASSUME NoneOf(Untraceable)' PROVE LeftoversInv'
  BY Zenon DEF LeftoversInv
<1>1. NoneOf(Untraceable)
  BY Zenon, Earlier
<1>2. /\ cleanups[g].uid = 1 /\ worker.at = "idle" /\ (listed.uid = 0 <=> secret.uid = 0)
      /\ \A c \in Cleanups : c # g => cleanups'[c] = Done
  BY Zenon, <1>1, OneCleanup DEF Moved, Ended
<1>3. Home(secret)' /\ Home(listed)' /\ secret'.uid \in {0, secret.uid}
  BY Zenon, <1>1, Constants DEF LeftoversInv, Home
<1>4. cleanups'[g].uid \in {0, 1}
  BY Zenon, <1>2, Constants DEF Moved, Ended
<1>5. {cluster.uid, secret.uid, listed.uid, worker.uid}' \cup {cleanups[c].uid : c \in Cleanups}' \subseteq {0, 1}
  <2>1. \A c \in Cleanups : cleanups'[c].uid \in {0, 1}
    BY Zenon, <1>2, <1>4, Constants
  <2>2. cluster'.uid \in {0, 1} /\ secret'.uid \in {0, 1} /\ listed'.uid \in {0, 1} /\ worker'.uid \in {0, 1}
    BY Zenon, <1>1, <1>3 DEF LeftoversInv
  <2> QED BY Zenon, <2>1, <2>2
<1>6. CleaningUp' => secret' = secret
  BY Zenon, <1>2 DEF CleaningUp, Ended
<1>7. \A c \in Cleanups : StageInv(c)'
  <2>1. \A c \in Cleanups : cleanups'[c] = Done => StageInv(c)'
    BY Zenon, Constants DEF StageInv
  <2> QED BY Zenon, <1>2, <2>1 DEF Ended
<1>8. \A o \in objects' : o[2] = tenant'
  BY Zenon, <1>1 DEF LeftoversInv
<1>9. Moved(g, s) /\ s = "roles" => \E c \in Cleanups : cleanups'[c].at = "roles"
  BY Zenon DEF Moved
<1>10. \A u \in Uids : \/ Nothing(u)' \/ (u = 1 /\ Named(u)')
                       \/ u = 1 /\ \E c \in Cleanups : cleanups'[c].at = "roles"
  BY Zenon, <1>9
<1>11. "raced" \notin happened'
  BY Zenon, <1>1 DEF LeftoversInv
<1> QED BY Zenon, <1>2, <1>3, <1>5, <1>6, <1>7, <1>8, <1>10, <1>11 DEF LeftoversInv

\* A goroutine deletes the objects (cleanupAviObjects).
LEMMA CleanupObjectsKeeps ==
    ASSUME WellFormed, VksInv, NEW g \in Cleanups, CleanupAviObjects(g)
    PROVE  VksInv'
<1> USE DEF VksInv
<1>1. /\ cleanups[g].at = "objects" /\ cleanups[g].at # "done"
      /\ UNCHANGED <<cluster, tenant, secret, listed, current, events, users, roles, queued, worker>>
  BY Zenon DEF CleanupAviObjects, secretState
<1>2. /\ happened \subseteq happened' /\ ("stripped" \in happened' => "stripped" \in happened)
      /\ ("deletion" \in happened' => "deletion" \in happened)
      /\ ("raced" \in happened' => "raced" \in happened)
  <2>1. \/ happened' = happened
        \/ happened' = happened \cup {"objectsError"}
    <3>1. Disturb("objectsError") => happened' = happened \cup {"objectsError"}
      BY Zenon DEF Disturb, DisturbAnd
    <3> QED BY Zenon, <3>1 DEF CleanupAviObjects, disturbance
  <2> QED BY Zenon, <2>1
<1>3. \/ listed.uid = 0 /\ Moved(g, "user") /\ objects' = objects /\ timer' = timer
      \/ /\ listed.uid # 0 /\ listed.tenant # None /\ Moved(g, "user") /\ timer' = timer
         /\ objects' = objects \ {<<cleanups[g].uid, listed.tenant>>}
      \/ Ended(g) /\ objects' \subseteq objects /\ timer' = (timer \/ FALSE)
  BY Zenon, <1>1, ProceedMoves, FinishEnds DEF CleanupAviObjects, RequeueOnError, DeleteAviObjects
<1>4. /\ Moved(g, "user") \/ Ended(g)
      /\ objects' \subseteq objects /\ timer' \in BOOLEAN /\ cleanups' \in [Cleanups -> Stages]
  BY Zenon, <1>3, Shapes DEF Moved, Ended
<1>5. TypeOK'
  BY ZenonT(40), <1>1, <1>4 DEF TypeOK, Stages
<1>6. ShapeInv' /\ HistoryInv' /\ SecretInv'
  BY Zenon, <1>1, <1>2, <1>4, CleanupStep
<1>7. CredentialsInv'
  <2>1. (Valid(worker)' <=> Valid(worker)) /\ (Valid(secret)' <=> Valid(secret)) /\ CleaningUp
    BY Zenon, <1>1, Constants DEF Valid, CleaningUp
  <2>2. \A c \in Cleanups : cleanups[c].at \in {"roles", "secret"} => cleanups'[c].at \in {"roles", "secret"}
    BY Zenon, <1>1, <1>4 DEF Moved, Ended
  <2> QED BY Zenon, <1>1, <1>2, <2>1, <2>2, Earlier DEF CredentialsInv, SameCredentials
<1>8. LeftoversInv'
  <2>1. ASSUME NoneOf(Untraceable)' PROVE NoneOf(Untraceable)
    BY Zenon, <1>2, <2>1, Earlier
  <2>2. \A u \in Uids : (Nothing(u) => Nothing(u)') /\ (Named(u) => Named(u)')
    BY Zenon, <1>1, <1>4 DEF Nothing, Named, Valid
  <2>3. NoneOf(Untraceable)' => \A u \in Uids : Nothing(u)' \/ (u = 1 /\ Named(u)')
    BY Zenon, <1>1, <2>1, <2>2, OneCleanup
  <2>4. ASSUME NoneOf(Untraceable)', Moved(g, "user") PROVE StageInv(g)'
    <3>1. /\ cleanups'[g].at = "user" /\ cleanups'[g].uid = cleanups[g].uid /\ cleanups[g].uid \in Uids
          /\ cleanups[g].uid = 1
      BY Zenon, <1>1, <2>1, <2>4, OneCleanup DEF Moved
    <3>2. \A t \in Tenants : <<cleanups[g].uid, t>> \notin objects'
      <4>1. CASE listed.uid = 0
        <5>1. secret.uid = 0
          BY Zenon, <1>1, <2>1, <2>4, <4>1, OneCleanup
        <5>2. ~Named(cleanups[g].uid)
          BY Zenon, <3>1, <5>1 DEF Named, WellFormed
        <5>3. Nothing(cleanups[g].uid)
          BY Zenon, <1>1, <2>1, <2>4, <3>1, <5>2, OneCleanup
        <5> QED BY Zenon, <1>4, <5>3 DEF Nothing
      <4>2. CASE listed.uid # 0 /\ Ended(g)
        BY Zenon, <3>1, <4>2, Constants DEF Ended
      <4>3. CASE /\ listed.uid # 0 /\ listed.tenant # None
                 /\ objects' = objects \ {<<cleanups[g].uid, listed.tenant>>}
        <5>1. listed.tenant = tenant
          BY Zenon, <2>1, <2>4, <4>3 DEF LeftoversInv, Home
        <5>2. \A t \in Tenants : <<cleanups[g].uid, t>> \in objects => t = tenant
          <6>1. \A o \in objects : o[2] = tenant
            BY Zenon, <2>1, <2>4 DEF LeftoversInv
          <6> QED BY <6>1
        <5> QED BY Zenon, <4>3, <5>1, <5>2
      <4> QED BY Zenon, <1>3, <4>1, <4>2, <4>3
    <3> QED BY Zenon, <3>1, <3>2, <1>1 DEF StageInv
  <2>5. NoneOf(Untraceable)' => \A u \in Uids : u # 1 => Nothing(u)'
    BY Zenon, <2>3
  <2> QED BY Zenon, <1>1, <1>2, <1>4, <2>3, <2>4, <2>5, LeftoversCleanup
<1> QED BY Zenon, <1>5, <1>6, <1>7, <1>8

\* A goroutine deletes the user and the roles (cleanupClusterSpecificRBAC).
LEMMA CleanupRBACKeeps ==
    ASSUME WellFormed, VksInv, NEW g \in Cleanups, CleanupClusterSpecificRBAC(g)
    PROVE  VksInv'
<1> USE DEF VksInv
<1>1. /\ UNCHANGED <<cluster, tenant, secret, listed, current, events, objects, queued, worker>>
      /\ cleanups[g].at \in {"user", "roles"}
  BY Zenon DEF CleanupClusterSpecificRBAC, secretState
<1>2. cleanups[g].at # "done" /\ cleanups[g].uid \in Uids /\ CleaningUp
  BY Zenon, <1>1, Constants DEF ShapeInv, CleaningUp
<1>3. \/ /\ cleanups[g].at = "user" /\ Moved(g, "roles") /\ users' = [users EXCEPT ![cleanups[g].uid] = 0]
         /\ roles' = roles /\ timer' = timer /\ happened' = happened
      \/ /\ cleanups[g].at = "user" /\ Ended(g) /\ users' = users /\ roles' = roles
         /\ timer' \in BOOLEAN
         /\ happened' = happened \cup {"rbacError"} \/ happened' = happened \cup {"expired"}
      \/ /\ cleanups[g].at = "user" /\ Ended(g) /\ users' = [users EXCEPT ![cleanups[g].uid] = 0]
         /\ roles' = roles /\ timer' \in BOOLEAN
         /\ happened' = happened \cup {"rbacError"} \cup {"unanswered"}
      \/ /\ cleanups[g].at = "roles" /\ Moved(g, "secret") /\ users' = users
         /\ roles' = roles \ {cleanups[g].uid} /\ timer' = timer /\ happened' = happened
      \/ /\ cleanups[g].at = "roles" /\ Moved(g, "secret") /\ users' = users
         /\ roles' = roles /\ timer' = timer /\ happened' = happened \cup {"lookupError"}
      \/ /\ cleanups[g].at = "roles" /\ Ended(g) /\ users' = users /\ roles' \subseteq roles
         /\ timer' \in BOOLEAN
         /\ \/ happened' = happened \cup {"rolesError"}
            \/ happened' = happened \cup {"expired"} \cup {"rolesError"}
  <2>1. /\ \A d : Disturb(d) => happened' = happened \cup {d}
        /\ \A d, more : DisturbAnd(d, more) => happened' = happened \cup {d} \cup more
    BY Zenon DEF Disturb, DisturbAnd
  <2>2. \A e \in BOOLEAN : RequeueOnError(g, e) => Ended(g) /\ timer' \in BOOLEAN
    BY Zenon, FinishEnds DEF RequeueOnError
  <2>3. CASE cleanups[g].at = "user"
    BY Zenon, <2>1, <2>2, <2>3, ProceedMoves DEF CleanupClusterSpecificRBAC, disturbance, DeleteClusterUser
  <2>4. CASE cleanups[g].at = "roles"
    BY Zenon, <2>1, <2>2, <2>4, ProceedMoves DEF CleanupClusterSpecificRBAC, disturbance, DeleteClusterRoles
  <2> QED BY Zenon, <1>1, <2>3, <2>4
<1>4. /\ happened \subseteq happened' /\ ("stripped" \in happened' => "stripped" \in happened)
      /\ ("deletion" \in happened' => "deletion" \in happened)
      /\ ("raced" \in happened' => "raced" \in happened)
  BY Zenon, <1>3
<1>5. /\ users' \in [Uids -> Passwords \cup {0}] /\ \A u \in Uids : users'[u] \in {0, users[u]}
      /\ \A u \in Uids : u # cleanups[g].uid => users'[u] = users[u]
      /\ cleanups[g].at = "user" /\ Moved(g, "roles") => users'[cleanups[g].uid] = 0
      /\ cleanups[g].at # "user" => users' = users
  <2>1. users \in [Uids -> Passwords \cup {0}]
    BY Zenon, Shapes
  <2>2. Ended(g) => ~Moved(g, "roles")
    BY Zenon, Constants DEF Ended, Moved
  <2>3. CASE users' = users /\ ~(cleanups[g].at = "user" /\ Moved(g, "roles"))
    BY Zenon, <2>1, <2>3
  <2>4. CASE users' = [users EXCEPT ![cleanups[g].uid] = 0] /\ cleanups[g].at = "user"
    BY <1>2, <2>1, <2>4
  <2> QED BY Zenon, <1>3, <2>2, <2>3, <2>4
<1>6. roles' \subseteq roles /\ timer' \in BOOLEAN /\ cleanups' \in [Cleanups -> Stages]
  BY Zenon, <1>3, Shapes DEF Moved, Ended
<1>7. TypeOK'
  <2>1. roles' \subseteq Uids /\ {current', events', queued', timer'} \subseteq BOOLEAN
    BY Zenon, <1>1, <1>6, Shapes
  <2> QED BY Zenon, <1>1, <1>5, <1>6, <2>1 DEF TypeOK, Stages
<1>8. ShapeInv' /\ HistoryInv' /\ SecretInv'
  BY Zenon, <1>1, <1>2, <1>3, <1>4, CleanupStep
<1>9. CredentialsInv'
  <2> SUFFICES ASSUME NoneOf(Unfinished)' PROVE CredentialsInv'
    BY Zenon DEF CredentialsInv
  <2>1. NoneOf(Unfinished) /\ "rolesError" \notin happened' /\ "unanswered" \notin happened'
    BY Zenon, <1>4, Earlier DEF NoneOf, Unfinished
  <2>2. CASE Moved(g, "roles") \/ Moved(g, "secret")
    BY Zenon, <1>1, <1>2, <2>1, <2>2 DEF CredentialsInv, SameCredentials, Moved
  <2>3. CASE cleanups[g].at = "user" /\ Ended(g) /\ users' = users
    <3>1. Valid(secret)' <=> Valid(secret)
      BY Zenon, <1>1, <2>3 DEF Valid
    <3>2. \A c \in Cleanups : cleanups[c].at \in {"roles", "secret"} => cleanups'[c].at \in {"roles", "secret"}
      BY Zenon, <2>3 DEF Ended
    <3> QED BY Zenon, <1>1, <1>2, <2>1, <3>1, <3>2 DEF CredentialsInv, SameCredentials
  <2> QED BY Zenon, <1>3, <2>1, <2>2, <2>3
<1>10. LeftoversInv'
  <2>1. ASSUME NoneOf(Untraceable)' PROVE /\ NoneOf(Untraceable) /\ "rolesError" \notin happened'
                                               /\ "unanswered" \notin happened'
                                               /\ "lookupError" \notin happened'
    BY Zenon, <1>4, <2>1, Earlier DEF NoneOf, Untraceable
  <2>2. \A u \in Uids : Nothing(u) => Nothing(u)'
    BY Zenon, <1>1, <1>5, <1>6 DEF Nothing
  <2>3. NoneOf(Untraceable)' => \A u \in Uids : u # 1 => Nothing(u)'
    BY Zenon, <1>2, <2>1, <2>2, OneCleanup
  <2>4. CASE cleanups[g].at = "user" /\ Moved(g, "roles")
    <3>1. NoneOf(Untraceable)' => StageInv(g)'
      BY Zenon, <1>1, <1>5, <2>1, <2>4 DEF LeftoversInv, StageInv, Moved
    <3> QED BY Zenon, <1>1, <1>2, <1>4, <2>3, <2>4, <3>1, LeftoversCleanup
  <2>5. CASE cleanups[g].at = "user" /\ Ended(g) /\ users' = users
    <3>1. \A u \in Uids : Named(u) => Named(u)'
      BY Zenon, <1>1, <2>5 DEF Named, Valid
    <3>2. NoneOf(Untraceable)' => \A u \in Uids : Nothing(u)' \/ Named(u)'
      BY Zenon, <1>2, <2>1, <2>2, <2>5, <3>1, OneCleanup
    <3>3. ~Moved(g, "user")
      BY Zenon, <2>5, Constants DEF Ended, Moved
    <3> QED BY Zenon, <1>1, <1>2, <1>4, <2>3, <2>5, <3>2, <3>3, LeftoversCleanup
  <2>6. CASE cleanups[g].at = "roles" /\ Moved(g, "secret") /\ users' = users /\ roles' = roles \ {cleanups[g].uid}
    <3>1. NoneOf(Untraceable)' => StageInv(g)'
      BY Zenon, <1>1, <2>1, <2>6 DEF LeftoversInv, StageInv, Moved
    <3>2. ASSUME NoneOf(Untraceable)', NEW u \in Uids PROVE Nothing(u)'
      <4>1. CASE u = cleanups[g].uid
        BY Zenon, <1>1, <2>1, <2>6, <3>2, <4>1 DEF LeftoversInv, StageInv, Nothing
      <4>2. CASE u # cleanups[g].uid
        BY Zenon, <1>2, <2>1, <2>3, <3>2, <4>2, OneCleanup
      <4> QED BY Zenon, <4>1, <4>2
    <3> QED BY Zenon, <1>1, <1>2, <1>4, <2>3, <2>6, <3>1, <3>2, LeftoversCleanup
  <2>7. CASE \/ "rolesError" \in happened' \/ "unanswered" \in happened'
             \/ "lookupError" \in happened'
    BY Zenon, <2>1, <2>7 DEF LeftoversInv
  <2> QED BY Zenon, <1>3, <2>4, <2>5, <2>6, <2>7
<1> QED BY Zenon, <1>7, <1>8, <1>9, <1>10

\* A goroutine deletes the Secret.
LEMMA DeleteSecretKeeps ==
    ASSUME WellFormed, VksInv, NEW g \in Cleanups, DeleteSecret(g)
    PROVE  VksInv'
<1> USE DEF VksInv
<1>1. /\ UNCHANGED <<cluster, tenant, listed, users, roles, objects, queued, worker, timer>>
      /\ cleanups[g].at = "secret" /\ cleanups[g].at # "done"
  BY Zenon DEF DeleteSecret, secretState, aviState, SecretChanged
<1>2. cleanups[g].uid \in Uids /\ CleaningUp /\ (cluster.uid = 0 => "deletion" \in happened)
  BY Zenon, <1>1, Constants DEF ShapeInv, CleaningUp, HistoryInv, Pristine
<1>3. /\ Ended(g)
      /\ \/ /\ secret.uid # 0 /\ secret' = NoSecret /\ current' = FALSE
            /\ events' = (events \/ secret.label) /\ happened' = happened
         \/ /\ UNCHANGED <<secret, current, events>>
            /\ (secret.uid = 0 /\ happened' = happened) \/ happened' = happened \cup {"kubeError"}
  BY Zenon, <1>1, ProceedMoves, FinishEnds DEF DeleteSecret, SecretChanged, secretState, disturbance, Disturb,
     DisturbAnd
<1>4. /\ happened \subseteq happened' /\ ("stripped" \in happened' => "stripped" \in happened)
      /\ ("deletion" \in happened' => "deletion" \in happened)
      /\ ("raced" \in happened' => "raced" \in happened)
      /\ (secret' = secret \/ secret' = NoSecret) /\ current' \in BOOLEAN /\ events' \in BOOLEAN
  BY Zenon, <1>3, Shapes
<1>5. TypeOK'
  <2>1. {secret', listed'} \subseteq Secrets /\ {current', events', queued', timer'} \subseteq BOOLEAN
    BY Zenon, <1>1, <1>4, Shapes, Constants
  <2>2. cleanups' \in [Cleanups -> Stages]
    BY Zenon, <1>3 DEF Ended
  <2> QED BY Zenon, <1>1, <2>1, <2>2 DEF TypeOK, Stages
<1>6. ShapeInv' /\ HistoryInv' /\ SecretInv'
  <2>1. CASE UNCHANGED <<secret, current, events>>
    BY Zenon, <1>1, <1>3, <1>4, <2>1, CleanupStep
  <2>2. CASE /\ secret.uid # 0 /\ secret' = NoSecret /\ current' = FALSE
             /\ events' = (events \/ secret.label) /\ happened' = happened
    <3>1. ShapeInv'
      <4>1. Whole(secret)' /\ Whole(listed)'
        BY Zenon, <1>1, <2>2, Constants DEF ShapeInv, Whole
      <4>2. ASSUME NEW c \in Cleanups
            PROVE  IF cleanups'[c].at = "done" THEN cleanups'[c] = Done ELSE cleanups'[c].uid \in Uids
        BY Zenon, <1>3, Constants DEF Ended, ShapeInv
      <4> QED BY Zenon, <1>1, <4>1, <4>2 DEF ShapeInv
    <3>2. HistoryInv'
      BY Zenon, <1>1, <1>2, <2>2 DEF HistoryInv
    <3>3. SecretInv'
      <4>1. /\ (ShouldManage' <=> ShouldManage) /\ (Labelled' <=> Labelled) /\ secret'.uid = 0
            /\ (NoneOf({"label", "again"})' <=> NoneOf({"label", "again"}))
        BY Zenon, <1>1, <2>2, Constants DEF ShouldManage, Labelled, NoneOf
      <4>2. ~(ShouldManage /\ NoneOf({"label", "again"}))
        BY Zenon, <1>2 DEF SecretInv
      <4>3. ~(ShouldManage /\ "stripped" \in happened /\ Labelled)
        BY Zenon, <4>2 DEF Labelled, NoneOf
      <4>4. "stripped" \notin happened => events'
        BY Zenon, <2>2 DEF SecretInv
      <4>5. ShouldManage' /\ Labelled' => AnotherTurn'
        BY Zenon, <2>2, <4>1, <4>3, <4>4 DEF AnotherTurn, ToCome
      <4> QED BY Zenon, <1>1, <2>2, <4>1, <4>2, <4>3, <4>4, <4>5 DEF SecretInv
    <3> QED BY Zenon, <3>1, <3>2, <3>3
  <2> QED BY Zenon, <1>3, <2>1, <2>2
<1>7. CredentialsInv'
  <2> SUFFICES ASSUME NoneOf(Unfinished)' PROVE CredentialsInv'
    BY Zenon DEF CredentialsInv
  <2>1. NoneOf(Unfinished) /\ "kubeError" \notin happened'
    BY Zenon, <1>4, Earlier DEF NoneOf, Unfinished
  <2>2. secret'.uid = 0
    BY Zenon, <1>3, <2>1, Constants
  <2> QED BY Zenon, <1>1, <1>2, <2>1, <2>2 DEF CredentialsInv, SameCredentials
<1>8. LeftoversInv'
  <2>1. ASSUME NoneOf(Untraceable)', NEW u \in Uids PROVE Nothing(u)'
    <3>1. NoneOf(Untraceable)
      BY Zenon, <1>4, <2>1, Earlier
    <3>2. Nothing(u)
      <4>1. CASE u = cleanups[g].uid
        BY Zenon, <1>1, <3>1, <4>1 DEF LeftoversInv, StageInv, Nothing
      <4>2. CASE u # cleanups[g].uid
        BY Zenon, <1>1, <3>1, <4>2, OneCleanup
      <4> QED BY Zenon, <4>1, <4>2
    <3> QED BY Zenon, <1>1, <3>2 DEF Nothing
  <2>2. ~Moved(g, "secret")
    BY Zenon, <1>3, Constants DEF Ended, Moved
  <2> QED BY Zenon, <1>1, <1>3, <1>4, <2>1, <2>2, LeftoversCleanup
<1> QED BY Zenon, <1>5, <1>6, <1>7, <1>8

\* The invariant holds at the start.
LEMMA InitIsSafe ==
    ASSUME WellFormed, Init
    PROVE  VksInv
<1>1. /\ cluster = NoCluster /\ tenant \in Tenants /\ secret = NoSecret /\ listed = NoSecret
      /\ current = TRUE /\ events = FALSE /\ users = [u \in Uids |-> 0] /\ roles = {} /\ objects = {}
      /\ queued = FALSE /\ worker = Idle /\ cleanups = [c \in Cleanups |-> Done] /\ timer = FALSE
      /\ happened = {}
  BY Zenon DEF Init
<1>2. \A c \in Cleanups : cleanups[c] = Done /\ cleanups[c].at = "done" /\ cleanups[c].uid = 0
  BY Zenon, <1>1, Constants
<1>3. ~CleaningUp /\ worker.at = "idle" /\ worker.uid = 0 /\ secret.uid = 0 /\ cluster.uid = 0 /\ ~ShouldManage
  BY Zenon, <1>1, <1>2, Constants DEF CleaningUp, ShouldManage
<1>4. TypeOK
  <2>1. users \in [Uids -> Passwords \cup {0}] /\ cleanups \in [Cleanups -> Stages]
    BY Zenon, <1>1, Constants
  <2>2. roles \subseteq Uids /\ objects \subseteq Uids \X Tenants
    BY Zenon, <1>1
  <2> QED BY Zenon, <1>1, <2>1, <2>2, Constants, Typed
<1>5. ShapeInv
  BY Zenon, <1>1, <1>2, <1>3 DEF ShapeInv, Whole
<1>6. HistoryInv
  BY Zenon, <1>1, <1>3 DEF HistoryInv, Pristine
<1>7. SecretInv
  BY Zenon, <1>1, <1>3 DEF SecretInv
<1>8. CredentialsInv
  BY Zenon, <1>1, <1>3 DEF CredentialsInv
<1>9. LeftoversInv
  <2>1. \A u \in Uids : Nothing(u)
    BY Zenon, <1>1 DEF Nothing
  <2>2. \A c \in Cleanups : StageInv(c)
    BY Zenon, <1>2 DEF StageInv
  <2>3. {cluster.uid, secret.uid, listed.uid, worker.uid} \cup {cleanups[c].uid : c \in Cleanups} \subseteq {0, 1}
    BY Zenon, <1>1, <1>2, <1>3
  <2>4. Home(secret) /\ Home(listed)
    BY Zenon, <1>1, <1>3 DEF Home
  <2> QED BY Zenon, <1>1, <1>2, <1>3, <2>1, <2>2, <2>3, <2>4 DEF LeftoversInv
<1> QED BY Zenon, <1>4, <1>5, <1>6, <1>7, <1>8, <1>9 DEF VksInv

\* Every step keeps the invariant.
LEMMA NextIsSafe ==
    ASSUME WellFormed, VksInv, [Next]_vars
    PROVE  VksInv'
<1>1. CASE Environment
  BY Zenon, <1>1, ClusterAddKeeps, ClusterUpdateKeeps, ClusterDeleteKeeps, NamespaceKeeps,
     CreateObjectsKeeps, OutOfBandKeeps, RestartKeeps DEF Environment
<1>2. CASE ProcessClusterEvent
  BY Zenon, <1>2, HandleClusterKeeps, BuildKeeps, UpsertKeeps DEF ProcessClusterEvent
<1>3. CASE VKSSecretEventHandler \/ TimerFires \/ ReconcileAllClusters
  BY Zenon, <1>3, DeliverKeeps, TimerKeeps, ReconcileKeeps
<1>4. ASSUME NEW c \in Cleanups, Cleanup(c) PROVE VksInv'
  BY Zenon, <1>4, CleanupObjectsKeeps, CleanupRBACKeeps, DeleteSecretKeeps DEF Cleanup
<1>5. CASE UNCHANGED vars
  <2>1. /\ UNCHANGED <<cluster, tenant, secret, listed, current, events, users, roles, objects>>
        /\ UNCHANGED <<queued, worker, cleanups, timer, happened>>
    BY Zenon, <1>5 DEF vars
  <2>2. TypeOK'
    BY Zenon, <2>1 DEF VksInv, TypeOK
  <2>3. ShapeInv' /\ HistoryInv' /\ SecretInv' /\ CredentialsInv'
    BY Zenon, <2>1, ShapeFrame, HistoryFrame, SecretFrame, CredentialsFrame DEF VksInv
  <2>4. NoneOf(Untraceable)' => cluster'.uid \in {0, 1}
    BY Zenon, <2>1, Earlier DEF VksInv, LeftoversInv
  <2>5. LeftoversInv'
    BY Zenon, <2>1, <2>4, LeftoversFrame DEF VksInv
  <2> QED BY Zenon, <2>2, <2>3, <2>5 DEF VksInv
<1> QED BY Zenon, <1>1, <1>2, <1>3, <1>4, <1>5 DEF Next

\* What the invariant says of the Secret and of what is left on the controller.
LEMMA InvIsSound ==
    ASSUME WellFormed, VksInv
    PROVE  VksSound
<1> USE DEF VksInv
<1>1. SecretOfCluster
  <2>1. Quiet => ~AnotherTurn
    BY Zenon DEF Quiet, AnotherTurn
  <2>2. NoneOf({"kubeError"}) => "kubeError" \notin happened
    BY Zenon DEF NoneOf
  <2> QED BY Zenon, <2>1, <2>2 DEF SecretOfCluster, SecretInv, Labelled, InOrder
<1>2. CredentialsWork
  <2>1. Quiet => \A c \in Cleanups : cleanups[c].at = "done"
    BY Zenon, Constants DEF Quiet, CleaningUp
  <2> QED BY Zenon, <2>1 DEF CredentialsWork, CredentialsInv
<1>3. LeftoversAreNamed
  <2> SUFFICES ASSUME NoneOf(Untraceable), NEW u \in Uids \ ({cluster.uid} \cup {worker.uid}), ~Nothing(u)
               PROVE  (\E c \in Cleanups : cleanups[c].uid = u) \/ Named(u)
    BY Zenon DEF LeftoversAreNamed, Nothing, Named
  <2>1. CASE u = 1 /\ \E c \in Cleanups : cleanups[c].at = "roles"
    BY Zenon, <2>1, OneCleanup
  <2> QED BY Zenon, <2>1 DEF LeftoversInv
<1> QED BY Zenon, <1>1, <1>2, <1>3 DEF VksSound

\* When the watcher rests, the Secret of a managed cluster exists, is that of this
\* cluster and carries the label, whoever changed it, whatever clean-up ran late and
\* wherever ako-infra ended; its user can log in, unless a clean-up was cut short or
\* the credentials were made beside another one; and what a cluster has left on the
\* controller is named by its Secret as long as no goroutine works on it: for any
\* tenants, passwords, goroutines and disturbances (ProcessClusterEvent,
\* UpsertAviCredentialsSecret, cleanupClusterAviObjects and reconcileAllClusters).
THEOREM WatcherIsSound ==
    ASSUME WellFormed
    PROVE  Spec => [](TypeOK /\ VksSound)
<1>1. Init => VksInv
  BY Zenon, InitIsSafe
<1>2. VksInv /\ [Next]_vars => VksInv'
  BY Zenon, NextIsSafe
<1>3. VksInv => TypeOK /\ VksSound
  BY Zenon, InvIsSound DEF VksInv
<1> QED BY <1>1, <1>2, <1>3, PTL DEF Spec
=============================================================================
