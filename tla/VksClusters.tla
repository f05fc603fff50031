----------------------------- MODULE VksClusters -----------------------------
(***************************************************************************)
(* The VKS cluster watcher of ako-infra for one cluster name: the cluster, *)
(* the Secret the watcher keeps for it, the user, the roles and the        *)
(* objects it has on the Avi controller, the worker of the queue, the      *)
(* goroutines that clean up, and the periodic reconciler.  A cluster that  *)
(* is created again under the name has a new uid.                          *)
(***************************************************************************)
EXTENDS Naturals, FiniteSets

CONSTANTS
    Uids,          \* 1..n, in the order the clusters are created
    Passwords,     \* what generateSecurePassword returns; 0: none
    Tenants,       \* values of the annotations of the namespace
    None,
    Cleanups,      \* names for the goroutines that may run at a time
    Disturbances, MaxDisturbances

VARIABLES
    cluster,       \* the cluster in the informer: uid (0: none), phase, managed
    tenant,        \* getNamespaceConfig
    secret,        \* <cluster>-avi-secret in the API server
    listed,        \* the object of the Secret informer, which the worker edits
    current,       \* listed is of the last version
    events,        \* a change the informer has yet to deliver is one to act upon
    users,         \* password of the user of a uid; 0: no user
    roles,         \* uids with roles
    objects,       \* uids with objects, by tenant
    queued,        \* the work queue holds the cluster
    worker,
    cleanups,      \* stage of every goroutine of cleanupClusterAviObjects
    timer,         \* the AfterFunc of requeueOnError is pending
    left, happened \* disturbances: still possible, and past (history)

vars == <<cluster, tenant, secret, listed, current, events, users, roles,
          objects, queued, worker, cleanups, timer, left, happened>>
aviState == <<users, roles, objects>>
secretState == <<secret, listed, current, events>>
disturbance == <<left, happened>>

NoSecret == [uid |-> 0, user |-> 0, password |-> 0, tenant |-> None, label |-> FALSE]
NoCluster == [uid |-> 0, phase |-> "none", managed |-> FALSE]
Idle == [at |-> "idle", uid |-> 0, user |-> 0, password |-> 0, tenant |-> None]
Done == [at |-> "done", uid |-> 0]

Init ==
    /\ cluster = NoCluster /\ tenant \in Tenants
    /\ secret = NoSecret /\ listed = NoSecret /\ current = TRUE /\ events = FALSE
    /\ users = [u \in Uids |-> 0] /\ roles = {} /\ objects = {}
    /\ queued = FALSE /\ worker = Idle
    /\ cleanups = [c \in Cleanups |-> Done] /\ timer = FALSE
    /\ left = MaxDisturbances /\ happened = {}

DisturbAnd(d, more) ==
    /\ d \in Disturbances /\ left > 0
    /\ left' = left - 1 /\ happened' = happened \cup {d} \cup more
Disturb(d) == DisturbAnd(d, {})
NoneOf(ds) == happened \cap ds = {}

\* The controller: avi_rbac.go and deleteAviObjects
CreateClusterRoles(u) == roles' = roles \cup {u}
CreateClusterUserWithRoles(u, password) == users' = [users EXCEPT ![u] = password]
DeleteClusterUser(u) == users' = [users EXCEPT ![u] = 0]
DeleteAviObjects(u, t) == objects' = objects \ {<<u, t>>}

\* Roles that cannot be looked up, for whatever reason, count as deleted.
DeleteClusterRoles(u) ==
    \/ roles' = roles \ {u} /\ UNCHANGED disturbance
    \/ u \in roles /\ UNCHANGED roles /\ Disturb("lookupError")

Valid(s) == s.uid # 0 /\ s.password # 0 /\ users[s.user] = s.password
Fresh == CHOOSE p \in Passwords :
            p \notin {users[u] : u \in Uids} \cup {secret.password, listed.password, worker.password}

-----------------------------------------------------------------------------
(* The cluster, its namespace and its AKO.                                 *)

\* The webhook labels a new cluster of a namespace with annotations, unless its
\* label says no.
ProcessAdmissionRequest(label) == label # "false"

\* AddFunc.  That a cluster is created again is
\* looked at without other disturbances.
ClusterAdd ==
    /\ cluster.uid = 0
    /\ \E u \in Uids, label \in {"none", "true", "false"} :
          /\ \/ u = 1 /\ "deletion" \notin happened /\ UNCHANGED disturbance
             \/ /\ u = 2 /\ "deletion" \in happened
                /\ "again" \in Disturbances /\ left = MaxDisturbances
                /\ left' = 0 /\ happened' = happened \cup {"again"}
          /\ cluster' = [uid |-> u, phase |-> "Provisioned", managed |-> ProcessAdmissionRequest(label)]
    /\ queued' = TRUE
    /\ UNCHANGED <<tenant, secretState, aviState, worker, cleanups, timer>>

\* UpdateFunc enqueues a change of the label or of the phase.
ClusterUpdate ==
    /\ cluster.phase = "Provisioned"
    /\ \/ cluster' = [cluster EXCEPT !.managed = ~@] /\ Disturb("label")
       \/ cluster' = [cluster EXCEPT !.phase = "Deleting"] /\ UNCHANGED disturbance
    /\ queued' = TRUE
    /\ UNCHANGED <<tenant, secretState, aviState, worker, cleanups, timer>>

ClusterDelete ==
    /\ cluster.uid # 0 /\ cluster' = NoCluster
    /\ queued' = TRUE
    /\ happened' = happened \cup {"deletion"}
    /\ UNCHANGED <<tenant, secretState, aviState, worker, cleanups, timer, left>>

\* No handler looks at the namespace.
NamespaceUpdate ==
    /\ tenant' \in Tenants \ {tenant} /\ Disturb("tenant")
    /\ UNCHANGED <<cluster, secretState, aviState, queued, worker, cleanups, timer>>

\* The AKO of the cluster creates objects under the name and in the tenant of the
\* Secret; it starts long after the Secret.
CreateObjects ==
    /\ cluster.phase = "Provisioned" /\ cluster.managed
    /\ secret.uid = cluster.uid /\ secret.tenant # None /\ current /\ Valid(secret)
    /\ objects' = objects \cup {<<secret.uid, secret.tenant>>}
    /\ happened' = happened \cup
          (IF \E c \in Cleanups : cleanups[c].at \notin {"done", "objects"} THEN {"late"} ELSE {})
    /\ UNCHANGED <<cluster, tenant, secretState, users, roles, queued, worker, cleanups,
                   timer, left>>

-----------------------------------------------------------------------------
(* The Secret.                                                             *)

SecretCreated(s) == secret' = s /\ current' = FALSE /\ UNCHANGED <<listed, events>>

\* UpdateFunc and DeleteFunc of AddVKSSecretEventHandler act upon a Secret that had
\* the label and is deleted, changes or loses its label.
SecretChanged(s) ==
    /\ secret' = s /\ current' = FALSE
    /\ events' = (events \/ secret.label)
    /\ UNCHANGED listed

\* Somebody deletes the Secret, its label or a field of it.
OutOfBand ==
    /\ secret.uid # 0
    /\ \/ Disturb("deleted") /\ SecretChanged(NoSecret)
       \/ secret.label /\ Disturb("stripped") /\ SecretChanged([secret EXCEPT !.label = FALSE])
       \/ secret.tenant # None /\ Disturb("edited") /\ SecretChanged([secret EXCEPT !.tenant = None])
    /\ UNCHANGED <<cluster, tenant, aviState, queued, worker, cleanups, timer>>

\* The informer delivers.  UpdateFunc compares with the object it held, which the
\* worker may have edited.
VKSSecretEventHandler ==
    /\ ~current
    /\ listed' = secret /\ current' = TRUE /\ events' = FALSE
    /\ queued' = (queued \/ events \/ (listed.label /\ secret.uid # 0 /\ secret # listed))
    /\ happened' = happened \cup
          (IF worker.at = "write" /\ listed.uid # 0 /\ secret.uid = 0 THEN {"overtaken"} ELSE {})
    /\ UNCHANGED <<cluster, tenant, secret, aviState, worker, cleanups, timer, left>>

-----------------------------------------------------------------------------
(* ProcessClusterEvent                                                     *)

Return(err) == worker' = Idle /\ queued' = (queued \/ err)

CleaningUp == \E c \in Cleanups : cleanups[c] # Done

\* go func() of cleanupClusterAviObjects
Start(u) ==
    /\ \E c \in Cleanups : cleanups[c] = Done /\ cleanups' = [cleanups EXCEPT ![c] = [at |-> "objects", uid |-> u]]
    /\ happened' = happened \cup (IF CleaningUp \/ ~current THEN {"overlap"} ELSE {})
                            \cup (IF worker.at # "idle" THEN {"beside"} ELSE {})
    /\ UNCHANGED left

\* cleanupClusterDependencies; getClusterNameWithUIDFromSecret when the cluster is gone.
CleanupClusterDependencies(u) ==
    IF u # 0 THEN Start(u)
    ELSE IF listed.uid # 0 THEN Start(listed.uid)
    ELSE UNCHANGED <<cleanups, disturbance>>

\* handleClusterAddOrUpdate and handleClusterDeletion
ShouldManage == cluster.managed /\ cluster.phase = "Provisioned"
HandleCluster ==
    /\ worker.at = "idle" /\ queued
    /\ IF ShouldManage
       THEN /\ worker' = [Idle EXCEPT !.at = "credentials", !.uid = cluster.uid, !.tenant = tenant]
            /\ queued' = FALSE
            /\ happened' = happened \cup (IF CleaningUp THEN {"beside"} ELSE {})
            /\ UNCHANGED <<cleanups, left>>
       ELSE /\ worker' = Idle /\ queued' = FALSE
            /\ IF cluster.phase # "Provisioned" \/ listed.uid # 0
               THEN CleanupClusterDependencies(cluster.uid)
               ELSE UNCHANGED <<cleanups, disturbance>>
    /\ UNCHANGED <<cluster, tenant, secretState, aviState, timer>>

Renewal ==
    (IF secret.uid # 0 THEN {"renewed"} ELSE {}) \cup (IF CleaningUp THEN {"raced"} ELSE {})

\* Something is left on the controller that no Secret will name.
Stray == IF users'[worker.uid] # 0 \/ worker.uid \in roles' THEN {"stray"} ELSE {}

\* getCredentialsFromSecret, whatever cluster the Secret was made for; without a
\* Secret createClusterSpecificCredentials makes roles and a user, after deleting
\* a user of the same name.  Roles or a user that were made but cannot be read
\* back are an error like any other; without a user the roles are deleted again,
\* if they are found.
BuildVKSClusterConfig ==
    /\ worker.at = "credentials"
    /\ \/ /\ listed.uid # 0
          /\ worker' = [worker EXCEPT !.at = "write", !.user = listed.user, !.password = listed.password]
          /\ UNCHANGED <<queued, users, roles, disturbance>>
       \/ /\ listed.uid = 0
          /\ CreateClusterUserWithRoles(worker.uid, Fresh)
          /\ CreateClusterRoles(worker.uid)
          /\ \/ /\ worker' = [worker EXCEPT !.at = "write", !.user = worker.uid, !.password = Fresh]
                /\ queued' = queued
                /\ happened' = happened \cup Renewal
                /\ UNCHANGED left
             \/ DisturbAnd("cni", Renewal) /\ Return(TRUE)
       \/ /\ listed.uid = 0
          /\ users' \in {[users EXCEPT ![worker.uid] = p] : p \in {users[worker.uid], 0, Fresh}}
          /\ roles' \in {roles \cup {worker.uid}, roles \ {worker.uid}}
          /\ DisturbAnd("aviError", Renewal \cup Stray)
          /\ Return(TRUE)
    /\ UNCHANGED <<cluster, tenant, secretState, objects, cleanups, timer>>

\* buildSecretData
SecretData ==
    [uid |-> worker.uid, user |-> worker.user, password |-> worker.password,
     tenant |-> worker.tenant, label |-> TRUE]

\* A bug: the labels are not compared.
UpsertIgnoringLabels ==
    /\ worker.at = "write"
    /\ \/ /\ listed.uid = 0
          /\ IF secret.uid = 0 THEN SecretCreated(SecretData) /\ Return(FALSE)
                               ELSE UNCHANGED secretState /\ Return(TRUE)
          /\ UNCHANGED disturbance
       \/ /\ listed.uid # 0 /\ [listed EXCEPT !.label = TRUE] = SecretData
          /\ Return(FALSE) /\ UNCHANGED <<secretState, disturbance>>
       \/ /\ listed.uid # 0 /\ [listed EXCEPT !.label = TRUE] # SecretData
          /\ listed' = SecretData /\ events' = events
          /\ IF current THEN secret' = SecretData /\ current' = FALSE /\ Return(FALSE)
                        ELSE UNCHANGED <<secret, current>> /\ Return(TRUE)
          /\ UNCHANGED disturbance
    /\ UNCHANGED <<cluster, tenant, aviState, cleanups, timer>>

\* Create fails if the Secret exists, Update if listed is an old version, and both
\* may fail.  Before Update the object of the informer becomes what is desired.
UpsertAviCredentialsSecret ==
    /\ worker.at = "write"
    /\ \/ /\ listed.uid = 0
          /\ IF secret.uid = 0 THEN SecretCreated(SecretData) /\ Return(FALSE)
                               ELSE UNCHANGED secretState /\ Return(TRUE)
          /\ UNCHANGED disturbance
       \/ /\ listed.uid = 0 /\ Disturb("kubeError")
          /\ UNCHANGED secretState /\ Return(TRUE)
       \/ /\ listed.uid # 0 /\ listed = SecretData
          /\ Return(FALSE) /\ UNCHANGED <<secretState, disturbance>>
       \/ /\ listed.uid # 0 /\ listed # SecretData
          /\ listed' = SecretData /\ events' = events
          /\ \/ /\ current /\ secret' = SecretData /\ current' = FALSE
                /\ Return(FALSE) /\ UNCHANGED disturbance
             \/ /\ \/ ~current /\ UNCHANGED disturbance
                   \/ current /\ Disturb("kubeError")
                /\ UNCHANGED <<secret, current>> /\ Return(TRUE)
    /\ UNCHANGED <<cluster, tenant, aviState, cleanups, timer>>

-----------------------------------------------------------------------------
(* cleanupClusterAviObjects                                                *)

\* A bug: the Secret is deleted before the user and the roles.
SecretBeforeUser(s) ==
    CASE s = "objects" -> "secret" [] s = "secret" -> "user"
      [] s = "user" -> "roles" [] s = "roles" -> "done"

\* The order of the stages
NextStage(s) ==
    CASE s = "objects" -> "user" [] s = "user" -> "roles"
      [] s = "roles" -> "secret" [] s = "secret" -> "done"

Finish(c) == cleanups' = [cleanups EXCEPT ![c] = Done]
Proceed(c) ==
    LET s == NextStage(cleanups[c].at)
    IN IF s = "done" THEN Finish(c) ELSE cleanups' = [cleanups EXCEPT ![c].at = s]

\* A bug: the clean-up goes on after an error.
RequeueAndProceed(c, expired) == Proceed(c) /\ timer' = (timer \/ expired)

\* requeueOnError.  The errors of the stages are texts that quote those of the
\* Avi client, and IsRetryableError knows the text of an expired session alone.
RequeueOnError(c, expired) == Finish(c) /\ timer' = (timer \/ expired)

\* cleanupAviObjects: nothing to do without a Secret; otherwise the user of the
\* Secret logs in to the tenant of the Secret.  The client is a new one, whose
\* session does not expire.
CleanupAviObjects(c) ==
    /\ cleanups[c].at = "objects"
    /\ \/ /\ listed.uid = 0
          /\ Proceed(c) /\ UNCHANGED <<objects, timer, disturbance>>
       \/ /\ listed.uid # 0 /\ Valid(listed) /\ listed.tenant # None
          /\ DeleteAviObjects(cleanups[c].uid, listed.tenant)
          /\ Proceed(c) /\ UNCHANGED <<timer, disturbance>>
       \/ /\ listed.uid # 0
          /\ IF Valid(listed) /\ listed.tenant # None
             THEN /\ Disturb("objectsError")
                  /\ UNCHANGED objects \/ DeleteAviObjects(cleanups[c].uid, listed.tenant)
             ELSE UNCHANGED <<objects, disturbance>>
          /\ RequeueOnError(c, FALSE)
    /\ UNCHANGED <<cluster, tenant, secretState, users, roles, queued, worker>>

\* DeleteClusterUser and DeleteClusterRoles of cleanupClusterSpecificRBAC; the
\* shared client's session may have expired, and a request that fails may have
\* been carried out.
CleanupClusterSpecificRBAC(c) ==
    /\ \/ /\ cleanups[c].at = "user"
          /\ \/ /\ DeleteClusterUser(cleanups[c].uid)
                /\ Proceed(c) /\ UNCHANGED <<timer, disturbance>>
             \/ Disturb("rbacError") /\ UNCHANGED users /\ RequeueOnError(c, FALSE)
             \/ /\ DisturbAnd("rbacError", {"unanswered"})
                /\ DeleteClusterUser(cleanups[c].uid) /\ RequeueOnError(c, FALSE)
             \/ Disturb("expired") /\ UNCHANGED users /\ RequeueOnError(c, TRUE)
          /\ UNCHANGED roles
       \/ /\ cleanups[c].at = "roles"
          /\ \/ /\ DeleteClusterRoles(cleanups[c].uid)
                /\ Proceed(c) /\ UNCHANGED timer
             \/ /\ Disturb("rolesError") /\ RequeueOnError(c, FALSE)
                /\ roles' \in {roles, roles \ {cleanups[c].uid}}
             \/ DisturbAnd("expired", {"rolesError"}) /\ UNCHANGED roles /\ RequeueOnError(c, TRUE)
          /\ UNCHANGED users
    /\ UNCHANGED <<cluster, tenant, secretState, objects, queued, worker>>

\* The Secret is deleted by name, whatever cluster it is for by now.
DeleteSecret(c) ==
    /\ cleanups[c].at = "secret"
    /\ \/ /\ IF secret.uid # 0 THEN SecretChanged(NoSecret) ELSE UNCHANGED secretState
          /\ Proceed(c) /\ UNCHANGED disturbance
       \/ secret.uid # 0 /\ Disturb("kubeError") /\ UNCHANGED secretState /\ Finish(c)
    /\ UNCHANGED <<cluster, tenant, aviState, queued, worker, timer>>

Cleanup(c) == CleanupAviObjects(c) \/ CleanupClusterSpecificRBAC(c) \/ DeleteSecret(c)

TimerFires ==
    /\ timer /\ timer' = FALSE /\ queued' = TRUE
    /\ UNCHANGED <<cluster, tenant, secretState, aviState, worker, cleanups, disturbance>>

-----------------------------------------------------------------------------
(* reconcileAllClusters                                                    *)

\* findOrphanedVKSSecrets
ActiveVKSClusters == IF cluster.managed THEN {cluster.uid} ELSE {}
Orphaned == listed.uid # 0 /\ listed.label /\ listed.uid \notin ActiveVKSClusters

\* A turn with nothing to do changes nothing.
ReconcileAllClusters ==
    /\ (ShouldManage /\ ~queued) \/ Orphaned
    /\ queued' = (queued \/ ShouldManage)
    /\ IF Orphaned THEN Start(listed.uid) ELSE UNCHANGED <<cleanups, disturbance>>
    /\ UNCHANGED <<cluster, tenant, secretState, aviState, worker, timer>>

\* ako-infra ends and starts again; the informers list.
Restart ==
    /\ Disturb("crash")
    /\ listed' = secret /\ current' = TRUE /\ events' = FALSE
    /\ queued' = (cluster.uid # 0)
    /\ worker' = Idle /\ cleanups' = [c \in Cleanups |-> Done] /\ timer' = FALSE
    /\ UNCHANGED <<cluster, tenant, secret, aviState>>

-----------------------------------------------------------------------------
Environment ==
    \/ ClusterAdd \/ ClusterUpdate \/ ClusterDelete \/ NamespaceUpdate
    \/ CreateObjects \/ OutOfBand \/ Restart
ProcessClusterEvent == HandleCluster \/ BuildVKSClusterConfig \/ UpsertAviCredentialsSecret

Next ==
    \/ Environment \/ ProcessClusterEvent \/ VKSSecretEventHandler \/ TimerFires
    \/ ReconcileAllClusters \/ \E c \in Cleanups : Cleanup(c)
Spec == Init /\ [][Next]_vars

\* Informers, worker, goroutines and timers run; the ticker ticks.
Fairness ==
    /\ WF_vars(ProcessClusterEvent) /\ WF_vars(VKSSecretEventHandler) /\ WF_vars(TimerFires)
    /\ WF_vars(ReconcileAllClusters) /\ \A c \in Cleanups : WF_vars(Cleanup(c))

-----------------------------------------------------------------------------
Secrets ==
    [uid : Uids \cup {0}, user : Uids \cup {0}, password : Passwords \cup {0},
     tenant : Tenants \cup {None}, label : BOOLEAN]

\* Every variable has its type.
TypeOK ==
    /\ cluster \in [uid : Uids \cup {0}, phase : {"none", "Provisioned", "Deleting"}, managed : BOOLEAN]
    /\ tenant \in Tenants /\ {secret, listed} \subseteq Secrets
    /\ {current, events, queued, timer} \subseteq BOOLEAN
    /\ users \in [Uids -> Passwords \cup {0}] /\ roles \subseteq Uids
    /\ objects \subseteq Uids \X Tenants
    /\ worker \in [at : {"idle", "credentials", "write"}, uid : Uids \cup {0}, user : Uids \cup {0},
                   password : Passwords \cup {0}, tenant : Tenants \cup {None}]
    /\ cleanups \in [Cleanups -> [at : {"done", "objects", "user", "roles", "secret"}, uid : Uids \cup {0}]]

Quiet ==
    /\ worker.at = "idle" /\ ~queued /\ current /\ ~timer
    /\ ~CleaningUp

\* When everything has come to rest the Secret of a managed cluster exists, carries
\* the label and names that cluster, whoever deleted or changed it, whatever
\* clean-up ran late and wherever ako-infra ended, unless a call to the API server
\* failed.
SecretOfCluster ==
    Quiet /\ ShouldManage /\ NoneOf({"kubeError"}) /\ ("stripped" \in happened => NoneOf({"deleted", "label", "again"})) =>
       secret.uid = cluster.uid /\ secret.label /\ secret.tenant # None

\* What leaves a Secret behind whose user is gone: a clean-up that ends after it has
\* deleted the user, a user that is made anew beside a Secret or beside a clean-up,
\* and a Secret that is deleted and delivered while the worker is to write it.
Unfinished ==
    {"kubeError", "crash", "rolesError", "unanswered", "renewed", "raced", "overtaken"}

\* The Secret lets the AKO of the cluster log in, unless a clean-up was cut short
\* or the credentials were made while another one ran.
CredentialsWork ==
    Quiet /\ ShouldManage /\ secret.uid # 0 /\ NoneOf(Unfinished) => Valid(secret)

\* What leaves something behind on the controller that no Secret leads to.
Untraceable ==
    {"kubeError", "crash", "rolesError", "unanswered", "lookupError", "stray", "cni", "tenant",
     "again", "deleted", "stripped", "overlap", "renewed", "late", "beside", "overtaken"}
Exceptions == Untraceable \cup {"edited"}

\* As long as a cluster that is gone has objects, a user or roles on the
\* controller, a goroutine is at work on it or a Secret with the label names it
\* and holds credentials to clean up with: nothing else leads the reconciler there.
LeftoversAreNamed ==
    NoneOf(Untraceable) =>
    \A u \in Uids \ ({cluster.uid} \cup {worker.uid}) :
       \/ users[u] = 0 /\ u \notin roles /\ \A t \in Tenants : <<u, t>> \notin objects
       \/ \E c \in Cleanups : cleanups[c].uid = u
       \/ secret.uid = u /\ secret.label /\ Valid(secret)

\* The three together.
VksSound == SecretOfCluster /\ CredentialsWork /\ LeftoversAreNamed

Clean(u) ==
    /\ users[u] = 0 /\ u \notin roles /\ secret.uid = 0
    /\ \A t \in Tenants : <<u, t>> \notin objects

\* The same as something that comes to pass.
EventuallyClean ==
    \A u \in Uids :
       <>[](cluster.uid = 0) /\ []NoneOf(Exceptions) => <>[]Clean(u)

-----------------------------------------------------------------------------
(* The inductive invariants of VksClustersProofs.                          *)

\* The constants are what they stand for; generateSecurePassword does not return
\* a password that is in use.
WellFormed ==
    /\ 0 \notin Uids /\ 0 \notin Passwords /\ None \notin Tenants
    /\ \A used \in [Uids -> Passwords \cup {0}], p, q, r \in Passwords \cup {0} :
          \E w \in Passwords : w \notin {used[u] : u \in Uids} \cup {p, q, r}

\* What there is of a record, there is all of it.
Whole(s) == IF s.uid = 0 THEN s = NoSecret ELSE s.user \in Uids /\ s.password \in Passwords
ShapeInv ==
    /\ Whole(secret) /\ Whole(listed)
    /\ cluster.uid = 0 => cluster = NoCluster
    /\ worker.at = "idle" => worker = Idle
    /\ worker.at # "idle" => worker.uid \in Uids /\ worker.tenant \in Tenants
    /\ worker.at = "write" => worker.user \in Uids /\ worker.password \in Passwords
    /\ \A c \in Cleanups : IF cleanups[c].at = "done" THEN cleanups[c] = Done ELSE cleanups[c].uid \in Uids

\* Before the cluster there is nothing, and the second one comes after its deletion.
Pristine ==
    /\ ~queued /\ worker.at = "idle" /\ ~CleaningUp /\ ~timer
    /\ secret.uid = 0 /\ listed.uid = 0 /\ current /\ "stripped" \notin happened
HistoryInv ==
    /\ cluster.uid = 0 /\ "deletion" \notin happened => Pristine
    /\ cluster.uid # 0 /\ "deletion" \in happened => "again" \in happened

\* The Secret is as it should be, or the worker will have another turn.
InOrder == secret.uid = cluster.uid /\ secret.label /\ secret.tenant # None
ToCome == events \/ (listed.label /\ secret.uid # 0 /\ secret # listed)
AnotherTurn ==
    queued \/ (worker.at # "idle" /\ worker.uid = cluster.uid) \/ (~current /\ ToCome)

\* A deletion of a Secret without the label is not acted upon.
Labelled == "stripped" \in happened => NoneOf({"deleted", "label", "again"})
SecretInv ==
    /\ "kubeError" \notin happened /\ current => listed = secret
    /\ "stripped" \notin happened =>
          (secret.uid # 0 => secret.label) /\ (~current /\ secret.uid = 0 => events)
    /\ ShouldManage /\ NoneOf({"label", "again"}) =>
          ~CleaningUp /\ {secret.uid, listed.uid, worker.uid} \subseteq {0, cluster.uid}
    /\ ShouldManage /\ "stripped" \in happened /\ Labelled => secret.uid # 0
    /\ ShouldManage /\ worker.at # "idle" => worker.uid = cluster.uid \/ queued
    /\ ShouldManage /\ "kubeError" \notin happened /\ Labelled => InOrder \/ AnotherTurn

\* A Secret whose user is gone is one that a clean-up is about to delete.
SameCredentials(s, t) == s.user = t.user /\ s.password = t.password
CredentialsInv ==
    NoneOf(Unfinished) =>
        /\ secret.uid # 0 =>
              Valid(secret) \/ \E c \in Cleanups : cleanups[c].at \in {"roles", "secret"}
        /\ secret.uid # 0 /\ listed.uid # 0 => SameCredentials(secret, listed)
        /\ worker.at = "write" /\ listed.uid # 0 => SameCredentials(worker, listed)
        /\ worker.at = "write" /\ listed.uid = 0 =>
              secret.uid = 0 /\ ~CleaningUp /\ Valid(worker)

\* One clean-up at a time goes through its stages for the one cluster there is, and
\* until it has come to the roles the Secret names what is left.
Nothing(u) == users[u] = 0 /\ u \notin roles /\ \A t \in Tenants : <<u, t>> \notin objects
Named(u) == secret.uid = u /\ secret.label /\ Valid(secret)
Home(s) == s.uid # 0 => s.tenant \in {tenant, None}
StageInv(c) ==
    LET u == cleanups[c].uid
    IN /\ cleanups[c].at \in {"user", "roles", "secret"} => \A t \in Tenants : <<u, t>> \notin objects
       /\ cleanups[c].at \in {"roles", "secret"} => users[u] = 0
       /\ cleanups[c].at = "secret" => u \notin roles
LeftoversInv ==
    NoneOf(Untraceable) =>
        /\ {cluster.uid, secret.uid, listed.uid, worker.uid} \cup {cleanups[c].uid : c \in Cleanups} \subseteq {0, 1}
        /\ "raced" \notin happened
        /\ Home(secret) /\ Home(listed) /\ (worker.at # "idle" => worker.tenant = tenant)
        /\ \A o \in objects : o[2] = tenant
        /\ CleaningUp => worker.at = "idle" /\ (listed.uid = 0 <=> secret.uid = 0)
        /\ \A c, d \in Cleanups : cleanups[c] # Done /\ cleanups[d] # Done => c = d
        /\ \A c \in Cleanups : StageInv(c)
        /\ \A u \in Uids :
              \/ Nothing(u) \/ (u = 1 /\ Named(u))
              \/ u = 1 /\ \E c \in Cleanups : cleanups[c].at = "roles"
              \/ worker.at = "write" /\ listed.uid = 0 /\ worker.uid = u

VksInv == TypeOK /\ ShapeInv /\ HistoryInv /\ SecretInv /\ CredentialsInv /\ LeftoversInv
=============================================================================
