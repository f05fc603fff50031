----------------------------- MODULE MCOperators -----------------------------
(***************************************************************************)
(* The reconcilers that run beside AKO, one of them (`part') in each       *)
(* behaviour: the CRD operator for one custom resource, the VKS cluster    *)
(* watcher for one cluster, and the AKO operator for its AKOConfig.        *)
(* Variables of the same name are shared; those that the chosen part does  *)
(* not have keep the value None.                                           *)
(***************************************************************************)
EXTENDS Integers, TLC

CONSTANTS Tenants, None, MaxDisturbances, Parts,
          CrdKinds, CrdDisturbances, MaxCreates, MaxGen, MaxUuid,
          Uids, Passwords, Cleanups, VksDisturbances,
          Specs, KindSets, AkoDisturbances

VARIABLES part, api, view, secret, left, happened,
          current, tenant, queued, worker,
          kind, avi, inUse, cache, creates,
          cluster, listed, events, users, roles, objects, cleanups, timer,
          kinds, ako, dirty, queue, job, rebootRequired, objectList, desiredCrd, pods, rolling

common == <<part, api, view, secret, left, happened>>
crdOnly == <<kind, avi, inUse, cache, creates>>
vksOnly == <<cluster, listed, events, users, roles, objects, cleanups, timer>>
akoOnly == <<kinds, ako, dirty, queue, job, rebootRequired, objectList, desiredCrd, pods,
             rolling>>
operator == <<current, tenant, queued, worker>>
vars == <<common, operator, crdOnly, vksOnly, akoOnly>>

\* Two settings that need a reboot and one that does not, two images, with and
\* without the GatewayClass, another volume claim, and a spec that is refused.
AkoSpecs ==
    {[rhi |-> 0, evh |-> 0, log |-> 0, image |-> 1, gw |-> TRUE, pvc |-> 1, ok |-> TRUE],
     [rhi |-> 1, evh |-> 0, log |-> 1, image |-> 1, gw |-> FALSE, pvc |-> 1, ok |-> TRUE],
     [rhi |-> 1, evh |-> 0, log |-> 1, image |-> 1, gw |-> FALSE, pvc |-> 2, ok |-> TRUE],
     [rhi |-> 1, evh |-> 1, log |-> 1, image |-> 2, gw |-> FALSE, pvc |-> 1, ok |-> TRUE],
     [rhi |-> 0, evh |-> 1, log |-> 1, image |-> 2, gw |-> FALSE, pvc |-> 1, ok |-> TRUE],
     [rhi |-> 0, evh |-> 0, log |-> 1, image |-> 2, gw |-> FALSE, pvc |-> 1, ok |-> FALSE]}

AkoKindSets == {{"cm", "sf"}, {"sa", "gwclass"}, {"cr", "crd"}, {"crb"}}

\* The modules with their proofs, which OperatorsProofs cites.
Crd == INSTANCE CrdOperatorProofs WITH Kinds <- CrdKinds, Disturbances <- CrdDisturbances
Vks == INSTANCE VksClustersProofs WITH Disturbances <- VksDisturbances
Ako == INSTANCE AkoOperatorProofs WITH Disturbances <- AkoDisturbances

\* What the proofs assume of the constants.
ASSUME CrdConstants == Crd!WellFormed
ASSUME VksConstants == Vks!WellFormed
ASSUME AkoConstants == Ako!WellFormed

NoOperator == current = None /\ tenant = None /\ queued = None /\ worker = None
NoCrd == kind = None /\ avi = None /\ inUse = None /\ cache = None /\ creates = None
NoVks ==
    /\ cluster = None /\ listed = None /\ events = None /\ users = None
    /\ roles = None /\ objects = None /\ cleanups = None /\ timer = None
NoAko ==
    /\ kinds = None /\ ako = None /\ dirty = None /\ queue = None /\ job = None
    /\ rebootRequired = None /\ objectList = None /\ desiredCrd = None /\ pods = None
    /\ rolling = None

Init ==
    /\ part \in Parts
    /\ \/ part = "crd" /\ Crd!Init /\ NoVks /\ NoAko
       \/ part = "vks" /\ Vks!Init /\ api = None /\ view = None /\ NoCrd /\ NoAko
       \/ part = "ako" /\ Ako!Init /\ NoOperator /\ NoCrd /\ NoVks

CrdPart == part = "crd" /\ UNCHANGED <<part, vksOnly, akoOnly>>
VksPart == part = "vks" /\ UNCHANGED <<part, api, view, crdOnly, akoOnly>>
AkoPart == part = "ako" /\ UNCHANGED <<part, operator, crdOnly, vksOnly>>

Next ==
    \/ CrdPart /\ Crd!Next
    \/ VksPart /\ Vks!Next
    \/ AkoPart /\ Ako!Next

Spec == Init /\ [][Next]_vars

\* The fairness of the modules: informers deliver, queues are served, timers
\* fire and goroutines run.
FairSpec ==
    /\ Spec
    /\ WF_vars(CrdPart /\ Crd!Deliver) /\ WF_vars(CrdPart /\ Crd!Operator)
    /\ WF_vars(VksPart /\ Vks!ProcessClusterEvent)
    /\ WF_vars(VksPart /\ Vks!VKSSecretEventHandler)
    /\ WF_vars(VksPart /\ Vks!TimerFires)
    /\ WF_vars(VksPart /\ Vks!ReconcileAllClusters)
    /\ \A c \in Cleanups : WF_vars(VksPart /\ Vks!Cleanup(c))

Symmetry == Permutations(Tenants) \cup Permutations(Cleanups)

-----------------------------------------------------------------------------
(***************************************************************************)
(* The properties of the modules, each for the behaviours of its part.     *)
(***************************************************************************)
\* Every variable of the part has its type.
Types ==
    CASE part = "crd" -> Crd!TypeOK [] part = "vks" -> Vks!TypeOK [] part = "ako" -> Ako!TypeOK

\* Once a custom resource is gone, no Avi object of it is left in the tenant it
\* had (NothingLeftBehind of CrdOperator: DeleteObject of the reconcilers), and
\* when its reconciler rests, the status is about the last spec (RestIsFinal).
CrdSound == part = "crd" => Crd!CrdSound

\* A custom resource that is being deleted goes away, once no other object refers
\* to its Avi object (EventuallyDeleted of CrdOperator).
CrdEventuallyDeleted ==
    <>[](part = "crd" => inUse = {}) =>
        ((part = "crd" /\ api.deleting) ~> (part = "crd" => ~api.there))

\* The Secret of a managed cluster is that of this cluster and its tenant
\* (SecretOfCluster of VksClusters: UpsertAviCredentialsSecret), its credentials are
\* those of a user of the controller with roles (CredentialsWork), and what a
\* clean-up has left is named by it, so that it can be tried again
\* (LeftoversAreNamed: cleanupClusterDependencies).
VksSound == part = "vks" => Vks!VksSound

\* Everything of a cluster that has opted out or is gone is removed in the end
\* (EventuallyClean of VksClusters).
VksEventuallyClean ==
    \A u \in Uids :
        <>[](part = "vks" => cluster.uid = 0 /\ Vks!NoneOf(Vks!Exceptions)) =>
            <>[](part = "vks" => Vks!Clean(u))

\* When nothing is left to reconcile every artifact is what the AKOConfig asks
\* for (Converged of AkoOperator), the AKO pods run with its settings
\* (PodsRunConfig: the reboot that a changed ConfigMap needs), and the artifacts on
\* the operator's list go with it (ListedAreRemoved: CleanupArtifacts).
AkoSound == part = "ako" => Ako!AkoSound

\* The inductive invariant of the part.
OperatorsInv ==
    \/ part = "crd" /\ Crd!CrdInv
    \/ part = "vks" /\ Vks!VksInv
    \/ part = "ako" /\ Ako!AkoInv
=============================================================================
