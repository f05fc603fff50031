-------------------------- MODULE OperatorsProofs ---------------------------
(***************************************************************************)
(* That the reconcilers beside AKO do their work, as MCOperators puts them *)
(* together: what the proofs of the three modules establish for each of    *)
(* them carries over to the behaviours of its part.                        *)
(***************************************************************************)
EXTENDS MCOperators, TLAPS

\* Every part starts in its invariant.
LEMMA PartsStartSafe == Init => OperatorsInv
<1> SUFFICES ASSUME Init
             PROVE  OperatorsInv
  OBVIOUS
<1>1. CASE part = "crd" /\ Crd!Init
  BY ZenonT(60), <1>1, CrdConstants, Crd!InitIsSafe DEF OperatorsInv
<1>2. CASE part = "vks" /\ Vks!Init
  BY ZenonT(60), <1>2, VksConstants, Vks!InitIsSafe DEF OperatorsInv
<1>3. CASE part = "ako" /\ Ako!Init
  BY ZenonT(60), <1>3, AkoConstants, Ako!InitIsSafe DEF OperatorsInv
<1> QED BY ZenonT(60), <1>1, <1>2, <1>3 DEF Init

\* A step is one of the part, which keeps the invariant of its module.
LEMMA PartsStaySafe == OperatorsInv /\ [Next]_vars => OperatorsInv'
<1> SUFFICES ASSUME OperatorsInv, [Next]_vars
             PROVE  OperatorsInv'
  OBVIOUS
<1>1. part' = part
  BY ZenonT(60) DEF Next, vars, common, CrdPart, VksPart, AkoPart
<1>2. CASE part = "crd" /\ Crd!CrdInv
  <2>1. [Crd!Next]_(Crd!vars)
    <3>1. CASE UNCHANGED vars
      BY ZenonT(60), <3>1 DEF vars, common, operator, crdOnly, Crd!vars
    <3> QED BY ZenonT(60), <1>2, <3>1 DEF Next, VksPart, AkoPart
  <2> QED BY ZenonT(60), <1>1, <1>2, <2>1, CrdConstants, Crd!NextIsSafe DEF OperatorsInv
<1>3. CASE part = "vks" /\ Vks!VksInv
  <2>1. [Vks!Next]_(Vks!vars)
    <3>1. CASE UNCHANGED vars
      BY ZenonT(60), <3>1 DEF vars, common, operator, vksOnly, Vks!vars
    <3> QED BY ZenonT(60), <1>3, <3>1 DEF Next, CrdPart, AkoPart
  <2> QED BY ZenonT(60), <1>1, <1>3, <2>1, VksConstants, Vks!NextIsSafe DEF OperatorsInv
<1>4. CASE part = "ako" /\ Ako!AkoInv
  <2>1. [Ako!Next]_(Ako!vars)
    <3>1. CASE UNCHANGED vars
      BY ZenonT(60), <3>1 DEF vars, common, akoOnly, Ako!vars
    <3> QED BY ZenonT(60), <1>4, <3>1 DEF Next, CrdPart, VksPart
  <2> QED BY ZenonT(60), <1>1, <1>4, <2>1, AkoConstants, Ako!NextIsSafe DEF OperatorsInv
<1> QED BY ZenonT(60), <1>2, <1>3, <1>4 DEF OperatorsInv

\* What the invariant of each module says of its part.
LEMMA PartsAreSound == OperatorsInv => Types /\ CrdSound /\ VksSound /\ AkoSound
<1> SUFFICES ASSUME OperatorsInv
             PROVE  Types /\ CrdSound /\ VksSound /\ AkoSound
  OBVIOUS
<1>1. CASE part = "crd" /\ Crd!CrdInv
  <2>1. Crd!CrdSound /\ Crd!TypeOK
    BY ZenonT(60), <1>1, CrdConstants, Crd!InvIsSound DEF Crd!CrdInv
  <2> QED BY ZenonT(60), <1>1, <2>1 DEF Types, CrdSound, VksSound, AkoSound
<1>2. CASE part = "vks" /\ Vks!VksInv
  <2>1. Vks!VksSound /\ Vks!TypeOK
    BY ZenonT(60), <1>2, VksConstants, Vks!InvIsSound DEF Vks!VksInv
  <2> QED BY ZenonT(60), <1>2, <2>1 DEF Types, CrdSound, VksSound, AkoSound
<1>3. CASE part = "ako" /\ Ako!AkoInv
  <2>1. Ako!AkoSound /\ Ako!TypeOK
    BY ZenonT(60), <1>3, AkoConstants, Ako!InvIsSound DEF Ako!AkoInv
  <2> QED BY ZenonT(60), <1>3, <2>1 DEF Types, CrdSound, VksSound, AkoSound
<1> QED BY ZenonT(60), <1>1, <1>2, <1>3 DEF OperatorsInv

\* The variables of the part keep their types: no reconcile, queue or goroutine reaches
\* a stage that the code does not have.
THEOREM TypesHold == Spec => []Types
<1>1. OperatorsInv => Types
  BY ZenonT(60), PartsAreSound
<1> QED BY <1>1, PartsStartSafe, PartsStaySafe, PTL DEF Spec

\* The CRD operator leaves no Avi object of a custom resource that is gone, and at
\* rest the status is about the last spec (DeleteObject, CreateOrUpdateObject).
THEOREM CrdOperatorIsSound == Spec => []CrdSound
<1>1. OperatorsInv => CrdSound
  BY ZenonT(60), PartsAreSound
<1> QED BY <1>1, PartsStartSafe, PartsStaySafe, PTL DEF Spec

\* The VKS cluster watcher keeps the Secret of a managed cluster its own, its
\* credentials valid and what a clean-up leaves named (UpsertAviCredentialsSecret,
\* cleanupClusterDependencies).
THEOREM VksWatcherIsSound == Spec => []VksSound
<1>1. OperatorsInv => VksSound
  BY ZenonT(60), PartsAreSound
<1> QED BY <1>1, PartsStartSafe, PartsStaySafe, PTL DEF Spec

\* The AKO operator brings the artifacts to what the AKOConfig asks for, restarts the
\* pods that need it and cleans up after itself (ReconcileAllArtifacts,
\* CleanupArtifacts).
THEOREM AkoOperatorIsSound == Spec => []AkoSound
<1>1. OperatorsInv => AkoSound
  BY ZenonT(60), PartsAreSound
<1> QED BY <1>1, PartsStartSafe, PartsStaySafe, PTL DEF Spec
=============================================================================
