------------------------- MODULE AkoOperatorProofs --------------------------
(***************************************************************************)
(* That the reconciler of the AKO operator does its work, for any set of   *)
(* AKOConfig specs, any choice of artifacts and any number of              *)
(* disturbances.  A step of a reconcile gives up, goes on without a write  *)
(* or writes one artifact: one lemma each, that every handler is an        *)
(* instance of; the other actions come one by one.                         *)
(***************************************************************************)
EXTENDS AkoOperator, TLAPS

-----------------------------------------------------------------------------
\* None is no artifact of any kind, and a built artifact is one of its kind.
LEMMA ArtifactsAreReal ==
    ASSUME WellFormed
    PROVE  /\ \A k : None \notin Artifacts(k)
           /\ \A spec \in Specs : \A k \in Kinds : Desired(spec, k) \in Artifacts(k)
           /\ \A spec \in Specs : /\ BuildConfigMap(spec) \in Artifacts("cm")
                                  /\ BuildStatefulSet(spec) \in Artifacts("sf")
           /\ \A k \in {"sa", "cr", "crb", "crd", "gwclass"} : "built" \in Artifacts(k)
           /\ \A k \in {"cr", "crb", "crd"} : "edited" \in Artifacts(k)
<1>1. \A spec \in Specs : BuildConfigMap(spec) \in ConfigMaps
  BY Zenon DEF WellFormed, BuildConfigMap, ConfigMaps
<1>2. \A spec \in Specs : BuildStatefulSet(spec) \in StatefulSets
  BY Zenon DEF WellFormed, BuildStatefulSet, StatefulSets
<1>3. \A k : None \notin Artifacts(k)
  BY Zenon DEF WellFormed, Artifacts
<1>4. \A k \in {"sa", "cr", "crb", "crd", "gwclass"} : "built" \in Artifacts(k)
  BY Zenon DEF Artifacts
<1>5. \A k \in {"cr", "crb", "crd"} : "edited" \in Artifacts(k)
  BY Zenon DEF Artifacts
<1>6. Artifacts("cm") = ConfigMaps /\ Artifacts("sf") = StatefulSets
  BY Zenon DEF Artifacts
<1>7. \A spec \in Specs : \A k \in Kinds : Desired(spec, k) \in Artifacts(k)
  BY Zenon, <1>1, <1>2, <1>4, <1>6 DEF Desired, Kinds
<1> QED BY Zenon, <1>1, <1>2, <1>3, <1>4, <1>5, <1>6, <1>7

\* What TypeOK says, unfolded: the objects that exist are records of their type.
LEMMA Shapes ==
    ASSUME WellFormed, TypeOK
    PROVE  /\ kinds \subseteq Kinds
           /\ ako # None => /\ ako \in AkoConfigs /\ ako.spec \in Specs
                            /\ ako.deleting \in BOOLEAN
           /\ job # None => /\ job \in Jobs /\ job.spec \in Specs /\ job.todo \subseteq objectList
                            /\ job.step \in kinds \cup {"secret", "crdRead", "ready", "cleanup"}
           /\ job # None /\ job.step = "crdRead" => "crd" \in kinds
           /\ DOMAIN api = kinds /\ DOMAIN view = kinds
<1>1. kinds \subseteq Kinds
  BY Zenon DEF WellFormed, TypeOK
<1>2. ako # None => ako \in AkoConfigs /\ ako.spec \in Specs /\ ako.deleting \in BOOLEAN
  BY Zenon DEF TypeOK, AkoConfigs
<1>3. job # None => job \in Jobs /\ job.spec \in Specs /\ job.todo \subseteq objectList
  BY Zenon DEF TypeOK, Jobs
<1>4. job # None => job.step \in kinds \cup {"secret", "ready", "cleanup"} \cup Reading
  BY Zenon DEF TypeOK
<1>5. Reading \subseteq {"crdRead"} /\ (Reading # {} => "crd" \in kinds)
  BY Zenon DEF Reading
<1>6. "crdRead" \notin kinds
  BY Zenon, <1>1 DEF Kinds
<1>7. DOMAIN api = kinds /\ DOMAIN view = kinds
  BY Zenon DEF TypeOK
<1> QED BY Zenon, <1>1, <1>2, <1>3, <1>4, <1>5, <1>6, <1>7

\* The step after a step: the first one whose artifact is looked at, so that what has
\* been dealt with grows by the step's own artifact.
LEMMA FollowingStep ==
    ASSUME kinds \subseteq Kinds, NEW s \in kinds \cup {"secret"}
    PROVE  /\ Following(s) \in kinds \cup {"ready"}
           /\ kinds \cap Earlier(Following(s)) = (kinds \cap Earlier(s)) \cup (kinds \cap {s})
           /\ s = "secret" /\ "cm" \in kinds => Following(s) = "cm"
           /\ s # "secret" => Following(s) # "cm"
<1> DEFINE at == IF s = "secret" THEN 0 ELSE CHOOSE i \in 1..7 : Steps[i] = s
           here == {i \in (at + 1)..8 : Steps[i] \in kinds \cup {"ready"}}
           n == CHOOSE i \in here : \A j \in here : i <= j
<1>0. /\ Steps[1] = "cm" /\ Steps[2] = "sa" /\ Steps[3] = "cr" /\ Steps[4] = "crb"
      /\ Steps[5] = "crd" /\ Steps[6] = "gwclass" /\ Steps[7] = "sf" /\ Steps[8] = "ready"
  BY Zenon DEF Steps
<1>1. \/ (s = "secret" /\ at = 0) \/ (s = "cm" /\ at = 1) \/ (s = "sa" /\ at = 2)
      \/ (s = "cr" /\ at = 3) \/ (s = "crb" /\ at = 4) \/ (s = "crd" /\ at = 5)
      \/ (s = "gwclass" /\ at = 6) \/ (s = "sf" /\ at = 7)
  <2>1. CASE s = "secret"
    BY Zenon, <2>1
  <2>2. CASE s # "secret"
    <3>1. s \in Kinds
      BY Zenon, <2>2
    <3>2. \E i \in 1..7 : Steps[i] = s
      BY <3>1, <1>0 DEF Kinds
    <3>3. at \in 1..7 /\ Steps[at] = s
      BY Zenon, <2>2, <3>2
    <3> HIDE DEF at
    <3> QED BY <3>3, <1>0
  <2> QED BY Zenon, <2>1, <2>2
<1>2. at \in 0..7
  BY <1>1
<1> HIDE DEF at
<1>3. 8 \in here /\ here \subseteq 1..8
  BY <1>0, <1>2
<1>4. \E i \in here : \A j \in here : i <= j
  <2> HIDE DEF here
  <2>1. \A i : i \in here => i \in 1..8
    BY Zenon, <1>3
  <2> QED BY <1>3, <2>1, SMTT(30)
<1>5. n \in here /\ \A j \in here : n <= j
  BY Zenon, <1>4
<1>6. Following(s) = Steps[n]
  BY Zenon DEF Following, at
<1> HIDE DEF n
<1>7. n \in 1..8 /\ n > at /\ Steps[n] \in kinds \cup {"ready"}
  BY <1>5, <1>2
<1>8. \A j \in 1..8 : j > at /\ j < n => Steps[j] \notin kinds
  BY <1>5, <1>2, <1>7
<1> HIDE DEF here
<1>9. s \notin {"ready"} /\ (s # "secret" => s \in kinds)
  BY Zenon DEF Kinds
<1>10. \A k \in kinds : k \in Earlier(Steps[n]) <=> k \in Earlier(s) \/ k = s
  BY <1>0, <1>1, <1>7, <1>8, <1>9, SMTT(60) DEF Earlier, Kinds
<1>11. (s = "secret" /\ "cm" \in kinds => n = 1) /\ (s # "secret" => n # 1)
  BY <1>0, <1>1, <1>7, <1>8
<1>12. n # 1 => Steps[n] # "cm"
  BY <1>0, <1>7
<1> QED BY Zenon, <1>0, <1>6, <1>7, <1>10, <1>11, <1>12

\* What a step may do to the copy of the CRD and to the volume claims.
KeepsMemory ==
    /\ kinds' = kinds /\ happened \subseteq happened'
    /\ NoneOf({"adopted"})' => desiredCrd' = desiredCrd \/ desiredCrd' = "built"
    /\ NoneOf({"claim"})' /\ ako' # None =>
          /\ ako # None /\ ako'.spec.pvc = ako.spec.pvc
          /\ job' # None => job'.spec = ako.spec \/ (job # None /\ job'.spec = job.spec)
          /\ "sf" \in kinds /\ api'["sf"] # None =>
                \/ api["sf"] # None /\ api'["sf"].pvc = api["sf"].pvc
                \/ job # None /\ api'["sf"].pvc = job.spec.pvc

\* Such a step keeps what the invariant says of them.
LEMMA Remembering ==
    ASSUME MemoryInv, KeepsMemory
    PROVE  MemoryInv'
<1>1. \A S : NoneOf(S)' => NoneOf(S)
  BY Zenon DEF NoneOf, KeepsMemory
<1>2. NoneOf({"adopted"})' => desiredCrd' = "built"
  BY Zenon, <1>1 DEF MemoryInv, KeepsMemory
<1>3. ASSUME NoneOf({"claim"})', ako' # None
      PROVE  /\ job' # None => job'.spec.pvc = ako'.spec.pvc
             /\ "sf" \in kinds' /\ api'["sf"] # None => api'["sf"].pvc = ako'.spec.pvc
  BY Zenon, <1>1, <1>3 DEF MemoryInv, KeepsMemory
<1> QED BY Zenon, <1>2, <1>3 DEF MemoryInv

-----------------------------------------------------------------------------
\* A reconcile gives up before it has written anything, and is queued again.
GivesUp ==
    /\ job # None /\ job.step # "cleanup"
    /\ job' = None /\ queue' = TRUE
    /\ ako' = ako \/ ako' = [ako EXCEPT !.state = "Error"]
    /\ UNCHANGED <<kinds, api, view, dirty, secret, desiredCrd, objectList, pods, rolling>>
    /\ rebootRequired' = rebootRequired \/ rebootRequired' = TRUE
    /\ happened \subseteq happened' /\ left' \in 0..left

\* A step that gives up keeps the invariant.
LEMMA GivingUp ==
    ASSUME WellFormed, AkoInv, GivesUp
    PROVE  AkoInv'
<1> USE DEF AkoInv
<1>0. \A S : NoneOf(S)' => NoneOf(S)
  BY Zenon DEF NoneOf, GivesUp
<1>1. /\ ako # None /\ ako \in AkoConfigs /\ ako' \in AkoConfigs /\ ako' # None
      /\ ako'.spec = ako.spec /\ ako'.deleting = ako.deleting
  <2>1. ako # None
    BY Zenon DEF GivesUp, ConvergedInv
  <2>2. ako \in AkoConfigs
    BY Zenon, <2>1 DEF TypeOK
  <2>3. CASE ako' = ako
    BY Zenon, <2>1, <2>2, <2>3
  <2>4. CASE ako' = [ako EXCEPT !.state = "Error"]
    <3>1. ako' \in AkoConfigs /\ ako'.spec = ako.spec /\ ako'.deleting = ako.deleting
      BY Zenon, <2>2, <2>4 DEF AkoConfigs
    <3> QED BY Zenon, <3>1, <2>1, <2>2 DEF WellFormed
  <2> QED BY Zenon, <2>3, <2>4 DEF GivesUp
<1>2. /\ job' = None /\ queue' = TRUE /\ Installing
      /\ kinds' = kinds /\ api' = api /\ view' = view /\ dirty' = dirty /\ objectList' = objectList
      /\ pods' = pods /\ rolling' = rolling /\ secret' = secret /\ desiredCrd' = desiredCrd
  BY Zenon, <1>1 DEF GivesUp, Installing
<1>3. TypeOK'
  <2>1. rebootRequired' \in BOOLEAN /\ queue' \in BOOLEAN
    BY Zenon DEF GivesUp, TypeOK
  <2>2. left' \in 0..MaxDisturbances
    BY DEF GivesUp, TypeOK, WellFormed
  <2> QED BY Zenon, <1>1, <1>2, <2>1, <2>2 DEF TypeOK, Listed, Reading
<1>4. ConvergedInv'
  BY Zenon, <1>1, <1>2 DEF ConvergedInv
<1>5. ListInv'
  <2>1. \A k : ~Exempt(k)' => ~Exempt(k)
    BY Zenon, <1>0 DEF Exempt
  <2>2. "crd" \notin objectList
    BY Zenon DEF TypeOK, Listed, Unnamed
  <2> QED BY Zenon, <1>0, <1>1, <1>2, <2>1, <2>2 DEF ListInv
<1>6. PodsInv'
  <2>1. rebootRequired => rebootRequired'
    BY Zenon DEF GivesUp
  <2> QED BY Zenon, <1>0, <1>1, <1>2, <2>1 DEF PodsInv, Settings, Exchanged, BuildConfigMap, Checksum
<1>7. MemoryInv'
  BY Zenon, <1>1, <1>2, Remembering DEF GivesUp, KeepsMemory
<1> QED BY Zenon, <1>3, <1>4, <1>5, <1>6, <1>7

\* A step of a reconcile finds nothing to write and hands over to the next one.
GoesOn(s) ==
    /\ At(s) /\ s \in kinds \cup {"secret"}
    /\ GoOn(FALSE)
    /\ UNCHANGED <<kinds, api, view, dirty, secret, desiredCrd, pods, rolling>>
    /\ \/ objectList' = objectList
       \/ s \in kinds \ {"crd"} /\ view[s] # None /\ objectList' = objectList \cup {s}
    /\ rebootRequired' = rebootRequired \/ (s = "cm" /\ rebootRequired' = TRUE)
    /\ s = "sf" => ~rebootRequired
    /\ s = "cm" => view["cm"] # None
    /\ dirty = {} /\ s \in kinds \ {"gwclass"} => AsDesired(job.spec, s)
    /\ dirty = {} /\ s = "gwclass" => \/ "error" \in happened'
                                     \/ api[s] = IF job.spec.gw THEN "built" ELSE None
    /\ happened \subseteq happened' /\ left' \in 0..left

\* How the job of a reconcile moves to its next step.
LEMMA NextStep ==
    ASSUME WellFormed, TypeOK, NEW s \in kinds \cup {"secret"}, At(s),
           job' = [job EXCEPT !.step = Following(@)]
    PROVE  /\ job \in Jobs /\ job' \in Jobs /\ job # None /\ job' # None
           /\ job.step = s /\ s # "cleanup"
           /\ job'.spec = job.spec /\ job'.todo = job.todo
           /\ job'.step \in kinds \cup {"ready"}
           /\ kinds \cap Earlier(job'.step) = (kinds \cap Earlier(s)) \cup (kinds \cap {s})
           /\ s = "secret" /\ "cm" \in kinds => job'.step = "cm"
           /\ s # "secret" => job'.step # "cm"
           /\ job'.step \notin {"cleanup", "secret"}
<1>1. kinds \subseteq Kinds
  BY Zenon, Shapes
<1>2. job \in Jobs /\ job # None /\ job.step = s
  BY Zenon DEF TypeOK, At
<1>3. Following(s) \in kinds \cup {"ready"}
  BY Zenon, <1>1, FollowingStep
<1>4. /\ job' \in Jobs /\ job'.step = Following(s)
      /\ job'.spec = job.spec /\ job'.todo = job.todo
  BY Zenon, <1>1, <1>2, <1>3 DEF Jobs
<1>5. job' # None
  BY Zenon, <1>4 DEF WellFormed
<1>6. "cleanup" \notin Kinds /\ "secret" \notin Kinds
  BY Zenon DEF Kinds
<1> QED BY Zenon, <1>1, <1>2, <1>3, <1>4, <1>5, <1>6, FollowingStep

\* A step that goes on keeps the invariant.
LEMMA GoingOn ==
    ASSUME WellFormed, AkoInv, NEW s, GoesOn(s)
    PROVE  AkoInv'
<1> USE DEF AkoInv
<1>0. \A S : NoneOf(S)' => NoneOf(S)
  BY Zenon DEF NoneOf, GoesOn
<1>1. s \in kinds \cup {"secret"} /\ At(s) /\ job' = [job EXCEPT !.step = Following(@)]
  BY Zenon DEF GoesOn, GoOn
<1>2. /\ job \in Jobs /\ job' \in Jobs /\ job # None /\ job' # None
      /\ job.step = s /\ s # "cleanup"
      /\ job'.spec = job.spec /\ job'.todo = job.todo
      /\ job'.step \in kinds \cup {"ready"}
      /\ kinds \cap Earlier(job'.step) = (kinds \cap Earlier(s)) \cup (kinds \cap {s})
      /\ s = "secret" /\ "cm" \in kinds => job'.step = "cm"
      /\ s # "secret" => job'.step # "cm"
      /\ job'.step \notin {"cleanup", "secret"}
  BY Zenon, <1>1, NextStep
<1>3. /\ ako # None /\ ako' = ako /\ (queue' <=> queue) /\ Installing /\ Installing'
      /\ kinds' = kinds /\ api' = api /\ view' = view /\ dirty' = dirty
      /\ pods' = pods /\ rolling' = rolling /\ secret' = secret /\ desiredCrd' = desiredCrd
  BY Zenon, <1>2 DEF GoesOn, GoOn, ConvergedInv, Installing, TypeOK
<1>4. objectList \subseteq objectList' /\ objectList' \subseteq (kinds \ {"crd"}) \cup {Unnamed}
  BY Zenon DEF GoesOn, TypeOK, Listed
<1>5. TypeOK'
  <2>1. rebootRequired' \in BOOLEAN /\ queue' \in BOOLEAN
    BY Zenon DEF GoesOn, GoOn, TypeOK
  <2>2. left' \in 0..MaxDisturbances
    BY DEF GoesOn, TypeOK, WellFormed
  <2>3. job'.todo \subseteq objectList'
    BY Zenon, <1>2, <1>4 DEF TypeOK
  <2> QED BY Zenon, <1>2, <1>3, <1>4, <2>1, <2>2, <2>3 DEF TypeOK, Listed, Reading
<1>6. ConvergedInv'
  <2>1. SUFFICES ASSUME ~queue, dirty = {}
                 PROVE  ~ako.deleting /\ job.spec = ako.spec /\ Handled(job.spec, Earlier(job.step))'
    BY Zenon, <1>2, <1>3 DEF ConvergedInv
  <2>2. ~ako.deleting /\ job.spec = ako.spec /\ Handled(job.spec, Earlier(s))
    BY Zenon, <1>2, <2>1 DEF ConvergedInv
  <2>3. \A k \in kinds \cap Earlier(s) : AsDesired(job.spec, k)'
    <3> SUFFICES ASSUME NEW k \in kinds, k \in Earlier(s)
                 PROVE  AsDesired(job.spec, k)'
      BY Zenon
    <3>1. AsDesired(job.spec, k)
      BY Zenon, <2>2 DEF Handled
    <3> QED BY Zenon, <3>1, <1>0, <1>2, <1>3
            DEF AsDesired, Desired, isSfUpdateRequired, BuildStatefulSet, BuildConfigMap
  <2>4. s \in kinds => AsDesired(job.spec, s)'
    BY Zenon, <2>1, <1>2, <1>3 DEF GoesOn, AsDesired, NoneOf, Desired
  <2>5. "sf" \in kinds \cap Earlier(job'.step) => ~rebootRequired'
    <3>1. "sf" \notin Earlier("cm")
      BY Zenon DEF Earlier
    <3> QED BY Zenon, <2>2, <1>2, <3>1 DEF Handled, GoesOn
  <2> QED BY Zenon, <2>2, <2>3, <2>4, <2>5, <1>2, <1>3 DEF Handled
<1>7. ListInv'
  <2>1. \A k : ~Exempt(k)' => ~Exempt(k)
    BY Zenon, <1>0 DEF Exempt
  <2>2. \A k \in objectList' : k \in objectList \/ view[k] # None
    BY DEF GoesOn
  <2> QED BY Zenon, <1>0, <1>2, <1>3, <1>4, <2>1, <2>2 DEF ListInv
<1>8. PodsInv'
  <2> SUFFICES ASSUME {"cm", "sf"} \subseteq kinds,
                      NoneOf({"crash", "remove", "swap", "sameOrder"})'
               PROVE  PodsInv'
    BY Zenon, <1>3 DEF PodsInv
  <2>1. rebootRequired => rebootRequired'
    BY Zenon DEF GoesOn
  <2>2. NoneOf({"remove"}) /\ ~Exempt("cm")
    BY Zenon, <1>0 DEF NoneOf, Exempt
  <2>3. job'.step # "cm" => api["cm"] # None
    <3>1. CASE s = "secret"
      BY Zenon, <3>1, <1>2
    <3>2. CASE s = "cm"
      BY Zenon, <3>2, <2>2, <1>3 DEF GoesOn, ListInv
    <3>3. CASE s \notin {"secret", "cm"}
      BY Zenon, <3>3, <1>0, <1>2, <1>3 DEF PodsInv
    <3> QED BY Zenon, <3>1, <3>2, <3>3
  <2> QED BY Zenon, <1>0, <1>2, <1>3, <2>1, <2>3 DEF PodsInv, Settings, Exchanged, BuildConfigMap, Checksum
<1>9. MemoryInv'
  BY Zenon, <1>2, <1>3, Remembering DEF GoesOn, KeepsMemory
<1> QED BY Zenon, <1>5, <1>6, <1>7, <1>8, <1>9

\* A step of a reconcile writes its artifact, and goes on or gives up; the cache has
\* followed or the watch is to tell.
Writes(k, data) ==
    /\ At(k) /\ k \in kinds
    /\ data \in Artifacts(k) \cup {None}
    /\ api' = [api EXCEPT ![k] = data]
    /\ \/ dirty' = dirty \cup {k} /\ view' = view
       \/ dirty' = dirty \ {k} /\ view' = [view EXCEPT ![k] = data] /\ queue' = TRUE
    /\ k # "crd" /\ data # None => view[k] = api[k]
    /\ data = None => k = "gwclass" /\ ("spec" \in happened \/ "swap" \in happened)
    /\ k = "gwclass" => data = None \/ job.spec.gw
    /\ \/ /\ job' = [job EXCEPT !.step = Following(@)] /\ ako' = ako
          /\ queue' = queue \/ queue' = TRUE
       \/ /\ job' = None /\ queue' = TRUE
          /\ ako' = [ako EXCEPT !.state = "Error"]
    /\ \/ objectList' = objectList \/ objectList' = objectList \cup {Unnamed}
       \/ k # "crd" /\ view'[k] # None /\ objectList' = objectList \cup {k}
    /\ k = "cm" => /\ data = BuildConfigMap(job.spec) /\ rolling' = rolling
                   /\ rebootRequired => rebootRequired'
                   /\ view["cm"] # None /\ Checksum(view["cm"]) # Checksum(data) => rebootRequired'
    /\ k = "sf" => rolling' = TRUE \/ "sameOrder" \in happened'
    /\ k \notin {"cm", "sf"} => rebootRequired' = rebootRequired /\ rolling' = rolling
    /\ rebootRequired' \in BOOLEAN /\ rolling' \in BOOLEAN
    /\ \/ desiredCrd' = desiredCrd
       \/ k = "crd" /\ desiredCrd' \in {"built", "edited"} /\ "adopted" \in happened'
    /\ k = "sf" => data.pvc = job.spec.pvc
    /\ UNCHANGED <<kinds, secret, pods>>
    /\ happened \subseteq happened' /\ left' \in 0..left

\* A step that writes keeps the invariant.
LEMMA Writing ==
    ASSUME WellFormed, AkoInv, NEW k, NEW data, Writes(k, data)
    PROVE  AkoInv'
<1> USE DEF AkoInv
<1>0. \A S : NoneOf(S)' => NoneOf(S)
  BY Zenon DEF NoneOf, Writes
<1>1. /\ k \in kinds /\ kinds \subseteq Kinds /\ job # None /\ job \in Jobs /\ job.step = k
      /\ k \notin {"secret", "cleanup", "ready"}
  <2>1. k \in kinds /\ At(k) /\ kinds \subseteq Kinds
    BY Zenon, Shapes DEF Writes
  <2> QED BY Zenon, <2>1 DEF At, TypeOK, Kinds
<1>2. ako # None /\ ako \in AkoConfigs /\ Installing
  BY Zenon, <1>1 DEF ConvergedInv, TypeOK, Installing
<1>3. /\ ako' # None /\ ako' \in AkoConfigs
      /\ ako'.spec = ako.spec /\ ako'.deleting = ako.deleting
  <2>1. CASE ako' = ako
    BY Zenon, <2>1, <1>2
  <2>2. CASE ako' = [ako EXCEPT !.state = "Error"]
    <3>1. ako' \in AkoConfigs /\ ako'.spec = ako.spec /\ ako'.deleting = ako.deleting
      BY Zenon, <1>2, <2>2 DEF AkoConfigs
    <3> QED BY Zenon, <3>1 DEF WellFormed
  <2> QED BY Zenon, <2>1, <2>2 DEF Writes
<1>4. \/ job' = None /\ queue' = TRUE
      \/ /\ job' \in Jobs /\ job' # None /\ job'.spec = job.spec /\ job'.todo = job.todo
         /\ job'.step \in kinds \cup {"ready"} /\ job'.step \notin {"cleanup", "secret", "cm"}
  <2>1. CASE job' = None /\ queue' = TRUE
    BY Zenon, <2>1
  <2>2. CASE job' = [job EXCEPT !.step = Following(@)]
    BY Zenon, <2>2, <1>1, NextStep DEF Writes
  <2> QED BY Zenon, <2>1, <2>2 DEF Writes
<1>5. /\ kinds' = kinds /\ pods' = pods /\ secret' = secret
      /\ api'[k] = data /\ (\A j \in kinds \ {k} : api'[j] = api[j] /\ view'[j] = view[j])
      /\ view'[k] = view[k] \/ view'[k] = data
  BY Zenon, <1>1 DEF Writes, TypeOK
<1>6. objectList \subseteq objectList' /\ objectList' \subseteq (kinds \ {"crd"}) \cup {Unnamed}
  BY Zenon, <1>1 DEF Writes, TypeOK, Listed
<1>7. TypeOK'
  <2>1. rebootRequired' \in BOOLEAN /\ rolling' \in BOOLEAN
    BY Zenon DEF Writes
  <2>2. queue' \in BOOLEAN
    BY Zenon DEF Writes, TypeOK
  <2>3. left' \in 0..MaxDisturbances
    BY DEF Writes, TypeOK, WellFormed
  <2>4. job' # None => job'.todo \subseteq objectList'
    BY Zenon, <1>1, <1>4, <1>6 DEF TypeOK
  <2>5. api' = [j \in kinds |-> api'[j]] /\ view' = [j \in kinds |-> view'[j]]
    BY Zenon, <1>1 DEF Writes, TypeOK
  <2>6. \A j \in kinds : api'[j] \in Artifacts(j) \cup {None} /\ view'[j] \in Artifacts(j) \cup {None}
    BY <1>1, <1>5 DEF Writes, TypeOK
  <2>7. dirty' \subseteq kinds
    BY <1>1 DEF Writes, TypeOK
  <2>8. desiredCrd' \in {"built", "edited"}
    BY Zenon DEF Writes, TypeOK
  <2> QED BY Zenon, <1>3, <1>4, <1>5, <1>6, <2>1, <2>2, <2>3, <2>4, <2>5, <2>6, <2>7, <2>8 DEF TypeOK, Listed, Reading
<1>8. ConvergedInv'
  <2>1. queue' = TRUE \/ dirty' # {}
    BY Zenon DEF Writes
  <2>2. \A j \in kinds : j \notin dirty' => view'[j] = api'[j]
    BY Zenon, <1>1, <1>5 DEF Writes, ConvergedInv, TypeOK
  <2> QED BY Zenon, <2>1, <2>2, <1>3, <1>4, <1>5 DEF ConvergedInv
<1>9. ListInv'
  <2>1. \A j : ~Exempt(j)' => ~Exempt(j)
    BY Zenon, <1>0 DEF Exempt
  <2>2. data = None => Exempt(k) /\ Exempt(k)' /\ ~NoneOf({"spec", "swap"})'
    BY Zenon DEF Writes, Exempt, NoneOf
  <2>3. NoneOf({"spec", "swap"})' =>
          /\ job' # None => job'.spec = ako'.spec
          /\ "gwclass" \in kinds /\ ~ako'.spec.gw => api'["gwclass"] = None /\ view'["gwclass"] = None
    BY <1>0, <1>1, <1>2, <1>3, <1>4, <1>5, <2>2 DEF Writes, ListInv
  <2>4. NoneOf({"remove"})' => \A j \in kinds \ {"crd"} :
           ~Exempt(j)' => /\ view'[j] # None => api'[j] # None
                          /\ j \in objectList' => view'[j] # None
    <3>1. \A j \in kinds : j \in objectList' => j \in objectList \/ (j = k /\ view'[k] # None)
      BY Zenon, <1>1 DEF Writes, Unnamed, Kinds
    <3> QED BY <1>0, <1>1, <1>2, <1>5, <2>1, <2>2, <3>1 DEF Writes, ListInv
  <2>5. objectList' \cap kinds \subseteq kinds \ {"crd"}
    BY Zenon, <1>6 DEF Unnamed
  <2> QED BY Zenon, <1>3, <1>4, <1>5, <2>3, <2>4, <2>5 DEF ListInv
<1>10. PodsInv'
  <2> SUFFICES ASSUME {"cm", "sf"} \subseteq kinds,
                      NoneOf({"crash", "remove", "swap", "sameOrder"})'
               PROVE  PodsInv'
    BY Zenon, <1>5 DEF PodsInv
  <2>1. /\ {"cm", "sf"} \subseteq kinds /\ Installing
        /\ NoneOf({"crash", "remove", "swap", "sameOrder"})
    BY Zenon, <1>0, <1>2
  <2>2. api["cm"] # None => api["cm"] \in ConfigMaps
    BY Zenon, <2>1 DEF TypeOK, Artifacts
  <2>3. CASE k = "cm"
    <3>1. /\ data = BuildConfigMap(job.spec) /\ data # None /\ data \in ConfigMaps
          /\ data.rhi \in {0, 1} /\ data.evh \in {0, 1}
      BY <2>3, <1>1, ArtifactsAreReal DEF Writes, BuildConfigMap, Artifacts, WellFormed, Jobs
    <3>2. view["cm"] = api["cm"]
      BY Zenon, <2>3, <3>1 DEF Writes
    <3>3. ~Exchanged(data, BuildConfigMap(ako.spec)) /\ ~Exchanged(data, BuildConfigMap(job.spec))
      BY Zenon, <2>1, <3>1, <1>1 DEF PodsInv, Exchanged
    <3>4. api["sf"] # None => rolling' \/ rebootRequired' \/ pods.cfg = Settings(data)
      <4> SUFFICES ASSUME api["sf"] # None, ~rolling, ~rebootRequired'
                   PROVE  pods.cfg = Settings(data)
        BY <2>3 DEF Writes
      <4>1. ~rebootRequired /\ Checksum(api["cm"]) = Checksum(data) /\ api["cm"] # None
        BY Zenon, <2>1, <2>3, <3>2 DEF Writes, PodsInv
      <4>2. api["cm"].rhi = 4 \/ pods.cfg = Settings(api["cm"])
        BY Zenon, <2>1, <4>1 DEF PodsInv
      <4>3. /\ api["cm"].rhi \in {0, 1, 4} /\ api["cm"].evh \in {0, 1}
        BY Zenon, <2>2, <4>1 DEF ConfigMaps
      <4>4. api["cm"].rhi = data.rhi
        BY Zenon, <2>1, <3>1, <4>1, <1>1 DEF PodsInv, Exchanged
      <4>5. api["cm"].evh = data.evh
        BY SMTT(30), <3>1, <4>1, <4>3, <4>4 DEF Checksum
      <4> QED BY <4>2, <4>4, <4>5, <3>1 DEF Settings
    <3> QED BY <2>1, <2>3, <3>1, <3>3, <3>4, <1>1, <1>3, <1>4, <1>5
            DEF PodsInv, Writes, Exchanged, Checksum, BuildConfigMap, Settings
  <2>4. CASE k = "sf"
    <3>1. rolling' = TRUE /\ api["cm"] # None /\ api'["cm"] = api["cm"]
      BY Zenon, <2>1, <2>4, <1>1, <1>5 DEF Writes, NoneOf, PodsInv
    <3> QED BY Zenon, <2>1, <2>4, <3>1, <1>1, <1>3, <1>4, <1>5
            DEF PodsInv, Exchanged, Checksum, BuildConfigMap, Settings
  <2>5. CASE k \notin {"cm", "sf"}
    <3>1. /\ api'["cm"] = api["cm"] /\ api'["sf"] = api["sf"]
          /\ rolling' = rolling /\ rebootRequired' = rebootRequired
      BY Zenon, <2>1, <2>5, <1>5 DEF Writes
    <3> QED BY Zenon, <2>1, <2>5, <3>1, <1>1, <1>3, <1>4, <1>5
            DEF PodsInv, Exchanged, Checksum, BuildConfigMap, Settings
  <2> QED BY Zenon, <2>3, <2>4, <2>5
<1>11. MemoryInv'
  <2>1. NoneOf({"adopted"})' => desiredCrd' = desiredCrd
    BY Zenon DEF Writes, NoneOf
  <2>2. "sf" \in kinds => api'["sf"] = api["sf"] \/ api'["sf"].pvc = job.spec.pvc
    BY Zenon, <1>5 DEF Writes
  <2> QED BY Zenon, <1>1, <1>2, <1>3, <1>4, <1>5, <2>1, <2>2, Remembering DEF Writes, KeepsMemory
<1> QED BY Zenon, <1>7, <1>8, <1>9, <1>10, <1>11

-----------------------------------------------------------------------------
\* The handlers of a reconcile, as instances of the three.

\* What a disturbance and its absence do to the bound and the history.
LEMMA Disturbing ==
    ASSUME WellFormed, TypeOK
    PROVE  /\ Calm => happened' = happened /\ left' \in 0..left
           /\ \A d : Spend(d) => happened' = happened \cup {d} /\ left' \in 0..left
BY DEF WellFormed, TypeOK, Calm, Spend

\* The same of a disturbance with more to it.
LEMMA DisturbingMore ==
    ASSUME WellFormed, TypeOK, NEW d, NEW more, SpendAnd(d, more)
    PROVE  happened' = happened \cup {d} \cup more /\ left' \in 0..left
BY DEF WellFormed, TypeOK, SpendAnd

\* A failed write, of which nothing but the status of the AKOConfig is left.
LEMMA Failing ==
    ASSUME WellFormed, AkoInv, NEW s, s # "cleanup", At(s), Fail,
           happened \subseteq happened', left' \in 0..left,
           rebootRequired' = rebootRequired \/ rebootRequired' = TRUE,
           UNCHANGED <<kinds, api, view, dirty, secret, desiredCrd, objectList, pods, rolling>>
    PROVE  AkoInv'
<1>1. ako # None
  BY Zenon DEF AkoInv, ConvergedInv, At
<1>2. GivesUp
  BY Zenon, <1>1 DEF GivesUp, At, Fail
<1> QED BY Zenon, <1>2, GivingUp

\* Reading the credentials Secret keeps the invariant.
LEMMA ReadSecretKeeps ==
    ASSUME WellFormed, AkoInv, UNCHANGED kinds, ReadSecret
    PROVE  AkoInv'
<1>1. happened' = happened /\ left' \in 0..left
  BY Zenon, Disturbing DEF ReadSecret, AkoInv
<1>2. CASE secret
  <2>1. GoesOn("secret")
    <3>1. "secret" \notin kinds
      BY Zenon, Shapes DEF AkoInv, Kinds
    <3> QED BY Zenon, <1>1, <1>2, <3>1 DEF ReadSecret, GoesOn, Keep
  <2> QED BY Zenon, <2>1, GoingOn
<1>3. CASE ~secret
  <2>1. GivesUp
    BY Zenon, <1>1, <1>3 DEF ReadSecret, GivesUp, Keep, At
  <2> QED BY Zenon, <2>1, GivingUp
<1> QED BY Zenon, <1>2, <1>3

\* createOrUpdateConfigMap keeps the invariant: it goes on, fails or writes.
LEMMA ConfigMapKeeps ==
    ASSUME WellFormed, AkoInv, UNCHANGED kinds, createOrUpdateConfigMap
    PROVE  AkoInv'
<1> DEFINE new == BuildConfigMap(job.spec)
<1>1. /\ At("cm") /\ secret' = secret /\ desiredCrd' = desiredCrd /\ pods' = pods /\ rolling' = rolling
      /\ job # None /\ job.step = "cm" /\ job.spec \in Specs /\ "cm" \in kinds
  <2>1. /\ At("cm") /\ secret' = secret /\ desiredCrd' = desiredCrd /\ pods' = pods /\ rolling' = rolling
    BY Zenon DEF createOrUpdateConfigMap, Keep
  <2> QED BY Zenon, <2>1, Shapes DEF At, AkoInv
<1>2. /\ new \in Artifacts("cm") /\ new # None /\ new = Desired(job.spec, "cm")
  BY Zenon, <1>1, ArtifactsAreReal DEF Desired
<1>3. /\ rebootRequired' = rebootRequired \/ rebootRequired' = TRUE
      /\ rebootRequired => rebootRequired'
      /\ view["cm"] # None /\ Checksum(view["cm"]) # Checksum(new) => rebootRequired'
      /\ rebootRequired' \in BOOLEAN
  <2>1. rebootRequired \in BOOLEAN
    BY Zenon DEF AkoInv, TypeOK
  <2> QED BY Zenon, <2>1 DEF createOrUpdateConfigMap, SetIfRebootRequired
<1>4. CASE /\ view["cm"] = new
           /\ Listing("cm") /\ GoOn(FALSE) /\ Calm /\ UNCHANGED <<api, dirty, view>>
  <2>1. dirty = {} => api["cm"] = new
    BY Zenon, <1>1, <1>4 DEF AkoInv, ConvergedInv
  <2>2. GoesOn("cm")
    BY Zenon, <1>1, <1>2, <1>3, <1>4, <2>1, Disturbing DEF GoesOn, Listing, AkoInv, AsDesired
  <2> QED BY Zenon, <2>2, GoingOn
<1>5. CASE /\ view["cm"] # new
           /\ WriteFails("cm") /\ Fail /\ UNCHANGED <<api, dirty, view, objectList>>
  <2>1. happened \subseteq happened' /\ left' \in 0..left
    BY Zenon, <1>5, Disturbing DEF WriteFails, AkoInv
  <2> QED BY Zenon, <1>1, <1>3, <1>5, <2>1, Failing
<1>6. ASSUME view["cm"] # new /\ ~Refused("cm") /\ Calm,
             NEW fresh \in BOOLEAN, Written("cm", new, fresh),
             IF fresh \/ view["cm"] # None THEN Listing("cm") /\ GoOn(fresh)
             ELSE Fail /\ UNCHANGED objectList
      PROVE  AkoInv'
  <2>1. PICK data : data = new
    OBVIOUS
  <2>2. ako # None
    BY Zenon, <1>1 DEF AkoInv, ConvergedInv
  <2>3. view'["cm"] = IF fresh THEN data ELSE view["cm"]
    BY Zenon, <1>1, <1>6, <2>1 DEF Written, AkoInv, TypeOK
  <2>4. happened' = happened /\ left' \in 0..left
    BY Zenon, <1>6, Disturbing DEF AkoInv
  <2>5. rolling' \in BOOLEAN
    BY Zenon, <1>1 DEF AkoInv, TypeOK
  <2> HIDE DEF new
  <2>6. Writes("cm", data)
    <3>1. CASE fresh
      BY Zenon, <1>1, <1>2, <1>3, <1>6, <2>1, <2>2, <2>3, <2>4, <2>5, <3>1
         DEF Writes, Written, Refused, Listing, GoOn, new
    <3>2. CASE ~fresh /\ view["cm"] # None
      BY Zenon, <1>1, <1>2, <1>3, <1>6, <2>1, <2>2, <2>3, <2>4, <2>5, <3>2
         DEF Writes, Written, Refused, Listing, GoOn, new, AkoInv, TypeOK
    <3>3. CASE ~fresh /\ view["cm"] = None
      BY Zenon, <1>1, <1>2, <1>3, <1>6, <2>1, <2>2, <2>3, <2>4, <2>5, <3>3
         DEF Writes, Written, Refused, Fail, new
    <3> QED BY Zenon, <3>1, <3>2, <3>3
  <2> QED BY Zenon, <2>6, Writing
<1> QED BY Zenon, <1>4, <1>5, <1>6 DEF createOrUpdateConfigMap

\* A reconcile that is at an artifact.
LEMMA AtArtifact ==
    ASSUME WellFormed, AkoInv, NEW s \in Kinds, At(s)
    PROVE  /\ job # None /\ job.step = s /\ job.spec \in Specs /\ s \in kinds /\ ako # None
           /\ dirty = {} => api[s] = view[s]
           /\ s # "cleanup"
<1>1. s \notin {"secret", "crdRead", "ready", "cleanup"}
  BY Zenon DEF Kinds
<1>2. job # None /\ job.step = s /\ job.spec \in Specs /\ s \in kinds
  BY Zenon, <1>1, Shapes DEF At, AkoInv
<1> QED BY Zenon, <1>1, <1>2 DEF AkoInv, ConvergedInv

\* createOrUpdateServiceAccount keeps the invariant.
LEMMA ServiceAccountKeeps ==
    ASSUME WellFormed, AkoInv, UNCHANGED kinds, createOrUpdateServiceAccount
    PROVE  AkoInv'
<1>1. /\ At("sa") /\ secret' = secret /\ desiredCrd' = desiredCrd /\ pods' = pods /\ rolling' = rolling
      /\ rebootRequired' = rebootRequired
  BY Zenon DEF createOrUpdateServiceAccount, Keep
<1>2. /\ job # None /\ job.step = "sa" /\ job.spec \in Specs /\ "sa" \in kinds /\ ako # None
      /\ dirty = {} => api["sa"] = view["sa"]
  BY Zenon, <1>1, AtArtifact DEF Kinds
<1>3. "built" \in Artifacts("sa") /\ "built" # None /\ Desired(job.spec, "sa") = "built"
  BY Zenon, ArtifactsAreReal DEF Desired
<1>4. view["sa"] # None => view["sa"] = "built"
  BY Zenon, <1>2 DEF AkoInv, TypeOK, Artifacts
<1>5. rolling' \in BOOLEAN /\ rebootRequired' \in BOOLEAN
  BY Zenon, <1>1 DEF AkoInv, TypeOK
<1>6. CASE /\ view["sa"] # None
           /\ Listing("sa") /\ GoOn(FALSE) /\ Calm /\ UNCHANGED <<api, dirty, view>>
  <2>1. GoesOn("sa")
    BY Zenon, <1>1, <1>2, <1>3, <1>4, <1>6, Disturbing DEF GoesOn, Listing, AkoInv, AsDesired
  <2> QED BY Zenon, <2>1, GoingOn
<1>7. CASE /\ view["sa"] = None
           /\ WriteFails("sa") /\ Fail /\ UNCHANGED <<api, dirty, view, objectList>>
  <2>1. happened \subseteq happened' /\ left' \in 0..left
    BY Zenon, <1>7, Disturbing DEF WriteFails, AkoInv
  <2> QED BY Zenon, <1>1, <1>7, <2>1, Failing
<1>8. ASSUME view["sa"] = None /\ ~Refused("sa") /\ Calm,
             NEW fresh \in BOOLEAN, Written("sa", "built", fresh), GoOn(fresh),
             IF fresh THEN Listing("sa") ELSE Listing(Unnamed)
      PROVE  AkoInv'
  <2>1. view'["sa"] = IF fresh THEN "built" ELSE view["sa"]
    BY Zenon, <1>2, <1>8 DEF Written, AkoInv, TypeOK
  <2>2. happened' = happened /\ left' \in 0..left
    BY Zenon, <1>8, Disturbing DEF AkoInv
  <2>3. queue' = queue \/ queue' = TRUE
    BY Zenon, <1>8 DEF GoOn, AkoInv, TypeOK
  <2>4. Writes("sa", "built")
    <3>1. CASE fresh
      BY Zenon, <1>1, <1>2, <1>3, <1>5, <1>8, <2>1, <2>2, <2>3, <3>1
         DEF Writes, Written, Refused, Listing, GoOn
    <3>2. CASE ~fresh
      BY Zenon, <1>1, <1>2, <1>3, <1>5, <1>8, <2>1, <2>2, <2>3, <3>2
         DEF Writes, Written, Refused, Listing, GoOn
    <3> QED BY Zenon, <3>1, <3>2
  <2> QED BY Zenon, <2>4, Writing
<1> QED BY Zenon, <1>6, <1>7, <1>8 DEF createOrUpdateServiceAccount

\* createOrUpdateClusterRole and createOrUpdateClusterroleBinding keep the invariant.
LEMMA RoleKeeps ==
    ASSUME WellFormed, AkoInv, UNCHANGED kinds, NEW k \in {"cr", "crb"}, CreateOrUpdateRole(k)
    PROVE  AkoInv'
<1>1. /\ At(k) /\ secret' = secret /\ desiredCrd' = desiredCrd /\ pods' = pods /\ rolling' = rolling
      /\ rebootRequired' = rebootRequired
  BY Zenon DEF CreateOrUpdateRole, Keep
<1>2. /\ job # None /\ job.step = k /\ job.spec \in Specs /\ k \in kinds /\ ako # None
      /\ dirty = {} => api[k] = view[k]
      /\ k # "cleanup"
  BY Zenon, <1>1, AtArtifact DEF Kinds
<1>3. "built" \in Artifacts(k) /\ "built" # None /\ Desired(job.spec, k) = "built"
  BY Zenon, ArtifactsAreReal DEF Desired
<1>5. rolling' \in BOOLEAN /\ rebootRequired' \in BOOLEAN
  BY Zenon, <1>1 DEF AkoInv, TypeOK
<1>6. CASE /\ view[k] = "built"
           /\ Listing(k) /\ GoOn(FALSE) /\ Calm /\ UNCHANGED <<api, dirty, view>>
  <2>1. GoesOn(k)
    BY Zenon, <1>1, <1>2, <1>3, <1>6, Disturbing DEF GoesOn, Listing, AkoInv, AsDesired
  <2> QED BY Zenon, <2>1, GoingOn
<1>7. CASE /\ view[k] # "built"
           /\ WriteFails(k) /\ Fail /\ UNCHANGED <<api, dirty, view, objectList>>
  <2>1. happened \subseteq happened' /\ left' \in 0..left
    BY Zenon, <1>7, Disturbing DEF WriteFails, AkoInv
  <2> QED BY Zenon, <1>1, <1>2, <1>7, <2>1, Failing
<1>8. ASSUME view[k] # "built" /\ ~Refused(k) /\ Calm,
             NEW fresh \in BOOLEAN, Written(k, "built", fresh),
             IF fresh \/ view[k] # None THEN Listing(k) /\ GoOn(fresh)
             ELSE Fail /\ UNCHANGED objectList
      PROVE  AkoInv'
  <2>1. view'[k] = IF fresh THEN "built" ELSE view[k]
    BY Zenon, <1>2, <1>8 DEF Written, AkoInv, TypeOK
  <2>2. happened' = happened /\ left' \in 0..left
    BY Zenon, <1>8, Disturbing DEF AkoInv
  <2>3. Writes(k, "built")
    <3>1. CASE fresh
      BY Zenon, <1>1, <1>2, <1>3, <1>5, <1>8, <2>1, <2>2, <3>1
         DEF Writes, Written, Refused, Listing, GoOn
    <3>2. CASE ~fresh /\ view[k] # None
      <4>1. queue' = queue \/ queue' = TRUE
        BY Zenon, <1>8, <3>2 DEF GoOn, AkoInv, TypeOK
      <4> QED BY Zenon, <1>1, <1>2, <1>3, <1>5, <1>8, <2>1, <2>2, <3>2, <4>1
              DEF Writes, Written, Refused, Listing, GoOn
    <3>3. CASE ~fresh /\ view[k] = None
      BY Zenon, <1>1, <1>2, <1>3, <1>5, <1>8, <2>1, <2>2, <3>3
         DEF Writes, Written, Refused, Fail
    <3> QED BY Zenon, <3>1, <3>2, <3>3
  <2> QED BY Zenon, <2>3, Writing
<1> QED BY Zenon, <1>6, <1>7, <1>8 DEF CreateOrUpdateRole

\* A step at the CRD that writes it or reads it back.
CrdMoves ==
    /\ "crd" \in kinds /\ job # None /\ job.step \in {"crd", "crdRead"}
    /\ \/ job' = [job EXCEPT !.step = "crdRead"]
       \/ job' = [job EXCEPT !.step = Following("crd")]
    /\ UNCHANGED <<api, dirty>> \/ Change("crd", desiredCrd)
    /\ desiredCrd' \in {"built", "edited"}
    /\ ~queue /\ dirty' = {} => api["crd"] = desiredCrd'
    /\ NoneOf({"adopted"})' => desiredCrd' = desiredCrd
    /\ UNCHANGED <<kinds, ako, queue, view, secret, pods, rebootRequired, objectList, rolling>>
    /\ happened \subseteq happened' /\ left' \in 0..left

\* Such a step keeps the invariant: when no event is to come, what it has read back is
\* what it has written.
LEMMA CrdMoving ==
    ASSUME WellFormed, AkoInv, CrdMoves
    PROVE  AkoInv'
<1> USE DEF AkoInv
<1>0. /\ \A S : NoneOf(S)' => NoneOf(S)
      /\ \A j : ~Exempt(j)' => ~Exempt(j)
  BY Zenon DEF NoneOf, Exempt, CrdMoves
<1>1. /\ "crd" \in kinds /\ job # None /\ job.step \in {"crd", "crdRead"} /\ job \in Jobs
      /\ kinds \subseteq Kinds
  BY Zenon, Shapes DEF CrdMoves, TypeOK
<1>2. /\ kinds' = kinds /\ ako' = ako /\ queue' = queue /\ view' = view /\ secret' = secret
      /\ pods' = pods /\ rebootRequired' = rebootRequired /\ objectList' = objectList
      /\ rolling' = rolling /\ ako # None /\ ako \in AkoConfigs
  BY Zenon, <1>1 DEF CrdMoves, ConvergedInv, TypeOK
<1>3. /\ Earlier("crd") = {"cm", "sa", "cr", "crb"}
      /\ Earlier("crdRead") = {"cm", "sa", "cr", "crb", "crd"}
  BY Zenon DEF Earlier
<1>4. /\ Following("crd") \in kinds \cup {"ready"}
      /\ kinds \cap Earlier(Following("crd")) = (kinds \cap Earlier("crd")) \cup (kinds \cap {"crd"})
      /\ Following("crd") # "cm"
  BY Zenon, <1>1, FollowingStep
<1>5. /\ job' \in Jobs /\ job' # None /\ job'.spec = job.spec /\ job'.todo = job.todo
      /\ job'.step = "crdRead" \/ job'.step = Following("crd")
  <2>1. CASE job' = [job EXCEPT !.step = "crdRead"]
    BY Zenon, <2>1, <1>1 DEF Jobs, WellFormed
  <2>2. CASE job' = [job EXCEPT !.step = Following("crd")]
    <3>1. Following("crd") \in Kinds \cup {"ready"}
      BY Zenon, <1>1, <1>4
    <3>2. /\ job' \in Jobs /\ job'.spec = job.spec /\ job'.todo = job.todo
          /\ job'.step = Following("crd")
      BY Zenon, <2>2, <1>1, <3>1 DEF Jobs
    <3> QED BY Zenon, <3>2 DEF WellFormed
  <2> QED BY Zenon, <2>1, <2>2 DEF CrdMoves
<1>6. /\ job'.step \in kinds \cup {"ready", "crdRead"} /\ job'.step \notin {"secret", "cleanup", "cm"}
  BY Zenon, <1>1, <1>4, <1>5 DEF Kinds
<1>7. \A k \in kinds \cap Earlier(job'.step) : k = "crd" \/ k \in Earlier(job.step)
  BY Zenon, <1>1, <1>3, <1>4, <1>5
<1>8. "sf" \notin kinds \cap Earlier(job'.step)
  <2>1. CASE job'.step = "crdRead"
    <3>1. Earlier(job'.step) = {"cm", "sa", "cr", "crb", "crd"}
      BY Zenon, <2>1, <1>3
    <3> QED BY Zenon, <3>1
  <2>2. CASE job'.step = Following("crd")
    <3>1. kinds \cap Earlier(job'.step) \subseteq {"cm", "sa", "cr", "crb", "crd"}
      BY Zenon, <2>2, <1>3, <1>4
    <3> QED BY Zenon, <3>1
  <2> QED BY Zenon, <1>5, <2>1, <2>2
<1>9. /\ api' = [j \in kinds |-> api'[j]] /\ (\A j \in kinds \ {"crd"} : api'[j] = api[j])
      /\ api'["crd"] \in Artifacts("crd") \cup {None}
      /\ dirty' \subseteq kinds /\ dirty \subseteq dirty'
      /\ \A j \in kinds : j \notin dirty' => api'[j] = api[j]
  <2>1. desiredCrd \in Artifacts("crd")
    BY Zenon, ArtifactsAreReal DEF TypeOK
  <2>2. CASE UNCHANGED <<api, dirty>>
    BY Zenon, <2>2, <1>1 DEF TypeOK
  <2>3. CASE Change("crd", desiredCrd)
    BY Zenon, <2>1, <2>3, <1>1 DEF TypeOK, Change
  <2> QED BY Zenon, <2>2, <2>3 DEF CrdMoves
<1>10. TypeOK'
  <2>1. left' \in 0..MaxDisturbances
    BY DEF CrdMoves, TypeOK, WellFormed
  <2>2. desiredCrd' \in {"built", "edited"}
    BY Zenon DEF CrdMoves
  <2> QED BY Zenon, <1>1, <1>2, <1>5, <1>6, <1>9, <2>1, <2>2 DEF TypeOK, Listed, Reading
<1>11. ConvergedInv'
  <2>1. \A k \in kinds : k \notin dirty' => view'[k] = api'[k]
    BY Zenon, <1>2, <1>9 DEF ConvergedInv
  <2>2. ASSUME ~queue, dirty' = {}
        PROVE  ~ako.deleting /\ job.spec = ako.spec /\ Handled(job.spec, Earlier(job.step))'
    <3>1. dirty = {} /\ api["crd"] = desiredCrd' /\ \A j \in kinds : api'[j] = api[j]
      BY Zenon, <2>2, <1>9 DEF CrdMoves
    <3>2. ~ako.deleting /\ job.spec = ako.spec /\ Handled(job.spec, Earlier(job.step))
      BY Zenon, <1>1, <2>2, <3>1 DEF ConvergedInv
    <3>3. \A k \in kinds \cap Earlier(job'.step) : AsDesired(job.spec, k)'
      <4> SUFFICES ASSUME NEW k \in kinds, k \in Earlier(job'.step)
                   PROVE  AsDesired(job.spec, k)'
        BY Zenon
      <4>1. CASE k = "crd"
        BY Zenon, <4>1, <3>1 DEF AsDesired
      <4>2. CASE k # "crd"
        <5>1. AsDesired(job.spec, k) /\ api'[k] = api[k] /\ job'.spec = job.spec
          BY Zenon, <4>2, <1>5, <1>7, <3>1, <3>2 DEF Handled
        <5> QED BY Zenon, <4>2, <5>1, <1>0 DEF AsDesired, Desired, isSfUpdateRequired,
                BuildStatefulSet, BuildConfigMap
      <4> QED BY Zenon, <4>1, <4>2
    <3> QED BY Zenon, <3>2, <3>3, <1>2, <1>8 DEF Handled
  <2> QED BY Zenon, <2>1, <2>2, <1>2, <1>5, <1>6 DEF ConvergedInv
<1>12. ListInv'
  <2>1. "crd" \notin objectList
    BY Zenon DEF TypeOK, Listed, Unnamed
  <2>2. Installing /\ Installing'
    BY Zenon, <1>1, <1>2, <1>5, <1>6 DEF Installing
  <2>3. \A j \in kinds \ {"crd"} : api'[j] = api[j]
    BY Zenon, <1>9
  <2>4. /\ "gwclass" \in kinds => api'["gwclass"] = api["gwclass"]
        /\ ako' # None /\ job'.step # "cleanup"
    BY Zenon, <1>2, <1>6, <2>3
  <2> QED BY Zenon, <1>0, <1>1, <1>2, <1>5, <2>2, <2>3, <2>4 DEF ListInv
<1>13. PodsInv'
  <2>1. Installing
    BY Zenon, <1>1, <1>2 DEF Installing
  <2>2. {"cm", "sf"} \subseteq kinds => api'["cm"] = api["cm"] /\ api'["sf"] = api["sf"]
    BY Zenon, <1>9
  <2> QED BY Zenon, <1>0, <1>1, <1>2, <1>5, <1>6, <2>1, <2>2
          DEF PodsInv, Settings, Exchanged, BuildConfigMap, Checksum
<1>14. MemoryInv'
  BY Zenon, <1>1, <1>2, <1>5, <1>9, Remembering DEF CrdMoves, KeepsMemory
<1> QED BY Zenon, <1>10, <1>11, <1>12, <1>13, <1>14

\* createCRDs keeps the invariant.
LEMMA CRDsKeep ==
    ASSUME WellFormed, AkoInv, UNCHANGED kinds, createCRDs
    PROVE  AkoInv'
<1>1. /\ At("crd") /\ secret' = secret /\ pods' = pods /\ rolling' = rolling /\ view' = view
      /\ rebootRequired' = rebootRequired /\ objectList' = objectList
  BY Zenon DEF createCRDs
<1>2. /\ job # None /\ job.step = "crd" /\ job.spec \in Specs /\ "crd" \in kinds /\ ako # None
  BY Zenon, <1>1, AtArtifact DEF Kinds
<1>3. /\ "edited" \in Artifacts("crd") /\ "edited" # None
      /\ desiredCrd \in Artifacts("crd") /\ desiredCrd # None
      /\ desiredCrd \in {"built", "edited"}
  BY Zenon, ArtifactsAreReal DEF AkoInv, TypeOK
<1>4. rolling' \in BOOLEAN /\ rebootRequired' \in BOOLEAN
  BY Zenon, <1>1 DEF AkoInv, TypeOK
<1>5. CASE Spend("error") /\ Fail /\ UNCHANGED <<api, dirty, desiredCrd>>
  <2>1. happened \subseteq happened' /\ left' \in 0..left
    BY Zenon, <1>5, Disturbing DEF AkoInv
  <2> QED BY Zenon, <1>1, <1>5, <2>1, Failing
<1>6. CASE /\ api["crd"] = desiredCrd
           /\ GoOn(FALSE) /\ Calm /\ UNCHANGED <<api, dirty, desiredCrd>>
  <2>1. GoesOn("crd")
    BY Zenon, <1>1, <1>2, <1>6, Disturbing DEF GoesOn, AkoInv, AsDesired
  <2> QED BY Zenon, <2>1, GoingOn
<1>7. CASE /\ IF api["crd"] = desiredCrd THEN UNCHANGED <<api, dirty>> ELSE Change("crd", desiredCrd)
           /\ job' = [job EXCEPT !.step = "crdRead"]
           /\ Calm /\ UNCHANGED <<ako, queue, desiredCrd>>
  <2>1. happened' = happened /\ left' \in 0..left
    BY Zenon, <1>7, Disturbing DEF AkoInv
  <2>2. dirty' = {} => api["crd"] = desiredCrd
    BY Zenon, <1>7 DEF Change
  <2>3. UNCHANGED <<api, dirty>> \/ Change("crd", desiredCrd)
    BY Zenon, <1>7
  <2>4. CrdMoves
    BY Zenon, <1>1, <1>2, <1>3, <1>7, <2>1, <2>2, <2>3 DEF CrdMoves
  <2> QED BY Zenon, <2>4, CrdMoving
<1>8. CASE Change("crd", desiredCrd) /\ GoOn(FALSE) /\ Calm /\ UNCHANGED desiredCrd
  <2>1. happened' = happened /\ left' \in 0..left /\ queue' = queue
    BY Zenon, <1>8, Disturbing DEF GoOn, AkoInv, TypeOK
  <2>2. Writes("crd", desiredCrd)
    BY Zenon, <1>1, <1>2, <1>3, <1>4, <1>8, <2>1 DEF Writes, Change, GoOn
  <2> QED BY Zenon, <2>2, Writing
<1>9. CASE /\ Change("crd", "edited") /\ GoOn(FALSE)
           /\ \/ desiredCrd' = "edited" /\ SpendAnd("edit", {"adopted"})
              \/ UNCHANGED desiredCrd /\ Spend("edit")
  <2>1. /\ happened \subseteq happened' /\ left' \in 0..left
        /\ desiredCrd' = desiredCrd \/ (desiredCrd' \in {"built", "edited"} /\ "adopted" \in happened')
    <3>1. CASE desiredCrd' = "edited" /\ SpendAnd("edit", {"adopted"})
      <4>1. happened' = happened \cup {"edit"} \cup {"adopted"} /\ left' \in 0..left
        BY Zenon, <3>1, DisturbingMore DEF AkoInv
      <4> QED BY Zenon, <3>1, <4>1
    <3>2. CASE UNCHANGED desiredCrd /\ Spend("edit")
      BY Zenon, <3>2, Disturbing DEF AkoInv
    <3> QED BY Zenon, <1>9, <3>1, <3>2
  <2>2. queue' = queue
    BY Zenon, <1>9 DEF GoOn, AkoInv, TypeOK
  <2>3. Writes("crd", "edited")
    BY Zenon, <1>1, <1>2, <1>3, <1>4, <1>9, <2>1, <2>2 DEF Writes, Change, GoOn
  <2> QED BY Zenon, <2>3, Writing
<1> QED BY Zenon, <1>5, <1>6, <1>7, <1>8, <1>9 DEF createCRDs, createCRD

\* Reading the CRD back keeps the invariant.
LEMMA FetchCRDKeeps ==
    ASSUME WellFormed, AkoInv, UNCHANGED kinds, FetchCRD
    PROVE  AkoInv'
<1>1. /\ job # None /\ job.step = "crdRead" /\ "crd" \in kinds
      /\ UNCHANGED <<kinds, ako, api, dirty, queue, view, secret, pods, rebootRequired, objectList,
                     rolling>>
  BY Zenon, Shapes DEF FetchCRD, At, AkoInv
<1>2. /\ happened \subseteq happened' /\ left' \in 0..left
      /\ \/ desiredCrd' = desiredCrd
         \/ /\ desiredCrd' = api["crd"] /\ api["crd"] # None
            /\ api["crd"] # desiredCrd => "adopted" \in happened'
  <2>1. CASE /\ api["crd"] # None /\ desiredCrd' = api["crd"] /\ left' = left
             /\ happened' = happened \cup (IF api["crd"] = desiredCrd THEN {} ELSE {"adopted"})
    <3>1. left' \in 0..left
      BY <2>1 DEF AkoInv, TypeOK, WellFormed
    <3> QED BY Zenon, <2>1, <3>1
  <2>2. CASE desiredCrd' = desiredCrd /\ (Calm \/ Spend("error"))
    BY Zenon, <2>2, Disturbing DEF AkoInv
  <2> QED BY Zenon, <2>1, <2>2 DEF FetchCRD
<1>3. desiredCrd' \in {"built", "edited"}
  BY Zenon, <1>1, <1>2 DEF AkoInv, TypeOK, Artifacts
<1>4. ~queue /\ dirty = {} => api["crd"] = desiredCrd
  BY Zenon, <1>1 DEF AkoInv, ConvergedInv, Handled, Earlier, AsDesired
<1>5. NoneOf({"adopted"})' => desiredCrd' = desiredCrd
  BY Zenon, <1>2 DEF NoneOf
<1>6. CrdMoves
  BY Zenon, <1>1, <1>2, <1>3, <1>4, <1>5 DEF CrdMoves, FetchCRD
<1> QED BY Zenon, <1>6, CrdMoving

\* createOrUpdateGatewayClass keeps the invariant: it may remove the GatewayClass, but
\* then the spec had asked for one before.
LEMMA GatewayClassKeeps ==
    ASSUME WellFormed, AkoInv, UNCHANGED kinds, createOrUpdateGatewayClass
    PROVE  AkoInv'
<1> DEFINE gw == job.spec.gw
<1>1. /\ At("gwclass") /\ secret' = secret /\ desiredCrd' = desiredCrd /\ pods' = pods /\ rolling' = rolling
      /\ rebootRequired' = rebootRequired
  BY Zenon DEF createOrUpdateGatewayClass, Keep
<1>2. /\ job # None /\ job.step = "gwclass" /\ job.spec \in Specs /\ "gwclass" \in kinds
      /\ ako # None /\ Installing
      /\ dirty = {} => api["gwclass"] = view["gwclass"]
  BY Zenon, <1>1, AtArtifact DEF Kinds, Installing
<1>3. "built" \in Artifacts("gwclass") /\ "built" # None /\ "gwclass" # "crd"
  BY Zenon, ArtifactsAreReal
<1>4. view["gwclass"] # None => view["gwclass"] = "built"
  BY Zenon, <1>2 DEF AkoInv, TypeOK, Artifacts
<1>5. rolling' \in BOOLEAN /\ rebootRequired' \in BOOLEAN
  BY Zenon, <1>1 DEF AkoInv, TypeOK
<1>6. CASE /\ view["gwclass"] # None /\ gw
           /\ Listing("gwclass") /\ GoOn(FALSE) /\ Calm /\ UNCHANGED <<api, dirty, view>>
  <2>1. GoesOn("gwclass")
    BY Zenon, <1>1, <1>2, <1>3, <1>4, <1>6, Disturbing DEF GoesOn, Listing, AkoInv
  <2> QED BY Zenon, <2>1, GoingOn
<1>7. CASE /\ view["gwclass"] # None /\ ~gw /\ Change("gwclass", None) /\ Calm
           /\ GoOn(FALSE) /\ UNCHANGED <<view, objectList>>
  <2>1. ~NoneOf({"spec", "swap"})
    BY Zenon, <1>2, <1>7 DEF AkoInv, ListInv
  <2>2. "spec" \in happened \/ "swap" \in happened
    BY Zenon, <2>1 DEF NoneOf
  <2>3. happened' = happened /\ left' \in 0..left
    BY Zenon, <1>7, Disturbing DEF AkoInv
  <2>4. queue' = queue
    BY Zenon, <1>7 DEF GoOn, AkoInv, TypeOK
  <2>5. Writes("gwclass", None)
    BY Zenon, <1>1, <1>2, <1>5, <1>7, <2>2, <2>3, <2>4 DEF Writes, Change, GoOn
  <2> QED BY Zenon, <2>5, Writing
<1>8. CASE /\ view["gwclass"] # None /\ ~gw /\ UNCHANGED <<api, dirty>> /\ Spend("error")
           /\ GoOn(FALSE) /\ UNCHANGED <<view, objectList>>
  <2>1. happened' = happened \cup {"error"} /\ left' \in 0..left
    BY Zenon, <1>8, Disturbing DEF AkoInv
  <2>2. "error" \in happened' /\ happened \subseteq happened'
    BY Zenon, <2>1
  <2>3. GoesOn("gwclass")
    BY Zenon, <1>1, <1>2, <1>8, <2>1, <2>2 DEF GoesOn
  <2> QED BY <2>3, GoingOn
<1>9. CASE /\ view["gwclass"] = None /\ ~gw
           /\ GoOn(FALSE) /\ Calm /\ UNCHANGED <<api, dirty, view, objectList>>
  <2>1. GoesOn("gwclass")
    BY Zenon, <1>1, <1>2, <1>9, Disturbing DEF GoesOn, AkoInv
  <2> QED BY <2>1, GoingOn
<1>10. CASE /\ view["gwclass"] = None /\ gw
            /\ WriteFails("gwclass") /\ Fail /\ UNCHANGED <<api, dirty, view, objectList>>
  <2>1. happened \subseteq happened' /\ left' \in 0..left
    BY Zenon, <1>10, Disturbing DEF WriteFails, AkoInv
  <2> QED BY Zenon, <1>1, <1>10, <2>1, Failing
<1>11. ASSUME view["gwclass"] = None /\ gw /\ ~Refused("gwclass") /\ Calm,
              NEW fresh \in BOOLEAN, Written("gwclass", "built", fresh), GoOn(fresh),
              IF fresh THEN Listing("gwclass") ELSE Listing(Unnamed)
       PROVE  AkoInv'
  <2>1. view'["gwclass"] = IF fresh THEN "built" ELSE view["gwclass"]
    BY Zenon, <1>2, <1>11 DEF Written, AkoInv, TypeOK
  <2>2. happened' = happened /\ left' \in 0..left
    BY Zenon, <1>11, Disturbing DEF AkoInv
  <2>3. queue' = queue \/ queue' = TRUE
    BY Zenon, <1>11 DEF GoOn, AkoInv, TypeOK
  <2>4. Writes("gwclass", "built")
    <3>1. CASE fresh
      BY Zenon, <1>1, <1>2, <1>3, <1>5, <1>11, <2>1, <2>2, <2>3, <3>1
         DEF Writes, Written, Refused, Listing, GoOn
    <3>2. CASE ~fresh
      BY Zenon, <1>1, <1>2, <1>3, <1>5, <1>11, <2>1, <2>2, <2>3, <3>2
         DEF Writes, Written, Refused, Listing, GoOn
    <3> QED BY Zenon, <3>1, <3>2
  <2> QED BY Zenon, <2>4, Writing
<1> QED BY Zenon, <1>6, <1>7, <1>8, <1>9, <1>10, <1>11 DEF createOrUpdateGatewayClass

\* createOrUpdateStatefulSet keeps the invariant: the pods restart when it writes.
LEMMA StatefulSetKeeps ==
    ASSUME WellFormed, AkoInv, UNCHANGED kinds, createOrUpdateStatefulSet
    PROVE  AkoInv'
<1> DEFINE new == BuildStatefulSet(job.spec)
           write == rebootRequired \/ (view["sf"] # None => isSfUpdateRequired(view["sf"], new))
<1>1. At("sf") /\ secret' = secret /\ desiredCrd' = desiredCrd /\ pods' = pods
  BY Zenon DEF createOrUpdateStatefulSet, Keep
<1>2. /\ job # None /\ job.step = "sf" /\ job.spec \in Specs /\ "sf" \in kinds /\ ako # None
      /\ dirty = {} => api["sf"] = view["sf"]
  BY Zenon, <1>1, AtArtifact DEF Kinds
<1>3. new \in Artifacts("sf") /\ new # None /\ new.pvc = job.spec.pvc
  BY Zenon, <1>2, ArtifactsAreReal DEF BuildStatefulSet
<1>4. rolling \in BOOLEAN /\ rebootRequired \in BOOLEAN
  BY Zenon DEF AkoInv, TypeOK
<1>5. CASE /\ job.spec.ok /\ ~write
           /\ Listing("sf") /\ GoOn(FALSE) /\ Calm
           /\ UNCHANGED <<api, dirty, view, rebootRequired, rolling>>
  <2>1. ~rebootRequired /\ view["sf"] # None /\ (dirty = {} => AsDesired(job.spec, "sf"))
    BY Zenon, <1>2, <1>5 DEF AsDesired
  <2>2. GoesOn("sf")
    BY Zenon, <1>1, <1>2, <1>5, <2>1, Disturbing DEF GoesOn, Listing, AkoInv
  <2> QED BY Zenon, <2>2, GoingOn
<1>6. CASE /\ Calm \/ WriteFails("sf")
           /\ Fail /\ UNCHANGED <<api, dirty, view, rebootRequired, objectList, rolling>>
  <2>1. happened \subseteq happened' /\ left' \in 0..left
    BY Zenon, <1>6, Disturbing DEF WriteFails, AkoInv
  <2> QED BY Zenon, <1>1, <1>6, <2>1, Failing
<1>7. ASSUME write /\ ~Refused("sf"),
             rebootRequired' = (rebootRequired /\ view["sf"] = None),
             getEnvVars(view["sf"] = new),
             NEW fresh \in BOOLEAN, Written("sf", new, fresh),
             IF fresh \/ view["sf"] # None THEN Listing("sf") /\ GoOn(fresh)
             ELSE Fail /\ UNCHANGED objectList
      PROVE  AkoInv'
  <2>1. PICK data : data = new
    OBVIOUS
  <2>2. view'["sf"] = IF fresh THEN data ELSE view["sf"]
    BY Zenon, <1>2, <1>7, <2>1 DEF Written, AkoInv, TypeOK
  <2>3. happened \subseteq happened' /\ left' \in 0..left
    BY Zenon, <1>7, Disturbing DEF getEnvVars, AkoInv
  <2>4. /\ rolling' = TRUE \/ "sameOrder" \in happened'
        /\ rolling' \in BOOLEAN
    BY ZenonT(40), <1>4, <1>7, Disturbing DEF getEnvVars, AkoInv
  <2>5. rebootRequired' \in BOOLEAN
    BY Zenon, <1>4, <1>7
  <2> HIDE DEF new, write
  <2>6. Writes("sf", data)
    <3>1. CASE fresh
      BY Zenon, <1>1, <1>2, <1>3, <1>7, <2>1, <2>2, <2>3, <2>4, <2>5, <3>1
         DEF Writes, Written, Refused, Listing, GoOn
    <3>2. CASE ~fresh /\ view["sf"] # None
      <4>1. queue' = queue \/ queue' = TRUE
        BY Zenon, <1>7, <3>2 DEF GoOn, AkoInv, TypeOK
      <4> QED BY Zenon, <1>1, <1>2, <1>3, <1>7, <2>1, <2>2, <2>3, <2>4, <2>5, <3>2, <4>1
              DEF Writes, Written, Refused, Listing, GoOn
    <3>3. CASE ~fresh /\ view["sf"] = None
      BY Zenon, <1>1, <1>2, <1>3, <1>7, <2>1, <2>2, <2>3, <2>4, <2>5, <3>3
         DEF Writes, Written, Refused, Fail
    <3> QED BY Zenon, <3>1, <3>2, <3>3
  <2> QED BY Zenon, <2>6, Writing
<1> QED BY Zenon, <1>5, <1>6, <1>7 DEF createOrUpdateStatefulSet

-----------------------------------------------------------------------------
\* The beginning and the end of a reconcile.

\* Taking a request from the queue keeps the invariant: the list of what is to be
\* removed is made from the cache.
LEMMA StartKeeps ==
    ASSUME WellFormed, AkoInv, UNCHANGED kinds, StartReconcile
    PROVE  AkoInv'
<1> USE DEF AkoInv
<1>1. /\ queue' = FALSE /\ queue = TRUE /\ job = None
      /\ kinds' = kinds /\ api' = api /\ view' = view /\ dirty' = dirty /\ secret' = secret /\ desiredCrd' = desiredCrd
      /\ pods' = pods /\ rebootRequired' = rebootRequired /\ rolling' = rolling
      /\ happened' = happened /\ left' = left
  BY Zenon DEF StartReconcile, Keep, Calm, TypeOK
<1>2. \A S : NoneOf(S)' <=> NoneOf(S)
  BY Zenon, <1>1 DEF NoneOf
<1>3. \A k : Exempt(k)' <=> Exempt(k)
  BY Zenon, <1>2 DEF Exempt
<1>4. CASE ako = None /\ UNCHANGED <<ako, job, objectList>>
  <2>1. TypeOK'
    BY Zenon, <1>1, <1>4 DEF TypeOK, Listed, Reading
  <2>2. ConvergedInv'
    BY Zenon, <1>1, <1>4 DEF ConvergedInv
  <2>3. ListInv'
    BY Zenon, <1>1, <1>2, <1>3, <1>4 DEF ListInv, Installing
  <2>4. PodsInv'
    BY Zenon, <1>1, <1>4 DEF PodsInv, Installing
  <2>5. MemoryInv'
    BY Zenon, <1>1, <1>4, Remembering DEF KeepsMemory
  <2> QED BY Zenon, <2>1, <2>2, <2>3, <2>4, <2>5
<1>5. CASE /\ ako # None /\ ako.deleting /\ ako' = ako
           /\ objectList' = IF objectList = {} THEN {k \in Listed : view[k] # None} ELSE objectList
           /\ job' = [step |-> "cleanup", spec |-> ako.spec, todo |-> objectList']
  <2>1. objectList' \subseteq Listed \cup {Unnamed} /\ Listed \subseteq kinds /\ kinds \subseteq Kinds
    BY Zenon, <1>5, Shapes DEF TypeOK, Listed, Reading
  <2>2. /\ job' \in Jobs /\ job' # None /\ job'.step = "cleanup" /\ job'.todo = objectList'
        /\ job'.spec = ako.spec
    <3>1. /\ job' \in Jobs /\ job'.step = "cleanup" /\ job'.todo = objectList'
          /\ job'.spec = ako.spec
      BY Zenon, <1>5, <2>1, Shapes DEF Jobs
    <3> QED BY Zenon, <3>1 DEF WellFormed
  <2>3. ~Installing /\ ~Installing'
    BY Zenon, <1>1, <1>5, <2>2 DEF Installing
  <2>4. TypeOK'
    BY Zenon, <1>1, <1>5, <2>1, <2>2 DEF TypeOK, Listed, Reading
  <2>5. ConvergedInv'
    BY Zenon, <1>1, <1>5, <2>2 DEF ConvergedInv
  <2>6. ListInv'
    BY Zenon, <1>1, <1>2, <1>3, <1>5, <2>2, <2>3 DEF ListInv
  <2>7. PodsInv'
    BY Zenon, <2>3 DEF PodsInv
  <2>8. MemoryInv'
    BY Zenon, <1>1, <1>5, <2>2, Remembering DEF KeepsMemory
  <2> QED BY <2>4, <2>5, <2>6, <2>7, <2>8
<1>6. CASE /\ ako # None /\ ~ako.deleting
           /\ ako' = [ako EXCEPT !.state = IF @ = "Ready" THEN @ ELSE "Processing"]
           /\ job' = [step |-> "secret", spec |-> ako.spec, todo |-> {}]
           /\ objectList' = objectList
  <2>1. ako \in AkoConfigs
    BY Zenon, <1>6 DEF TypeOK
  <2>2. /\ ako' \in AkoConfigs /\ ako' # None
        /\ ako'.spec = ako.spec /\ ako'.deleting = ako.deleting
    <3>1. ako' \in AkoConfigs /\ ako'.spec = ako.spec /\ ako'.deleting = ako.deleting
      BY Zenon, <2>1, <1>6 DEF AkoConfigs
    <3> QED BY Zenon, <3>1 DEF WellFormed
  <2>3. /\ job' \in Jobs /\ job' # None /\ job'.step = "secret" /\ job'.spec = ako.spec
        /\ job'.todo = {}
    <3>1. job' \in Jobs /\ job'.step = "secret" /\ job'.spec = ako.spec /\ job'.todo = {}
      BY Zenon, <1>6, Shapes DEF Jobs
    <3> QED BY Zenon, <3>1 DEF WellFormed
  <2>4. Installing /\ Installing'
    BY Zenon, <1>6, <2>2 DEF Installing
  <2>5. TypeOK'
    BY Zenon, <1>1, <1>6, <2>2, <2>3 DEF TypeOK, Listed, Reading
  <2>6. ConvergedInv'
    <3>1. Earlier("secret") = {}
      BY Zenon DEF Earlier
    <3> QED BY Zenon, <1>1, <1>6, <2>2, <2>3, <3>1 DEF ConvergedInv, Handled
  <2>7. ListInv'
    BY Zenon, <1>1, <1>2, <1>3, <1>6, <2>2, <2>3, <2>4 DEF ListInv
  <2>8. PodsInv'
    BY Zenon, <1>1, <1>2, <1>6, <2>2, <2>3, <2>4
       DEF PodsInv, Settings, Exchanged, BuildConfigMap, Checksum
  <2>9. MemoryInv'
    BY Zenon, <1>1, <1>6, <2>2, <2>3, Remembering DEF KeepsMemory
  <2> QED BY Zenon, <2>5, <2>6, <2>7, <2>8, <2>9
<1> QED BY Zenon, <1>4, <1>5, <1>6 DEF StartReconcile

\* The patch of the status to Ready keeps the invariant: everything was dealt with.
LEMMA PatchKeeps ==
    ASSUME WellFormed, AkoInv, UNCHANGED kinds, PatchReady
    PROVE  AkoInv'
<1> USE DEF AkoInv
<1>1. /\ job # None /\ job.step = "ready" /\ job' = None
      /\ kinds' = kinds /\ api' = api /\ view' = view /\ dirty' = dirty /\ secret' = secret /\ desiredCrd' = desiredCrd
      /\ objectList' = objectList
      /\ pods' = pods /\ rebootRequired' = rebootRequired /\ rolling' = rolling
  BY Zenon DEF PatchReady, At, Keep
<1>2. ako # None /\ ako \in AkoConfigs /\ Installing
  BY Zenon, <1>1 DEF ConvergedInv, TypeOK, Installing
<1>3. CASE ako' = [ako EXCEPT !.state = "Ready"] /\ UNCHANGED queue /\ Calm
  <2>1. /\ ako' \in AkoConfigs /\ ako' # None /\ ako'.state = "Ready"
        /\ ako'.spec = ako.spec /\ ako'.deleting = ako.deleting
    <3>1. /\ ako' \in AkoConfigs /\ ako'.state = "Ready"
          /\ ako'.spec = ako.spec /\ ako'.deleting = ako.deleting
      BY Zenon, <1>2, <1>3 DEF AkoConfigs
    <3> QED BY Zenon, <3>1 DEF WellFormed
  <2>2. (\A S : NoneOf(S)' <=> NoneOf(S)) /\ (\A k : Exempt(k)' <=> Exempt(k))
    BY Zenon, <1>3 DEF Calm, NoneOf, Exempt
  <2>3. TypeOK'
    BY Zenon, <1>1, <1>3, <2>1 DEF TypeOK, Listed, Reading, Calm
  <2>4. ConvergedInv'
    <3>1. SUFFICES ASSUME ~queue, dirty = {}
                   PROVE  ~ako.deleting /\ Handled(ako.spec, Kinds)'
      BY Zenon, <1>1, <1>3, <2>1 DEF ConvergedInv
    <3>2. ~ako.deleting /\ job.spec = ako.spec /\ Handled(ako.spec, Kinds)
      BY Zenon, <1>1, <3>1 DEF ConvergedInv, Earlier
    <3> QED BY Zenon, <3>2, <1>1, <2>1, <2>2 DEF Handled, AsDesired, Desired, BuildConfigMap, BuildStatefulSet
  <2>5. ListInv'
    <3>1. "crd" \notin objectList
      BY Zenon DEF TypeOK, Listed, Unnamed
    <3> QED BY Zenon, <1>1, <1>2, <2>1, <2>2, <3>1 DEF ListInv
  <2>6. PodsInv'
    BY Zenon, <1>1, <1>2, <2>1, <2>2 DEF PodsInv, Settings, Exchanged, BuildConfigMap, Checksum
  <2>7. MemoryInv'
    BY Zenon, <1>1, <1>2, <1>3, <2>1, Remembering DEF KeepsMemory, Calm
  <2> QED BY <2>3, <2>4, <2>5, <2>6, <2>7
<1>4. CASE queue' = TRUE /\ UNCHANGED ako /\ Spend("error")
  <2>1. happened \subseteq happened' /\ left' \in 0..left
    BY Zenon, <1>4, Disturbing
  <2>2. GivesUp
    BY Zenon, <1>1, <1>4, <2>1 DEF GivesUp
  <2> QED BY Zenon, <2>2, GivingUp
<1> QED BY Zenon, <1>2, <1>3, <1>4 DEF PatchReady

-----------------------------------------------------------------------------
\* The clean-up.

\* deleteIfExists keeps the invariant: what it takes off the list is gone.
LEMMA DeletingKeeps ==
    ASSUME WellFormed, AkoInv, UNCHANGED kinds, NEW k \in kinds, deleteIfExists(k)
    PROVE  AkoInv'
<1> USE DEF AkoInv
<1>1. /\ job # None /\ job \in Jobs /\ job.step = "cleanup" /\ k \in job.todo /\ k \in objectList
      /\ kinds' = kinds /\ ako' = ako /\ view' = view /\ secret' = secret /\ desiredCrd' = desiredCrd
      /\ objectList' = objectList
      /\ pods' = pods /\ rebootRequired' = rebootRequired /\ rolling' = rolling
  BY Zenon DEF deleteIfExists, At, Keep, TypeOK
<1>2. ako # None /\ ako.deleting /\ ~Installing
  BY Zenon, <1>1 DEF ConvergedInv, Installing
<1>3. k # "crd"
  BY Zenon, <1>1 DEF TypeOK, Listed, Unnamed
<1>4. happened \subseteq happened' /\ left' \in 0..left
  BY Zenon, Disturbing DEF deleteIfExists
<1>5. (\A S : NoneOf(S)' => NoneOf(S)) /\ (\A j : ~Exempt(j)' => ~Exempt(j))
  BY Zenon, <1>4 DEF NoneOf, Exempt
<1>6. left' \in 0..MaxDisturbances
  BY <1>4 DEF TypeOK, WellFormed
<1>7. CASE /\ job' = [job EXCEPT !.todo = @ \ {k}] /\ UNCHANGED queue
           /\ \/ view[k] = None /\ UNCHANGED <<api, dirty>>
              \/ Change(k, None)
  <2>1. /\ job' \in Jobs /\ job' # None /\ job'.step = "cleanup" /\ job'.todo = job.todo \ {k}
        /\ job'.spec = job.spec
    <3>1. /\ job' \in Jobs /\ job'.step = "cleanup" /\ job'.todo = job.todo \ {k}
          /\ job'.spec = job.spec
      BY Zenon, <1>1, <1>7 DEF Jobs
    <3> QED BY Zenon, <3>1 DEF WellFormed
  <2>2. /\ api' = [j \in kinds |-> api'[j]]
        /\ \A j \in kinds \ {k} : api'[j] = api[j]
        /\ api'[k] = None \/ (api'[k] = api[k] /\ view[k] = None)
        /\ dirty' = dirty \cup {k} \/ (dirty' = dirty /\ api' = api)
    BY Zenon, <1>7 DEF Change, TypeOK
  <2>3. ~Installing'
    BY Zenon, <1>1, <1>2, <2>1 DEF Installing
  <2>4. TypeOK'
    BY Zenon, <1>1, <1>6, <1>7, <2>1, <2>2 DEF TypeOK, Listed, Reading
  <2>5. ConvergedInv'
    BY Zenon, <1>1, <1>2, <1>7, <2>1, <2>2 DEF ConvergedInv
  <2>6. ListInv'
    <3>2. NoneOf({"remove"})' => \A j \in objectList \cap kinds : ~Exempt(j)' => view[j] # None \/ api'[j] = None
      BY Zenon, <1>2, <1>5, <2>2 DEF ListInv
    <3>3. NoneOf({"remove"})' => \A j \in (objectList \cap kinds) \ job'.todo : ~Exempt(j)' => api'[j] = None
      BY Zenon, <1>1, <1>2, <1>5, <2>1, <2>2 DEF ListInv
    <3> QED BY Zenon, <1>1, <1>2, <2>1, <2>3, <3>2, <3>3 DEF ListInv
  <2>7. PodsInv'
    BY Zenon, <2>3 DEF PodsInv
  <2>8. MemoryInv'
    BY Zenon, <1>1, <1>2, <1>4, <2>1, <2>2, Remembering DEF KeepsMemory
  <2> QED BY Zenon, <2>4, <2>5, <2>6, <2>7, <2>8
<1>8. CASE job' = None /\ queue' = TRUE /\ UNCHANGED <<api, dirty>>
  <2>1. ~Installing'
    BY Zenon, <1>1, <1>2, <1>8 DEF Installing
  <2>2. TypeOK'
    BY Zenon, <1>1, <1>6, <1>8 DEF TypeOK, Listed, Reading
  <2>3. ConvergedInv'
    BY Zenon, <1>1, <1>8 DEF ConvergedInv
  <2>4. ListInv'
    BY Zenon, <1>1, <1>2, <1>5, <1>8, <2>1 DEF ListInv
  <2>5. PodsInv'
    BY <2>1 DEF PodsInv
  <2>6. MemoryInv'
    BY Zenon, <1>1, <1>2, <1>4, <1>8, Remembering DEF KeepsMemory
  <2> QED BY <2>2, <2>3, <2>4, <2>5, <2>6
<1> QED BY Zenon, <1>7, <1>8 DEF deleteIfExists

\* The visit of the empty name keeps the invariant.
LEMMA UnnamedKeeps ==
    ASSUME WellFormed, AkoInv, UNCHANGED kinds, DeleteUnnamed
    PROVE  AkoInv'
<1> USE DEF AkoInv
<1>1. /\ job # None /\ job \in Jobs /\ job.step = "cleanup"
      /\ kinds' = kinds /\ ako' = ako /\ view' = view /\ api' = api /\ dirty' = dirty
      /\ queue' = queue /\ secret' = secret /\ desiredCrd' = desiredCrd /\ objectList' = objectList
      /\ pods' = pods /\ rebootRequired' = rebootRequired /\ rolling' = rolling
      /\ happened' = happened /\ left' = left
  BY Zenon DEF DeleteUnnamed, At, Keep, Calm, TypeOK
<1>2. ako # None /\ ako.deleting /\ ~Installing
  BY Zenon, <1>1 DEF ConvergedInv, Installing
<1>3. /\ job' \in Jobs /\ job' # None /\ job'.step = "cleanup" /\ job'.todo = job.todo \ {Unnamed}
      /\ job'.spec = job.spec
  <2>1. /\ job' \in Jobs /\ job'.step = "cleanup" /\ job'.todo = job.todo \ {Unnamed}
        /\ job'.spec = job.spec
    BY Zenon, <1>1 DEF Jobs, DeleteUnnamed
  <2> QED BY Zenon, <2>1 DEF WellFormed
<1>4. ~Installing' /\ Unnamed \notin kinds
  BY Zenon, <1>1, <1>2, <1>3, Shapes DEF Installing, Unnamed, Kinds
<1>5. (\A S : NoneOf(S)' <=> NoneOf(S)) /\ (\A j : Exempt(j)' <=> Exempt(j))
  BY Zenon, <1>1 DEF NoneOf, Exempt
<1>6. TypeOK'
  BY Zenon, <1>1, <1>3 DEF TypeOK, Listed, Reading
<1>7. ConvergedInv'
  BY Zenon, <1>1, <1>2, <1>3 DEF ConvergedInv
<1>8. ListInv'
  BY Zenon, <1>1, <1>2, <1>3, <1>4, <1>5 DEF ListInv
<1>9. PodsInv'
  BY Zenon, <1>4 DEF PodsInv
<1>10. MemoryInv'
  BY Zenon, <1>1, <1>2, <1>3, Remembering DEF KeepsMemory
<1> QED BY Zenon, <1>6, <1>7, <1>8, <1>9, <1>10

\* Removing the CRDs and the finalizer keeps the invariant.
LEMMA DeleteCRDsKeeps ==
    ASSUME WellFormed, AkoInv, UNCHANGED kinds, deleteCRDs
    PROVE  AkoInv'
<1> USE DEF AkoInv
<1>1. /\ job # None /\ job.step = "cleanup" /\ job.todo = {} /\ job' = None
      /\ kinds' = kinds /\ view' = view /\ secret' = secret /\ desiredCrd' = desiredCrd /\ objectList' = objectList
      /\ pods' = pods /\ rebootRequired' = rebootRequired /\ rolling' = rolling
  BY Zenon DEF deleteCRDs, At, Keep
<1>2. ako # None /\ ako.deleting /\ ~Installing
  BY Zenon, <1>1 DEF ConvergedInv, Installing
<1>3. happened \subseteq happened' /\ left' \in 0..left
  BY Zenon, Disturbing DEF deleteCRDs
<1>4. (\A S : NoneOf(S)' => NoneOf(S)) /\ (\A j : ~Exempt(j)' => ~Exempt(j))
  BY Zenon, <1>3 DEF NoneOf, Exempt
<1>5. left' \in 0..MaxDisturbances
  BY <1>3 DEF TypeOK, WellFormed
<1>6. /\ api' = [j \in kinds |-> api'[j]]
      /\ \A j \in kinds \ {"crd"} : api'[j] = api[j]
      /\ "crd" \in kinds => api'["crd"] = None \/ api'["crd"] = api["crd"]
      /\ dirty' \subseteq kinds /\ dirty \subseteq dirty'
      /\ \A j \in kinds : j \notin dirty' => api'[j] = api[j]
  BY Zenon DEF deleteCRDs, RemoveCRDs, Change, TypeOK
<1>7. \/ ako' = None /\ RemoveCRDs /\ queue' = queue
      \/ ako' = ako /\ queue' = TRUE
  BY Zenon DEF deleteCRDs
<1>8. ~Installing'
  BY Zenon, <1>1, <1>2, <1>7 DEF Installing
<1>9. TypeOK'
  BY Zenon, <1>1, <1>5, <1>6, <1>7 DEF TypeOK, Listed, Reading
<1>10. ConvergedInv'
  BY Zenon, <1>1, <1>6, <1>7 DEF ConvergedInv
<1>11. ListInv'
  <2>1. "crd" \notin objectList
    BY Zenon DEF TypeOK, Listed, Unnamed
  <2>2. ako' = None /\ "crd" \in kinds => api'["crd"] = None
    BY Zenon, <1>2, <1>7 DEF RemoveCRDs, Change, TypeOK
  <2>3. NoneOf({"remove"})' => \A j \in objectList \cap kinds : ~Exempt(j)' => api'[j] = None
    BY Zenon, <1>1, <1>4, <1>6, <2>1 DEF ListInv
  <2> QED BY Zenon, <1>1, <1>8, <2>2, <2>3 DEF ListInv
<1>12. PodsInv'
  BY Zenon, <1>8 DEF PodsInv
<1>13. MemoryInv'
  BY Zenon, <1>1, <1>2, <1>3, <1>6, <1>7, Remembering DEF KeepsMemory
<1> QED BY <1>9, <1>10, <1>11, <1>12, <1>13

-----------------------------------------------------------------------------
\* The cluster: the watch, the garbage collector, the StatefulSet controller.

\* The watch keeps the invariant: it queues a reconcile.
LEMMA WatchKeeps ==
    ASSUME WellFormed, AkoInv, UNCHANGED kinds, NEW k \in kinds, Watch(k)
    PROVE  AkoInv'
<1> USE DEF AkoInv
<1>1. /\ queue' = TRUE /\ kinds' = kinds /\ ako' = ako /\ api' = api /\ job' = job
      /\ secret' = secret /\ desiredCrd' = desiredCrd /\ objectList' = objectList /\ pods' = pods
      /\ rebootRequired' = rebootRequired /\ rolling' = rolling
      /\ happened' = happened /\ left' = left
  BY Zenon DEF Watch, Calm, Keep
<1>2. /\ view' = [j \in kinds |-> view'[j]] /\ view'[k] = api[k]
      /\ \A j \in kinds \ {k} : view'[j] = view[j]
      /\ dirty' = dirty \ {k}
  BY Zenon DEF Watch, TypeOK
<1>3. /\ \A S : NoneOf(S)' <=> NoneOf(S)
      /\ \A j : Exempt(j)' <=> Exempt(j)
      /\ Installing' <=> Installing
  BY Zenon, <1>1 DEF NoneOf, Exempt, Installing
<1>4. TypeOK'
  BY Zenon, <1>1, <1>2 DEF TypeOK, Listed, Reading
<1>5. ConvergedInv'
  BY Zenon, <1>1, <1>2 DEF ConvergedInv
<1>6. ListInv'
  <2>1. "crd" \notin objectList
    BY Zenon DEF TypeOK, Listed, Unnamed
  <2> QED BY Zenon, <1>1, <1>2, <1>3, <2>1 DEF ListInv
<1>7. PodsInv'
  BY Zenon, <1>1, <1>3 DEF PodsInv, Settings, Exchanged, BuildConfigMap, Checksum
<1>8. MemoryInv'
  BY Zenon, <1>1, <1>2, Remembering DEF KeepsMemory
<1> QED BY <1>4, <1>5, <1>6, <1>7, <1>8

\* The garbage collector keeps the invariant.
LEMMA GarbageKeeps ==
    ASSUME WellFormed, AkoInv, UNCHANGED kinds, NEW k \in kinds, GarbageCollect(k)
    PROVE  AkoInv'
<1> USE DEF AkoInv
<1>1. /\ ako = None /\ kinds' = kinds /\ ako' = ako /\ view' = view /\ queue' = queue /\ job' = job
      /\ secret' = secret /\ desiredCrd' = desiredCrd /\ objectList' = objectList /\ pods' = pods
      /\ rebootRequired' = rebootRequired /\ rolling' = rolling
      /\ happened' = happened /\ left' = left
  BY Zenon DEF GarbageCollect, Calm, Keep
<1>2. /\ api' = [j \in kinds |-> api'[j]] /\ api'[k] = None
      /\ \A j \in kinds \ {k} : api'[j] = api[j]
      /\ dirty' = dirty \cup {k}
  BY Zenon DEF GarbageCollect, Change, TypeOK
<1>3. /\ \A S : NoneOf(S)' <=> NoneOf(S)
      /\ \A j : Exempt(j)' <=> Exempt(j)
      /\ ~Installing' /\ ~Installing /\ job = None
  BY Zenon, <1>1 DEF NoneOf, Exempt, Installing, ConvergedInv
<1>4. TypeOK'
  BY Zenon, <1>1, <1>2 DEF TypeOK, Listed, Reading
<1>5. ConvergedInv'
  BY Zenon, <1>1, <1>2, <1>3 DEF ConvergedInv
<1>6. ListInv'
  <2>1. "crd" \notin objectList
    BY Zenon DEF TypeOK, Listed, Unnamed
  <2> QED BY Zenon, <1>1, <1>2, <1>3, <2>1 DEF ListInv
<1>7. PodsInv'
  BY Zenon, <1>3 DEF PodsInv
<1>8. MemoryInv'
  BY Zenon, <1>1, <1>2, Remembering DEF KeepsMemory
<1> QED BY <1>4, <1>5, <1>6, <1>7, <1>8

\* The StatefulSet controller keeps the invariant.
LEMMA PodsKeep ==
    ASSUME WellFormed, AkoInv, UNCHANGED kinds, PodsStart \/ PodsStop
    PROVE  AkoInv'
<1> USE DEF AkoInv
<1>1. /\ kinds' = kinds /\ ako' = ako /\ api' = api /\ view' = view /\ dirty' = dirty
      /\ queue' = queue /\ job' = job /\ secret' = secret /\ desiredCrd' = desiredCrd /\ objectList' = objectList
      /\ rebootRequired' = rebootRequired /\ rolling' = FALSE
      /\ happened' = happened /\ left' = left
  BY Zenon DEF PodsStart, PodsStop, Calm
<1>2. /\ \A S : NoneOf(S)' <=> NoneOf(S)
      /\ \A j : Exempt(j)' <=> Exempt(j)
      /\ Installing' <=> Installing
  BY Zenon, <1>1 DEF NoneOf, Exempt, Installing
<1>3. \/ /\ "sf" \in kinds /\ api["sf"] = None /\ pods' = None
      \/ /\ {"cm", "sf"} \subseteq kinds /\ api["sf"] # None /\ api["cm"] # None
         /\ pods' = [cfg |-> Settings(api["cm"]), image |-> api["sf"].image]
  BY Zenon DEF PodsStart, PodsStop, Settings
<1>4. \/ pods' = None /\ api["sf"] = None
      \/ /\ pods' \in Pods /\ pods' # None
         /\ pods'.image = api["sf"].image /\ pods'.cfg = Settings(api["cm"])
  <2>1. CASE /\ {"cm", "sf"} \subseteq kinds /\ api["sf"] # None /\ api["cm"] # None
             /\ pods' = [cfg |-> Settings(api["cm"]), image |-> api["sf"].image]
    <3>1. api["cm"] \in ConfigMaps /\ api["sf"] \in StatefulSets
      BY Zenon, <2>1 DEF TypeOK, Artifacts
    <3>2. pods' \in Pods
      BY Zenon, <2>1, <3>1 DEF Settings, ConfigMaps, StatefulSets, Pods
    <3> QED BY Zenon, <2>1, <3>2 DEF WellFormed
  <2> QED BY Zenon, <2>1, <1>3
<1>5. TypeOK'
  BY Zenon, <1>1, <1>4 DEF TypeOK, Listed, Reading
<1>6. ConvergedInv'
  BY ZenonT(40), <1>1, <1>2 DEF ConvergedInv, Handled, AsDesired, Desired, BuildConfigMap, BuildStatefulSet
<1>7. ListInv'
  BY Zenon, <1>1, <1>2 DEF ListInv
<1>8. PodsInv'
  <2>1. api["sf"] # None /\ "sf" \in kinds =>
            pods' # None /\ pods'.image = api["sf"].image /\ pods'.cfg = Settings(api["cm"])
    BY Zenon, <1>4
  <2> QED BY Zenon, <1>1, <1>2, <2>1 DEF PodsInv, Settings, Exchanged, BuildConfigMap, Checksum
<1>9. MemoryInv'
  BY Zenon, <1>1, Remembering DEF KeepsMemory
<1> QED BY Zenon, <1>5, <1>6, <1>7, <1>8, <1>9

-----------------------------------------------------------------------------
\* Users and failures.

\* A change of the spec keeps the invariant.
LEMMA ChangeSpecKeeps ==
    ASSUME WellFormed, AkoInv, UNCHANGED kinds, ChangeSpec
    PROVE  AkoInv'
<1> USE DEF AkoInv
<1>1. /\ ako # None /\ ako \in AkoConfigs /\ ~ako.deleting /\ queue' = TRUE
      /\ kinds' = kinds /\ api' = api /\ view' = view /\ dirty' = dirty /\ job' = job
      /\ secret' = secret /\ desiredCrd' = desiredCrd /\ objectList' = objectList /\ pods' = pods
      /\ rebootRequired' = rebootRequired /\ rolling' = rolling
  BY Zenon DEF ChangeSpec, Keep, TypeOK
<1>2. PICK spec \in Specs : /\ ako' = [ako EXCEPT !.spec = spec]
                            /\ SpendAnd(IF Swapped(spec) THEN "swap" ELSE "spec",
                                        IF spec.pvc = ako.spec.pvc THEN {} ELSE {"claim"})
  BY Zenon DEF ChangeSpec
<1>3. /\ ako' \in AkoConfigs /\ ako' # None /\ ako'.spec = spec /\ ~ako'.deleting
  <2>1. ako' \in AkoConfigs /\ ako'.spec = spec /\ ~ako'.deleting
    BY Zenon, <1>1, <1>2 DEF AkoConfigs
  <2> QED BY Zenon, <2>1 DEF WellFormed
<1>4. /\ happened \subseteq happened' /\ left' \in 0..left
      /\ Swapped(spec) => "swap" \in happened'
      /\ "swap" \in happened' \/ "spec" \in happened'
      /\ spec.pvc # ako.spec.pvc => "claim" \in happened'
  <2>1. /\ left' \in 0..left
        /\ happened' = happened \cup {IF Swapped(spec) THEN "swap" ELSE "spec"}
                                \cup (IF spec.pvc = ako.spec.pvc THEN {} ELSE {"claim"})
    BY Zenon, <1>2, DisturbingMore
  <2> QED BY Zenon, <2>1
<1>5. /\ (\A S : NoneOf(S)' => NoneOf(S)) /\ (\A j : ~Exempt(j)' => ~Exempt(j))
      /\ ~NoneOf({"spec", "swap"})' /\ Installing /\ Installing'
  BY Zenon, <1>1, <1>3, <1>4 DEF NoneOf, Exempt, Installing
<1>6. left' \in 0..MaxDisturbances
  BY SMTT(30), <1>4 DEF TypeOK, WellFormed
<1>7. TypeOK'
  BY Zenon, <1>1, <1>3, <1>6 DEF TypeOK, Listed, Reading
<1>8. ConvergedInv'
  BY Zenon, <1>1, <1>3 DEF ConvergedInv
<1>9. ListInv'
  <2>1. job' # None => job'.step # "cleanup"
    BY Zenon, <1>1 DEF ConvergedInv
  <2> QED BY Zenon, <1>1, <1>3, <1>5, <2>1 DEF ListInv
<1>10. PodsInv'
  <2> SUFFICES ASSUME {"cm", "sf"} \subseteq kinds,
                      NoneOf({"crash", "remove", "swap", "sameOrder"})'
               PROVE  PodsInv'
    BY Zenon, <1>1 DEF PodsInv
  <2>1. ~Swapped(spec)
    BY Zenon, <1>4 DEF NoneOf
  <2>2. /\ api["cm"] # None => ~Exchanged(api["cm"], BuildConfigMap(spec))
        /\ job # None => ~Exchanged(BuildConfigMap(job.spec), BuildConfigMap(spec))
    BY Zenon, <2>1 DEF Swapped
  <2> QED BY Zenon, <1>1, <1>3, <1>5, <2>2 DEF PodsInv, Settings, Exchanged, BuildConfigMap, Checksum
<1>11. MemoryInv'
  BY Zenon, <1>1, <1>3, <1>4, Remembering DEF KeepsMemory, NoneOf
<1> QED BY Zenon, <1>7, <1>8, <1>9, <1>10, <1>11

\* The deletion of the AKOConfig keeps the invariant.
LEMMA DeletionKeeps ==
    ASSUME WellFormed, AkoInv, UNCHANGED kinds, DeleteAKOConfig
    PROVE  AkoInv'
<1> USE DEF AkoInv
<1>1. /\ ako # None /\ ako \in AkoConfigs /\ ~ako.deleting /\ queue' = TRUE
      /\ ako' = [ako EXCEPT !.deleting = TRUE]
      /\ kinds' = kinds /\ api' = api /\ view' = view /\ dirty' = dirty /\ job' = job
      /\ secret' = secret /\ desiredCrd' = desiredCrd /\ objectList' = objectList /\ pods' = pods
      /\ rebootRequired' = rebootRequired /\ rolling' = rolling
  BY Zenon DEF DeleteAKOConfig, Keep, TypeOK
<1>2. /\ ako' \in AkoConfigs /\ ako' # None /\ ako'.spec = ako.spec /\ ako'.deleting
  <2>1. ako' \in AkoConfigs /\ ako'.spec = ako.spec /\ ako'.deleting
    BY Zenon, <1>1 DEF AkoConfigs
  <2> QED BY Zenon, <2>1 DEF WellFormed
<1>3. happened \subseteq happened' /\ left' \in 0..left
  BY Zenon, Disturbing DEF DeleteAKOConfig
<1>4. /\ (\A S : NoneOf(S)' => NoneOf(S)) /\ (\A j : ~Exempt(j)' => ~Exempt(j))
      /\ Installing
  BY Zenon, <1>1, <1>3 DEF NoneOf, Exempt, Installing
<1>5. left' \in 0..MaxDisturbances
  BY <1>3 DEF TypeOK, WellFormed
<1>6. job # None => job.step # "cleanup"
  BY Zenon, <1>1 DEF ConvergedInv
<1>7. TypeOK'
  BY Zenon, <1>1, <1>2, <1>5 DEF TypeOK, Listed, Reading
<1>8. ConvergedInv'
  BY Zenon, <1>1, <1>2 DEF ConvergedInv
<1>9. ListInv'
  <2>1. "crd" \notin objectList
    BY Zenon DEF TypeOK, Listed, Unnamed
  <2> QED BY Zenon, <1>1, <1>2, <1>4, <1>6, <2>1 DEF ListInv
<1>10. PodsInv'
  BY Zenon, <1>1, <1>2, <1>4 DEF PodsInv, Settings, Exchanged, BuildConfigMap, Checksum
<1>11. MemoryInv'
  BY Zenon, <1>1, <1>2, <1>3, Remembering DEF KeepsMemory
<1> QED BY <1>7, <1>8, <1>9, <1>10, <1>11

\* An edit of an artifact by hand keeps the invariant.
LEMMA EditKeeps ==
    ASSUME WellFormed, AkoInv, UNCHANGED kinds, NEW k \in kinds, EditArtifact(k)
    PROVE  AkoInv'
<1> USE DEF AkoInv
<1>1. /\ kinds' = kinds /\ ako' = ako /\ view' = view /\ queue' = queue /\ job' = job
      /\ secret' = secret /\ desiredCrd' = desiredCrd /\ objectList' = objectList /\ pods' = pods
      /\ rebootRequired' = rebootRequired /\ api[k] # None
  BY Zenon DEF EditArtifact, Keep
<1>2. happened \subseteq happened' /\ left' \in 0..left
  BY Zenon, Disturbing, DisturbingMore DEF EditArtifact
<1>3. /\ (\A S : NoneOf(S)' => NoneOf(S)) /\ (\A j : ~Exempt(j)' => ~Exempt(j))
      /\ Installing' <=> Installing
  BY Zenon, <1>1, <1>2 DEF NoneOf, Exempt, Installing
<1>4. left' \in 0..MaxDisturbances
  BY <1>2 DEF TypeOK, WellFormed
<1>5. rolling' \in BOOLEAN
  BY Zenon DEF EditArtifact, TypeOK
<1>6. /\ api' = [j \in kinds |-> api'[j]] /\ dirty' = dirty \cup {k}
      /\ \A j \in kinds \ {k} : api'[j] = api[j]
  BY Zenon DEF EditArtifact, Change, TypeOK
<1>7. k = "cm" => /\ api["cm"] \in ConfigMaps
                  /\ [api["cm"] EXCEPT !.rhi = 4] \in ConfigMaps
                  /\ [api["cm"] EXCEPT !.rhi = 4].rhi = 4
                  /\ [api["cm"] EXCEPT !.rhi = 4].evh \in {0, 1}
  BY Zenon, <1>1 DEF TypeOK, Artifacts, ConfigMaps
<1>8. k = "sf" => /\ api["sf"] \in StatefulSets
                  /\ [api["sf"] EXCEPT !.image = 0] \in StatefulSets
                  /\ [api["sf"] EXCEPT !.image = 0].pvc = api["sf"].pvc
                  /\ [api["sf"] EXCEPT !.pvc = 0] \in StatefulSets
  BY Zenon, <1>1 DEF TypeOK, Artifacts, StatefulSets
<1>9. \/ api'[k] = None /\ "remove" \in happened'
      \/ /\ api'[k] \in Artifacts(k) /\ api'[k] # None
         /\ k = "cm" => api'[k].rhi = 4 /\ api'[k].evh \in {0, 1}
         /\ k = "sf" => /\ rolling' = TRUE
                        /\ api'[k].pvc = api[k].pvc \/ "claim" \in happened'
  <2>1. CASE Spend("remove") /\ Change(k, None)
    BY Zenon, <2>1, Disturbing DEF Change, TypeOK
  <2>2. CASE k \in {"cr", "crb", "crd"} /\ Change(k, "edited")
    <3>1. api'[k] = "edited"
      BY Zenon, <2>2 DEF Change, TypeOK
    <3> QED BY Zenon, <2>2, <3>1, ArtifactsAreReal
  <2>3. CASE k = "cm" /\ Change(k, [api[k] EXCEPT !.rhi = 4])
    <3>1. api'[k] = [api[k] EXCEPT !.rhi = 4]
      BY Zenon, <2>3 DEF Change, TypeOK
    <3> QED BY Zenon, <2>3, <3>1, <1>7 DEF Artifacts, WellFormed
  <2>4. CASE k = "sf" /\ Change(k, [api[k] EXCEPT !.image = 0])
    <3>1. api'[k] = [api[k] EXCEPT !.image = 0]
      BY Zenon, <2>4 DEF Change, TypeOK
    <3>2. api'[k] \in Artifacts(k) /\ api'[k] # None
      BY Zenon, <2>4, <3>1, <1>8 DEF Artifacts, WellFormed
    <3> QED BY Zenon, <2>4, <3>1, <3>2, <1>8 DEF EditArtifact
  <2>5. CASE k = "sf" /\ SpendAnd("edit", {"claim"}) /\ Change(k, [api[k] EXCEPT !.pvc = 0])
    <3>1. api'[k] = [api[k] EXCEPT !.pvc = 0] /\ "claim" \in happened'
      <4>1. api'[k] = [api[k] EXCEPT !.pvc = 0]
        BY Zenon, <2>5 DEF Change, TypeOK
      <4>2. happened' = happened \cup {"edit"} \cup {"claim"}
        BY Zenon, <2>5, DisturbingMore
      <4> QED BY Zenon, <4>1, <4>2
    <3>2. api'[k] \in Artifacts(k) /\ api'[k] # None
      BY Zenon, <2>5, <3>1, <1>8 DEF Artifacts, WellFormed
    <3> QED BY Zenon, <2>5, <3>1, <3>2 DEF EditArtifact
  <2> QED BY Zenon, <2>1, <2>2, <2>3, <2>4, <2>5 DEF EditArtifact
<1>10. TypeOK'
  BY ZenonT(40), <1>1, <1>4, <1>5, <1>6, <1>9 DEF TypeOK, Listed, Reading
<1>11. ConvergedInv'
  BY Zenon, <1>1, <1>6 DEF ConvergedInv
<1>12. ListInv'
  <2>1. "crd" \notin objectList
    BY Zenon DEF TypeOK, Listed, Unnamed
  <2>2. \A j \in kinds : api[j] = None => api'[j] = None
    BY Zenon, <1>1, <1>6
  <2>3. NoneOf({"remove"})' => \A j \in kinds : api[j] # None => api'[j] # None
    BY Zenon, <1>6, <1>9 DEF NoneOf
  <2> QED BY Zenon, <1>1, <1>3, <2>1, <2>2, <2>3 DEF ListInv
<1>13. PodsInv'
  <2> SUFFICES ASSUME {"cm", "sf"} \subseteq kinds, Installing,
                      NoneOf({"crash", "remove", "swap", "sameOrder"})'
               PROVE  PodsInv'
    BY Zenon, <1>1, <1>3 DEF PodsInv
  <2>1. /\ api'[k] # None
        /\ k = "cm" => api'[k].rhi = 4 /\ api'[k].evh \in {0, 1}
        /\ k = "sf" => rolling' = TRUE
    BY Zenon, <1>9 DEF NoneOf
  <2>2. rolling => rolling'
    BY Zenon DEF EditArtifact
  <2>3. CASE k = "cm"
    <3>1. \A spec \in Specs : ~Exchanged(api'["cm"], BuildConfigMap(spec))
      <4>1. PICK old : old = api'["cm"] /\ old.rhi = 4 /\ old.evh \in {0, 1}
        BY Zenon, <2>1, <2>3
      <4>2. \A spec \in Specs : spec.rhi \in {0, 1} /\ spec.evh \in {0, 1}
        BY Zenon DEF WellFormed
      <4>3. \A spec \in Specs : ~Exchanged(old, BuildConfigMap(spec))
        BY <4>1, <4>2 DEF Exchanged, Checksum, BuildConfigMap
      <4> QED BY Zenon, <4>1, <4>3
    <3>2. /\ ako.spec \in Specs /\ (job # None => job.spec \in Specs)
      BY Zenon, Shapes DEF Installing
    <3>3. api'["sf"] = api["sf"]
      BY Zenon, <1>6, <2>3
    <3> QED BY ZenonT(40), <1>1, <1>3, <2>1, <2>2, <2>3, <3>1, <3>2, <3>3
            DEF PodsInv, Settings, Exchanged, BuildConfigMap, Checksum
  <2>4. CASE k = "sf"
    <3>1. api'["cm"] = api["cm"]
      BY Zenon, <1>6, <2>4
    <3> QED BY Zenon, <1>1, <1>3, <2>1, <2>2, <2>4, <3>1
            DEF PodsInv, Settings, Exchanged, BuildConfigMap, Checksum
  <2>5. CASE k \notin {"cm", "sf"}
    <3>1. api'["cm"] = api["cm"] /\ api'["sf"] = api["sf"]
      BY Zenon, <1>6, <2>5
    <3> QED BY Zenon, <1>1, <1>3, <2>2, <3>1
            DEF PodsInv, Settings, Exchanged, BuildConfigMap, Checksum
  <2> QED BY Zenon, <2>3, <2>4, <2>5
<1>14. MemoryInv'
  <2>1. "sf" \in kinds /\ api'["sf"] # None =>
           api["sf"] # None /\ (api'["sf"].pvc = api["sf"].pvc \/ "claim" \in happened')
    BY Zenon, <1>1, <1>6, <1>9
  <2> QED BY Zenon, <1>1, <1>2, <2>1, Remembering DEF KeepsMemory, NoneOf
<1> QED BY <1>10, <1>11, <1>12, <1>13, <1>14

\* Removing or restoring the Secret keeps the invariant.
LEMMA SecretKeeps ==
    ASSUME WellFormed, AkoInv, UNCHANGED kinds, ChangeSecret
    PROVE  AkoInv'
<1> USE DEF AkoInv
<1>1. /\ kinds' = kinds /\ ako' = ako /\ api' = api /\ view' = view /\ dirty' = dirty
      /\ queue' = queue /\ job' = job /\ objectList' = objectList /\ pods' = pods
      /\ rebootRequired' = rebootRequired /\ rolling' = rolling /\ desiredCrd' = desiredCrd
  BY Zenon DEF ChangeSecret
<1>2. happened \subseteq happened' /\ left' \in 0..left
  BY Zenon, Disturbing DEF ChangeSecret
<1>3. /\ (\A S : NoneOf(S)' => NoneOf(S)) /\ (\A j : ~Exempt(j)' => ~Exempt(j))
      /\ Installing' <=> Installing
  BY Zenon, <1>1, <1>2 DEF NoneOf, Exempt, Installing
<1>4. left' \in 0..MaxDisturbances
  BY <1>2 DEF TypeOK, WellFormed
<1>5. secret' \in BOOLEAN
  BY Zenon DEF ChangeSecret, TypeOK
<1>6. TypeOK'
  BY Zenon, <1>1, <1>4, <1>5 DEF TypeOK, Listed, Reading
<1>7. ConvergedInv'
  BY ZenonT(40), <1>1, <1>3 DEF ConvergedInv, Handled, AsDesired, Desired, BuildConfigMap, BuildStatefulSet
<1>8. ListInv'
  BY Zenon, <1>1, <1>3 DEF ListInv
<1>9. PodsInv'
  BY Zenon, <1>1, <1>3 DEF PodsInv, Settings, Exchanged, BuildConfigMap, Checksum
<1>10. MemoryInv'
  BY Zenon, <1>1, <1>2, Remembering DEF KeepsMemory
<1> QED BY <1>6, <1>7, <1>8, <1>9, <1>10

\* A restart of the operator keeps the invariant.
LEMMA RestartKeeps ==
    ASSUME WellFormed, AkoInv, UNCHANGED kinds, Restart
    PROVE  AkoInv'
<1> USE DEF AkoInv
<1>1. /\ kinds' = kinds /\ ako' = ako /\ api' = api /\ view' = api /\ dirty' = {}
      /\ queue' = TRUE /\ job' = None /\ objectList' = {} /\ pods' = pods /\ secret' = secret
      /\ desiredCrd' = "built" /\ rebootRequired' = FALSE /\ rolling' = rolling
  BY Zenon DEF Restart, Keep
<1>2. happened \subseteq happened' /\ left' \in 0..left /\ "crash" \in happened'
  BY Zenon, Disturbing DEF Restart
<1>3. /\ (\A S : NoneOf(S)' => NoneOf(S)) /\ (\A j : ~Exempt(j)' => ~Exempt(j))
      /\ Installing' => Installing
  BY Zenon, <1>1, <1>2 DEF NoneOf, Exempt, Installing
<1>4. left' \in 0..MaxDisturbances
  BY <1>2 DEF TypeOK, WellFormed
<1>5. TypeOK'
  BY Zenon, <1>1, <1>4 DEF TypeOK, Listed, Reading
<1>6. ConvergedInv'
  BY Zenon, <1>1 DEF ConvergedInv
<1>7. ListInv'
  BY Zenon, <1>1, <1>3 DEF ListInv
<1>8. PodsInv'
  BY Zenon, <1>2 DEF PodsInv, NoneOf
<1>9. MemoryInv'
  BY Zenon, <1>1, <1>2, Remembering DEF KeepsMemory
<1> QED BY <1>5, <1>6, <1>7, <1>8, <1>9

-----------------------------------------------------------------------------
\* An AKOConfig that was just created satisfies the invariant.
LEMMA InitIsSafe ==
    ASSUME WellFormed, Init
    PROVE  AkoInv
<1>1. ako \in AkoConfigs /\ ako # None /\ ~ako.deleting
  <2>1. ako \in AkoConfigs /\ ~ako.deleting
    <3>1. PICK spec \in Specs : ako = [spec |-> spec, deleting |-> FALSE, state |-> ""]
      BY Zenon DEF Init
    <3> QED BY Zenon, <3>1 DEF AkoConfigs
  <2> QED BY Zenon, <2>1 DEF WellFormed
<1>2. \A k \in kinds : api[k] = None /\ view[k] = None
  BY Zenon DEF Init
<1>3. TypeOK
  <2>1. left \in 0..MaxDisturbances
    <3>1. left = MaxDisturbances /\ MaxDisturbances \in Nat
      BY Zenon DEF Init, WellFormed
    <3> QED BY SMTT(30), <3>1
  <2>2. queue \in BOOLEAN /\ rebootRequired \in BOOLEAN /\ rolling \in BOOLEAN /\ secret \in BOOLEAN
    BY Zenon DEF Init
  <2>3. api = [k \in kinds |-> api[k]] /\ view = [k \in kinds |-> view[k]]
    BY Zenon DEF Init
  <2> QED BY Zenon, <1>1, <1>2, <2>1, <2>2, <2>3 DEF Init, TypeOK, Listed
<1>4. job = None /\ queue = TRUE /\ objectList = {}
  BY Zenon DEF Init
<1>5. ConvergedInv
  BY Zenon, <1>1, <1>2, <1>4 DEF ConvergedInv
<1>6. ListInv
  BY Zenon, <1>1, <1>2, <1>4, Shapes, <1>3 DEF ListInv, Listed
<1>7. PodsInv
  BY Zenon, <1>1, <1>2, <1>4 DEF PodsInv
<1>8. MemoryInv
  BY Zenon, <1>2, <1>4 DEF MemoryInv, Init
<1> QED BY Zenon, <1>3, <1>5, <1>6, <1>7, <1>8 DEF AkoInv

\* Every step keeps the invariant.
LEMMA NextIsSafe ==
    ASSUME WellFormed, AkoInv, [Next]_vars
    PROVE  AkoInv'
<1>1. CASE UNCHANGED vars
  <2>1. /\ kinds' = kinds /\ ako' = ako /\ api' = api /\ view' = view /\ dirty' = dirty
        /\ secret' = secret /\ queue' = queue /\ job' = job /\ rebootRequired' = rebootRequired
        /\ objectList' = objectList /\ desiredCrd' = desiredCrd /\ pods' = pods
        /\ rolling' = rolling /\ left' = left /\ happened' = happened
    BY Zenon, <1>1 DEF vars
  <2>2. TypeOK'
    BY ZenonT(40), <2>1 DEF AkoInv, TypeOK, Listed, Reading
  <2>3. ConvergedInv'
    BY ZenonT(40), <2>1 DEF AkoInv, ConvergedInv, Handled, AsDesired, NoneOf, Desired, BuildConfigMap,
       BuildStatefulSet, isSfUpdateRequired
  <2>4. MemoryInv' /\ ListInv'
    BY ZenonT(40), <2>1 DEF AkoInv, MemoryInv, ListInv, Installing, Exempt, NoneOf
  <2>5. PodsInv'
    BY ZenonT(40), <2>1 DEF AkoInv, PodsInv, Installing, NoneOf, Settings, Exchanged, BuildConfigMap,
       Checksum
  <2> QED BY Zenon, <2>2, <2>3, <2>4, <2>5 DEF AkoInv
<1>2. CASE Next
  <2> USE <1>2
  <2>1. UNCHANGED kinds
    BY Zenon DEF Next
  <2>2. CASE StartReconcile \/ ReadSecret \/ PatchReady
    BY Zenon, <2>1, <2>2, StartKeeps, ReadSecretKeeps, PatchKeeps
  <2>3. CASE createOrUpdateConfigMap \/ createOrUpdateServiceAccount
    BY Zenon, <2>1, <2>3, ConfigMapKeeps, ServiceAccountKeeps
  <2>4. CASE createOrUpdateClusterRole \/ createOrUpdateClusterroleBinding
    BY Zenon, <2>1, <2>4, RoleKeeps DEF createOrUpdateClusterRole, createOrUpdateClusterroleBinding
  <2>5. CASE createCRDs \/ FetchCRD \/ createOrUpdateGatewayClass \/ createOrUpdateStatefulSet
    BY Zenon, <2>1, <2>5, CRDsKeep, FetchCRDKeeps, GatewayClassKeeps, StatefulSetKeeps
  <2>6. CASE DeleteUnnamed \/ deleteCRDs \/ \E k \in kinds : deleteIfExists(k)
    BY Zenon, <2>1, <2>6, UnnamedKeeps, DeletingKeeps, DeleteCRDsKeeps
  <2>7. CASE \E k \in kinds : Watch(k) \/ GarbageCollect(k) \/ EditArtifact(k)
    BY Zenon, <2>1, <2>7, WatchKeeps, GarbageKeeps, EditKeeps
  <2>8. CASE PodsStart \/ PodsStop
    BY Zenon, <2>1, <2>8, PodsKeep
  <2>9. CASE ChangeSpec \/ DeleteAKOConfig \/ ChangeSecret \/ Restart
    BY Zenon, <2>1, <2>9, ChangeSpecKeeps, DeletionKeeps, SecretKeeps, RestartKeeps
  <2> QED BY ZenonT(40), <2>2, <2>3, <2>4, <2>5, <2>6, <2>7, <2>8, <2>9 DEF Next
<1> QED BY Zenon, <1>1, <1>2

\* What the invariant says of a state at rest.
LEMMA InvIsSound ==
    ASSUME WellFormed, AkoInv
    PROVE  AkoSound
<1> USE DEF AkoInv
<1>1. Installed => /\ ~ako.deleting /\ ako.state = "Ready" /\ Handled(ako.spec, Kinds)
                   /\ Installing /\ ako.spec \in Specs
  BY Zenon, Shapes DEF Installed, AtRest, ConvergedInv, Installing
<1>2. kinds \subseteq Kinds
  BY Zenon, Shapes
<1>3. Converged
  <2> SUFFICES ASSUME Installed
               PROVE  Converged
    BY Zenon DEF Converged
  <2>1. \A k \in kinds \ {"gwclass", "crd", "sf"} : api[k] = Desired(ako.spec, k)
    BY Zenon, <1>1, <1>2 DEF Handled, AsDesired
  <2>2. "crd" \in kinds => api["crd"] = IF NoneOf({"adopted"}) THEN "built" ELSE desiredCrd
    BY Zenon, <1>1, <1>2 DEF Handled, AsDesired, MemoryInv
  <2>3. ASSUME "sf" \in kinds
        PROVE  /\ api["sf"] # None
               /\ api["sf"].image = ako.spec.image /\ api["sf"].gw = ako.spec.gw
               /\ NoneOf({"claim"}) => api["sf"].pvc = ako.spec.pvc
    <3>1. api["sf"] # None /\ ~isSfUpdateRequired(api["sf"], BuildStatefulSet(ako.spec))
      BY Zenon, <1>1, <1>2, <2>3 DEF Handled, AsDesired
    <3>2. api["sf"].image = ako.spec.image /\ api["sf"].gw = ako.spec.gw
      BY Zenon, <3>1 DEF isSfUpdateRequired, BuildStatefulSet
    <3> QED BY Zenon, <2>3, <3>1, <3>2 DEF MemoryInv, Installed
  <2>4. "gwclass" \in kinds /\ NoneOf({"error"}) =>
           api["gwclass"] = IF ako.spec.gw THEN "built" ELSE None
    BY Zenon, <1>1, <1>2 DEF Handled, AsDesired
  <2> QED BY Zenon, <1>1, <2>1, <2>2, <2>3, <2>4 DEF Converged
<1>4. PodsRunConfig
  <2> SUFFICES ASSUME Installed, {"cm", "sf"} \subseteq kinds,
                      NoneOf({"crash", "remove", "swap", "sameOrder"})
               PROVE  /\ pods # None
                      /\ pods.image = ako.spec.image
                      /\ pods.cfg = [rhi |-> ako.spec.rhi, evh |-> ako.spec.evh]
    BY Zenon DEF PodsRunConfig
  <2>1. /\ api["cm"] = BuildConfigMap(ako.spec) /\ ~rebootRequired /\ ~rolling
    BY Zenon, <1>1, <1>2 DEF Handled, AsDesired, Desired, Installed, AtRest
  <2>3. api["cm"].rhi # 4 /\ Settings(api["cm"]) = [rhi |-> ako.spec.rhi, evh |-> ako.spec.evh]
    BY <1>1, <2>1 DEF BuildConfigMap, WellFormed, Settings
  <2>4. api["sf"] # None /\ api["sf"].image = ako.spec.image
    BY Zenon, <1>3 DEF Converged
  <2> QED BY Zenon, <1>1, <2>1, <2>3, <2>4 DEF PodsInv
<1>5. ListedAreRemoved
  <2> SUFFICES ASSUME ako = None, NoneOf({"remove"}), NEW k \in kinds
               PROVE  \/ api[k] = None
                      \/ k \in Listed \ objectList
                      \/ k = "gwclass" /\ ~NoneOf({"spec", "swap"})
    BY Zenon DEF ListedAreRemoved
  <2> QED BY Zenon DEF ListInv, Listed, Exempt
<1> QED BY Zenon, <1>3, <1>4, <1>5 DEF AkoSound

\* For any specs, any artifacts and any disturbances: when the operator is at rest the
\* artifacts are what the AKOConfig asks for, the pods run with its configuration
\* (within the exceptions that PodsRunConfig names), and once the AKOConfig is gone so is
\* everything the clean-up had listed.
THEOREM OperatorIsSound ==
    ASSUME WellFormed
    PROVE  Spec => []AkoSound
<1>1. Init => AkoInv
  BY Zenon, InitIsSafe
<1>2. AkoInv /\ [Next]_vars => AkoInv'
  BY Zenon, NextIsSafe
<1>3. AkoInv => AkoSound
  BY Zenon, InvIsSound
<1> QED BY <1>1, <1>2, <1>3, PTL DEF Spec
=============================================================================
