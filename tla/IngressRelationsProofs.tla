----------------------- MODULE IngressRelationsProofs -----------------------
(***************************************************************************)
(* The properties of IngressRelations for all sets of Ingresses, Services, *)
(* Secrets and classes, and any number of edits.                           *)
(***************************************************************************)
EXTENDS IngressRelations, TLAPS

\* Something that leads to IngressChanges of i is queued or under way.
Due(i) ==
    \/ <<"Ingress", i>> \in queue
    \/ i \in changing
    \/ \E c \in Classes : <<"IngressClass", c>> \in queue /\ i \in classIng[c]

\* The handler will accept an event of i that is still to be delivered.
Covered(i) ==
    \E n \in notes : n.ingress = i /\ KnownAs(i, n.class) /\ ValidateIngressForClass(n.class)

\* The store relates i to what its specification names.
Mapped(i) ==
    /\ ingSvc[i] = spec[i].svcs
    /\ spec[i].secret # NoSecret => i \in secretIng[spec[i].secret]

\* The model of i has the content of each Service and of the Secret, or their
\* key is queued.
FreshServices(i) ==
    \A s \in Services :
        IF s \in spec[i].svcs
        THEN built[i].services[s] = service[s] \/ <<"Service", s>> \in queue
        ELSE built[i].services[s] = None

FreshSecret(i) ==
    IF spec[i].secret = NoSecret THEN built[i].secret = None
    ELSE \/ built[i].secret = secret[spec[i].secret]
         \/ <<"Secret", spec[i].secret>> \in queue

Fresh(i) ==
    built[i] # None /\ built[i].spec = spec[i] /\ FreshServices(i) /\ FreshSecret(i)

Good(i) == Served(i) /\ KnownAs(i, spec[i].class) /\ Mapped(i) /\ Fresh(i)

ClassMap == \A i \in Ingresses : ingClass[i] # NoClass => i \in classIng[ingClass[i]]

\* An Ingress that is served and known is related as it should be, unless its
\* relations are due to be renewed.
Related(i) ==
    ~Due(i) /\ ~Covered(i) /\ Served(i) /\ KnownAs(i, spec[i].class) => Mapped(i)

\* A model not built blindly is good, unless it is due to be built again.
Current(i) ==
    ~Due(i) /\ ~Covered(i) /\ i \notin handling /\ i \notin unrelated /\ built[i] # None
        => Good(i)

\* A served and known Ingress has a good model, unless it is due to be built.
Complete(i) ==
    ~Due(i) /\ ~Covered(i) /\ i \notin handling /\ Served(i) /\ KnownAs(i, spec[i].class)
        => Good(i)

Sound(i) == Related(i) /\ Current(i) /\ Complete(i)

IInv == TypeOK /\ MapsInverse /\ ClassMap /\ \A i \in Ingresses : Sound(i)
-----------------------------------------------------------------------------

\* Initially no Ingress is present, so there is nothing to relate or to build.
LEMMA InitInv == Init => IInv
  <1> SUFFICES ASSUME Init PROVE IInv
    OBVIOUS
  <1>1. (CHOOSE s \in Specs : TRUE) \in Specs
    BY Zenon, SpecsAssumption
  <1>2. TypeOK
    BY Zenon, <1>1 DEF Init, TypeOK
  <1>3. MapsInverse /\ ClassMap
    BY Zenon DEF Init, MapsInverse, ClassMap
  <1>4. ASSUME NEW i \in Ingresses PROVE Related(i) /\ Current(i) /\ Complete(i)
    BY Zenon, <1>4 DEF Init, Related, Current, Complete, Served, KnownAs
  <1> QED BY Zenon, <1>2, <1>3, <1>4 DEF IInv, Sound

\* An event of an object keeps the types.
LEMMA EditType == ASSUME TypeOK, Edit PROVE TypeOK'
  <1>a. edits' = edits + 1 /\ UNCHANGED <<work, store, model>>
    BY Zenon DEF Edit
  <1>b. edits' \in Nat
    BY <1>a DEF TypeOK
  <1>1. ASSUME NEW i \in Ingresses, NEW s \in Specs, AddIngress(i, s) PROVE TypeOK'
    <2>1. Note(i, s.class) \in [ingress : Ingresses, class : Classes \cup {NoClass}, number : Nat]
      BY Zenon, SpecsAssumption DEF Note, TypeOK
    <2> QED BY Zenon, <1>a, <1>b, <1>1, <2>1 DEF TypeOK, AddIngress, work, store, model
  <1>2. ASSUME NEW i \in Ingresses, NEW s \in Specs, UpdateIngress(i, s) PROVE TypeOK'
    BY <1>a, <1>b, <1>2 DEF TypeOK, UpdateIngress, work, store, model, Keys
  <1>3. ASSUME NEW i \in Ingresses, DeleteIngress(i) PROVE TypeOK'
    <2>1. Note(i, spec[i].class) \in [ingress : Ingresses, class : Classes \cup {NoClass}, number : Nat]
      BY SpecsAssumption DEF Note, TypeOK
    <2> QED BY Zenon, <1>a, <1>b, <1>3, <2>1 DEF TypeOK, DeleteIngress, work, store, model
  <1>4. ASSUME NEW s \in Services, NEW v \in Contents, ChangeService(s, v) PROVE TypeOK'
    BY <1>a, <1>b, <1>4 DEF TypeOK, ChangeService, work, store, model, Keys
  <1>5. ASSUME NEW t \in Secrets, NEW v \in Contents, ChangeSecret(t, v) PROVE TypeOK'
    BY <1>a, <1>b, <1>5 DEF TypeOK, ChangeSecret, work, store, model, Keys
  <1>6. ASSUME NEW c \in Classes, NEW k \in ClassKinds, ChangeClass(c, k) PROVE TypeOK'
    BY <1>a, <1>b, <1>6 DEF TypeOK, ChangeClass, work, store, model, Keys
  <1> QED BY Zenon, <1>1, <1>2, <1>3, <1>4, <1>5, <1>6 DEF Edit

\* The class of a specification, and the classes an Ingress may be related to.
LEMMA ClassType ==
    ASSUME TypeOK, NEW i \in Ingresses
    PROVE  /\ spec[i] \in Specs /\ spec[i].svcs \subseteq Services
           /\ spec[i].secret \in Secrets \cup {NoSecret}
           /\ spec[i].class \in Classes \cup {NoClass}
           /\ IngressClassNames(i) \subseteq Classes \cup {NoClass}
  BY SpecsAssumption DEF TypeOK, IngressClassNames, DefaultClasses

\* What relating the class of an Ingress does, whatever default is found.
LEMMA RelateClassEffect ==
    ASSUME TypeOK, NEW i \in Ingresses, RelateClass(i) \/ RemoveIngressClassMappings(i), ClassMap
    PROVE  /\ classIng' \in [Classes -> SUBSET Ingresses]
           /\ ingClass' \in [Ingresses -> Classes \cup {NoClass}]
           /\ \A j \in Ingresses \ {i} : ingClass'[j] = ingClass[j]
           /\ \A c \in Classes, j \in Ingresses \ {i} : j \in classIng'[c] <=> j \in classIng[c]
           /\ ingClass'[i] # NoClass => i \in classIng'[ingClass'[i]]
  <1>1. ASSUME NEW name \in Classes, UpdateIngressClassMappings(i, name)
        PROVE  /\ classIng' \in [Classes -> SUBSET Ingresses]
               /\ ingClass' \in [Ingresses -> Classes \cup {NoClass}]
               /\ \A j \in Ingresses \ {i} : ingClass'[j] = ingClass[j]
               /\ \A c \in Classes, j \in Ingresses \ {i} : j \in classIng'[c] <=> j \in classIng[c]
               /\ ingClass'[i] # NoClass => i \in classIng'[ingClass'[i]]
    BY Zenon, <1>1 DEF With, UpdateIngressClassMappings, TypeOK
  <1>2. CASE RemoveIngressClassMappings(i)
    BY Zenon, <1>2 DEF Without, RemoveIngressClassMappings, TypeOK
  <1>3. CASE RelateClass(i)
    <2>1. PICK name \in IngressClassNames(i) :
             IF name # NoClass THEN UpdateIngressClassMappings(i, name)
             ELSE RemoveIngressClassMappings(i)
      BY Zenon, <1>3 DEF RelateClass
    <2>2. name \in Classes \cup {NoClass}
      BY Zenon, <2>1, ClassType
    <2> QED BY Zenon, <2>1, <2>2, <1>1, <1>2
  <1> QED BY Zenon, <1>2, <1>3

\* Relating the Services of an Ingress keeps the two maps inverse.
LEMMA RelateServicesEffect ==
    ASSUME TypeOK, MapsInverse, NEW i \in Ingresses, UpdateServices(i) \/ RemoveIngressMappings(i)
    PROVE  /\ svcIng' \in [Services -> SUBSET Ingresses]
           /\ ingSvc' \in [Ingresses -> SUBSET Services]
           /\ MapsInverse'
           /\ \A j \in Ingresses \ {i} : ingSvc'[j] = ingSvc[j]
           /\ UpdateServices(i) => ingSvc'[i] = spec[i].svcs
  <1>1. ASSUME RemoveIngressMappings(i)
        PROVE  /\ svcIng' \in [Services -> SUBSET Ingresses]
               /\ ingSvc' \in [Ingresses -> SUBSET Services]
               /\ MapsInverse'
               /\ \A j \in Ingresses \ {i} : ingSvc'[j] = ingSvc[j]
    BY Zenon, <1>1 DEF Without, RemoveIngressMappings, TypeOK, MapsInverse
  <1>2. CASE UpdateServices(i)
    <2> DEFINE old == ingSvc[i] \ spec[i].svcs
               new == spec[i].svcs \ ingSvc[i]
               mid == Without(svcIng, i, old)
    <2>1. svcIng' = With(mid, i, new) /\ ingSvc' = [ingSvc EXCEPT ![i] = (@ \ old) \cup new]
      BY Zenon, <1>2 DEF UpdateServices
    <2>2. spec[i].svcs \subseteq Services /\ ingSvc[i] \subseteq Services
      BY Zenon, ClassType DEF TypeOK
    <2>3. mid \in [Services -> SUBSET Ingresses]
          /\ \A s \in Services : mid[s] = (IF s \in old THEN svcIng[s] \ {i} ELSE svcIng[s])
      BY Zenon DEF TypeOK, Without
    <2> HIDE DEF mid
    <2>4. svcIng' \in [Services -> SUBSET Ingresses]
          /\ \A s \in Services : svcIng'[s] = (IF s \in new THEN mid[s] \cup {i} ELSE mid[s])
      BY Zenon, <2>1, <2>3 DEF With
    <2>5. ingSvc' \in [Ingresses -> SUBSET Services] /\ ingSvc'[i] = spec[i].svcs
          /\ \A j \in Ingresses \ {i} : ingSvc'[j] = ingSvc[j]
      BY Zenon, <2>1, <2>2 DEF TypeOK
    <2>6. MapsInverse'
      BY <2>3, <2>4, <2>5 DEF MapsInverse
    <2> QED BY Zenon, <2>4, <2>5, <2>6
  <1> QED BY Zenon, <1>1, <1>2

\* A step of IngressChanges keeps the types, the inverse maps and the class
\* map, relates i as its specification says, and changes nothing else.
LEMMA IngressChangesEffect ==
    ASSUME TypeOK, MapsInverse, ClassMap, NEW i \in Ingresses, IngressChanges(i)
    PROVE  /\ TypeOK' /\ MapsInverse' /\ ClassMap'
           /\ Served(i) => Mapped(i)'
           /\ \A j \in Ingresses \ {i} : ingSvc'[j] = ingSvc[j] /\ ingClass'[j] = ingClass[j]
           /\ \A c \in Classes, j \in Ingresses \ {i} : j \in classIng'[c] <=> j \in classIng[c]
           /\ \A t \in Secrets : secretIng[t] \subseteq secretIng'[t]
  <1>1. /\ i \in changing /\ changing' = changing \ {i} /\ handling' = handling
        /\ present' = present /\ spec' = spec /\ service' = service /\ secret' = secret
        /\ class' = class /\ notes' = notes /\ queue' = queue /\ built' = built
        /\ unrelated' = unrelated /\ edits' = edits
    BY Zenon DEF IngressChanges, objects, model
  <1>2. RelateClass(i) \/ RemoveIngressClassMappings(i)
    BY Zenon DEF IngressChanges, RelateGone, RelateNotServed, RelateServed
  <1>3. UpdateServices(i) \/ RemoveIngressMappings(i)
    BY Zenon DEF IngressChanges, RelateGone, RelateNotServed, RelateServed
  <1>4. AddSecrets(i) \/ (secretIng' = secretIng /\ ingSecret' = ingSecret)
    BY Zenon DEF IngressChanges, RelateGone, RelateNotServed, RelateServed
  <1>5. spec[i].secret \in Secrets \cup {NoSecret}
    BY Zenon, ClassType
  <1>6. /\ secretIng' \in [Secrets -> SUBSET Ingresses]
        /\ ingSecret' \in [Ingresses -> SUBSET Secrets]
        /\ \A t \in Secrets : secretIng[t] \subseteq secretIng'[t]
        /\ AddSecrets(i) => (spec[i].secret # NoSecret => i \in secretIng'[spec[i].secret])
    BY SMTT(30), <1>4, <1>5 DEF AddSecrets, With, TypeOK
  <1>7. TypeOK'
    BY Zenon, <1>1, <1>2, <1>3, <1>6, RelateClassEffect, RelateServicesEffect DEF TypeOK
  <1>8. ClassMap'
    BY Zenon, <1>2, RelateClassEffect DEF ClassMap, TypeOK
  <1>9. Served(i) => Mapped(i)'
    <2>1. Served(i) => UpdateServices(i) /\ AddSecrets(i)
      BY Zenon DEF IngressChanges, RelateGone, RelateNotServed, RelateServed, Served
    <2> QED BY Zenon, <1>1, <1>6, <2>1, RelateServicesEffect DEF Mapped
  <1> QED BY Zenon, <1>2, <1>3, <1>6, <1>7, <1>8, <1>9, RelateClassEffect, RelateServicesEffect

\* A step of HostNameShardAndPublish keeps the types, builds or deletes the
\* model of i, and takes no Ingress from a Secret.
LEMMA PublishEffect ==
    ASSUME TypeOK, NEW i \in Ingresses, HostNameShardAndPublish(i)
    PROVE  /\ TypeOK'
           /\ handling' = handling \ {i} /\ changing' = changing
           /\ \A t \in Secrets : secretIng[t] \subseteq secretIng'[t]
           /\ built' = [built EXCEPT ![i] = IF Served(i) THEN Snapshot(i) ELSE None]
           /\ \A j \in Ingresses \ {i} : j \in unrelated' <=> j \in unrelated
           /\ Served(i) /\ ~KnownAs(i, spec[i].class) => i \in unrelated'
  <1>1. /\ changing = {} /\ handling' = handling \ {i} /\ changing' = changing
        /\ present' = present /\ spec' = spec /\ service' = service /\ secret' = secret
        /\ class' = class /\ notes' = notes /\ queue' = queue /\ svcIng' = svcIng
        /\ ingSvc' = ingSvc /\ classIng' = classIng /\ ingClass' = ingClass /\ edits' = edits
    BY Zenon DEF HostNameShardAndPublish, objects
  <1>2. AddSecrets(i) \/ RemoveIngressSecretMappings(i) \/ (secretIng' = secretIng /\ ingSecret' = ingSecret)
    BY Zenon DEF HostNameShardAndPublish, BuildModel, RouteIngrDeletePoolsByHostname
  <1>3. spec[i].secret \in Secrets \cup {NoSecret} /\ spec[i] \in Specs
    BY Zenon, ClassType
  <1>4. /\ secretIng' \in [Secrets -> SUBSET Ingresses]
        /\ ingSecret' \in [Ingresses -> SUBSET Secrets]
        /\ \A t \in Secrets : secretIng[t] \subseteq secretIng'[t]
    BY <1>2, <1>3 DEF AddSecrets, RemoveIngressSecretMappings, With, TypeOK
  <1>5. /\ built' = [built EXCEPT ![i] = IF Served(i) THEN Snapshot(i) ELSE None]
        /\ unrelated' = IF Served(i) /\ ~KnownAs(i, spec[i].class) THEN unrelated \cup {i}
                        ELSE unrelated \ {i}
    BY Zenon DEF HostNameShardAndPublish, BuildModel, RouteIngrDeletePoolsByHostname
  <1>6. Snapshot(i) \in Models
    BY Zenon, <1>3 DEF Snapshot, Models, TypeOK
  <1>7. built' \in [Ingresses -> Models \cup {None}] /\ unrelated' \subseteq Ingresses
    BY Zenon, <1>5, <1>6 DEF TypeOK
  <1>8. TypeOK'
    BY Zenon, <1>1, <1>4, <1>7 DEF TypeOK
  <1> QED BY Zenon, <1>1, <1>4, <1>5, <1>8

\* An Ingress stays sound when a step concerns others, or only queues keys.
LEMMA Frame ==
    ASSUME NEW i \in Ingresses, Sound(i), Due(i) => Due(i)', Covered(i) => Covered(i)',
           (Served(i) /\ KnownAs(i, spec[i].class))' <=> (Served(i) /\ KnownAs(i, spec[i].class)),
           Mapped(i) => Mapped(i)', Fresh(i) => Fresh(i)', i \in handling => i \in handling',
           i \in unrelated => i \in unrelated', built'[i] = built[i]
    PROVE  Sound(i)'
  BY Zenon DEF Sound, Related, Current, Complete, Good

\* Every change of an object keeps the invariant: it queues a key through
\* which the change reaches the Ingresses, or leaves an event that the handler
\* accepts for an Ingress whose relations or model matter.
LEMMA EditInv == ASSUME IInv, Edit PROVE IInv'
  <1>a. TypeOK /\ MapsInverse /\ ClassMap /\ \A i \in Ingresses : Sound(i)
    BY Zenon DEF IInv
  <1>b. TypeOK'
    BY Zenon, <1>a, EditType
  <1>c. /\ changing' = changing /\ handling' = handling /\ svcIng' = svcIng /\ ingSvc' = ingSvc
        /\ secretIng' = secretIng /\ ingSecret' = ingSecret /\ classIng' = classIng
        /\ ingClass' = ingClass /\ built' = built /\ unrelated' = unrelated
    BY Zenon DEF Edit, work, store, model
  <1>d. MapsInverse' /\ ClassMap'
    BY Zenon, <1>a, <1>c DEF MapsInverse, ClassMap
  <1>e. SUFFICES ASSUME NEW i \in Ingresses PROVE Sound(i)'
    BY Zenon, <1>b, <1>d DEF IInv
  <1>f. Sound(i)
    BY Zenon, <1>a
  <1>g. spec[i].svcs \subseteq Services /\ spec[i].secret \in Secrets \cup {NoSecret}
        /\ spec[i].class \in Classes \cup {NoClass}
    BY Zenon, <1>a, ClassType
  <1>1. ASSUME NEW j \in Ingresses, NEW s \in Specs, AddIngress(j, s) PROVE Sound(i)'
    <2>1. /\ spec' = [spec EXCEPT ![j] = s] /\ present' = [present EXCEPT ![j] = TRUE]
          /\ notes' = notes \cup {Note(j, s.class)} /\ service' = service /\ secret' = secret
          /\ class' = class /\ queue' = queue /\ ~present[j]
      BY Zenon, <1>1 DEF AddIngress
    <2>2. CASE i # j
      <3>1. Due(i) => Due(i)'
        BY Zenon, <1>c, <2>1 DEF Due
      <3>2. Covered(i) => Covered(i)'
        BY Zenon, <1>c, <2>1 DEF Covered, KnownAs, ValidateIngressForClass, DefaultClasses
      <3>3. (Served(i) /\ KnownAs(i, spec[i].class))' <=> (Served(i) /\ KnownAs(i, spec[i].class))
        BY Zenon, <1>a, <1>c, <2>1, <2>2 DEF Served, KnownAs, ValidateIngressForClass, DefaultClasses, TypeOK
      <3>4. Mapped(i) => Mapped(i)'
        BY Zenon, <1>a, <1>c, <2>1, <2>2 DEF Mapped, TypeOK
      <3>5. Fresh(i) => Fresh(i)'
        BY Zenon, <1>a, <1>c, <1>g, <2>1, <2>2 DEF Fresh, FreshServices, FreshSecret, TypeOK
      <3> QED BY Zenon, <1>c, <1>f, <3>1, <3>2, <3>3, <3>4, <3>5, Frame
    <2>3. CASE i = j
      <3>1. (Served(i) /\ KnownAs(i, spec[i].class))' => Covered(i)'
        BY Zenon, <1>a, <1>b, <2>1, <2>3 DEF Covered, Served, Note, TypeOK
      <3>2. Covered(i) => Covered(i)'
        BY <1>c, <2>1 DEF Covered, KnownAs, ValidateIngressForClass, DefaultClasses
      <3>3. (~Due(i) /\ ~Covered(i) /\ i \notin handling /\ i \notin unrelated /\ built[i] # None)
               => FALSE
        BY Zenon, <1>f, <2>1, <2>3 DEF Sound, Current, Good, Served
      <3>4. Due(i)' <=> Due(i)
        BY Zenon, <1>c, <2>1 DEF Due
      <3> QED BY Zenon, <1>c, <3>1, <3>2, <3>3, <3>4 DEF Sound, Related, Current, Complete
    <2> QED BY Zenon, <2>2, <2>3
  <1>2. ASSUME NEW j \in Ingresses, NEW s \in Specs, UpdateIngress(j, s) PROVE Sound(i)'
    <2>1. /\ spec' = [spec EXCEPT ![j] = s] /\ present' = present
          /\ notes' = notes /\ service' = service /\ secret' = secret
          /\ class' = class /\ queue' = queue \cup {<<"Ingress", j>>}
      BY Zenon, <1>2 DEF UpdateIngress
    <2>2. CASE i # j
      <3>1. Due(i) => Due(i)'
        BY Zenon, <1>c, <2>1 DEF Due
      <3>2. Covered(i) => Covered(i)'
        BY Zenon, <1>c, <2>1 DEF Covered, KnownAs, ValidateIngressForClass, DefaultClasses
      <3>3. (Served(i) /\ KnownAs(i, spec[i].class))' <=> (Served(i) /\ KnownAs(i, spec[i].class))
        BY Zenon, <1>a, <1>c, <2>1, <2>2 DEF Served, KnownAs, ValidateIngressForClass, DefaultClasses, TypeOK
      <3>4. Mapped(i) => Mapped(i)'
        BY Zenon, <1>a, <1>c, <2>1, <2>2 DEF Mapped, TypeOK
      <3>5. Fresh(i) => Fresh(i)'
        BY Zenon, <1>a, <1>c, <1>g, <2>1, <2>2 DEF Fresh, FreshServices, FreshSecret, TypeOK
      <3> QED BY <1>c, <1>f, <3>1, <3>2, <3>3, <3>4, <3>5, Frame
    <2>3. CASE i = j
      <3>1. Due(i)'
        BY Zenon, <2>1, <2>3 DEF Due
      <3> QED BY Zenon, <3>1 DEF Sound, Related, Current, Complete
    <2> QED BY <2>2, <2>3
  <1>3. ASSUME NEW j \in Ingresses, DeleteIngress(j) PROVE Sound(i)'
    <2>1. /\ spec' = spec /\ present' = [present EXCEPT ![j] = FALSE]
          /\ notes' = notes \cup {Note(j, spec[j].class)} /\ service' = service
          /\ secret' = secret /\ class' = class /\ queue' = queue
      BY Zenon, <1>3 DEF DeleteIngress
    <2>2. CASE i # j
      <3>1. Due(i) => Due(i)'
        BY Zenon, <1>c, <2>1 DEF Due
      <3>2. Covered(i) => Covered(i)'
        BY Zenon, <1>c, <2>1 DEF Covered, KnownAs, ValidateIngressForClass, DefaultClasses
      <3>3. (Served(i) /\ KnownAs(i, spec[i].class))' <=> (Served(i) /\ KnownAs(i, spec[i].class))
        BY Zenon, <1>a, <1>c, <2>1, <2>2 DEF Served, KnownAs, ValidateIngressForClass, DefaultClasses, TypeOK
      <3>4. Mapped(i) => Mapped(i)'
        BY Zenon, <1>a, <1>c, <2>1, <2>2 DEF Mapped, TypeOK
      <3>5. Fresh(i) => Fresh(i)'
        BY Zenon, <1>a, <1>c, <1>g, <2>1, <2>2 DEF Fresh, FreshServices, FreshSecret, TypeOK
      <3> QED BY Zenon, <1>c, <1>f, <3>1, <3>2, <3>3, <3>4, <3>5, Frame
    <2>3. CASE i = j
      <3>1. ~Served(i)'
        BY Zenon, <1>a, <2>1, <2>3 DEF Served, TypeOK
      <3>2. Covered(i) \/ (Served(i) /\ KnownAs(i, spec[i].class)) => Covered(i)'
        <4>1. Covered(i) => Covered(i)'
          BY <1>c, <2>1 DEF Covered, KnownAs, ValidateIngressForClass, DefaultClasses
        <4>2. Served(i) /\ KnownAs(i, spec[i].class) => (KnownAs(i, spec[i].class)
                /\ ValidateIngressForClass(spec[i].class))'
          BY Zenon, <1>c, <2>1 DEF Served, KnownAs, ValidateIngressForClass, DefaultClasses
        <4>3. Note(i, spec[i].class) \in notes' /\ Note(i, spec[i].class).ingress = i
              /\ Note(i, spec[i].class).class = spec'[i].class
          BY Zenon, <2>1, <2>3 DEF Note
        <4> QED BY Zenon, <4>1, <4>2, <4>3 DEF Covered
      <3>3. Due(i)' <=> Due(i)
        BY Zenon, <1>c, <2>1 DEF Due
      <3> QED BY Zenon, <1>c, <1>f, <3>1, <3>2, <3>3 DEF Sound, Related, Current, Complete, Good
    <2> QED BY Zenon, <2>2, <2>3
  <1>4. ASSUME NEW s \in Services, NEW v \in Contents, ChangeService(s, v) PROVE Sound(i)'
    <2>1. /\ spec' = spec /\ present' = present /\ notes' = notes /\ secret' = secret
          /\ class' = class /\ queue' = queue \cup {<<"Service", s>>}
          /\ service' = [service EXCEPT ![s] = v]
      BY Zenon, <1>4 DEF ChangeService
      <2>2. Due(i) => Due(i)'
      BY Zenon, <1>c, <2>1 DEF Due
      <2>3. Covered(i) => Covered(i)'
      BY Zenon, <1>c, <2>1 DEF Covered, KnownAs, ValidateIngressForClass, DefaultClasses
      <2>4. (Served(i) /\ KnownAs(i, spec[i].class))' <=> (Served(i) /\ KnownAs(i, spec[i].class))
      BY Zenon, <1>a, <1>c, <2>1 DEF Served, KnownAs, ValidateIngressForClass, DefaultClasses, TypeOK
      <2>5. Mapped(i) => Mapped(i)'
      BY Zenon, <1>a, <1>c, <2>1 DEF Mapped, TypeOK
      <2>6. Fresh(i) => Fresh(i)'
      BY Zenon, <1>a, <1>c, <1>g, <2>1 DEF Fresh, FreshServices, FreshSecret, TypeOK
      <2> QED BY Zenon, <1>c, <1>f, <2>2, <2>3, <2>4, <2>5, <2>6, Frame
  <1>5. ASSUME NEW t \in Secrets, NEW v \in Contents, ChangeSecret(t, v) PROVE Sound(i)'
    <2>1. /\ spec' = spec /\ present' = present /\ notes' = notes /\ service' = service
          /\ class' = class /\ queue' = queue \cup {<<"Secret", t>>}
          /\ secret' = [secret EXCEPT ![t] = v]
      BY Zenon, <1>5 DEF ChangeSecret
      <2>2. Due(i) => Due(i)'
      BY Zenon, <1>c, <2>1 DEF Due
      <2>3. Covered(i) => Covered(i)'
      BY Zenon, <1>c, <2>1 DEF Covered, KnownAs, ValidateIngressForClass, DefaultClasses
      <2>4. (Served(i) /\ KnownAs(i, spec[i].class))' <=> (Served(i) /\ KnownAs(i, spec[i].class))
      BY Zenon, <1>a, <1>c, <2>1 DEF Served, KnownAs, ValidateIngressForClass, DefaultClasses, TypeOK
      <2>5. Mapped(i) => Mapped(i)'
      BY Zenon, <1>a, <1>c, <2>1 DEF Mapped, TypeOK
      <2>6. Fresh(i) => Fresh(i)'
      BY Zenon, <1>a, <1>c, <1>g, <2>1 DEF Fresh, FreshServices, FreshSecret, TypeOK
      <2> QED BY <1>c, <1>f, <2>2, <2>3, <2>4, <2>5, <2>6, Frame
  <1>6. ASSUME NEW c \in Classes, NEW k \in ClassKinds, ChangeClass(c, k) PROVE Sound(i)'
    <2>1. /\ spec' = spec /\ present' = present /\ notes' = notes /\ service' = service
          /\ secret' = secret /\ queue' = queue \cup {<<"IngressClass", c>>}
          /\ class' = [class EXCEPT ![c] = k]
      BY Zenon, <1>6 DEF ChangeClass
    <2>2. CASE i \in classIng[c]
      <3>1. Due(i)'
        BY Zenon, <1>c, <2>1, <2>2 DEF Due
      <3> QED BY Zenon, <3>1 DEF Sound, Related, Current, Complete
    <2>3. CASE i \notin classIng[c]
      <3>1. ingClass[i] # c
        BY Zenon, <1>a, <2>3, ConstantsAssumption DEF ClassMap
      <3>2. ASSUME NEW name \in Classes \cup {NoClass}
            PROVE  /\ KnownAs(i, name)' <=> KnownAs(i, name)
                   /\ KnownAs(i, name) => (ValidateIngressForClass(name)' <=> ValidateIngressForClass(name))
        BY Zenon, <1>a, <1>c, <2>1, <3>1 DEF KnownAs, ValidateIngressForClass, DefaultClasses, TypeOK
      <3>3. Covered(i)' <=> Covered(i)
        BY Zenon, <1>a, <2>1, <3>2 DEF Covered, TypeOK
      <3>4. Due(i)' <=> Due(i)
        BY Zenon, <1>c, <2>1, <2>3 DEF Due
      <3>5. (Served(i) /\ KnownAs(i, spec[i].class))' <=> Served(i) /\ KnownAs(i, spec[i].class)
        BY Zenon, <1>g, <2>1, <3>2 DEF Served
      <3>6. Mapped(i)' <=> Mapped(i)
        BY Zenon, <1>c, <2>1 DEF Mapped
      <3>7. Fresh(i) => Fresh(i)'
        BY Zenon, <1>c, <2>1 DEF Fresh, FreshServices, FreshSecret
      <3> QED BY Zenon, <1>c, <1>f, <3>3, <3>4, <3>5, <3>6, <3>7 DEF Sound, Related, Current, Complete, Good
    <2> QED BY Zenon, <2>2, <2>3
  <1> QED BY Zenon, <1>1, <1>2, <1>3, <1>4, <1>5, <1>6 DEF Edit

\* Delivering an event of an Ingress keeps the invariant: an event that is
\* dropped was not the one an Ingress relies on.
LEMMA EventInv == ASSUME IInv, NEW n \in notes, IngressEvent(n) PROVE IInv'
  <1>a. TypeOK /\ MapsInverse /\ ClassMap /\ \A i \in Ingresses : Sound(i)
    BY Zenon DEF IInv
  <1>c. /\ changing' = changing /\ handling' = handling /\ svcIng' = svcIng /\ ingSvc' = ingSvc
        /\ secretIng' = secretIng /\ ingSecret' = ingSecret /\ classIng' = classIng
        /\ ingClass' = ingClass /\ built' = built /\ unrelated' = unrelated
        /\ spec' = spec /\ present' = present /\ service' = service /\ secret' = secret
        /\ class' = class /\ edits' = edits /\ notes' = notes \ {n} /\ queue \subseteq queue'
        /\ ValidateIngressForClass(n.class) => queue' = queue \cup {<<"Ingress", n.ingress>>}
        /\ ~ValidateIngressForClass(n.class) => queue' = queue
    BY Zenon DEF IngressEvent, Accepted, objects, work, store, model
  <1>d. TypeOK' /\ MapsInverse' /\ ClassMap'
    BY <1>a, <1>c DEF MapsInverse, ClassMap, TypeOK, Keys
  <1>e. SUFFICES ASSUME NEW i \in Ingresses PROVE Sound(i)'
    BY Zenon, <1>d DEF IInv
  <1>1. CASE i = n.ingress /\ ValidateIngressForClass(n.class)
    <2>1. Due(i)'
      BY Zenon, <1>c, <1>1 DEF Due
    <2> QED BY Zenon, <2>1 DEF Sound, Related, Current, Complete
  <1>2. CASE i # n.ingress \/ ~ValidateIngressForClass(n.class)
    <2>1. Due(i) => Due(i)'
      BY Zenon, <1>c DEF Due
    <2>2. Covered(i) => Covered(i)'
      <3>1. SUFFICES ASSUME NEW m \in notes, m.ingress = i, KnownAs(i, m.class),
                            ValidateIngressForClass(m.class)
                     PROVE  Covered(i)'
        BY Zenon DEF Covered
      <3>2. m \in notes'
        BY Zenon, <1>c, <1>2, <3>1
      <3>3. (KnownAs(i, m.class) /\ ValidateIngressForClass(m.class))'
        BY Zenon, <1>c, <3>1 DEF KnownAs, ValidateIngressForClass, DefaultClasses
      <3> QED BY Zenon, <3>1, <3>2, <3>3 DEF Covered
    <2>3. (Served(i) /\ KnownAs(i, spec[i].class))' <=> (Served(i) /\ KnownAs(i, spec[i].class))
      BY Zenon, <1>c DEF Served, KnownAs, ValidateIngressForClass, DefaultClasses
    <2>4. Mapped(i) => Mapped(i)'
      BY Zenon, <1>c DEF Mapped
    <2>5. Fresh(i) => Fresh(i)'
      BY Zenon, <1>c DEF Fresh, FreshServices, FreshSecret
    <2> QED BY Zenon, <1>a, <1>c, <2>1, <2>2, <2>3, <2>4, <2>5, Frame
  <1> QED BY Zenon, <1>1, <1>2

\* Taking a key from the queue keeps the invariant: the Ingresses that rely on
\* the key are the ones the store finds for it.
LEMMA DequeueInv ==
    ASSUME IInv, NEW type \in {"Ingress", "Service", "Secret", "IngressClass"}, NEW name,
           DequeueIngestion(type, name)
    PROVE  IInv'
  <1>a. TypeOK /\ MapsInverse /\ ClassMap /\ \A i \in Ingresses : Sound(i)
    BY Zenon DEF IInv
  <1>c. /\ changing = {} /\ handling = {} /\ svcIng' = svcIng /\ ingSvc' = ingSvc
        /\ secretIng' = secretIng /\ ingSecret' = ingSecret /\ classIng' = classIng
        /\ ingClass' = ingClass /\ built' = built /\ unrelated' = unrelated
        /\ spec' = spec /\ present' = present /\ service' = service /\ secret' = secret
        /\ class' = class /\ edits' = edits /\ notes' = notes /\ queue' = queue \ {<<type, name>>}
        /\ <<type, name>> \in queue
        /\ handling' = ParentIngresses(type, name)
        /\ changing' = IF type \in {"Ingress", "IngressClass"} THEN handling' ELSE {}
    BY Zenon DEF DequeueIngestion, objects, store, model
  <1>d. /\ type = "Ingress" => name \in Ingresses /\ handling' = {name} /\ changing' = {name}
        /\ type = "IngressClass" => name \in Classes /\ handling' = classIng[name] /\ changing' = classIng[name]
        /\ type = "Service" => name \in Services /\ handling' = svcIng[name] /\ changing' = {}
        /\ type = "Secret" => name \in Secrets /\ handling' = secretIng[name] /\ changing' = {}
    BY Zenon, <1>a, <1>c DEF ParentIngresses, TypeOK, Keys
  <1>e. TypeOK' /\ MapsInverse' /\ ClassMap'
    BY Zenon, <1>a, <1>c, <1>d DEF MapsInverse, ClassMap, TypeOK
  <1>f. SUFFICES ASSUME NEW i \in Ingresses PROVE Sound(i)'
    BY Zenon, <1>e DEF IInv
  <1>g. spec[i].svcs \subseteq Services /\ spec[i].secret \in Secrets \cup {NoSecret}
    BY Zenon, <1>a, ClassType
  <1>1. Due(i) => Due(i)'
    BY Zenon, <1>c, <1>d DEF Due
  <1>2. Covered(i)' <=> Covered(i)
    BY Zenon, <1>c DEF Covered, KnownAs, ValidateIngressForClass, DefaultClasses
  <1>3. (Served(i) /\ KnownAs(i, spec[i].class))' <=> (Served(i) /\ KnownAs(i, spec[i].class))
    BY Zenon, <1>c DEF Served, KnownAs, ValidateIngressForClass, DefaultClasses
  <1>4. Mapped(i)' <=> Mapped(i)
    BY Zenon, <1>c DEF Mapped
  <1>5. Mapped(i) /\ Fresh(i) /\ i \notin handling' => Fresh(i)'
    <2>1. SUFFICES ASSUME Mapped(i), Fresh(i), i \notin handling' PROVE Fresh(i)'
      OBVIOUS
    <2>2. \A s \in spec[i].svcs : <<"Service", s>> \in queue => <<"Service", s>> \in queue'
      <3>1. ASSUME NEW s \in spec[i].svcs, type = "Service", name = s PROVE FALSE
        BY Zenon, <1>a, <1>d, <1>g, <2>1, <3>1 DEF Mapped, MapsInverse
      <3> QED BY Zenon, <1>c, <3>1
    <2>3. spec[i].secret # NoSecret /\ <<"Secret", spec[i].secret>> \in queue
             => <<"Secret", spec[i].secret>> \in queue'
      <3>1. ASSUME spec[i].secret # NoSecret, type = "Secret", name = spec[i].secret PROVE FALSE
        BY Zenon, <1>d, <1>g, <2>1, <3>1 DEF Mapped
      <3> QED BY Zenon, <1>c, <3>1
    <2> QED BY Zenon, <1>c, <2>1, <2>2, <2>3 DEF Fresh, FreshServices, FreshSecret
  <1> QED BY Zenon, <1>a, <1>c, <1>1, <1>2, <1>3, <1>4, <1>5 DEF Sound, Related, Current, Complete, Good

\* Relating an Ingress keeps the invariant: it is related as its specification
\* says, and waits to be built.
LEMMA ChangesInv == ASSUME IInv, NEW j \in Ingresses, IngressChanges(j) PROVE IInv'
  <1>a. TypeOK /\ MapsInverse /\ ClassMap /\ \A i \in Ingresses : Sound(i)
    BY Zenon DEF IInv
  <1>b. /\ TypeOK' /\ MapsInverse' /\ ClassMap'
        /\ Served(j) => Mapped(j)'
        /\ \A i \in Ingresses \ {j} : ingSvc'[i] = ingSvc[i] /\ ingClass'[i] = ingClass[i]
        /\ \A c \in Classes, i \in Ingresses \ {j} : i \in classIng'[c] <=> i \in classIng[c]
        /\ \A t \in Secrets : secretIng[t] \subseteq secretIng'[t]
    BY Zenon, <1>a, IngressChangesEffect
  <1>c. /\ j \in changing /\ changing' = changing \ {j} /\ handling' = handling
        /\ present' = present /\ spec' = spec /\ service' = service /\ secret' = secret
        /\ class' = class /\ notes' = notes /\ queue' = queue /\ built' = built
        /\ unrelated' = unrelated
    BY Zenon DEF IngressChanges, objects, model
  <1>d. SUFFICES ASSUME NEW i \in Ingresses PROVE Sound(i)'
    BY Zenon, <1>b DEF IInv
  <1>e. spec[i].svcs \subseteq Services /\ spec[i].secret \in Secrets \cup {NoSecret}
    BY Zenon, <1>a, ClassType
  <1>1. CASE i = j
    <2>1. i \in handling'
      BY Zenon, <1>a, <1>c, <1>1 DEF TypeOK
    <2>2. Served(i)' <=> Served(i)
      BY Zenon, <1>c DEF Served, ValidateIngressForClass, DefaultClasses
    <2> QED BY Zenon, <1>b, <1>1, <2>1, <2>2 DEF Sound, Related, Current, Complete
  <1>2. CASE i # j
    <2>1. Due(i) => Due(i)'
      BY Zenon, <1>b, <1>c, <1>2 DEF Due
    <2>2. Covered(i) => Covered(i)'
      BY Zenon, <1>b, <1>c, <1>2 DEF Covered, KnownAs, ValidateIngressForClass, DefaultClasses
    <2>3. (Served(i) /\ KnownAs(i, spec[i].class))' <=> (Served(i) /\ KnownAs(i, spec[i].class))
      BY Zenon, <1>b, <1>c, <1>2 DEF Served, KnownAs, ValidateIngressForClass, DefaultClasses
    <2>4. Mapped(i) => Mapped(i)'
      BY Zenon, <1>b, <1>c, <1>e, <1>2 DEF Mapped
    <2>5. Fresh(i) => Fresh(i)'
      BY Zenon, <1>c DEF Fresh, FreshServices, FreshSecret
    <2> QED BY Zenon, <1>a, <1>c, <2>1, <2>2, <2>3, <2>4, <2>5, Frame
  <1> QED BY Zenon, <1>1, <1>2

\* Building a model keeps the invariant: what is built now from an Ingress the
\* store relates is current, and what is built from one it does not is marked.
LEMMA PublishInv == ASSUME IInv, NEW j \in Ingresses, HostNameShardAndPublish(j) PROVE IInv'
  <1>a. TypeOK /\ MapsInverse /\ ClassMap /\ \A i \in Ingresses : Sound(i)
    BY DEF IInv
  <1>b. /\ TypeOK'
        /\ handling' = handling \ {j} /\ changing' = changing
        /\ \A t \in Secrets : secretIng[t] \subseteq secretIng'[t]
        /\ built' = [built EXCEPT ![j] = IF Served(j) THEN Snapshot(j) ELSE None]
        /\ \A i \in Ingresses \ {j} : i \in unrelated' <=> i \in unrelated
        /\ Served(j) /\ ~KnownAs(j, spec[j].class) => j \in unrelated'
    BY Zenon, <1>a, PublishEffect
  <1>c. /\ present' = present /\ spec' = spec /\ service' = service /\ secret' = secret
        /\ class' = class /\ notes' = notes /\ queue' = queue /\ svcIng' = svcIng
        /\ ingSvc' = ingSvc /\ classIng' = classIng /\ ingClass' = ingClass
    BY Zenon DEF HostNameShardAndPublish, objects
  <1>d. MapsInverse' /\ ClassMap'
    BY Zenon, <1>a, <1>c DEF MapsInverse, ClassMap
  <1>e. SUFFICES ASSUME NEW i \in Ingresses PROVE Sound(i)'
    BY Zenon, <1>b, <1>d DEF IInv
  <1>f. spec[i] \in Specs /\ spec[i].svcs \subseteq Services /\ spec[i].secret \in Secrets \cup {NoSecret}
    BY Zenon, <1>a, ClassType
  <1>1. Due(i)' <=> Due(i)
    BY Zenon, <1>b, <1>c DEF Due
  <1>2. Covered(i)' <=> Covered(i)
    BY Zenon, <1>c DEF Covered, KnownAs, ValidateIngressForClass, DefaultClasses
  <1>3. /\ Served(i)' <=> Served(i)
        /\ KnownAs(i, spec[i].class)' <=> KnownAs(i, spec[i].class)
    BY Zenon, <1>c DEF Served, KnownAs, ValidateIngressForClass, DefaultClasses
  <1>4. Mapped(i) => Mapped(i)'
    BY Zenon, <1>b, <1>c, <1>f DEF Mapped
  <1>5. CASE i # j
    <2>1. built'[i] = built[i]
      BY SMTT(30), <1>a, <1>b, <1>5 DEF TypeOK
    <2>2. Fresh(i) => Fresh(i)'
      BY Zenon, <1>c, <2>1 DEF Fresh, FreshServices, FreshSecret
    <2> QED BY Zenon, <1>a, <1>b, <1>1, <1>2, <1>3, <1>4, <1>5, <2>1, <2>2, Frame
  <1>6. CASE i = j
    <2>1. built'[i] = IF Served(i) THEN Snapshot(i) ELSE None
      BY SMTT(30), <1>a, <1>b, <1>6 DEF TypeOK
    <2>2. Snapshot(i) \in Models
      BY Zenon, <1>a, <1>f DEF Snapshot, Models, TypeOK
    <2>3. Snapshot(i) # None
      BY Zenon, <2>2, ConstantsAssumption
    <2>4. Served(i) => Fresh(i)'
      BY <1>c, <1>f, <2>1, <2>3 DEF Fresh, FreshServices, FreshSecret, Snapshot
    <2> QED BY Zenon, <1>a, <1>b, <1>1, <1>2, <1>3, <1>4, <1>6, <2>1, <2>4
            DEF Sound, Related, Current, Complete, Good
  <1> QED BY Zenon, <1>5, <1>6

\* Every step of the informers and of the ingestion worker keeps the invariant.
LEMMA NextInv == IInv /\ [Next]_vars => IInv'
  <1> SUFFICES ASSUME IInv, [Next]_vars PROVE IInv'
    OBVIOUS
  <1>1. CASE Edit
    BY Zenon, <1>1, EditInv
  <1>2. ASSUME NEW n \in notes, IngressEvent(n) PROVE IInv'
    BY Zenon, <1>2, EventInv
  <1>3. ASSUME NEW type \in {"Ingress", "Service", "Secret", "IngressClass"},
               NEW name \in Ingresses \cup Services \cup Secrets \cup Classes,
               DequeueIngestion(type, name)
        PROVE  IInv'
    BY Zenon, <1>3, DequeueInv
  <1>4. ASSUME NEW i \in Ingresses, IngressChanges(i) PROVE IInv'
    BY Zenon, <1>4, ChangesInv
  <1>5. ASSUME NEW i \in Ingresses, HostNameShardAndPublish(i) PROVE IInv'
    BY Zenon, <1>5, PublishInv
  <1>6. CASE UNCHANGED vars
    <2>1. UNCHANGED <<present, spec, service, secret, class, notes, queue, changing, handling,
                      svcIng, ingSvc, secretIng, ingSecret, classIng, ingClass, built,
                      unrelated, edits>>
      BY Zenon, <1>6 DEF vars, objects, work, store, model
    <2>2. TypeOK' /\ MapsInverse' /\ ClassMap'
      BY Zenon, <2>1 DEF IInv, TypeOK, MapsInverse, ClassMap
    <2>3. ASSUME NEW i \in Ingresses PROVE Sound(i)'
      <3>1. Due(i)' <=> Due(i)
        BY Zenon, <2>1 DEF Due
      <3>2. Covered(i)' <=> Covered(i)
        BY Zenon, <2>1 DEF Covered, KnownAs, ValidateIngressForClass, DefaultClasses
      <3>3. (Served(i) /\ KnownAs(i, spec[i].class))' <=> (Served(i) /\ KnownAs(i, spec[i].class))
        BY Zenon, <2>1 DEF Served, KnownAs, ValidateIngressForClass, DefaultClasses
      <3>4. Mapped(i)' <=> Mapped(i)
        BY Zenon, <2>1 DEF Mapped
      <3>5. Fresh(i)' <=> Fresh(i)
        BY Zenon, <2>1 DEF Fresh, FreshServices, FreshSecret
      <3> QED BY Zenon, <2>1, <3>1, <3>2, <3>3, <3>4, <3>5, Frame DEF IInv
    <2> QED BY Zenon, <2>2, <2>3 DEF IInv
  <1> QED BY Zenon, <1>1, <1>2, <1>3, <1>4, <1>5, <1>6 DEF Next

\* At rest nothing is due or to be delivered, so what the invariant says of
\* every Ingress that waits for nothing holds of all.
LEMMA RestSound == IInv => NoStaleModel /\ KnownIsBuilt
  <1> SUFFICES ASSUME IInv, AtRest, NEW i \in Ingresses
               PROVE  /\ i \notin unrelated /\ built[i] # None => Served(i) /\ built[i] = Snapshot(i)
                      /\ Served(i) /\ KnownAs(i, spec[i].class) => built[i] = Snapshot(i)
    BY Zenon DEF NoStaleModel, KnownIsBuilt
  <1>1. TypeOK /\ Sound(i)
    BY Zenon DEF IInv
  <1>2. ~Due(i) /\ ~Covered(i) /\ i \notin handling
    BY Zenon, <1>1 DEF AtRest, Due, Covered, TypeOK
  <1>3. Fresh(i) => built[i] = Snapshot(i)
    <2>1. SUFFICES ASSUME Fresh(i) PROVE built[i] = Snapshot(i)
      OBVIOUS
    <2>2. built[i] \in Models
      BY Zenon, <1>1, <2>1 DEF TypeOK, Fresh
    <2>3. built[i].services = [s \in Services |-> IF s \in spec[i].svcs THEN service[s] ELSE None]
      BY Zenon, <2>1, <2>2 DEF Fresh, FreshServices, AtRest, Models
    <2>4. built[i].secret = IF spec[i].secret = NoSecret THEN None ELSE secret[spec[i].secret]
      BY Zenon, <2>1 DEF Fresh, FreshSecret, AtRest
    <2>5. built[i].spec = spec[i]
      BY Zenon, <2>1 DEF Fresh
    <2> QED BY Zenon, <2>2, <2>3, <2>4, <2>5 DEF Models, Snapshot
  <1> QED BY Zenon, <1>1, <1>2, <1>3 DEF Sound, Current, Complete, Good

\* Events of Ingresses, Services, Secrets and IngressClasses keep the maps
\* between Ingresses and Services inverse to each other: what
\* RemoveIngressMappings and the differences of IngressChanges take from one
\* map they take from the other.
THEOREM RelationsConsistent == Spec => []MapsInverse
  <1>1. IInv => MapsInverse
    BY Zenon DEF IInv
  <1> QED BY <1>1, InitInv, NextInv, PTL DEF Spec

\* The variables keep their types; in particular only an Ingress that a worker is
\* handling has its relations changing (HostNameShardAndPublish ends both).
THEOREM TypesHold == Spec => []TypeOK
  <1>1. IInv => TypeOK
    BY Zenon DEF IInv
  <1> QED BY <1>1, InitInv, NextInv, PTL DEF Spec

\* Once everything is processed no model is stale: DequeueIngestion was led to
\* every Ingress a change concerned, whatever the handlers dropped and whatever
\* changed while a key was being processed.
THEOREM ModelsCurrent == Spec => []NoStaleModel
  BY InitInv, NextInv, RestSound, PTL DEF Spec

\* Once everything is processed every served Ingress that IngressChanges has
\* recorded under its class has its current model.
THEOREM KnownAreBuilt == Spec => []KnownIsBuilt
  BY InitInv, NextInv, RestSound, PTL DEF Spec
=============================================================================
