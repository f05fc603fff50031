-------------------------- MODULE IngressRelations --------------------------
(***************************************************************************)
(* How the ingestion layer finds the Ingresses an event concerns.          *)
(*                                                                         *)
(* A change of a Service, a Secret or an IngressClass must rebuild the     *)
(* models of the Ingresses that refer to it.  The layer finds them in the  *)
(* relationship store (objects.SvcLister), which it fills while it         *)
(* processes Ingress keys.  The informers change the objects underneath a  *)
(* running DequeueIngestion, and their Ingress handlers drop the events of *)
(* Ingresses whose class is not served at that moment.                     *)
(*                                                                         *)
(* One namespace, one ingestion worker (hostname sharding), IngressClasses *)
(* without an AviInfraSetting, no NodePortLocal annotation of Services,    *)
(* and every rule of an Ingress has an HTTP section.                       *)
(***************************************************************************)
EXTENDS Naturals

CONSTANTS Ingresses, Services, Secrets, Classes,
          Contents,           \* contents of a Service or Secret, absence included
          Specs,              \* the Ingress specifications that occur
          NoClass, NoSecret,  \* the field is not set
          None,               \* no model
          MaxEdits            \* bound: changes made in Kubernetes

ClassKinds == {"absent", "foreign", "avi", "default"}

Keys == ({"Ingress"} \X Ingresses) \cup ({"Service"} \X Services)
          \cup ({"Secret"} \X Secrets) \cup ({"IngressClass"} \X Classes)

\* What a model is built from.
Models == [spec : Specs, services : [Services -> Contents \cup {None}],
           secret : Contents \cup {None}]

ASSUME SpecsAssumption ==
    /\ Specs # {}
    /\ Specs \subseteq [svcs : SUBSET Services, secret : Secrets \cup {NoSecret},
                        class : Classes \cup {NoClass}]

ASSUME ConstantsAssumption ==
    /\ NoClass \notin Classes
    /\ NoSecret \notin Secrets
    /\ None \notin Models
    /\ MaxEdits \in Nat

VARIABLES
    present,    \* Ingress -> it is in the informer's cache
    spec,       \* Ingress -> its specification; after a deletion, the last one
    service, secret, class,   \* what the other informers' caches hold
    notes,      \* ADD and DELETE events of Ingresses the handlers have not seen
    queue,      \* keys in the ingestion queue
    changing,   \* Ingresses the key being processed has yet to relate
    handling,   \* Ingresses the key being processed has yet to build
    svcIng, ingSvc, secretIng, ingSecret, classIng, ingClass,  \* SvcLister
    built,      \* Ingress -> what its model was built from, or None
    unrelated,  \* history: Ingresses built when the store did not know them
    edits

objects == <<present, spec, service, secret, class>>
work == <<changing, handling>>
store == <<svcIng, ingSvc, secretIng, ingSecret, classIng, ingClass>>
model == <<built, unrelated>>
vars == <<objects, notes, queue, work, store, model, edits>>

Init ==
    /\ present = [i \in Ingresses |-> FALSE]
    /\ spec = [i \in Ingresses |-> CHOOSE s \in Specs : TRUE]
    /\ service \in [Services -> Contents]
    /\ secret \in [Secrets -> Contents]
    /\ class \in [Classes -> ClassKinds]
    /\ notes = {} /\ queue = {} /\ changing = {} /\ handling = {}
    /\ svcIng = [s \in Services |-> {}]
    /\ ingSvc = [i \in Ingresses |-> {}]
    /\ secretIng = [t \in Secrets |-> {}]
    /\ ingSecret = [i \in Ingresses |-> {}]
    /\ classIng = [c \in Classes |-> {}]
    /\ ingClass = [i \in Ingresses |-> NoClass]
    /\ built = [i \in Ingresses |-> None]
    /\ unrelated = {}
    /\ edits = 0

-----------------------------------------------------------------------------
(* Objects change; the informers' handlers.                                *)

\* The classes IsAviLBDefaultIngressClass may return: the lister's order is
\* not fixed.
DefaultClasses == {c \in Classes : class[c] = "default"}

ValidateIngressForClass(name) ==
    IF name = NoClass THEN DefaultClasses # {}
    ELSE class[name] \in {"avi", "default"}

Note(i, name) == [ingress |-> i, class |-> name, number |-> edits]

AddIngress(i, s) ==
    /\ ~present[i]
    /\ present' = [present EXCEPT ![i] = TRUE]
    /\ spec' = [spec EXCEPT ![i] = s]
    /\ notes' = notes \cup {Note(i, s.class)}
    /\ UNCHANGED <<service, secret, class, queue>>

\* UpdateFunc enqueues every change of the specification.
UpdateIngress(i, s) ==
    /\ present[i] /\ s # spec[i]
    /\ spec' = [spec EXCEPT ![i] = s]
    /\ queue' = queue \cup {<<"Ingress", i>>}
    /\ UNCHANGED <<present, service, secret, class, notes>>

DeleteIngress(i) ==
    /\ present[i]
    /\ present' = [present EXCEPT ![i] = FALSE]
    /\ notes' = notes \cup {Note(i, spec[i].class)}
    /\ UNCHANGED <<spec, service, secret, class, queue>>

\* A Service stands for itself and its EndpointSlices: both keys lead to SvcToIng.
ChangeService(s, v) ==
    /\ service[s] # v
    /\ service' = [service EXCEPT ![s] = v]
    /\ queue' = queue \cup {<<"Service", s>>}
    /\ UNCHANGED <<present, spec, secret, class, notes>>

ChangeSecret(t, v) ==
    /\ secret[t] # v
    /\ secret' = [secret EXCEPT ![t] = v]
    /\ queue' = queue \cup {<<"Secret", t>>}
    /\ UNCHANGED <<present, spec, service, class, notes>>

\* Mutant: the handler has no AddFunc.
ChangeClassNoAdd(c, k) ==
    /\ class[c] # k
    /\ class' = [class EXCEPT ![c] = k]
    /\ queue' = IF class[c] = "absent" THEN queue ELSE queue \cup {<<"IngressClass", c>>}
    /\ UNCHANGED <<present, spec, service, secret, notes>>

ChangeClass(c, k) ==
    /\ class[c] # k
    /\ class' = [class EXCEPT ![c] = k]
    /\ queue' = queue \cup {<<"IngressClass", c>>}
    /\ UNCHANGED <<present, spec, service, secret, notes>>

Edit ==
    /\ edits < MaxEdits
    /\ edits' = edits + 1
    /\ \/ \E i \in Ingresses, s \in Specs : AddIngress(i, s) \/ UpdateIngress(i, s)
       \/ \E i \in Ingresses : DeleteIngress(i)
       \/ \E s \in Services, v \in Contents : ChangeService(s, v)
       \/ \E t \in Secrets, v \in Contents : ChangeSecret(t, v)
       \/ \E c \in Classes, k \in ClassKinds : ChangeClass(c, k)
    /\ UNCHANGED <<work, store, model>>

\* AddFunc and DeleteFunc of Ingresses drop the event when the class of the
\* object they are given is not served now.
Accepted(n) == ValidateIngressForClass(n.class)

IngressEvent(n) ==
    /\ notes' = notes \ {n}
    /\ queue' = IF Accepted(n) THEN queue \cup {<<"Ingress", n.ingress>>} ELSE queue
    /\ UNCHANGED <<objects, work, store, model, edits>>

-----------------------------------------------------------------------------
(* The relationship store.  Lists without duplicates are sets; a missing   *)
(* list and an empty one are treated alike by every reader.                *)

Without(related, i, names) ==
    [x \in DOMAIN related |-> IF x \in names THEN related[x] \ {i} ELSE related[x]]

With(related, i, names) ==
    [x \in DOMAIN related |-> IF x \in names THEN related[x] \cup {i} ELSE related[x]]

RemoveIngressMappings(i) ==
    /\ svcIng' = Without(svcIng, i, ingSvc[i])
    /\ ingSvc' = [ingSvc EXCEPT ![i] = {}]

\* Mutant: a Service that left the specification keeps the Ingress.
UpdateServicesKeepOld(i) ==
    /\ svcIng' = With(svcIng, i, spec[i].svcs)
    /\ ingSvc' = [ingSvc EXCEPT ![i] = spec[i].svcs]

\* The Services that left the specification lose the Ingress, new ones get it.
UpdateServices(i) ==
    LET old == ingSvc[i] \ spec[i].svcs
        new == spec[i].svcs \ ingSvc[i]
    IN  /\ svcIng' = With(Without(svcIng, i, old), i, new)
        /\ ingSvc' = [ingSvc EXCEPT ![i] = (@ \ old) \cup new]

\* Mutant: the Secrets are not updated.
AddSecretsOneWay(i) ==
    /\ ingSecret' = [ingSecret EXCEPT ![i] = @ \cup ({spec[i].secret} \ {NoSecret})]
    /\ UNCHANGED secretIng

\* Secrets are only ever added: a Secret that left the specification keeps
\* the Ingress.
AddSecrets(i) ==
    LET new == {spec[i].secret} \ {NoSecret}
    IN  /\ secretIng' = With(secretIng, i, new)
        /\ ingSecret' = [ingSecret EXCEPT ![i] = @ \cup new]

\* The class the Ingress had before keeps it as well.
UpdateIngressClassMappings(i, name) ==
    /\ classIng' = With(classIng, i, {name})
    /\ ingClass' = [ingClass EXCEPT ![i] = name]

RemoveIngressClassMappings(i) ==
    /\ classIng' = Without(classIng, i, {ingClass[i]})
    /\ ingClass' = [ingClass EXCEPT ![i] = NoClass]

\* The list of Secrets holds "namespace/name" and the map back is keyed by
\* the bare name, so the Secrets keep the Ingress.
RemoveIngressSecretMappings(i) ==
    /\ ingSecret' = [ingSecret EXCEPT ![i] = {}]
    /\ UNCHANGED secretIng

-----------------------------------------------------------------------------
(* The ingestion worker.                                                   *)

\* GetParentIngresses: IngressChanges, SvcToIng, SecretToIng, IngClassToIng.
ParentIngresses(type, name) ==
    CASE type = "Ingress" -> {name}
      [] type = "Service" -> svcIng[name]
      [] type = "Secret" -> secretIng[name]
      [] type = "IngressClass" -> classIng[name]

\* IngClassToIng relates again every Ingress it returns.
DequeueIngestion(type, name) ==
    /\ <<type, name>> \in queue /\ changing = {} /\ handling = {}
    /\ queue' = queue \ {<<type, name>>}
    /\ handling' = ParentIngresses(type, name)
    /\ changing' = IF type \in {"Ingress", "IngressClass"} THEN handling' ELSE {}
    /\ UNCHANGED <<objects, notes, store, model, edits>>

IngressClassNames(i) ==
    IF spec[i].class # NoClass THEN {spec[i].class}
    ELSE IF DefaultClasses # {} THEN DefaultClasses ELSE {NoClass}

RelateClass(i) ==
    \E name \in IngressClassNames(i) :
        IF name # NoClass THEN UpdateIngressClassMappings(i, name)
        ELSE RemoveIngressClassMappings(i)

RelateGone(i) ==
    /\ ~present[i]
    /\ RemoveIngressMappings(i)
    /\ RemoveIngressClassMappings(i)
    /\ UNCHANGED <<secretIng, ingSecret>>

RelateNotServed(i) ==
    /\ present[i] /\ ~ValidateIngressForClass(spec[i].class)
    /\ RelateClass(i)
    /\ RemoveIngressMappings(i)
    /\ UNCHANGED <<secretIng, ingSecret>>

RelateServed(i) ==
    /\ present[i] /\ ValidateIngressForClass(spec[i].class)
    /\ RelateClass(i)
    /\ UpdateServices(i)
    /\ AddSecrets(i)

IngressChanges(i) ==
    /\ i \in changing
    /\ changing' = changing \ {i}
    /\ RelateGone(i) \/ RelateNotServed(i) \/ RelateServed(i)
    /\ UNCHANGED <<objects, notes, queue, handling, model, edits>>

\* The store has a class for the Ingress through which changes of the class
\* reach it.
KnownAs(i, name) ==
    /\ ingClass[i] # NoClass
    /\ IF name # NoClass THEN ingClass[i] = name ELSE class[ingClass[i]] = "default"

Snapshot(i) ==
    [spec |-> spec[i],
     services |-> [s \in Services |-> IF s \in spec[i].svcs THEN service[s] ELSE None],
     secret |-> IF spec[i].secret = NoSecret THEN None ELSE secret[spec[i].secret]]

Served(i) == present[i] /\ ValidateIngressForClass(spec[i].class)

\* Builds the model; ParseHostPathForIngress relates the Secrets of an
\* Ingress that has none recorded.
BuildModel(i) ==
    /\ Served(i)
    /\ IF ingSecret[i] = {} THEN AddSecrets(i) ELSE UNCHANGED <<secretIng, ingSecret>>
    /\ built' = [built EXCEPT ![i] = Snapshot(i)]
    /\ unrelated' = IF KnownAs(i, spec[i].class) THEN unrelated \ {i} ELSE unrelated \cup {i}

\* Without hosts recorded for the Ingress there is nothing to delete.
RouteIngrDeletePoolsByHostname(i) ==
    /\ ~Served(i)
    /\ IF built[i] = None THEN UNCHANGED <<secretIng, ingSecret>>
       ELSE RemoveIngressSecretMappings(i)
    /\ built' = [built EXCEPT ![i] = None]
    /\ unrelated' = unrelated \ {i}

\* Mutant: an Ingress is built before the others of its class are related.
HostNameShardAndPublishEarly(i) ==
    /\ i \in handling
    /\ handling' = handling \ {i}
    /\ BuildModel(i) \/ RouteIngrDeletePoolsByHostname(i)
    /\ UNCHANGED <<objects, notes, queue, changing, svcIng, ingSvc, classIng, ingClass, edits>>

HostNameShardAndPublish(i) ==
    /\ changing = {} /\ i \in handling
    /\ handling' = handling \ {i}
    /\ BuildModel(i) \/ RouteIngrDeletePoolsByHostname(i)
    /\ UNCHANGED <<objects, notes, queue, changing, svcIng, ingSvc, classIng, ingClass, edits>>

Next ==
    \/ Edit
    \/ \E n \in notes : IngressEvent(n)
    \/ \E type \in {"Ingress", "Service", "Secret", "IngressClass"} :
         \E name \in Ingresses \cup Services \cup Secrets \cup Classes :
           DequeueIngestion(type, name)
    \/ \E i \in Ingresses : IngressChanges(i) \/ HostNameShardAndPublish(i)

Spec == Init /\ [][Next]_vars

-----------------------------------------------------------------------------
(* Properties.                                                             *)

\* The values of the variables.
TypeOK ==
    /\ present \in [Ingresses -> BOOLEAN]
    /\ spec \in [Ingresses -> Specs]
    /\ service \in [Services -> Contents]
    /\ secret \in [Secrets -> Contents]
    /\ class \in [Classes -> ClassKinds]
    /\ notes \subseteq [ingress : Ingresses, class : Classes \cup {NoClass}, number : Nat]
    /\ queue \subseteq Keys
    /\ changing \subseteq handling
    /\ handling \subseteq Ingresses
    /\ svcIng \in [Services -> SUBSET Ingresses]
    /\ ingSvc \in [Ingresses -> SUBSET Services]
    /\ secretIng \in [Secrets -> SUBSET Ingresses]
    /\ ingSecret \in [Ingresses -> SUBSET Secrets]
    /\ classIng \in [Classes -> SUBSET Ingresses]
    /\ ingClass \in [Ingresses -> Classes \cup {NoClass}]
    /\ built \in [Ingresses -> Models \cup {None}]
    /\ unrelated \subseteq Ingresses
    /\ edits \in Nat

AtRest == notes = {} /\ queue = {} /\ handling = {}

\* The two maps between Ingresses and Services are inverse to each other
\* whatever order the updates come in: RemoveIngressMappings and the
\* differences IngressChanges takes clean one map by what the other holds.
MapsInverse ==
    \A i \in Ingresses, s \in Services : i \in svcIng[s] <=> s \in ingSvc[i]

\* When nothing is left to process, a model that was built for a related
\* Ingress is built from the present specification, Services and Secret, and
\* there is none for an Ingress that is gone or not served: no event that
\* matters to an Ingress was dropped by its handler, coalesced away or sent to
\* the wrong Ingresses, even when the objects changed between IngressChanges
\* and HostNameShardAndPublish.
NoStaleModel ==
    AtRest => \A i \in Ingresses \ unrelated :
                 built[i] # None => Served(i) /\ built[i] = Snapshot(i)

\* When nothing is left to process, a served Ingress has a model if the store
\* knows it under the class it has now (IngressChanges has recorded it).
KnownIsBuilt ==
    AtRest => \A i \in Ingresses :
                 Served(i) /\ KnownAs(i, spec[i].class) => built[i] = Snapshot(i)

(* Refuted. *)

\* Every served Ingress has a model once nothing is left to process.
\* IngressChanges says "When the correct Ingress Class is added, then the
\* Ingress would be processed again"; the handler that drops the ADD event of
\* an Ingress whose class is missing keeps it from being related to the class.
ServedIsBuilt == AtRest => \A i \in Ingresses : Served(i) => built[i] # None
=============================================================================
