------------------------- MODULE MCHighAvailability -------------------------
(***************************************************************************)
(* Two replicas, the number the documentation allows.                      *)
(***************************************************************************)
EXTENDS HighAvailability

\* Created, changed, deleted.
MCLifetime == <<1, 2, 0>>

\* Bound: a second failure comes only with a single version.  Edits and failures, which
\* are all that it holds back, are under no fairness.
FewEdits == failures' > 1 => k8s' <= 1

MCNext == Next /\ FewEdits

MCSpec == Init /\ [][MCNext]_vars /\ Fairness

-----------------------------------------------------------------------------
\* Once the failures stop some replica has the lease and leads, for good
\* (EventuallyLed), and the controller has the version that Kubernetes calls for
\* (EventuallySynced).
EventuallyServing == EventuallyLed /\ EventuallySynced
=============================================================================
