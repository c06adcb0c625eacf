------------------------- MODULE MCIncidentHandling -------------------------
(* Instances of IncidentHandling for TLC. *)
EXTENDS IncidentHandling, TLC

CONSTANTS i1, c1, c2, w1, w2

OneIncident == {i1}
OneClient == {c1}
TwoClients == {c1, c2}
OneWorker == {w1}
TwoWorkers == {w1, w2}
Closing == {"closed"}

WorkerSymmetry == Permutations(Workers)

=============================================================================
