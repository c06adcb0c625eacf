------------------------- MODULE MCProjectMembership -------------------------
(* Instances of ProjectMembership for TLC. *)
EXTENDS ProjectMembership, TLC

CONSTANTS o, a, b, r1, r2

OwnerAndTwo == {o, a, b}
TwoRequests == {r1, r2}

Interchangeable == Permutations({a, b}) \cup Permutations(TwoRequests)

=============================================================================
