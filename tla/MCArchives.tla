------------------------------ MODULE MCArchives ------------------------------
(* Archives for TLC: an identity that comes with two sets of facts and one *)
(* that does not; two compactors, which are interchangeable.  No variable  *)
(* of the browser's shard mentions a compactor, so its liveness is checked *)
(* on the same states with the symmetry as without.                        *)
EXTENDS Archives, TLC

CONSTANTS a, b, x, y

MCSent == {[id |-> a, facts |-> x], [id |-> a, facts |-> y], [id |-> b, facts |-> x]}

Symmetry == Permutations(Compactor)
=============================================================================
