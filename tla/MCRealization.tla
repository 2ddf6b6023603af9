--------------------------- MODULE MCRealization ---------------------------
(* Realization for four versions of a package: the second moves an object  *)
(* of the first, the third replaces its mesh, and with the digest the name *)
(* of the file it is realized into, the fourth replaces the mesh and       *)
(* leaves the digest that the package declares for it.                     *)
EXTENDS Realization, TLC
CONSTANTS p, q, r, s, scene, cup, jug, c1, c2

MCResources == [v \in {p, q, s} |-> "cup"] @@ (r :> "jug")
MCMeshes == [v \in {p, q} |-> "cup"] @@ [v \in {r, s} |-> "jug"]
MCGenerated == [v \in {p, q, s} |-> <<cup, scene>>] @@ (r :> <<jug, scene>>)
Symmetry == Permutations(Compilers)
=============================================================================
