------------------------- MODULE MCPybulletBackend -------------------------
(* PybulletBackend with two clients, two joints in three groups, two bodies. *)
EXTENDS PybulletBackend, TLC
CONSTANTS a, f, c1, c2

MCGroups == [arm |-> {a}, hand |-> {f}, both |-> {a, f}]
MCBodies == <<"panda", "cup">>
Symmetry == Permutations(Clients)
=============================================================================
