------------------------------ MODULE MCTeleop ------------------------------
(* Teleop of a robot with two arms and a hand for each. *)
EXTENDS Teleop

MCGroups == <<[name |-> "left arm", ees |-> <<"left tool">>, joints |-> 7],
              [name |-> "right arm", ees |-> <<"right tool">>, joints |-> 7],
              [name |-> "left hand", ees |-> <<>>, joints |-> 2],
              [name |-> "right hand", ees |-> <<>>, joints |-> 1]>>
Discovered == <<>>
=============================================================================
