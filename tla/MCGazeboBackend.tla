-------------------------- MODULE MCGazeboBackend --------------------------
(* GazeboBackend with a topic of joint states. *)
EXTENDS GazeboBackend, TLC
CONSTANTS joints

MCKind == joints :> "joint"
=============================================================================
