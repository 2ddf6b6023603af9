---------------------------- MODULE MCEpisodeFrames ----------------------------
(* Three robots whose joints and groups have different orders, one per kind   *)
(* of backend, and a Gazebo robot with an end effector, which cannot be       *)
(* recorded with it.  The MuJoCo robot is what MujocoRobot makes of an arm    *)
(* beside a drawer.                                                           *)
EXTENDS EpisodeFrames
Loaded == INSTANCE MujocoRobot WITH World <- NoOne, NoSrdf <- NoOne

Camera(n) == [what |-> "camera", size |-> n, extra |-> 0, readable |-> TRUE]
Lidar(n, m) == [what |-> "lidar", size |-> n, extra |-> m, readable |-> TRUE]
Grp(n, js, e) == [name |-> n, joints |-> js, ee |-> e]

Hinge(n, b) == [name |-> n, body |-> b, moves |-> TRUE]
Scene == [parent |-> [base |-> NoOne, upper |-> "base", hand |-> "upper", desk |-> NoOne],
          trees |-> <<"desk", "base">>,
          joints |-> <<Hinge("drawer", "desk"), Hinge("a", "upper"), Hinge("b", "hand")>>]
Srdf == [groups |-> <<[name |-> "arm", parts |-> <<[tag |-> "chain", base |-> "base", tip |-> "hand"]>>]>>,
         joints |-> {}, bodies |-> {"base", "hand"}, ends |-> {[parent |-> "arm", group |-> "arm"]}]
Arm == Loaded!Recognized(Scene, Srdf)

MCRobots == {
  [kind |-> "mujoco", joints |-> Arm.controlled, sensors |-> ("cam" :> Camera(1)),
   groups |-> Arm.groups],
  [kind |-> "pybullet", joints |-> <<"b", "a">>, sensors |-> ("cam" :> Camera(1)),
   groups |-> <<Grp("all", <<"b", "a">>, TRUE), Grp("arm", <<"a">>, FALSE)>>],
  [kind |-> "gazebo", joints |-> <<"a", "b">>,
   sensors |-> ("cam" :> Camera(1)) @@ ("scan" :> Lidar(1, 0)),
   groups |-> <<Grp("arm", <<"b">>, TRUE), Grp("all", <<"b", "a">>, FALSE)>>] }

Ask4(gs, ngs, ss, nss) == [groups |-> gs, noGroups |-> ngs, sensors |-> ss, noSensors |-> nss]
MCRequests == {Ask4({}, {}, {}, {}), Ask4({"all"}, {}, {}, {}), Ask4({}, {"all"}, {}, {"cam"})}

MCMaxReadings == [r \in Readers |-> IF r = Recorder THEN 2 ELSE 1]
MCReadings == {NoData, [Camera(1) EXCEPT !.readable = FALSE], Lidar(1, 1)}
================================================================================
