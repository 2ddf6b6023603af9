---------------------------- MODULE GazeboScene ----------------------------
(***************************************************************************)
(* How a package is realized as an SDF world (robosim/core/gazebo_openusd_ *)
(* package.py), and how SDF is read. Every pose is written as roll, pitch  *)
(* and yaw: a link's relative to its parent link, a joint's relative to    *)
(* its child. The robot is converted from URDF: a massless link that a     *)
(* fixed joint holds and that has no geometry is left out, and the joints  *)
(* below it go to the link above it.                                       *)
(***************************************************************************)
EXTENDS ScenePackage

ChildPose(joint) == Compose(joint.f0, Inverse(joint.f1))

\* What SDF makes of the poses of a link and of the joint above it.
GazeboStep(joint, position) ==
  LET frame == AsRpy(joint.f1)
  IN  Compose(AsRpy(ChildPose(joint)),
        Compose(frame, Compose(Moved(joint.kind, Unit(joint.axis), position), Inverse(frame))))

GazeboHandle(instance) == instance.name

GazeboInstance(instance) ==
  LET Step(j) == GazeboStep(j, Target(instance, j))
  IN  [name  |-> GazeboHandle(instance),
       links |-> Placed(instance.asset, AsRpy(instance.pose), Step),
       free  |-> instance.asset.mode # "static"]

(* The robot's URDF: links, joints with an origin, the mass of each link   *)
(* ("none" given, "zero", "some"), the links with a visual or a collision. *)
AnchoringJoint(urdf, link) == CHOOSE j \in JointsOf(urdf) : j.child = link
Anchored(urdf) == {j.child : j \in JointsOf(urdf)}

Connector(urdf, link) ==
  /\ urdf.mass[link] # "some"
  /\ link \in Anchored(urdf)
  /\ AnchoringJoint(urdf, link).kind = "fixed"
  /\ link \notin urdf.shaped

MasslessLinks(urdf) == {link \in urdf.links : Connector(urdf, link)}

\* A link of zero mass is a connector, or nothing holds it.
SupportedRobot(urdf) ==
  \A link \in urdf.links :
    urdf.mass[link] = "zero" => link \notin Anchored(urdf) \/ Connector(urdf, link)

\* The retained parent of a joint, and the origin of the joint in it.
Retained(urdf, joint) ==
  LET up[link \in urdf.links] ==
        IF link \notin MasslessLinks(urdf) THEN [parent |-> link, origin |-> Identity]
        ELSE LET above == up[AnchoringJoint(urdf, link).parent]
             IN  [above EXCEPT !.origin = Compose(@, AnchoringJoint(urdf, link).origin)]
      above == up[joint.parent]
  IN  [parent |-> above.parent, origin |-> Compose(above.origin, joint.origin)]

GazeboRobotLinks(urdf) == urdf.links \ MasslessLinks(urdf)

GazeboRobot(robot) ==
  LET urdf == robot.urdf
      place[link \in GazeboRobotLinks(urdf)] ==
        IF link \notin Anchored(urdf) THEN AsRpy(robot.pose)
        ELSE LET joint == AnchoringJoint(urdf, link)
                 to == Retained(urdf, joint)
             IN  Compose(place[to.parent],
                   Compose(AsRpy(to.origin), Moved(joint.kind, Unit(joint.axis), joint.at)))
  IN  [links |-> place, free |-> ~robot.fixed]

(* A visual of several objects is split into a file for each.              *)
GazeboParts(obj) ==
  LET groups == ObjGroups(obj)  names == ObjMaterials(obj)
  IN  CASE Len(names) = 1 -> names
        [] Len(groups) > 1 /\ (\E k \in DOMAIN groups : groups[k] = 0) -> Refused
        [] OTHER -> names

(* What the compiler refuses. A mesh is named relative to the directory of *)
(* the world: one outside of it, such as every mesh of a package and of a  *)
(* robot profile, raises. Names and pose cycles are left to Gazebo.        *)
GazeboRobots == {"franka_panda", "ipads_desc"}

GazeboAccepts(package) ==
  /\ package.robot # NoRobot
  /\ package.robot.id \in GazeboRobots
  /\ SupportedRobot(package.robot.urdf)
  /\ package.robot.fixed => Cardinality(Roots(package.robot.urdf)) = 1
  /\ ~package.robot.urdf.meshes
  /\ \A i \in Elements(package.instances) :
       i.asset.where = "slot" /\ GazeboParts(i.asset.obj) # Refused

GazeboNames(package) ==
  LET instances == package.instances
  IN  [k \in 1..Len(instances) + 1 |->
         IF k <= Len(instances) THEN GazeboHandle(instances[k]) ELSE package.robot.name]

GazeboLoads(package) ==
  /\ \A k, l \in DOMAIN GazeboNames(package) :
       GazeboNames(package)[k] = GazeboNames(package)[l] => k = l
  /\ \A i \in Elements(package.instances) : Reached(i.asset) = i.asset.links

GazeboWorld(package) ==
  [instances |-> [k \in DOMAIN package.instances |-> GazeboInstance(package.instances[k])],
   cameras   |-> [k \in DOMAIN package.cameras |->       \* SDF: along +X with +Z up
                    LET turn == AsRpy(package.cameras[k]).turn
                    IN  [at |-> package.cameras[k].at, forward |-> Rotate(turn, <<1, 0, 0>>),
                         up |-> Rotate(turn, <<0, 0, 1>>)]],
   lights    |-> [k \in DOMAIN package.lights |->
                    RotateByCross(package.lights[k].turn, <<0, 0, -1>>)],
   robot     |-> GazeboRobot(package.robot)]
=============================================================================
