--------------------------- MODULE PybulletScene ---------------------------
(***************************************************************************)
(* How a package is realized as URDF files with a generated loader         *)
(* (robosim/core/pybullet_openusd_package.py), and how PyBullet reads them *)
(* : the frame of a link is the frame of the joint above it, and what is   *)
(* attached to the link has an origin in that frame.                       *)
(***************************************************************************)
EXTENDS ScenePackage

\* The origin of a link's visuals and collisions: where the body is in the frame of
\* its joint.
LinkOrigin(asset, link) ==
  IF link \in Roots(asset) THEN Identity ELSE AsRpy(Inverse(JointTo(asset, link).f1))

\* The origin and the axis of a URDF joint, and PyBullet's reading of them.
JointStep(joint, position) ==
  Compose(AsRpy(joint.f0), Moved(joint.kind, Unit(joint.axis), position))

PybulletHandle(instance) == instance.name

PybulletInstance(instance) ==
  LET Step(j) == JointStep(j, Target(instance, j))
      frame == Placed(instance.asset, instance.pose, Step)
  IN  [name  |-> PybulletHandle(instance),
       links |-> [link \in DOMAIN frame |->
                    Compose(frame[link], LinkOrigin(instance.asset, link))],
       free  |-> instance.asset.mode # "static"]

\* Camera targets are one step ahead; the up vector is the frame's.
PybulletCamera(pose) ==
  LET target == Plus(pose.at, RotateByCross(pose.turn, <<0, 0, -1>>))
  IN  [at |-> pose.at, forward |-> Plus(target, Times(-1, pose.at)),
       up |-> RotateByCross(pose.turn, <<0, 1, 0>>)]

PybulletNames(package) ==
  {PybulletHandle(i) : i \in Elements(package.instances)} \cup
  (IF package.robot = NoRobot THEN {} ELSE {package.robot.name})

PybulletAccepts(package) ==
  /\ package.robot # NoRobot => package.robot.id = "franka_panda"
  /\ Len(package.lights) <= 1

PybulletWorld(package) ==
  [instances |-> [k \in DOMAIN package.instances |-> PybulletInstance(package.instances[k])],
   cameras   |-> [k \in DOMAIN package.cameras |-> PybulletCamera(package.cameras[k])],
   lights    |-> [k \in DOMAIN package.lights |->
                    RotateByCross(package.lights[k].turn, <<0, 0, -1>>)],
   robot     |-> IF package.robot = NoRobot THEN NoRobot
                 ELSE [pose |-> package.robot.pose, free |-> FALSE]]  \* useFixedBase=True
=============================================================================
