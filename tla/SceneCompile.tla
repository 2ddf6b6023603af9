---------------------------- MODULE SceneCompile ----------------------------
(***************************************************************************)
(* A scene package, compiled for a backend and loaded by its simulator: is *)
(* what runs what the package says? compile_csd in robosim/core/csd_       *)
(* compiler.py chooses the compiler. (The files, the cache and what may go *)
(* wrong around a compile are Realization.)  The robot that a package asks *)
(* for comes from a template, of which package.robot has the description   *)
(* (urdf) and the SRDF; the SRDF is not written into a realization.        *)
(***************************************************************************)
EXTENDS ScenePackage, TLC

CONSTANTS Packages, NoWorld

Mujoco   == INSTANCE MujocoScene
Pybullet == INSTANCE PybulletScene
Gazebo   == INSTANCE GazeboScene
Backend  == INSTANCE MujocoRobot WITH World <- NoWorld, NoSrdf <- NoRobot

Backends == {"mujoco", "pybullet", "gazebo"}

VARIABLES package, backend, pc, world
vars == <<package, backend, pc, world>>

Init ==
  /\ package \in Packages
  /\ backend \in Backends
  /\ pc = "start"
  /\ world = NoWorld

Block == pc' = "blocked" /\ UNCHANGED <<package, backend, world>>
Run(w) == pc' = "running" /\ world' = w /\ UNCHANGED <<package, backend>>

ReadPackage ==
  /\ pc = "start"
  /\ pc' = IF Readable(package) THEN "read" ELSE "blocked"
  /\ UNCHANGED <<package, backend, world>>

RealizeMujoco ==
  /\ pc = "read" /\ backend = "mujoco"
  /\ IF Mujoco!MujocoAccepts(package)
       THEN pc' = "written" /\ UNCHANGED <<package, backend, world>>
       ELSE Block

RealizePybullet ==
  /\ pc = "read" /\ backend = "pybullet"
  /\ IF Pybullet!PybulletAccepts(package) THEN Run(Pybullet!PybulletWorld(package)) ELSE Block

RealizeGazebo ==
  /\ pc = "read" /\ backend = "gazebo"
  /\ IF Gazebo!GazeboAccepts(package)
       THEN pc' = "written" /\ UNCHANGED <<package, backend, world>>
       ELSE Block

MujocoModel == Mujoco!MujocoModel(package, NoWorld)
MujocoRuns(srdf) ==
  Run(Mujoco!MujocoWorld(package) @@
      [described |-> srdf # NoRobot, taken |-> Backend!Recognized(MujocoModel, srdf)])

\* MuJoCo loads what was compiled; no SRDF lies beside the robot's file.
LoadMujoco ==
  /\ pc = "written" /\ backend = "mujoco"
  /\ MujocoRuns(NoRobot)

\* MuJoCo also loads scenes that were written by hand: here, one with the same
\* bodies, which includes the robot's template where its SRDF is.
LoadOwnScene ==
  /\ pc = "written" /\ backend = "mujoco"
  /\ package.robot # NoRobot /\ package.robot.srdf # NoRobot
  /\ MujocoRuns(package.robot.srdf)

LoadGazebo ==
  /\ pc = "written" /\ backend = "gazebo"
  /\ IF Gazebo!GazeboLoads(package) THEN Run(Gazebo!GazeboWorld(package))
     ELSE pc' = "refused" /\ UNCHANGED <<package, backend, world>>

Next == ReadPackage \/ RealizeMujoco \/ RealizePybullet \/ RealizeGazebo
        \/ LoadMujoco \/ LoadOwnScene \/ LoadGazebo

Spec == Init /\ [][Next]_vars

-----------------------------------------------------------------------------
(* Where a backend is known to depart from the package.                    *)

\* A rotation that is written as roll, pitch and yaw and that they do not determine.
Written(instance) ==
  LET joints == JointsOf(instance.asset)
  IN  CASE backend = "mujoco"   -> {}
        [] backend = "pybullet" -> {j.f0.turn : j \in joints} \cup
                                   {Conjugate(j.f1.turn) : j \in joints}
        [] backend = "gazebo"   -> {instance.pose.turn} \cup {j.f1.turn : j \in joints} \cup
                                   {Gazebo!ChildPose(j).turn : j \in joints}
Blurred(instance) == \E q \in Written(instance) : Gimbal(q)

\* PyBullet: a joint below a link that is not at the frame of its own joint.
BelowMovedFrame(instance) ==
  \E j, k \in JointsOf(instance.asset) : k.parent = j.child /\ ~SamePose(j.f1, Identity)

InPlace(instance, realized) ==
  /\ DOMAIN realized.links = DOMAIN Authored(instance)
  /\ \A link \in DOMAIN realized.links :
       SamePose(realized.links[link], Authored(instance)[link])
  /\ realized.free = (instance.asset.mode # "static")

(* Properties.                                                             *)

\* Excepted: what roll, pitch and yaw cannot say (PyBullet, Gazebo), and links below a
\* moved child frame (PyBullet).
InstancesPlaced == \A k \in DOMAIN package.instances :
  \/ InPlace(package.instances[k], world.instances[k])
  \/ Blurred(package.instances[k])
  \/ backend = "pybullet" /\ BelowMovedFrame(package.instances[k])

\* No link is lost: an articulation whose joints go in a circle beside its root passes
\* the reader, and must not pass MuJoCo's compiler nor Gazebo's loader.
NothingDropped == backend # "pybullet" =>
  \A k \in DOMAIN package.instances :
    DOMAIN world.instances[k].links = package.instances[k].asset.links

\* Excepted: Gazebo's cameras.
ViewsPlaced ==
  /\ \A k \in DOMAIN package.cameras :
       backend = "gazebo" \/ world.cameras[k] = Viewed(package.cameras[k])
  /\ \A k \in DOMAIN package.lights : world.lights[k] = Viewed(package.lights[k]).forward

\* A robot's links are where its URDF has them, whatever connectors between them were
\* left out of the SDF model and wherever the joints are.
RetainedPlaced ==
  backend = "gazebo" /\ ~Gimbal(package.robot.pose.turn) =>
    LET urdf == package.robot.urdf
        Step(j) == Compose(j.origin, Moved(j.kind, Unit(j.axis), j.at))
        described == Placed(urdf, package.robot.pose, Step)
        blurred == \E j \in JointsOf(urdf) :
                     Gimbal(Gazebo!Retained(urdf, j).origin.turn)
    IN  \/ blurred
        \/ \A link \in DOMAIN world.robot.links :
             SamePose(world.robot.links[link], described[link])

\* Excepted: PyBullet, which fixes every robot.
RobotFree == package.robot # NoRobot /\ backend # "pybullet" =>
               world.robot.free = ~package.robot.fixed

\* Furniture that has more moving joints than the robot, or a robot in several pieces.
Outnumbered ==
  \/ Cardinality(Roots(package.robot.urdf)) > 1
  \/ \E i \in Elements(package.instances) :
       Len(SelectSeq(package.robot.urdf.joints, LAMBDA j : j.kind # "fixed")) < Len(i.asset.joints)

\* What MuJoCo takes for the robot is the robot, not furniture that moves: its
\* joints, groups of them (along a chain, those from base to tip in order), end
\* effectors of its own, and a free base that is held. Excepted, without an SRDF and
\* for the free base: see Outnumbered.
RobotIsItself == backend = "mujoco" /\ package.robot # NoRobot =>
  LET own == {j \in Elements(MujocoModel.joints) : j.body[1] = "Robot"}
      taken == world.taken
      above == Backend!Lineage(MujocoModel)
  IN  \/ Outnumbered /\ ~world.described
      \/ /\ Elements(taken.joints) = {j.name : j \in own}
         /\ Outnumbered \/ (taken.held <=> world.robot.free)
         /\ \A g \in Elements(taken.groups) :
              /\ Elements(g.joints) \subseteq {j.name : j \in own}
              /\ Cardinality(Elements(g.joints)) = Len(g.joints)
              /\ \A tip \in g.tips \ {NoWorld} : tip[1] = "Robot"
         /\ world.described => \A g \in Elements(package.robot.srdf.groups) :
              Len(g.parts) = 1 /\ g.parts[1].tag = "chain" =>
                LET chain == (CHOOSE h \in Elements(taken.groups) : h.name = g.name).joints
                    base == g.parts[1].base  tip == g.parts[1].tip
                    between == IF {base, tip} \subseteq DOMAIN above
                               THEN above[tip] \ (IF base \in above[tip] THEN above[base] ELSE {})
                               ELSE {}
                    Body(k) == (CHOOSE j \in own : j.name = chain[k]).body
                IN  /\ {Body(k) : k \in DOMAIN chain} = {j.body : j \in own} \cap between
                    /\ \A k, l \in DOMAIN chain : k < l => Body(k) \in above[Body(l)]

\* In every simulator all links of each instance, and of the robot, are where the joint
\* frames and the targets of the package put them, and free to move as its mode says;
\* cameras look and lights shine where the package says. Each part has its exceptions.
AsAuthored == pc = "running" =>
  InstancesPlaced /\ NothingDropped /\ ViewsPlaced /\ RetainedPlaced /\ RobotFree
  /\ RobotIsItself

\* MuJoCo's compiler and Gazebo's, which each have their own OBJ reader, refuse the same
\* visual meshes and give the parts of the others the same materials.
PartsAgree ==
  pc = "read" => \A i \in Elements(package.instances) :
                    Mujoco!MujocoParts(i.asset.obj) = Gazebo!GazeboParts(i.asset.obj)

\* docs/mujoco-openusd-asset-compiler.md:278: a compiled scene keeps the robot's SRDF
\* groups. Not so: the SRDF is not copied.
GroupsKept ==
  pc = "running" /\ backend = "mujoco" /\ package.robot # NoRobot =>
    \A g \in IF package.robot.srdf = NoRobot THEN {} ELSE Elements(package.robot.srdf.groups) :
      \E h \in Elements(world.taken.groups) : h.name = g.name

\* docs: every backend is given the scene of the package. Not so for PyBullet.
PybulletAsAuthored ==
  pc = "running" /\ backend = "pybullet" =>
    \A k \in DOMAIN package.instances : InPlace(package.instances[k], world.instances[k])
=============================================================================
