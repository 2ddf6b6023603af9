---------------------------- MODULE ScenePackage ----------------------------
(***************************************************************************)
(* A composed scene package and what reading it refuses                    *)
(* (read_openusd_scene_package in robosim/core/mujoco_openusd_package.py,  *)
(* which the compilers of the three backends share).                       *)
(*                                                                         *)
(* An asset has a mode (static, rigid, articulated), links and joints; a   *)
(* joint has a frame on its parent (f0) and one on its child (f1), an axis *)
(* of that frame and limits. An instance places an asset in a category and *)
(* gives joint targets: quarter turns of a revolute joint, steps of a      *)
(* prismatic one. Meshes, masses and materials are one fact, complete:     *)
(* every attribute that an asset must have is there and valid. One visual  *)
(* mesh stands for all (obj).                                              *)
(***************************************************************************)
EXTENDS Frames, FiniteSets
Seqs == INSTANCE SequencesExt

CONSTANT NoRobot

Elements(s) == {s[k] : k \in DOMAIN s}

(* Articulations.                                                          *)
JointsOf(asset) == Elements(asset.joints)
Children(asset) == {j.child : j \in JointsOf(asset)}
Roots(asset) == asset.links \ Children(asset)
JointTo(asset, link) == CHOOSE j \in JointsOf(asset) : j.child = link

\* The links that joints lead to from a root.
Reached(asset) ==
  LET below[n \in 0..Cardinality(asset.links)] ==
        IF n = 0 THEN Roots(asset)
        ELSE below[n - 1] \cup {j.child : j \in {k \in JointsOf(asset) : k.parent \in below[n - 1]}}
  IN  below[Cardinality(asset.links)]

\* Where the reached links are when roots are at base and Step(j) leads from a
\* joint's parent to its child.
Placed(asset, base, Step(_)) ==
  LET place[link \in Reached(asset)] ==
        IF link \in Roots(asset) THEN base
        ELSE LET j == JointTo(asset, link) IN Compose(place[j.parent], Step(j))
  IN  place

(* Reading: what each part of a package must satisfy.                      *)

\* Distinct children, links that exist, one joint less than links. (Joints in a
\* circle beside a lone root satisfy this as well.)
ValidTree(asset) ==
  /\ \A k, l \in DOMAIN asset.joints : asset.joints[k].child = asset.joints[l].child => k = l
  /\ \A j \in JointsOf(asset) : j.parent \in asset.links /\ j.child \in asset.links
  /\ Len(asset.joints) = Cardinality(asset.links) - 1

SupportedJoint(joint) == joint.kind \in {"revolute", "prismatic"}

\* Meshes, masses, inertias, materials and friction are there and valid.
Complete(asset) == asset.complete

ReadableAsset(asset) ==
  /\ Complete(asset)
  /\ asset.mode = "articulated" =>
       /\ \A j \in JointsOf(asset) : SupportedJoint(j)
       /\ ValidTree(asset)

\* A joint without a drive target has target 0.
Target(instance, joint) ==
  IF joint.name \in DOMAIN instance.targets THEN instance.targets[joint.name] ELSE 0

ReadableTargets(instance) ==
  \A j \in JointsOf(instance.asset) : Target(instance, j) \in j.low..j.high

ReadableInstance(instance) ==
  /\ ~instance.scaled                  \* nor sheared
  /\ ReadableAsset(instance.asset)
  /\ instance.asset.mode \in (IF instance.category = "Rooms" THEN {"static"}
                                                            ELSE {"rigid", "articulated"})
  /\ ReadableTargets(instance)

\* One asset identity names one source with one digest.
SameIdentity(a, b) == a.id = b.id => a.source = b.source /\ a.digest = b.digest

\* The poses of the robot, the cameras and the lights are not scaled.
ReadableView(package) == ~package.scaled

Readable(package) ==
  /\ package.sealed                    \* manifest, checksums, units, scene_id
  /\ package.instances # <<>>
  /\ \A i \in Elements(package.instances) : ReadableInstance(i)
  /\ \A i, k \in Elements(package.instances) : SameIdentity(i.asset, k.asset)
  /\ ReadableView(package)

(* A visual OBJ, as far as it is divided: the line "o" starts an object,   *)
(* "f" is a face, and any other line is the name of a material from here.  *)

\* The material of each object (_obj_material_names, the same in both compilers).
ObjMaterials(obj) ==
  LET Line(read, line) ==
        CASE line = "o" -> [names    |-> IF read.grouped THEN Append(read.names, read.current)
                                                         ELSE read.names,
                            current  |-> "none", grouped |-> TRUE]
          [] line = "f" -> read
          [] OTHER      -> [read EXCEPT !.current = line]
      end == Seqs!FoldLeft(Line, [names |-> <<>>, current |-> "none", grouped |-> FALSE], obj)
  IN  Append(end.names, end.current)

\* How many faces each object has.
ObjGroups(obj) ==
  LET Line(groups, line) ==
        CASE line = "o" -> Append(groups, 0)
          [] line = "f" /\ groups # <<>> -> [groups EXCEPT ![Len(groups)] = @ + 1]
          [] OTHER -> groups
  IN  Seqs!FoldLeft(Line, <<>>, obj)

Refused == <<"refused">>

(* Cameras look along -Z with +Y up; a light shines along -Z.              *)
Viewed(pose) == [at      |-> pose.at,
                 forward |-> Rotate(pose.turn, <<0, 0, -1>>),
                 up      |-> Rotate(pose.turn, <<0, 1, 0>>)]

-----------------------------------------------------------------------------
(* What the package says: every link goes to the end of the frame that its *)
(* joint has on the parent, moved by the target, and back from the frame   *)
(* that the joint has on the link.                                         *)
AuthoredStep(instance, joint) ==
  Compose(joint.f0, Compose(Moved(joint.kind, Unit(joint.axis), Target(instance, joint)),
                            Inverse(joint.f1)))
Authored(instance) ==
  LET Step(j) == AuthoredStep(instance, j)
  IN  Placed(instance.asset, instance.pose, Step)
=============================================================================
