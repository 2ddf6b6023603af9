---------------------------- MODULE MujocoScene ----------------------------
(***************************************************************************)
(* How a package is realized as MJCF (robosim/core/mujoco_openusd_package. *)
(* py), and how MuJoCo reads it: a body is placed in its parent's frame    *)
(* and a joint moves it about an anchor and an axis of its own frame.      *)
(***************************************************************************)
EXTENDS ScenePackage

MutantParentToChild(joint) ==
  LET turn == Multiply(joint.f0.turn, Conjugate(joint.f1.turn))
  IN  [at |-> Plus(joint.f0.at, Times(-1, joint.f1.at)), turn |-> turn]

ParentToChild(joint) ==
  LET turn == Multiply(joint.f0.turn, Conjugate(joint.f1.turn))
  IN  [at |-> Plus(joint.f0.at, Times(-1, Rotate(turn, joint.f1.at))), turn |-> turn]

\* The rotation matrix of the child frame, applied to the named axis.
Axis(axis, q) ==
  LET w == q[1]  i == q[2]  j == q[3]  k == q[4]  n == Norm(q)  u == Unit(axis)
  IN  Over(<<(n - 2 * (j * j + k * k)) * u[1] + 2 * (i * j - k * w) * u[2] + 2 * (i * k + j * w) * u[3],
             2 * (i * j + k * w) * u[1] + (n - 2 * (i * i + k * k)) * u[2] + 2 * (j * k - i * w) * u[3],
             2 * (i * k - j * w) * u[1] + 2 * (j * k + i * w) * u[2] + (n - 2 * (i * i + j * j)) * u[3]>>, n)

\* One body element and the joint in it.
MujocoBody(joint) ==
  [placed |-> ParentToChild(joint),
   hinge  |-> joint.kind = "revolute",
   anchor |-> joint.f1.at,
   axis   |-> Axis(joint.axis, joint.f1.turn)]

\* MuJoCo's reading of it at a joint position.
MujocoStep(element, position) ==
  Compose(element.placed,
          IF element.hinge
            THEN Compose(Shift(element.anchor),
                   Compose([at |-> <<0, 0, 0>>, turn |-> Turn(element.axis, position)],
                           Shift(Times(-1, element.anchor))))
            ELSE Shift(Times(position, element.axis)))

(* The asset model is written from its one root; the bodies of a static    *)
(* asset (a shell has two) go into one container. A scene is refused when  *)
(* an asset has not one root, or when a target names a joint that was not  *)
(* written.                                                                *)
WrittenJoints(asset) == {j.name : j \in {k \in JointsOf(asset) : k.child \in Reached(asset)}}
OneRoot(asset) == asset.mode = "static" \/ Cardinality(Roots(asset)) = 1

TargetsApply(instance) ==
  \A j \in JointsOf(instance.asset) : j.name \in WrittenJoints(instance.asset)

(* A visual is drawn once for each of its objects that has faces, in the   *)
(* material of that object (the whole mesh each time).                     *)
MutantMujocoParts(obj) ==
  LET groups == ObjGroups(obj)  names == ObjMaterials(obj)
      drawn == IF Len(groups) <= 1 THEN {1} ELSE {k \in DOMAIN groups : groups[k] > 0}
  IN  IF drawn = {} THEN Refused ELSE [k \in 1..Cardinality(drawn) |-> names[k]]

MujocoParts(obj) ==
  LET groups == ObjGroups(obj)  names == ObjMaterials(obj)
      drawn == IF Len(groups) <= 1 THEN {1} ELSE {k \in DOMAIN groups : groups[k] > 0}
  IN  IF drawn = {} \/ Cardinality(drawn) # Len(names) THEN Refused ELSE names

MujocoRobots == {"franka_panda", "ipads_desc"}

MujocoAccepts(package) ==
  /\ package.robot # NoRobot => package.robot.id \in MujocoRobots
  /\ \A i \in Elements(package.instances) :
       /\ OneRoot(i.asset) /\ TargetsApply(i)
       /\ i.asset.mode # "static" => MujocoParts(i.asset.obj) # Refused

MujocoHandle(instance) == <<instance.category, instance.name>>

MujocoInstance(instance) ==
  LET Step(j) == MujocoStep(MujocoBody(j), Target(instance, j))
  IN  [name  |-> MujocoHandle(instance),
       links |-> Placed(instance.asset, instance.pose, Step),
       free  |-> instance.asset.mode \in {"rigid", "articulated"}]

\* xyaxes: MuJoCo looks along the third axis, backwards.
MujocoCamera(pose) ==
  LET x == Rotate(pose.turn, <<1, 0, 0>>)  y == Rotate(pose.turn, <<0, 1, 0>>)
  IN  [at |-> pose.at, forward |-> Times(-1, Cross(x, y)), up |-> y]

(* The model that is loaded: the robot is included first, the instances    *)
(* follow, each under names of its own.                                    *)
RobotName(name) == <<"Robot", "", name>>
InstanceName(instance, name) == <<instance.category, instance.name, name>>

MujocoModel(package, World) ==
  LET Tree(body, links, Name(_), free) ==
        [parent |-> [b \in {Name(l) : l \in links} |->
           LET l == CHOOSE n \in links : Name(n) = b
           IN  IF l \in Roots(body) THEN World ELSE Name(JointTo(body, l).parent)],
         trees  |-> Seqs!SetToSeq({Name(l) : l \in Roots(body)}),
         joints |-> (IF free THEN <<[name |-> Name("free"), moves |-> FALSE,
                                     body |-> Name(CHOOSE l \in Roots(body) : TRUE)]>> ELSE <<>>)
                    \o LET moving == SelectSeq(body.joints, LAMBDA j : j.kind # "fixed")
                       IN  [k \in DOMAIN moving |-> [name |-> Name(moving[k].name), moves |-> TRUE,
                                                     body |-> Name(moving[k].child)]]]
      OfInstance(i) == LET Name(l) == InstanceName(i, l) IN
        Tree(i.asset, Reached(i.asset), Name, i.asset.mode \in {"rigid", "articulated"})
      robot == IF package.robot = NoRobot THEN <<>>
               ELSE <<Tree(package.robot.urdf, package.robot.urdf.links, RobotName,
                           ~package.robot.fixed)>>
      all == robot \o [k \in DOMAIN package.instances |-> OfInstance(package.instances[k])]
      Beside(m, n) == [parent |-> [b \in DOMAIN m.parent \cup DOMAIN n.parent |->
                         IF b \in DOMAIN m.parent THEN m.parent[b] ELSE n.parent[b]],
                       trees |-> m.trees \o n.trees, joints |-> m.joints \o n.joints]
  IN  Seqs!FoldLeft(Beside, Head(all), Tail(all))

MujocoWorld(package) ==
  [instances |-> [k \in DOMAIN package.instances |-> MujocoInstance(package.instances[k])],
   cameras   |-> [k \in DOMAIN package.cameras |-> MujocoCamera(package.cameras[k])],
   lights    |-> [k \in DOMAIN package.lights |->
                    Rotate(package.lights[k].turn, <<0, 0, -1>>)],
   robot     |-> IF package.robot = NoRobot THEN NoRobot
                 ELSE [pose |-> package.robot.pose, free |-> ~package.robot.fixed]]
=============================================================================
