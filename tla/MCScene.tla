------------------------------ MODULE MCScene ------------------------------
(* SceneCompile for three families of packages: joint frames, shapes of    *)
(* articulations and what a package may lack, robots with connectors.      *)
EXTENDS SceneCompile

\* Frames: moved, turned, both; a pitch of 90 degrees; one that rpy does not determine.
Plain == Identity
Moved1 == [at |-> <<1, 0, 2>>, turn |-> <<1, 0, 0, 0>>]
Yawed == [at |-> <<0, 1, 0>>, turn |-> <<1, 0, 0, 1>>]
Third == [at |-> <<0, 0, 1>>, turn |-> <<1, 1, 1, 1>>]
Pitched == [at |-> <<1, 1, 0>>, turn |-> <<1, 0, 1, 0>>]
Locked == [at |-> <<0, 0, 0>>, turn |-> <<1, 1, 1, -1>>]
Poses == {Plain, Moved1, Yawed, Third, Pitched, Locked}

Joint(name, kind, parent, child, axis, f0, f1) ==
  [name |-> name, kind |-> kind, parent |-> parent, child |-> child, axis |-> axis,
   f0 |-> f0, f1 |-> f1, low |-> -1, high |-> 1]

Asset(mode, links, joints) ==
  [id |-> "cabinet", source |-> "cabinet", digest |-> "d", mode |-> mode, links |-> links,
   joints |-> joints, complete |-> TRUE, where |-> "slot", obj |-> <<"f">>]
Instance(asset, pose, targets) ==
  [category |-> IF asset.mode = "static" THEN "Rooms" ELSE "Objects", name |-> "it",
   asset |-> asset, pose |-> pose, scaled |-> FALSE, targets |-> targets]

(* Robots.                                                                 *)
Part(name, kind, parent, child, origin, at) ==
  [name |-> name, kind |-> kind, parent |-> parent, child |-> child, axis |-> "Z",
   origin |-> origin, at |-> at]
Body(links, joints, mass, shaped, meshes) ==
  [links |-> links, joints |-> joints, mass |-> mass, shaped |-> shaped, meshes |-> meshes]
Stick == Body({"base"}, <<>>, [l \in {"base"} |-> "some"], {"base"}, FALSE)
Robot(urdf, pose, fixed) ==
  [id |-> "franka_panda", name |-> "panda", pose |-> pose, fixed |-> fixed, urdf |-> urdf,
   srdf |-> NoRobot]

Package(instances, robot, view) ==
  [sealed |-> TRUE, scaled |-> FALSE, instances |-> instances, robot |-> robot,
   cameras |-> view, lights |-> view]

(* Two joints in a chain or a star, every pair of frames on the first.     *)
TwoJoints(parent2, f0, f1, g0, g1, kind) ==
  <<Joint("j1", "revolute", "root", "door", "X", f0, f1),
    Joint("j2", kind, parent2, "knob", "Z", g0, g1)>>
Kinematic ==
  {Package(<<Instance(Asset("articulated", {"root", "door", "knob"},
                            TwoJoints(parent2, f0, f1, g0, g1, kind)), pose,
                      [j1 |-> 1, j2 |-> -1])>>,
           Robot(Stick, pose, TRUE), <<f0>>) :
     f0 \in Poses, f1 \in Poses, g0 \in {Moved1, Third}, g1 \in {Plain, Yawed, Third},
     parent2 \in {"root", "door"}, kind \in {"revolute", "prismatic"}, pose \in {Yawed, Third}}

(* Shapes that are no articulation, and packages that lack something.      *)
Links == {"root", "door", "knob"}
Shapes ==
  {<<Joint("j1", kind, p1, c1, "X", Moved1, Yawed), Joint("j2", "prismatic", p2, c2, "Z", Third, Plain)>> :
     kind \in {"revolute", "spherical"}, p1 \in Links, c1 \in Links, p2 \in Links, c2 \in Links \cup {"wheel"}}
  \cup {<<>>, <<Joint("j1", "revolute", "root", "door", "X", Moved1, Yawed)>>}
Malformed ==
  {Package(<<Instance(Asset("articulated", Links, shape), Moved1, [j1 |-> 1])>>,
           Robot(Stick, Plain, fixed), <<>>) : shape \in Shapes, fixed \in BOOLEAN}

Chair == Asset("rigid", {"asset_root"}, <<>>)
Shell == [Asset("static", {"Floor", "Walls"}, <<>>) EXCEPT !.id = "shell", !.source = "shell"]
Whole == Package(<<Instance(Shell, Plain, <<>>), Instance(Chair, Yawed, <<>>)>>,
                 Robot(Stick, Moved1, FALSE), <<Moved1>>)
Lacking ==
  {Whole,
   [Whole EXCEPT !.sealed = FALSE], [Whole EXCEPT !.scaled = TRUE],
   [Whole EXCEPT !.instances = <<>>],
   [Whole EXCEPT !.robot = NoRobot],
   [Whole EXCEPT !.robot.id = "unknown"], [Whole EXCEPT !.robot.id = "ipads_desc"],
   [Whole EXCEPT !.robot.urdf.meshes = TRUE],
   [Whole EXCEPT !.robot.name = "it"],
   [Whole EXCEPT !.lights = <<Moved1, Yawed>>],
   [Whole EXCEPT !.instances[1].category = "Objects"],
   [Whole EXCEPT !.instances[2].category = "Rooms"],
   [Whole EXCEPT !.instances[2].name = "chair"],
   [Whole EXCEPT !.instances[2].name = "chair", !.robot.urdf.meshes = TRUE],
   [Whole EXCEPT !.instances[2].name = "chair", !.instances[2].asset.where = "package"],
   [Whole EXCEPT !.instances[2].name = "chair", !.instances[2].scaled = TRUE],
   [Whole EXCEPT !.instances[2].asset.complete = FALSE],
   [Whole EXCEPT !.instances[2].asset.id = "shell"]}

(* A robot of five links: a base, two that may be connectors, an arm and a *)
(* hand, in a chain.                                                       *)
Humanoid(kinds, mass, shaped, o) ==
  Body({"base", "mount", "plate", "arm", "hand"},
       <<Part("m", kinds[1], "base", "mount", o[1], 0), Part("p", kinds[2], "mount", "plate", o[2], 0),
         Part("a", "revolute", "plate", "arm", o[3], 1), Part("h", "revolute", "arm", "hand", o[4], -1)>>,
       [base |-> "none", mount |-> mass[1], plate |-> mass[2], arm |-> "some", hand |-> "some"],
       {"arm", "hand"} \cup shaped, FALSE)
Robots ==
  {[Whole EXCEPT !.instances[2].name = "chair",
      !.robot = Robot(Humanoid(kinds, mass, shaped, <<o1, o2, o3, o4>>), Yawed, fixed)] :
     kinds \in [1..2 -> {"fixed", "revolute"}], mass \in [1..2 -> {"none", "zero", "some"}],
     shaped \in {{}, {"plate"}}, o1 \in {Moved1, Third, Pitched}, o2 \in {Moved1, Third},
     o3 \in {Yawed, Third}, o4 \in {Moved1}, fixed \in {TRUE}}

(* Robots among furniture, with and without the SRDF of their template. An *)
(* arm, the same in two pieces, and a set of groups that are chains, lists *)
(* and groups of groups, one of them up to the world and one of nothing.   *)
R(name) == <<"Robot", "", name>>
Chain(base, tip) == [tag |-> "chain", base |-> R(base), tip |-> R(tip)]
Named(tag, name) == [tag |-> tag, name |-> IF tag = "group" THEN name ELSE R(name)]
Grouped(groups, joints, bodies) ==
  [groups |-> groups, joints |-> {R(j) : j \in joints}, bodies |-> {R(b) : b \in bodies},
   ends |-> {[parent |-> "arm", group |-> "hand"], [parent |-> "all", group |-> "absent"]}]
Group(name, parts) == [name |-> name, parts |-> parts]
Srdfs ==
  {NoRobot,
   Grouped(<<Group("all", <<Named("group", "arm"), Named("joint", "m"), Named("joint", "ghost")>>),
             Group("arm", <<Chain("base", "hand")>>), Group("hand", <<Named("link", "hand")>>)>>,
           {"m", "ghost"}, {"base", "hand"}),
   Grouped(<<Group("arm", <<Chain("mount", "hand")>>), Group("none", <<Chain("base", "ghost")>>),
             Group("up", <<Chain("hand", "arm")>>), Group("hand", <<Named("link", "base")>>),
             Group("all", <<Named("joint", "h"), Named("group", "up"), Named("group", "hand")>>)>>,
           {"h"}, {"mount", "hand", "base", "ghost"})}
Cabinet(n) == [Asset("articulated", IF n = 2 THEN {"root", "door", "knob"} ELSE Links \cup {"drawer", "lid", "key"},
    SubSeq(<<Joint("j1", "revolute", "root", "door", "X", Plain, Plain),
             Joint("j2", "prismatic", "root", "knob", "Z", Moved1, Plain),
             Joint("j3", "prismatic", "root", "drawer", "Z", Plain, Plain),
             Joint("j4", "revolute", "drawer", "lid", "Y", Plain, Plain),
             Joint("j5", "revolute", "root", "key", "Y", Plain, Plain)>>, 1, n))
    EXCEPT !.id = IF n = 2 THEN "cabinet" ELSE "wardrobe"]
InPieces(body) == [body EXCEPT !.joints = Tail(@)]
Among ==
  {[Whole EXCEPT !.instances = <<Instance(Cabinet(n), Plain, <<>>)>>,
      !.robot = [Robot(body, Plain, fixed) EXCEPT !.srdf = srdf]] :
     n \in {2, 5}, fixed \in BOOLEAN, srdf \in Srdfs,
     body \in UNION {{arm, InPieces(arm)} : arm \in
       {Humanoid(kinds, <<"some", "some">>, {}, <<Plain, Plain, Plain, Plain>>) :
          kinds \in [1..2 -> {"fixed", "revolute"}]}}}

(* Every visual mesh of up to five lines.                                  *)
Visuals == UNION {[1..n -> {"o", "f", "oak", "steel"}] : n \in 0..5}
Drawn ==
  {[Whole EXCEPT !.instances[2].name = "chair", !.instances[2].asset.obj = obj] : obj \in Visuals}

MCPackages == Kinematic \cup Malformed \cup Lacking \cup Robots \cup Among \cup Drawn
=============================================================================
