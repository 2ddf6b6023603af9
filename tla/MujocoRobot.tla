----------------------------- MODULE MujocoRobot -----------------------------
(***************************************************************************)
(* What the MuJoCo backend takes for the robot in the model it has loaded: *)
(* bodies, joints and groups (MuJoCoBackend.__init__ and what it calls, in *)
(* robosim/backends/mujoco/backend.py).                                    *)
(*                                                                         *)
(* A model is a forest: parent[b] is a body or World, trees the children   *)
(* of World in order, joints a sequence of [name, body, moves] in the      *)
(* order of the bodies, where moves tells hinges and slides from free      *)
(* joints. An SRDF has groups, a sequence of [name, parts], and what its   *)
(* elements name anywhere: joints, bodies (of links and chains), and end   *)
(* effectors as [parent, group]. Limits, actuators and named states are    *)
(* left out.                                                               *)
(***************************************************************************)
EXTENDS SequencesExt

CONSTANTS World, NoSrdf

Bodies(model) == DOMAIN model.parent

\* A body and those it hangs on.
Lineage(model) ==
  LET up[b \in Bodies(model)] ==
        {b} \cup (IF model.parent[b] = World THEN {} ELSE up[model.parent[b]])
  IN  up
Subtree(model, body) == LET up == Lineage(model) IN {b \in Bodies(model) : body \in up[b]}
Depth(model, body) == Cardinality(Lineage(model)[body])

\* The first of the trees that have the most moving joints, whoever's they are.
RootBody(model) ==
  LET Moving(k) == LET tree == Subtree(model, model.trees[k])
                   IN  Len(SelectSeq(model.joints, LAMBDA j : j.moves /\ j.body \in tree))
      first == CHOOSE k \in DOMAIN model.trees : \A l \in DOMAIN model.trees :
                 Moving(l) <= Moving(k) /\ (l < k => Moving(l) < Moving(k))
  IN  model.trees[first]

\* Bodies the SRDF names or whose joints it names, what they hang on, and all
\* that hangs on these.
DeclaredBodies(model, srdf) ==
  IF srdf = NoSrdf THEN {}
  ELSE LET named == {j.body : j \in {k \in ToSet(model.joints) : k.name \in srdf.joints}}
                    \cup (srdf.bodies \cap Bodies(model))
       IN  UNION {Subtree(model, b) : b \in UNION {Lineage(model)[n] : n \in named}}

MutantRobotBodies(model, srdf) ==  \* mutant: every tree with a moving joint is the robot's
  UNION {Subtree(model, t) : t \in {u \in ToSet(model.trees) :
           \E j \in ToSet(model.joints) : j.moves /\ j.body \in Subtree(model, u)}}

RobotBodies(model, srdf) ==
  LET declared == DeclaredBodies(model, srdf)
  IN  IF declared # {} THEN declared ELSE Subtree(model, RootBody(model))

JointInfos(model, srdf) ==
  LET robot == RobotBodies(model, srdf) IN SelectSeq(model.joints, LAMBDA j : j.body \in robot)

Names(joints) == [k \in DOMAIN joints |-> joints[k].name]
Controllable(joints) == SelectSeq(joints, LAMBDA j : j.moves)

(* Groups of an SRDF.                                                      *)

\* The joint that stands for a body is the last it has.
JointOn(joints, body) == LET on == SelectSeq(joints, LAMBDA j : j.body = body)
                         IN  IF on = <<>> THEN <<>> ELSE <<Last(on).name>>

\* The joints above tip, up to base and without it; or up to the World.
ChainJoints(model, joints, base, tip) ==
  LET down[b \in Bodies(model)] ==
        IF b = base THEN <<>>
        ELSE (IF model.parent[b] = World THEN <<>> ELSE down[model.parent[b]])
             \o JointOn(joints, b)
  IN  IF {base, tip} \subseteq Bodies(model) THEN down[tip] ELSE <<>>

\* Each once, where it comes first.
Dedupe(names) ==
  FoldLeft(LAMBDA kept, n : IF n \in ToSet(kept) THEN kept ELSE Append(kept, n), <<>>, names)

PartsOf(srdf, name) == (CHOOSE g \in ToSet(srdf.groups) : g.name = name).parts
GroupNamesOf(srdf) == {g.name : g \in ToSet(srdf.groups)}

\* resolve: the joints of a group that the robot has; groups may hold groups.
Resolved(model, joints, srdf) ==
  LET resolve[name \in GroupNamesOf(srdf)] ==
        LET Part(p) == CASE p.tag = "chain" -> ChainJoints(model, joints, p.base, p.tip)
                         [] p.tag = "joint" -> <<p.name>>
                         [] p.tag = "link"  -> JointOn(joints, p.name)
                         [] p.tag = "group" -> resolve[p.name]
            parts == PartsOf(srdf, name)
        IN  Dedupe(SelectSeq(FlattenSeq([k \in DOMAIN parts |-> Part(parts[k])]),
                             LAMBDA n : n \in ToSet(Names(joints))))
  IN  resolve

\* A group is finished, and takes its place, after the groups it holds.
ResolvedOrder(srdf) ==
  LET order[name \in GroupNamesOf(srdf)] ==
        LET inner == SelectSeq(PartsOf(srdf, name), LAMBDA p : p.tag = "group")
        IN  Append(FlattenSeq([k \in DOMAIN inner |-> order[inner[k].name]]), name)
  IN  Dedupe(FlattenSeq([k \in DOMAIN srdf.groups |-> order[srdf.groups[k].name]]))

\* The first of the deepest bodies that a group's joints move.
TipBody(model, joints, names) ==
  LET body == [k \in DOMAIN names |->
                 (CHOOSE j \in ToSet(joints) : j.name = names[k]).body]
      deepest == CHOOSE k \in DOMAIN names : \A l \in DOMAIN names :
                   /\ Depth(model, body[l]) <= Depth(model, body[k])
                   /\ l < k => Depth(model, body[l]) < Depth(model, body[k])
  IN  IF names = <<>> THEN World ELSE body[deepest]

\* Where the end effectors of a group are: at the tip of a group of their own,
\* or nowhere. (Bodies and sites of their name are left out.)
EndEffectors(model, joints, srdf, name) ==
  {IF e.group \in GroupNamesOf(srdf)
   THEN TipBody(model, joints, Resolved(model, joints, srdf)[e.group]) ELSE World :
     e \in {d \in srdf.ends : d.parent = name}}

SrdfGroups(model, srdf) ==
  LET joints == JointInfos(model, srdf)
      order == ResolvedOrder(srdf)
      of == Resolved(model, joints, srdf)
      tips == [name \in GroupNamesOf(srdf) |-> EndEffectors(model, joints, srdf, name)]
  IN  [k \in DOMAIN order |-> [name |-> order[k], joints |-> of[order[k]],
                               ee |-> tips[order[k]] # {}, tips |-> tips[order[k]]]]

\* Without an SRDF each tree that has controllable joints is a group.
FallbackGroups(model) ==
  LET joints == Controllable(JointInfos(model, NoSrdf))
      Of(k) == SelectSeq(joints, LAMBDA j : j.body \in Subtree(model, model.trees[k]))
      Group(k) == [name |-> model.trees[k], joints |-> Names(Of(k)), ee |-> FALSE, tips |-> {}]
  IN  FoldLeftDomain(LAMBDA groups, k : IF Of(k) = <<>> THEN groups ELSE Append(groups, Group(k)),
                     <<>>, model.trees)

\* A free base is held where it is when the root body's own joint is free.
RootHeld(model, joints) ==
  \E j \in ToSet(joints) : ~j.moves /\ j.body = RootBody(model)

\* What is known of the robot after start-up.
Recognized(model, srdf) ==
  LET joints == JointInfos(model, srdf)
  IN  [joints |-> Names(joints),
       controlled |-> Names(Controllable(joints)),
       groups |-> IF srdf = NoSrdf THEN FallbackGroups(model) ELSE SrdfGroups(model, srdf),
       held |-> RootHeld(model, joints)]
=============================================================================
