---------------------------- MODULE EpisodeFrames ----------------------------
(***************************************************************************)
(* What an episode holds, and what becomes of it: the recorder's plan,     *)
(* features and frames (robosim/core/impl/recorder_lerobot.py), replay,    *)
(* and the observations of a policy (robosim/core/impl/lerobot_io.py), on  *)
(* a backend of any kind.  With MuJoCo, readings are those of Rendering.   *)
(*                                                                         *)
(* A position is <<joint, "at", instant>>, a target <<joint, "to", number>>*)
(* and the zero that stands for what a message does not name is <<"zero">>,*)
(* so that a value in a frame tells whose it is.  Of a sensor's reading    *)
(* only its sizes remain.  Sessions, threads and locks are ActiveControl's *)
(* and the frame rates of a dataset and its files are left out.  Bounds:   *)
(* what was recorded is used once, after a restart, and nothing is recorded*)
(* then; sensors are rendered before it.                                   *)
(***************************************************************************)
EXTENDS Rendering, SequencesExt

CONSTANTS Robots,      \* robots that may be served: [kind, joints, groups, sensors]
          Requests,    \* options of episode_start: [groups, noGroups, sensors, noSensors]
          Readings,    \* what a Gazebo sensor may come to offer; see NoData
          MaxCommands, \* bound: joint commands given
          MaxSamples,  \* bound: samples of an episode, besides its first snapshot
          MaxEpisodes, \* bound: episodes saved
          MaxChanges   \* bound: changes of what Gazebo offers

\* Groups are kept by name, and the joints a message names are different ones. The
\* joints of a group are among those that are reported, but for Gazebo, whose groups
\* are the manifest's and whose messages the robot's own.
ASSUME RobotsAssumption == \A r \in Robots :
  /\ r.joints \in Seq(ToSet(r.joints)) /\ IsInjective(r.joints)
  /\ r.groups \in Seq(ToSet(r.groups))
  /\ \A g \in ToSet(r.groups) :
       /\ g.joints \in Seq(ToSet(g.joints))
       /\ \A h \in ToSet(r.groups) : g.name = h.name => g = h
       /\ r.kind # "gazebo" => ToSet(g.joints) \subseteq ToSet(r.joints)

NoData == [what |-> "nothing", size |-> 0, extra |-> 0, readable |-> TRUE]
Zero == <<"zero">>

VARIABLES
  robot,     \* the robot served, and what reads it: robot.kind
  heard,     \* Gazebo: a joint state has come
  offers,    \* offers[s]: what sensor s has to offer, for each listed sensor
  changes,   \* how often Gazebo's have changed
  restarted, \* the server was started again
  targets,   \* targets[j]: what the backend says joint j is commanded to
  told,      \* commands given so far
  history,   \* history[i + 1]: targets at instant i
  with,      \* with[b]: the targets queued with the sample in buffer b
  rec,       \* the recorder: [pc, plan, snap, frames, ending, failed]
  dataset,   \* what is on disk: [features, names, episodes]
  sent,      \* the commands of the replay going on or last ended
  policy     \* the policy's runtime spec and last observation

settingVars == <<robot, heard, offers, changes, restarted>>
commandVars == <<targets, told, history, with>>
framesVars == <<settingVars, commandVars, rec, dataset, sent, policy>>
episodeVars == <<renderingVars, framesVars>>

NoPlan == [joints |-> <<>>, ees |-> {}, sensors |-> <<>>, first |-> <<>>, features |-> {}]
NoSnap == [state |-> <<>>, cmds |-> <<>>, at |-> 0, cmdAt |-> 0]
AtRest == [pc |-> "idle", plan |-> NoPlan, snap |-> NoSnap, frames |-> <<>>,
           ending |-> "no", failed |-> FALSE, group |-> "none"]
NoDataset == [features |-> {}, names |-> <<>>, episodes |-> <<>>]
NoPolicy == [joints |-> <<>>, images |-> {}, group |-> "none", seen |-> <<>>]

IsMujoco == robot.kind = "mujoco"
IsGazebo == robot.kind = "gazebo"
JointSet == ToSet(robot.joints)
Group(name) == CHOOSE g \in ToSet(robot.groups) : g.name = name
GroupNames == [i \in DOMAIN robot.groups |-> robot.groups[i].name]

\* The messages of the backend, as functions from the joints they name.
StateMessage == IF IsGazebo /\ ~heard THEN <<>>
                ELSE [j \in JointSet |-> <<j, "at", now>>]

\* get_joint_command_state fills in positions, but for Gazebo, whose answer is
\* its last goal.
CommandMessage(commanded, instant) ==
  IF IsGazebo THEN commanded
  ELSE [j \in JointSet |-> IF j \in DOMAIN commanded THEN commanded[j]
                           ELSE <<j, "at", instant>>]

\* get_sensors passes over names it does not know, and sensors without data.
SensorReading(names) ==
  LET answered == {s \in ToSet(names) \cap DOMAIN offers : offers[s] # NoData}
  IN [s \in answered |-> offers[s]]

CamerasIn(names) == Cardinality({s \in ToSet(names) \cap DOMAIN offers :
                                   offers[s].what = "camera"})

-----------------------------------------------------------------------------
(* The plan: which joints, end effectors and sensors.                      *)

\* _apply_filters: unknown names are refused, the others keep their order.
UnknownNames(available, included, excluded) ==
  (included \cup excluded) \ ToSet(available) # {}
Passes(name, included, excluded) ==
  name \notin excluded /\ (included # {} => name \in included)
ApplyFilters(available, included, excluded) ==
  SelectSeq(available, LAMBDA n : Passes(n, included, excluded))

\* _select_joint_targets: the joints of the groups asked for, in the order of the
\* groups and each where it is named first, or all that the state names.
FiltersGroups(o) == o.groups # {} \/ o.noGroups # {}
SelectedGroups(o) ==
  {n \in DOMAIN robot.groups : Passes(robot.groups[n].name, o.groups, o.noGroups)}

Before(p, q) == p[1] < q[1] \/ (p[1] = q[1] /\ p[2] < q[2])
JointAt(p) == robot.groups[p[1]].joints[p[2]]
FirstPlaces(o) ==
  LET places == UNION {{n} \X DOMAIN robot.groups[n].joints : n \in SelectedGroups(o)}
  IN  {p \in places : \A q \in places : Before(q, p) => JointAt(q) # JointAt(p)}
InOrder(places) ==
  [i \in 1..Cardinality(places) |->
     JointAt(CHOOSE p \in places : Cardinality({q \in places : Before(q, p)}) = i - 1)]

SelectJoints(o) ==
  IF FiltersGroups(o) THEN InOrder(FirstPlaces(o))
  ELSE IF IsGazebo /\ ~heard THEN <<>> ELSE robot.joints
SelectEndEffectors(o) ==
  {robot.groups[n].name : n \in {m \in IF FiltersGroups(o) THEN SelectedGroups(o)
                                      ELSE DOMAIN robot.groups : robot.groups[m].ee}}

\* _select_sensor_names: no filter is looked at when there is no sensor.
SelectSensors(o) == LET listed == SetToSeq(DOMAIN offers) IN
  IF listed = <<>> THEN <<>> ELSE ApplyFilters(listed, o.sensors, o.noSensors)

PlanRaises(o) ==
  \/ FiltersGroups(o) /\ UnknownNames(GroupNames, o.groups, o.noGroups)
  \/ DOMAIN offers # {} /\ UnknownNames(SetToSeq(DOMAIN offers), o.sensors, o.noSensors)
  \/ IsGazebo /\ SelectEndEffectors(o) # {}   \* its get_end_effector_state raises

-----------------------------------------------------------------------------
(* Features and frames, as sets of <<key, shape>>.                         *)

Unreadable(reading) == \E s \in DOMAIN reading : ~reading[s].readable

Having(what, reading) == {s \in DOMAIN reading : reading[s].what = what}

\* _build_features, from the first snapshot; features of joints have names.
BuildFeatures(joints, ees, reading) ==
  (IF joints = <<>> THEN {}
   ELSE {<<<<key>>, joints>> : key \in {"observation.state", "observation.velocity",
                                        "observation.effort", "action"}})
  \cup {<<<<"ee", g, part>>, part>> : g \in ees, part \in {"position", "orientation"}}
  \cup {<<<<"images", s>>, reading[s].size>> : s \in Having("camera", reading)}
  \cup {<<<<"lidar", s, "ranges">>, reading[s].size>> : s \in Having("lidar", reading)}
  \cup {<<<<"lidar", s, "intensities">>, reading[s].extra>> :
          s \in {l \in Having("lidar", reading) : reading[l].extra > 0}}
  \cup {<<<<"vector", s>>, 3>> : s \in Having("vector", reading)}

\* _build_frame: the intensities of a scan that has some.
Intensities(reading) ==
  {<<<<"lidar", s, "intensities">>, reading[s].extra>> :
     s \in {l \in Having("lidar", reading) : reading[l].extra > 0}}

\* _build_frame: what arrays a frame has; those of joints are in the plan's order.
FrameShapes(plan, reading) ==
  (IF plan.joints = <<>> THEN {}
   ELSE {<<"observation.state">>, <<"observation.velocity">>, <<"observation.effort">>,
         <<"action">>} \X {plan.joints})
  \cup {<<<<"ee", g, p>>, p>> : g \in plan.ees, p \in {"position", "orientation"}}
  \cup {<<<<"images", s>>, reading[s].size>> : s \in Having("camera", reading)}
  \cup {<<<<"lidar", s, "ranges">>, reading[s].size>> : s \in Having("lidar", reading)}
  \cup Intensities(reading)
  \cup {<<<<"vector", s>>, 3>> : s \in Having("vector", reading)}

\* joint_state_vector: values by name, zero for what the message does not name.
JointVector(message, names) ==
  [i \in DOMAIN names |-> IF names[i] \in DOMAIN message THEN message[names[i]] ELSE Zero]

Frame(plan, snap, reading, drawn) ==
  [shapes |-> FrameShapes(plan, reading), state |-> JointVector(snap.state, plan.joints),
   action |-> JointVector(snap.cmds, plan.joints), at |-> {snap.at} \cup drawn,
   cmdAt |-> snap.cmdAt]

-----------------------------------------------------------------------------
(* The robot, its sensors and its commands.                                *)

\* A MuJoCo robot begins, and begins again after a reset, with every joint held
\* where it is; the others begin without targets.
Begins(r) == IF r.kind = "mujoco" THEN [j \in ToSet(r.joints) |-> <<j, "at", 0>>] ELSE <<>>

FramesInit ==
  /\ robot \in Robots /\ heard \in (IF IsGazebo THEN BOOLEAN ELSE {FALSE}) /\ changes = 0 /\ restarted = FALSE
  /\ offers = robot.sensors
  /\ targets = Begins(robot) /\ told = 0
  /\ history = <<targets>> /\ with = [b \in Buffers |-> <<>>]
  /\ rec = AtRest /\ dataset = NoDataset /\ sent = <<>> /\ policy = NoPolicy

EpisodeInit == RenderingInit /\ FramesInit

\* Bound: once the last episode is saved, the world rests.
Goes == ~restarted /\ Len(dataset.episodes) < MaxEpisodes

\* Live data and targets move on together, both under the lock.
MovesOn(commanded) ==
  /\ targets' = commanded /\ history' = Append(history, commanded)
  /\ UNCHANGED with

WorldStep ==
  /\ Goes /\ Step /\ MovesOn(targets)
  /\ UNCHANGED <<settingVars, told, rec, dataset, sent, policy>>

\* set_joint_target: within the group named, or the only one that has them all;
\* Gazebo's controllers take exactly the joints of their group.
Accepts(names, group) ==
  IF group = "none" THEN ~IsGazebo /\ Cardinality({g \in ToSet(robot.groups) :
                            ToSet(names) \subseteq ToSet(g.joints)}) = 1
  ELSE /\ group \in ToSet(GroupNames)
       /\ IF IsGazebo THEN ToSet(names) = ToSet(Group(group).joints)
          ELSE ToSet(names) \subseteq ToSet(Group(group).joints)

\* Gazebo keeps the last goal, the others one target for each joint.
Commanded(values) ==
  IF IsGazebo THEN values
  ELSE [j \in DOMAIN values \cup DOMAIN targets |->
          IF j \in DOMAIN values THEN values[j] ELSE targets[j]]

\* A client commands the joints of a group.
Command == \E g \in ToSet(robot.groups) :
  /\ Goes /\ told < MaxCommands /\ Accepts(g.joints, g.name)
  /\ told' = told + 1
  /\ Disturb /\ MovesOn(Commanded([j \in ToSet(g.joints) |-> <<j, "to", told + 1>>]))
  /\ UNCHANGED <<settingVars, rec, dataset, sent, policy>>

\* Gazebo: topics are discovered and vanish, messages come, and the next is not
\* always of the size of the last.
OffersChange ==
  /\ IsGazebo /\ (Goes \/ restarted) /\ changes < MaxChanges
  /\ changes' = changes + 1
  /\ \/ heard' = TRUE /\ UNCHANGED offers
     \/ \E s \in DOMAIN robot.sensors, r \in Readings :
          /\ r = NoData \/ r.what = robot.sensors[s].what
          /\ offers' = (s :> r) @@ offers /\ UNCHANGED heard
     \/ \E s \in DOMAIN offers :
          /\ offers' = [t \in DOMAIN offers \ {s} |-> offers[t]] /\ UNCHANGED heard
  /\ UNCHANGED <<robot, restarted, renderingVars, commandVars, rec, dataset, sent, policy>>

\* The server ends and is started again, with the same robot or another; the
\* dataset remains.
Restart == \E r \in Robots :
  /\ ~restarted /\ rec.pc = "idle" /\ dataset.episodes # <<>>
  /\ \A t \in Readers : reader[t].pc \in {"idle", "gone"}
  /\ shut = "no" \/ (shut = "done" /\ render.pc = "ended")
  /\ restarted' = TRUE
  /\ robot' = r /\ offers' = r.sensors
  /\ heard' \in (IF r.kind = "gazebo" THEN BOOLEAN ELSE {FALSE})
  /\ targets' = Begins(r) /\ history' = <<Begins(r)>> /\ with' = [b \in Buffers |-> <<>>]
  /\ NewProcess
  /\ UNCHANGED <<changes, told, rec, dataset, sent, policy>>

-----------------------------------------------------------------------------
(* Recording.                                                              *)

\* Steps of the recorder that leave the backend, and a MuJoCo's readers, alone.
Alone == UNCHANGED <<renderingVars, settingVars, commandVars, sent, policy>>
Beside == UNCHANGED <<settingVars, commandVars, sent, policy>>

\* episode_start reads the state and chooses what to record, then asks for the
\* commands; of a MuJoCo robot, only the sizes in this first snapshot matter.
EpisodeStart == \E o \in Requests :
  /\ rec.pc = "idle" /\ Len(dataset.episodes) < MaxEpisodes /\ ~restarted
  /\ reader[Recorder].pc = "idle" /\ ~PlanRaises(o)
  /\ rec' = [AtRest EXCEPT !.pc = "plan",
       !.plan = [NoPlan EXCEPT !.joints = SelectJoints(o), !.ees = SelectEndEffectors(o),
                               !.sensors = SelectSensors(o)],
       !.snap = [NoSnap EXCEPT !.state = StateMessage, !.at = now]]
  /\ Alone /\ UNCHANGED dataset

PlanCommand ==
  /\ rec.pc = "plan"
  /\ rec' = [rec EXCEPT !.pc = "planned", !.snap.cmds = CommandMessage(targets, now),
                        !.snap.cmdAt = now]
  /\ Alone /\ UNCHANGED dataset

\* _open_dataset makes a dataset with these features, or demands that it has
\* them, names of joints included.
SameFeatures(features) == dataset = NoDataset \/ dataset.features = features

\* The plan is made from the first reading of the sensors.  Without sim capture
\* the first snapshot is the first frame.
PlanMade(reading) ==
  LET plan == [rec.plan EXCEPT !.first = reading,
                 !.features = BuildFeatures(rec.plan.joints, rec.plan.ees, reading)]
      made == ~Unreadable(reading) /\ SameFeatures(plan.features)
  IN /\ rec' = IF ~made THEN AtRest
               ELSE IF IsMujoco THEN [rec EXCEPT !.pc = "open", !.plan = plan]
               ELSE [rec EXCEPT !.pc = "loop", !.snap = NoSnap, !.plan = plan,
                                !.frames = <<Frame(plan, rec.snap, reading, {})>>]
     /\ dataset' = IF made /\ dataset = NoDataset
                   THEN [features |-> plan.features, names |-> plan.joints, episodes |-> <<>>]
                   ELSE dataset

Plan ==
  /\ rec.pc = "planned" /\ (IsMujoco => rec.plan.sensors = <<>>)
  /\ PlanMade(SensorReading(rec.plan.sensors))
  /\ Alone

\* MuJoCo's sensors are read with the lock held, through the render thread.
PlanReads ==
  /\ rec.pc = "planned" /\ IsMujoco /\ rec.plan.sensors # <<>> /\ Call(Recorder)
  /\ reader'[Recorder].left = CamerasIn(rec.plan.sensors)
  /\ rec' = [rec EXCEPT !.pc = "planning"]
  /\ Beside /\ UNCHANGED dataset

PlanRead ==
  /\ rec.pc = "planning" /\ Finish(Recorder)
  /\ PlanMade(SensorReading(rec.plan.sensors))
  /\ Beside

\* episode_start raises.
PlanRaised ==
  /\ rec.pc = "planning" /\ reader[Recorder].pc \in {"raised", "gone"}
  /\ rec' = AtRest
  /\ reader' = [reader EXCEPT ![Recorder].pc = IF @ = "raised" THEN "idle" ELSE @]
  /\ UNCHANGED <<now, lock, captureVars, renderVars, begun, shutVars>>
  /\ Beside /\ UNCHANGED dataset

Sampling ==
  /\ rec.pc = "open" /\ OpenCapture
  /\ rec' = [rec EXCEPT !.pc = "loop", !.snap = NoSnap]
  /\ Beside /\ UNCHANGED dataset

\* add_frame, LeRobot's own, raises unless the frame has the dataset's features.
Added(frame) == IF frame.shapes = rec.plan.features
                THEN [rec EXCEPT !.pc = "loop", !.snap = NoSnap, !.frames = Append(@, frame)]
                ELSE [rec EXCEPT !.pc = "ended", !.failed = TRUE]

MutantEmitSample ==  \* mutant: a sample goes without the targets of its instant
  /\ Emit
  /\ UNCHANGED with
  /\ UNCHANGED <<settingVars, targets, told, history, rec, dataset, sent, policy>>

\* With the copy of the live data go the targets of that instant.
EmitSample ==
  /\ Emit
  /\ with' = [b \in Buffers |-> IF samples' = Append(samples, b) THEN targets
                                ELSE with[b]]
  /\ UNCHANGED <<settingVars, targets, told, history, rec, dataset, sent, policy>>

FetchSample == LET b == Head(samples) IN
  /\ rec.pc = "loop" /\ IsMujoco /\ Len(rec.frames) < MaxSamples /\ Fetch
  /\ reader'[Recorder].left = CamerasIn(rec.plan.sensors)
  /\ rec' = [rec EXCEPT !.pc = "sample", !.snap =
       [state |-> [j \in JointSet |-> <<j, "at", shows[b]>>],
        cmds |-> CommandMessage(with[b], shows[b]), at |-> shows[b], cmdAt |-> shows[b]]]
  /\ with' = [with EXCEPT ![b] = <<>>]
  /\ UNCHANGED <<settingVars, targets, told, history, dataset, sent, policy>>

SampleDone ==
  /\ rec.pc = "sample" /\ Finish(Recorder)
  /\ rec' = Added(Frame(rec.plan, rec.snap, SensorReading(rec.plan.sensors),
                        reader[Recorder].seen))
  /\ Beside /\ UNCHANGED dataset

\* The sampling thread notes the failure and stops the capture.
SampleRaised ==
  /\ rec.pc = "sample" /\ reader[Recorder].pc \in {"raised", "gone"} /\ lock = NoOne
  /\ rec' = [rec EXCEPT !.pc = "ended", !.failed = TRUE]
  /\ reader' = [reader EXCEPT ![Recorder].pc = IF @ = "raised" THEN "idle" ELSE @]
  /\ open' = FALSE /\ due' = FALSE /\ pool' = {} /\ samples' = <<>>
  /\ UNCHANGED <<now, lock, shows, renderVars, begun, shutVars>>
  /\ Beside /\ UNCHANGED dataset

\* The wall-clock loop asks for one thing after the other.
SampleState ==
  /\ rec.pc = "loop" /\ ~IsMujoco /\ rec.ending = "no" /\ Len(rec.frames) <= MaxSamples
  /\ rec' = [rec EXCEPT !.pc = "command", !.snap.state = StateMessage, !.snap.at = now]
  /\ Alone /\ UNCHANGED dataset

SampleCommand ==
  /\ rec.pc = "command"
  /\ rec' = [rec EXCEPT !.pc = "sensors", !.snap.cmds = CommandMessage(targets, now),
                        !.snap.cmdAt = now]
  /\ Alone /\ UNCHANGED dataset

SampleSensors == LET reading == SensorReading(rec.plan.sensors) IN
  /\ rec.pc = "sensors"
  /\ rec' = IF Unreadable(reading) THEN [rec EXCEPT !.pc = "ended", !.failed = TRUE]
            ELSE Added(Frame(rec.plan, rec.snap, reading, {}))
  /\ Alone /\ UNCHANGED dataset

\* episode_end or episode_cancel: the thread is told, and its capture stopped.
EpisodeEnd == \E how \in {"save", "cancel"} :
  /\ rec.pc \in {"loop", "sample", "command", "sensors", "ended"} /\ rec.ending = "no"
  /\ rec' = [rec EXCEPT !.ending = how]
  /\ IF open THEN CloseCapture ELSE UNCHANGED renderingVars
  /\ Beside /\ UNCHANGED dataset

\* The thread has ended: what it failed on is dropped, what is whole is saved,
\* and a dataset that was cancelled before its first episode is removed.
EpisodeEnded ==
  /\ rec.pc \in {"loop", "ended"} /\ rec.ending # "no"
  /\ rec' = AtRest
  /\ dataset' = IF rec.ending = "cancel"
                THEN IF dataset.episodes = <<>> THEN NoDataset ELSE dataset
                ELSE IF rec.failed \/ rec.frames = <<>> THEN dataset
                ELSE [dataset EXCEPT !.episodes = Append(@, rec.frames)]
  /\ Alone

-----------------------------------------------------------------------------
(* Replay and policy.                                                      *)

\* resolve_joint_group: the group of these joints in this order, or else the
\* shortest that has them all.
ResolveGroup(names) ==
  LET groups == ToSet(robot.groups)
      exact == {g \in groups : g.joints = names}
      having == {g \in groups : ToSet(names) \subseteq ToSet(g.joints)}
      shortest == {g \in having : \A h \in having : Len(g.joints) <= Len(h.joints)}
      only(gs) == IF Cardinality(gs) = 1 THEN (CHOOSE g \in gs : TRUE).name ELSE "ambiguous"
  IN IF exact # {} THEN only(exact) ELSE IF having = {} THEN "none" ELSE only(shortest)

EpisodeReplay == \E e \in DOMAIN dataset.episodes :
  /\ rec.pc = "idle" /\ dataset.names # <<>> /\ ResolveGroup(dataset.names) # "ambiguous"
  /\ restarted /\ sent = <<>> /\ policy = NoPolicy
  /\ rec' = [AtRest EXCEPT !.pc = "replay", !.frames = dataset.episodes[e],
                           !.group = ResolveGroup(dataset.names)]
  /\ Alone /\ UNCHANGED dataset

MutantReplayed(action) ==  \* mutant: pairs the values with the group's joints
  LET joints == IF rec.group = "none" THEN dataset.names ELSE Group(rec.group).joints
  IN [j \in ToSet(dataset.names) |->
       action[CHOOSE i \in DOMAIN action : j \notin ToSet(joints) \/ joints[i] = j]]

\* What set_joint_target is told: the i-th value is for the i-th name.
Replayed(action) ==
  [j \in ToSet(dataset.names) |->
     action[CHOOSE i \in DOMAIN dataset.names : dataset.names[i] = j]]

ReplaySend == LET i == Len(sent) + 1 IN
  /\ rec.pc = "replay" /\ i <= Len(rec.frames)
  /\ IF Accepts(dataset.names, rec.group)
     THEN /\ Disturb /\ MovesOn(Commanded(Replayed(rec.frames[i].action)))
          /\ sent' = Append(sent, Replayed(rec.frames[i].action)) /\ UNCHANGED rec
     ELSE /\ rec' = AtRest /\ UNCHANGED <<renderingVars, targets, history, with, sent>>
  /\ UNCHANGED <<settingVars, told, dataset, policy>>

\* load_policy's adapter, for a policy that learned from the dataset: the group
\* that was asked for must be the joints of the action.
LoadPolicy == \E asked \in ToSet(GroupNames) \cup {"none"}, images \in
    SUBSET {f[1][2] : f \in {f \in dataset.features : f[1][1] = "images"}} :
  /\ rec.pc = "idle" /\ dataset.names # <<>> /\ policy = NoPolicy
  /\ restarted /\ sent = <<>>
  /\ ResolveGroup(dataset.names) # "ambiguous"
  /\ asked # "none" => Group(asked).joints = dataset.names
  /\ policy' = [joints |-> dataset.names, images |-> images, seen |-> <<>>,
                group |-> IF asked = "none" THEN ResolveGroup(dataset.names) ELSE asked]
  /\ UNCHANGED <<renderingVars, settingVars, commandVars, rec, dataset, sent>>

\* _build_observation, from the state and the images asked for; it raises when
\* one of them is missing.
Observe == LET reading == SensorReading(SetToSeq(policy.images)) IN
  /\ policy # NoPolicy /\ policy.seen = <<>>
  /\ policy.images \subseteq DOMAIN reading /\ ~Unreadable(reading)
  /\ policy' = [policy EXCEPT !.seen = JointVector(StateMessage, policy.joints)]
  /\ UNCHANGED <<renderingVars, settingVars, commandVars, rec, dataset, sent>>

-----------------------------------------------------------------------------
(* The whole.                                                              *)

\* What Rendering does by itself; its physics and its captures are above.
RenderingAlone ==
  /\ IsMujoco /\ ~restarted
  /\ \/ Render \/ ShutGoesOn \/ (Goes /\ ShutBegin)
     \/ Goes /\ \E c \in Clients : Call(c)
     \/ \E c \in Clients : Finish(c)
     \/ \E r \in Readers : TakeLock(r) \/ Ask(r) \/ Answered(r) \/ Failed(r) \/ GiveUp(r)
  /\ UNCHANGED framesVars

Record == \/ EpisodeStart \/ PlanCommand \/ Plan \/ PlanReads \/ PlanRead \/ PlanRaised \/ Sampling
          \/ FetchSample \/ SampleDone \/ SampleRaised
          \/ SampleState \/ SampleCommand \/ SampleSensors \/ EpisodeEnd \/ EpisodeEnded

Next == \/ RenderingAlone \/ WorldStep \/ EmitSample \/ Command \/ OffersChange \/ Restart
        \/ Record \/ EpisodeReplay \/ ReplaySend \/ LoadPolicy \/ Observe

\* Threads go on; the lock is served to whoever keeps asking for it.
Fairness ==
  /\ WF_episodeVars(IsMujoco /\ Render /\ UNCHANGED framesVars)
  /\ WF_episodeVars(IsMujoco /\ ShutGoesOn /\ UNCHANGED framesVars)
  /\ \A r \in Readers :
       /\ SF_episodeVars(IsMujoco /\ TakeLock(r) /\ UNCHANGED framesVars)
       /\ WF_episodeVars(IsMujoco /\ (Ask(r) \/ Answered(r) \/ Failed(r) \/ GiveUp(r))
                         /\ UNCHANGED framesVars)
  /\ \A c \in Clients : WF_episodeVars(IsMujoco /\ Finish(c) /\ UNCHANGED framesVars)
  /\ WF_episodeVars(PlanRead \/ PlanRaised \/ SampleDone \/ SampleRaised)

Spec == EpisodeInit /\ [][Next]_episodeVars /\ Fairness

-----------------------------------------------------------------------------

Recording == rec.pc \in {"loop", "sample", "command", "sensors", "ended"}

\* What joint j was commanded to at instant i, or else where it was; Gazebo's
\* recorder has zero for what was not in the last goal.
ActionOf(j, i) == IF j \in DOMAIN history[i + 1] THEN history[i + 1][j]
                  ELSE IF IsGazebo THEN Zero ELSE <<j, "at", i>>

\* As long as the sensors offer what they did when the features were made, the
\* next frame has these features, so that a recording does not fail by itself.
FeaturesFit == SensorReading(rec.plan.sensors) = rec.plan.first =>
  FrameShapes(rec.plan, SensorReading(rec.plan.sensors)) = rec.plan.features

\* A frame says of each joint where it was and what position it was commanded to,
\* in the dataset's order, whatever moved while it was put together; with MuJoCo all
\* of it, images included, is of one instant.  (Before Gazebo's first joint state
\* the positions are zero.)  It has the dataset's features, and so has the next.
FramesTrue == Recording =>
  /\ \A f \in ToSet(rec.frames) : LET names == rec.plan.joints IN
       /\ \A i \in DOMAIN names :
            /\ \/ \E t \in f.at : f.state[i] = <<names[i], "at", t>>
               \/ IsGazebo /\ f.state[i] = Zero
            /\ f.action[i] = ActionOf(names[i], f.cmdAt)
       /\ IsMujoco => f.at = {f.cmdAt}
       /\ f.shapes = rec.plan.features
  /\ FeaturesFit

\* Values reach the joints they were recorded from: a replay tells each joint
\* what its episode says, frame by frame, also on another robot and whatever
\* group it goes through, and a policy is shown, of a robot that has them, the
\* joints it has learned from in their order; either goes through a group that
\* has all the joints.
ByName ==
  /\ rec.pc = "replay" => \A i \in DOMAIN sent : \A k \in DOMAIN dataset.names :
       LET value == rec.frames[i].action[k] IN
       /\ sent[i][dataset.names[k]] = value
       /\ (value = Zero \/ value[1] = dataset.names[k])
  /\ policy.seen # <<>> => \A k \in DOMAIN dataset.names :
       (dataset.names[k] \in JointSet /\ ~IsGazebo) \/ policy.seen[k] # Zero
         => policy.seen[k][1] = dataset.names[k]
  /\ \A group \in {rec.group, policy.group} \ {"none"} :
       ToSet(dataset.names) \subseteq ToSet(Group(group).joints)
=============================================================================
