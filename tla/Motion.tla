------------------------------- MODULE Motion -------------------------------
(***************************************************************************)
(* Joint control of the MuJoCo backend (robosim/backends/mujoco/           *)
(* backend.py): joint targets, idle holds, trajectories that the physics   *)
(* thread executes, the emergency stop, world reset and shutdown.          *)
(*                                                                         *)
(* Threads that serve requests write the table of control targets under    *)
(* the state lock; the physics thread applies due trajectory points, turns *)
(* the table into torques and, on a robot with a free base, puts every     *)
(* held joint back to its target (_stabilize_idle_holds_locked). Where the *)
(* dynamics take a joint is the simulator's business: any position of its  *)
(* travel. Positions are integers in the model's own units and the         *)
(* normalized range [0, 1] is its two ends. The capture that the physics   *)
(* thread feeds between two steps is in SimCapture.                        *)
(***************************************************************************)
EXTENDS Integers, Sequences, FiniteSetsExt

CONSTANTS
  Joints,     \* the controllable joints
  Allowed,    \* those of the group that commands and trajectories name
  Followers,  \* _mimic_followers: the joints an equality ties to each joint
  Direction,  \* 1 or -1 for a normalized-position joint, 0 for any other
  Lower, Upper,  \* the travel of each joint
  Start,      \* _apply_initial_joint_positions_locked: of the compiled scene
  Home,       \* the default configuration
  Callers,    \* threads that serve trajectories and emergency stops
  Commands,   \* arguments of set_joint_target
  Plans,      \* arguments of execute_joint_trajectory
  None,       \* no target, no trajectory
  MaxTime, MaxResets, MaxRuns  \* bounds: simulated time, resets, trajectories

Modes == {"position", "velocity", "torque"}
Travel(j) == Lower[j]..Upper[j]
PlanTime(plan) == plan.points[Len(plan.points)].at

ASSUME JointsAssumption ==
  /\ Allowed \subseteq Joints /\ Followers \in [Joints -> SUBSET Joints]
  /\ \A j \in Joints : j \notin Followers[j]
  /\ Direction \in [Joints -> {-1, 0, 1}]
  /\ Lower \in [Joints -> Int] /\ Upper \in [Joints -> Int]
  /\ Start \in [Joints -> Int] /\ \A j \in Joints : Start[j] \in Travel(j)
  /\ Home \in [Joints -> Int] /\ \A j \in Joints : Home[j] \in Travel(j)

ASSUME BoundsAssumption == MaxTime \in Nat /\ MaxResets \in Nat /\ MaxRuns \in Nat

ASSUME CommandsAssumption ==
  \A cmd \in Commands :
    /\ Len(cmd.names) \in Nat /\ cmd.mode \in Modes \cup {"other"}
    /\ \A i \in 1..Len(cmd.names) : cmd.data[i] \in Int

\* A plan that execute_joint_trajectory's checks let through.
ASSUME PlansAssumption ==
  \A plan \in Plans :
    /\ plan \in [joints : SUBSET Allowed, points : Seq([at : Nat, to : Int])]
    /\ Len(plan.points) > 0
    /\ \A i, k \in 1..Len(plan.points) :
         i <= k => plan.points[i].at <= plan.points[k].at

ASSUME NoneAssumption ==
  /\ None \notin [mode : Modes \cup {"other"}, value : Int]
  /\ None \notin [id : Nat, plan : Plans, start : Nat, next : Nat, world : Nat]

VARIABLES
  freeBase,  \* whether the robot has a root hold joint
  physics,   \* the physics thread: "run", "dead" (it raised) or "over"
  stop,      \* the backend's _stop_event
  time,      \* data.time, in physics steps
  qpos,      \* positions of the joints
  target,    \* _control_targets
  idle,      \* _idle_hold_joint_names
  traj,      \* _trajectory
  done,      \* the trajectories whose done_event is set
  runs,      \* number of trajectories started
  resets,    \* number of world resets
  halted,    \* history: an emergency stop, and no request since
  call       \* what every caller is inside of

vars == <<freeBase, physics, stop, time, qpos, target, idle, traj, done, runs,
          resets, halted, call>>
table == <<target, idle>>
world == <<time, qpos>>

Idle == [pc |-> "idle", id |-> 0]
Call == {Idle} \cup [pc : {"wait", "halt"}, id : 1..runs]
Execution == [id : 1..runs, plan : Plans, start : 0..MaxTime, next : Nat \ {0},
              world : 0..resets]
Target == [mode : Modes \cup {"other"}, value : Int]

TypeOK ==
  /\ freeBase \in BOOLEAN /\ stop \in BOOLEAN /\ halted \in BOOLEAN
  /\ physics \in {"run", "dead", "over"}
  /\ time \in 0..MaxTime /\ resets \in 0..MaxResets /\ runs \in 0..MaxRuns
  /\ DOMAIN qpos = Joints /\ \A j \in Joints : qpos[j] \in Travel(j)
  /\ DOMAIN target = Joints /\ \A j \in Joints : target[j] \in Target \cup {None}
  /\ idle \subseteq Joints /\ done \subseteq 1..runs
  /\ \/ traj = None
     \/ traj \in Execution /\ traj.next <= Len(traj.plan.points)
  /\ call \in [Callers -> Call]

Hold(j, q) == [mode |-> "position", value |-> q[j]]

\* _set_idle_hold_targets_locked.
HoldAll(q) == target' = [j \in Joints |-> Hold(j, q)] /\ idle' = Joints

Init ==
  /\ freeBase \in BOOLEAN
  /\ physics = "run" /\ stop = FALSE /\ time = 0 /\ qpos = Start
  /\ target = [j \in Joints |-> Hold(j, Start)] /\ idle = Joints
  /\ traj = None /\ done = {} /\ runs = 0 /\ resets = 0 /\ halted = FALSE
  /\ call = [c \in Callers |-> Idle]

-----------------------------------------------------------------------------
(* Requests.                                                               *)

\* _normalized_position_target: [0, 1] spans the travel of a normalized joint.
Normalized(j, mode) == mode = "position" /\ Direction[j] # 0
Physical(j, mode, v) ==
  IF ~Normalized(j, mode) THEN v
  ELSE LET n == IF Direction[j] > 0 THEN v ELSE 1 - v
       IN Lower[j] + n * (Upper[j] - Lower[j])

\* set_joint_target goes through the names in order and raises at the first it
\* cannot take: those before it have their new target.
Takes(cmd, i) ==
  /\ cmd.names[i] \in Allowed
  /\ Normalized(cmd.names[i], cmd.mode) => cmd.data[i] \in 0..1
Taken(cmd) == {i \in 1..Len(cmd.names) : \A k \in 1..i : Takes(cmd, k)}

\* The entries of a command that write joint j, itself or as a follower.
Writes(cmd, j) ==
  {i \in Taken(cmd) : \/ cmd.names[i] = j
                      \/ cmd.mode \in {"position", "velocity"}
                           /\ j \in Followers[cmd.names[i]]}
Rests(cmd, j, i) ==
  cmd.names[i] = j /\ cmd.mode = "velocity" /\ cmd.data[i] = 0

MutantSetJointTarget(cmd) ==  \* mutant: followers stay held
  LET last(j) == Max(Writes(cmd, j))
      written == {j \in Joints : Writes(cmd, j) # {}}
      resting == {j \in written : Rests(cmd, j, last(j))}
  IN /\ target' = [j \in Joints |->
           IF j \notin written THEN target[j]
           ELSE IF j \in resting THEN Hold(j, qpos)
           ELSE LET i == last(j) IN
             [mode |-> cmd.mode, value |-> Physical(cmd.names[i], cmd.mode, cmd.data[i])]]
     /\ idle' = (idle \ {cmd.names[i] : i \in Taken(cmd)}) \cup resting
     /\ halted' = (halted /\ written = {})
     /\ UNCHANGED <<freeBase, physics, stop, world, traj, done, runs, resets, call>>

\* set_joint_target, from an RPC, a servo stream, a replay or a policy: one
\* locked block. A zero velocity holds the joint where it is.
SetJointTarget(cmd) ==
  LET last(j) == Max(Writes(cmd, j))
      written == {j \in Joints : Writes(cmd, j) # {}}
      resting == {j \in written : Rests(cmd, j, last(j))}
  IN /\ target' = [j \in Joints |->
           IF j \notin written THEN target[j]
           ELSE IF j \in resting THEN Hold(j, qpos)
           ELSE LET i == last(j) IN
             [mode |-> cmd.mode, value |-> Physical(cmd.names[i], cmd.mode, cmd.data[i])]]
     /\ idle' = (idle \ written) \cup resting
     /\ halted' = (halted /\ written = {})
     /\ UNCHANGED <<freeBase, physics, stop, world, traj, done, runs, resets, call>>

Started(c, plan) ==
  /\ call[c] = Idle /\ runs < MaxRuns /\ time + PlanTime(plan) < MaxTime
  /\ runs' = runs + 1
  /\ traj' = [id |-> runs + 1, plan |-> plan, start |-> time, next |-> 1,
              world |-> resets]
  /\ call' = [call EXCEPT ![c] = [pc |-> "wait", id |-> runs + 1]]
  /\ halted' = FALSE
  /\ UNCHANGED <<freeBase, physics, stop, world, table, done, resets>>

MutantExecuteStart(c, plan) == Started(c, plan)  \* mutant: takes a running one's place

\* execute_joint_trajectory up to its wait; it raises while another one runs.
ExecuteStart(c, plan) == traj = None /\ Started(c, plan)

\* Its wait: it returns once its event is set, and raises on a shutdown.
ExecuteReturn(c) ==
  /\ call[c].pc = "wait" /\ (call[c].id \in done \/ stop)
  /\ call' = [call EXCEPT ![c] = Idle]
  /\ UNCHANGED <<freeBase, physics, stop, world, table, traj, done, runs, resets, halted>>

Halted(c) ==
  /\ call[c] = Idle
  /\ target' = [j \in Joints |-> None] /\ halted' = TRUE
  /\ call' = [call EXCEPT ![c] =
       IF traj = None THEN Idle ELSE [pc |-> "halt", id |-> traj.id]]
  /\ UNCHANGED <<freeBase, physics, stop, world, idle, done, runs, resets>>

MutantEmergencyStop(c) == Halted(c) /\ UNCHANGED traj  \* mutant: the trajectory goes on

\* The locked block of emergency_stop.
EmergencyStop(c) == Halted(c) /\ traj' = None

MutantEmergencySignal(c) ==  \* mutant: nobody wakes the caller
  /\ call[c].pc = "halt"
  /\ call' = [call EXCEPT ![c] = Idle]
  /\ UNCHANGED <<freeBase, physics, stop, world, table, traj, done, runs, resets, halted>>

\* Its last statement, after the lock: the event of the trajectory it dropped.
EmergencySignal(c) ==
  /\ call[c].pc = "halt"
  /\ done' = done \cup {call[c].id}
  /\ call' = [call EXCEPT ![c] = Idle]
  /\ UNCHANGED <<freeBase, physics, stop, world, table, traj, runs, resets, halted>>

\* reset_world: the trajectory stays, and so does the time it started at; the
\* joints take the default configuration.
ResetWorld ==
  /\ resets < MaxResets
  /\ resets' = resets + 1
  /\ time' = 0 /\ qpos' = Home /\ HoldAll(Home)
  /\ halted' = FALSE
  /\ UNCHANGED <<freeBase, physics, stop, traj, done, runs, call>>

Shutdown ==
  /\ ~stop /\ stop' = TRUE
  /\ UNCHANGED <<freeBase, physics, world, table, traj, done, runs, resets, halted, call>>

-----------------------------------------------------------------------------
(* The physics thread.                                                     *)

MutantDue ==  \* mutant: one point a step
  IF traj # None /\ traj.plan.points[traj.next].at <= time - traj.start
  THEN {traj.next} ELSE {}

\* The points _advance_trajectory_locked applies now.
Due ==
  IF traj = None THEN {}
  ELSE {i \in traj.next..Len(traj.plan.points) :
          traj.plan.points[i].at <= time - traj.start}

Applied(last) ==
  /\ \A i \in Due : i <= last
  /\ target' = [j \in Joints |->
       IF j \in traj.plan.joints
       THEN [mode |-> "position", value |-> traj.plan.points[last].to]
       ELSE target[j]]
  /\ idle' = idle \ traj.plan.joints

\* _advance_trajectory_locked: the last of the points that are due prevails.
AdvanceTrajectory ==
  IF Due = {} THEN UNCHANGED <<table, traj, done>>
  ELSE \E last \in Due :
    /\ Applied(last)
    /\ IF last = Len(traj.plan.points)
       THEN traj' = None /\ done' = done \cup {traj.id}
       ELSE traj' = [traj EXCEPT !.next = last + 1] /\ UNCHANGED done

\* _apply_controls_locked raises on a mode it does not know.
Raises(tgt) == \E j \in Joints : tgt[j] # None /\ tgt[j].mode \notin Modes

\* A joint that _stabilize_idle_holds_locked puts back to its target.
Pinned(j, tgt, names) == freeBase /\ j \in names /\ tgt[j] # None /\ tgt[j].mode = "position"

\* The locked block of _simulation_loop; stop is tested before it.
PhysStep ==
  /\ physics = "run" /\ time < MaxTime
  /\ AdvanceTrajectory
  /\ IF Raises(target') THEN physics' = "dead" /\ UNCHANGED world
     ELSE /\ UNCHANGED physics
          /\ time' = time + 1
          /\ \E q \in [Joints -> UNION {Travel(j) : j \in Joints}] :
               /\ \A j \in Joints : IF Pinned(j, target', idle') THEN q[j] = target'[j].value
                                    ELSE q[j] \in Travel(j)
               /\ qpos' = q
  /\ UNCHANGED <<freeBase, stop, runs, resets, halted, call>>

\* It sees the shutdown.
PhysOver ==
  /\ physics = "run" /\ stop
  /\ physics' = "over"
  /\ UNCHANGED <<freeBase, stop, world, table, traj, done, runs, resets, halted, call>>

Next ==
  \/ PhysStep \/ PhysOver
  \/ \E cmd \in Commands : SetJointTarget(cmd)
  \/ \E c \in Callers : \/ \E plan \in Plans : ExecuteStart(c, plan)
                        \/ ExecuteReturn(c) \/ EmergencyStop(c) \/ EmergencySignal(c)
  \/ ResetWorld \/ Shutdown

Spec == Init /\ [][Next]_vars

\* The physics thread steps on, and a thread that can return does.
Fairness ==
  /\ WF_vars(PhysStep)
  /\ \A c \in Callers : WF_vars(ExecuteReturn(c)) /\ WF_vars(EmergencySignal(c))

FairSpec == Spec /\ Fairness

-----------------------------------------------------------------------------
(* Properties.                                                             *)

\* A caller that waits for a trajectory waits for the one that runs, unless its
\* event is set or an emergency stop that dropped it is about to set it: no
\* second trajectory, reset or stop leaves a caller behind.
WaiterServed ==
  \A c \in Callers : call[c].pc = "wait" =>
    \/ call[c].id \in done
    \/ traj # None /\ traj.id = call[c].id
    \/ \E d \in Callers : call[d].pc = "halt" /\ call[d].id = call[c].id

\* execute_joint_trajectory returns, across emergency stops, resets and a
\* shutdown, as long as the physics thread lives.
TrajectoryReturns ==
  \A c \in Callers : call[c].pc = "wait" ~> call[c].pc # "wait" \/ physics = "dead"

\* Zero-order hold on simulated time: as of the last physics step, the points of
\* the trajectory that were applied are those that were due, all of them.
PointsOnTime ==
  traj # None /\ traj.world = resets /\ physics # "dead" =>
    \A i \in 1..Len(traj.plan.points) :
      i < traj.next <=> traj.plan.points[i].at <= time - 1 - traj.start

\* On a free-base robot a joint that is held stays where it was: the stabilizer,
\* which sets positions outright, never moves a joint to where a command, a
\* trajectory or a mimic driver wants it.
HeldInPlace ==
  [][\A j \in Joints : /\ Pinned(j, target, idle) /\ Pinned(j, target', idle')
                       /\ resets' = resets
                       => qpos'[j] = qpos[j]]_vars

\* After an emergency stop no joint has a target and no trajectory runs until a
\* request is made after it.
StopHolds == halted => traj = None /\ \A j \in Joints : target[j] = None

\* "A reset restores the initial scene": every joint is where it was when the
\* backend was built.
ResetRestores == [][resets' # resets => qpos' = Start]_vars

\* get_joint_command_state, which the recorder stores as the action.
CommandState(j) ==
  IF target[j] # None /\ target[j].mode = "position" THEN target[j].value ELSE qpos[j]

\* "Actions are absolute joint targets that can be replayed": sent back as a
\* POSITION command, as replay does, an action is accepted and sets that target.
Replayable ==
  \A j \in Allowed :
    LET a == CommandState(j) IN
    /\ Normalized(j, "position") => a \in 0..1
    /\ Physical(j, "position", a) = a
=============================================================================
