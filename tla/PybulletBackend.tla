-------------------------- MODULE PybulletBackend --------------------------
(***************************************************************************)
(* The PyBullet backend (PyBulletBackend in robosim/backends/pybullet/     *)
(* backend.py): a thread that steps the simulation, RPC threads that give  *)
(* commands, stop, pause, reset the world, move objects and shut down.     *)
(*                                                                         *)
(* One re-entrant lock guards the simulation. What is tested or looked up  *)
(* before it is taken (the robot's body, the paused flag, the body of a    *)
(* name) is a step of its own, and so is each part of a reset, because the *)
(* others see what it has done so far. A command is known by the number of *)
(* the call that gave it. Rendering and reading state change nothing.      *)
(*                                                                         *)
(* A position or velocity command sets the motor of a joint, which drives  *)
(* it until the next one. A torque is added to those that wait for the     *)
(* next step, which uses them up: it leaves the motor as it is.            *)
(***************************************************************************)
EXTENDS Integers, Sequences

CONSTANTS
  Clients,      \* RPC threads
  Groups,       \* the joints of each joint group
  Bodies,       \* names of the bodies, in the order of the loader: the robot first
  Free, Absent, \* nobody (the lock); no body, no target
  MaxCommands, MaxResets  \* bounds

Joints == UNION {Groups[g] : g \in DOMAIN Groups}
Modes == {"position", "torque", "unknown"}   \* velocity is as position

ASSUME PybulletAssumption ==
  /\ Free \notin Clients /\ Bodies \in Seq(STRING) /\ Bodies # <<>>
  /\ MaxCommands \in Nat /\ MaxResets \in Nat

\* What a motor runs for.
Command == [by : 1..MaxCommands, mode : Modes]
Idle == [by |-> 0, mode |-> "position"]
Off == [by |-> 0, mode |-> "off"]

VARIABLES
  lock,       \* _state_lock: who holds it from one step to the next
  paused, stopping, connected,
  world,      \* the bodies in PyBullet, by id
  names,      \* _body_names: the id of each name
  robot,      \* _robot_body_id
  targets,    \* _control_targets, which get_joint_command_state reports
  motors,     \* the motor PyBullet has for each joint
  pending,    \* the torques PyBullet adds to each joint in the next step
  loop,       \* the step thread
  pc, arg,    \* of each client
  issued, resets,
  quiet,      \* history: loop steps since a pause in effect returned, or -1
  returned, seen, forgotten,  \* history: commands that returned; those that had when a
                              \* stop began; those that a stop that returned covers
  dangling,   \* history: commands that raised
  spent       \* history: commands that had returned at the last step

simulation == <<world, names, robot>>
driven == <<motors, pending>>
history == <<returned, seen, forgotten, dangling, spent>>
vars == <<lock, paused, stopping, connected, simulation, targets, driven, loop, pc, arg,
          issued, resets, quiet, history>>

Numbered == [k \in 1..Len(Bodies) |-> Bodies[k]]
IdOf(name) == CHOOSE k \in 1..Len(Bodies) : Bodies[k] = name
Mapping == [name \in {Bodies[k] : k \in 1..Len(Bodies)} |-> IdOf(name)]

Init ==
  /\ lock = Free /\ paused = FALSE /\ stopping = FALSE /\ connected = TRUE
  /\ world = Numbered /\ names = Mapping /\ robot = 1
  /\ targets = [j \in Joints |-> Idle] /\ motors = [j \in Joints |-> Idle]
  /\ pending = [j \in Joints |-> {}]
  /\ loop = "test"
  /\ pc = [c \in Clients |-> "idle"] /\ arg = [c \in Clients |-> Absent]
  /\ issued = 0 /\ resets = 0 /\ quiet = -1
  /\ returned = {} /\ seen = [c \in Clients |-> {}] /\ forgotten = {} /\ dangling = {}
  /\ spent = {}

Goto(c, place) == pc' = [pc EXCEPT ![c] = place]

(* set_joint_target.                                                       *)

\* _resolve_group: the group that is named, or the only one with all the joints.
Resolved(group, joints) ==
  IF group # Absent THEN {Groups[group]}
  ELSE LET candidates == {g \in DOMAIN Groups : joints \subseteq Groups[g]}
       IN  IF \E g \in candidates : candidates = {g} THEN {Groups[g] : g \in candidates}
                                                     ELSE {}

SetCheck(c) ==
  /\ pc[c] = "idle" /\ issued < MaxCommands
  /\ robot # Absent
  /\ \E joints \in (SUBSET Joints) \ {{}}, group \in DOMAIN Groups \cup {Absent}, mode \in Modes :
       \E allowed \in Resolved(group, joints) :
         arg' = [arg EXCEPT ![c] = [by |-> issued + 1, mode |-> mode, joints |-> joints,
                                    allowed |-> joints \cap allowed]]
  /\ issued' = issued + 1
  /\ Goto(c, "set")
  /\ UNCHANGED <<lock, paused, stopping, connected, simulation, targets, driven, loop,
                 resets, quiet, history>>

Recorded(joints, command) == [j \in Joints |-> IF j \in joints THEN command ELSE targets[j]]

\* POSITION_CONTROL, VELOCITY_CONTROL: the motors run for the command.
Drive(joints, command) ==
  /\ motors' = [j \in Joints |-> IF j \in joints THEN command ELSE motors[j]]
  /\ UNCHANGED pending

\* TORQUE_CONTROL: for the next step, on top of the motors.
Push(joints, command) ==
  /\ pending' = [j \in Joints |-> IF j \in joints THEN pending[j] \cup {command.by}
                                                    ELSE pending[j]]
  /\ UNCHANGED motors

\* All names are of the group: the targets are recorded, then PyBullet is called, which
\* raises without a robot and once disconnected; a mode that is not known raises too.
InForce(c, command) ==
  /\ targets' = Recorded(arg[c].joints, command)
  /\ \/ /\ robot = Absent \/ ~connected \/ command.mode = "unknown"
        /\ dangling' = dangling \cup {command.by} /\ UNCHANGED driven
     \/ /\ robot # Absent /\ connected /\ command.mode = "position"
        /\ Drive(arg[c].joints, command) /\ UNCHANGED dangling
     \/ /\ robot # Absent /\ connected /\ command.mode = "torque"
        /\ Push(arg[c].joints, command) /\ UNCHANGED dangling

\* A name is not: those before it in the list are recorded.
Rejected(c, command) ==
  /\ \E some \in SUBSET arg[c].allowed : targets' = Recorded(some, command)
  /\ dangling' = dangling \cup {command.by}
  /\ UNCHANGED driven

SetApply(c) ==
  /\ pc[c] = "set" /\ lock = Free
  /\ LET command == [by |-> arg[c].by, mode |-> arg[c].mode]
     IN  /\ IF arg[c].joints = arg[c].allowed THEN InForce(c, command)
                                                      ELSE Rejected(c, command)
         /\ returned' = returned \cup {command.by}
  /\ Goto(c, "idle")
  /\ arg' = [arg EXCEPT ![c] = Absent]
  /\ UNCHANGED <<lock, paused, stopping, connected, simulation, loop, issued, resets,
                 quiet, seen, forgotten, spent>>

(* emergency_stop: without a robot it returns at once.                     *)
StopCheck(c) ==
  /\ pc[c] = "idle"
  /\ IF robot = Absent
       THEN forgotten' = forgotten \cup returned /\ UNCHANGED <<pc, seen>>
       ELSE /\ Goto(c, "stop") /\ seen' = [seen EXCEPT ![c] = returned]
            /\ UNCHANGED forgotten
  /\ UNCHANGED <<lock, paused, stopping, connected, simulation, targets, driven, loop, arg,
                 issued, resets, quiet, returned, dangling, spent>>

MutantStopApply(c) ==      \* the joints that have a target only
  /\ pc[c] = "stop" /\ lock = Free
  /\ targets' = [j \in Joints |-> Absent]
  /\ motors' = [j \in Joints |-> IF targets[j] = motors[j] THEN Off ELSE motors[j]]
  /\ forgotten' = forgotten \cup seen[c]
  /\ Goto(c, "idle") /\ seen' = [seen EXCEPT ![c] = {}]
  /\ UNCHANGED <<lock, paused, stopping, connected, simulation, pending, loop, arg, issued,
                 resets, quiet, returned, dangling, spent>>

\* A velocity motor of no force on every joint: nothing takes a torque back that waits for
\* the next step.
StopApply(c) ==
  /\ pc[c] = "stop" /\ lock = Free
  /\ targets' = [j \in Joints |-> Absent]
  /\ IF robot # Absent /\ connected
       THEN motors' = [j \in Joints |-> Off] /\ forgotten' = forgotten \cup seen[c]
       ELSE UNCHANGED <<motors, forgotten>>      \* raises
  /\ Goto(c, "idle") /\ seen' = [seen EXCEPT ![c] = {}]
  /\ UNCHANGED <<lock, paused, stopping, connected, simulation, pending, loop, arg, issued,
                 resets, quiet, returned, dangling, spent>>

(* set_object_pose, get_object_pose: the id is looked up before the lock.  *)
Lookup(c) ==
  /\ pc[c] = "idle"
  /\ \E name \in DOMAIN names : arg' = [arg EXCEPT ![c] = [name |-> name, id |-> names[name]]]
  /\ Goto(c, "pose")
  /\ UNCHANGED <<lock, paused, stopping, connected, simulation, targets, driven, loop,
                 issued, resets, quiet, history>>

\* Raises when there is no such body.
Pose(c) ==
  /\ pc[c] = "pose" /\ lock = Free
  /\ Goto(c, "idle")
  /\ arg' = [arg EXCEPT ![c] = Absent]
  /\ UNCHANGED <<lock, paused, stopping, connected, simulation, targets, driven, loop,
                 issued, resets, quiet, history>>

(* pause, resume, step_physics.                                            *)
Pause(c) ==
  /\ pc[c] = "idle"
  /\ paused' = TRUE /\ quiet' = IF quiet = -1 THEN 0 ELSE quiet
  /\ UNCHANGED <<lock, stopping, connected, simulation, targets, driven, loop, pc, arg,
                 issued, resets, history>>

Resume(c) ==
  /\ pc[c] = "idle"
  /\ paused' = FALSE /\ quiet' = -1
  /\ UNCHANGED <<lock, stopping, connected, simulation, targets, driven, loop, pc, arg,
                 issued, resets, history>>

\* stepSimulation: the torques that wait act, and are cleared.
Simulate ==
  /\ pending' = [j \in Joints |-> {}]
  /\ spent' = returned

StepPhysics(c) ==
  /\ pc[c] = "idle" /\ lock = Free /\ connected
  /\ Simulate
  /\ UNCHANGED <<lock, paused, stopping, connected, simulation, targets, motors, loop, pc, arg,
                 issued, resets, quiet, returned, seen, forgotten, dangling>>

(* reset_world, under the lock from the first step to the last.            *)
ResetClear(c) ==
  /\ pc[c] = "idle" /\ lock = Free /\ connected /\ resets < MaxResets
  /\ lock' = c /\ Goto(c, "load") /\ resets' = resets + 1
  /\ world' = <<>> /\ names' = <<>> /\ robot' = Absent
  /\ motors' = [j \in Joints |-> Off] /\ pending' = [j \in Joints |-> {}]
  /\ UNCHANGED <<paused, stopping, connected, targets, loop, arg, issued, quiet, history>>

MutantResetLoad(c) ==      \* without resetSimulation: ids go on
  /\ pc[c] = "load"
  /\ world' = <<"plane">> \o Bodies /\ names' = Mapping /\ robot' = 1
  /\ Goto(c, "rebuild")
  /\ UNCHANGED <<lock, paused, stopping, connected, targets, driven, loop, arg, issued,
                 resets, quiet, history>>

\* The loader creates the bodies one by one; the mapping is set when it is through.
ResetLoad(c) ==
  /\ pc[c] = "load"
  /\ world' = Numbered /\ names' = Mapping /\ robot' = 1
  /\ Goto(c, "rebuild")
  /\ UNCHANGED <<lock, paused, stopping, connected, targets, driven, loop, arg, issued,
                 resets, quiet, history>>

ResetRaises(c) ==
  /\ pc[c] = "load"
  /\ \E k \in 0..Len(Bodies) : world' = SubSeq(Bodies, 1, k)
  /\ lock' = Free /\ Goto(c, "idle")
  /\ UNCHANGED <<names, robot, paused, stopping, connected, targets, driven, loop, arg,
                 issued, resets, quiet, history>>

\* Joints, groups, sensors; then every joint holds its position.
MutantResetRebuild(c) ==      \* the targets of before the reset are left
  /\ pc[c] = "rebuild"
  /\ targets' = targets /\ motors' = [j \in Joints |-> Idle]
  /\ paused' = FALSE /\ quiet' = -1
  /\ lock' = Free /\ Goto(c, "idle")
  /\ UNCHANGED <<stopping, connected, simulation, pending, loop, arg, issued, resets, history>>

ResetRebuild(c) ==
  /\ pc[c] = "rebuild"
  /\ targets' = [j \in Joints |-> Idle] /\ motors' = [j \in Joints |-> Idle]
  /\ paused' = FALSE /\ quiet' = -1
  /\ lock' = Free /\ Goto(c, "idle")
  /\ UNCHANGED <<stopping, connected, simulation, pending, loop, arg, issued, resets, history>>

(* shutdown: joins the step thread, for two seconds at most.               *)
Shutdown(c) ==
  /\ pc[c] = "idle" /\ ~stopping
  /\ stopping' = TRUE /\ Goto(c, "join")
  /\ UNCHANGED <<lock, paused, connected, simulation, targets, driven, loop, arg, issued,
                 resets, quiet, history>>

Joined(c) ==      \* or timed out
  /\ pc[c] = "join"
  /\ Goto(c, "disconnect")
  /\ UNCHANGED <<lock, paused, stopping, connected, simulation, targets, driven, loop, arg,
                 issued, resets, quiet, history>>

Disconnect(c) ==
  /\ pc[c] = "disconnect" /\ lock = Free
  /\ connected' = FALSE /\ Goto(c, "idle")
  /\ UNCHANGED <<lock, paused, stopping, simulation, targets, driven, loop, arg, issued,
                 resets, quiet, history>>

(* _simulation_loop: the tests come before the lock.                       *)
LoopTest ==
  /\ loop = "test" /\ (stopping \/ ~paused)
  /\ loop' = IF stopping THEN "done" ELSE "step"
  /\ UNCHANGED <<lock, paused, stopping, connected, simulation, targets, driven, pc, arg,
                 issued, resets, quiet, history>>

MutantLoopStep ==
  /\ loop = "step" /\ lock = Free
  /\ IF connected THEN Simulate /\ loop' = IF stopping THEN "done" ELSE "step"
                  ELSE UNCHANGED <<pending, spent>> /\ loop' = "done"
  /\ quiet' = IF quiet \in {0, 1} THEN quiet + 1 ELSE quiet
  /\ UNCHANGED <<lock, paused, stopping, connected, simulation, targets, motors, pc, arg,
                 issued, resets, returned, seen, forgotten, dangling>>

LoopStep ==
  /\ loop = "step" /\ lock = Free
  /\ IF connected THEN Simulate /\ loop' = "test"
                  ELSE UNCHANGED <<pending, spent>> /\ loop' = "done"   \* raises: the thread ends
  /\ quiet' = IF quiet \in {0, 1} THEN quiet + 1 ELSE quiet
  /\ UNCHANGED <<lock, paused, stopping, connected, simulation, targets, motors, pc, arg,
                 issued, resets, returned, seen, forgotten, dangling>>

Next ==
  \/ LoopTest \/ LoopStep
  \/ \E c \in Clients :
       \/ SetCheck(c) \/ SetApply(c) \/ StopCheck(c) \/ StopApply(c) \/ Lookup(c) \/ Pose(c)
       \/ Pause(c) \/ Resume(c) \/ StepPhysics(c)
       \/ ResetClear(c) \/ ResetLoad(c) \/ ResetRaises(c) \/ ResetRebuild(c)
       \/ Shutdown(c) \/ Joined(c) \/ Disconnect(c)

Spec == Init /\ [][Next]_vars

-----------------------------------------------------------------------------
(* Properties.                                                             *)

TypeOK ==
  /\ lock \in Clients \cup {Free}
  /\ paused \in BOOLEAN /\ stopping \in BOOLEAN /\ connected \in BOOLEAN
  /\ world \in Seq(STRING) /\ robot \in {1, Absent}
  /\ targets \in [Joints -> Command \cup {Idle, Absent}]
  /\ motors \in [Joints -> Command \cup {Idle, Off}]
  /\ pending \in [Joints -> SUBSET (1..MaxCommands)]
  /\ loop \in {"test", "step", "done"}
  /\ pc \in [Clients -> {"idle", "set", "stop", "pose", "load", "rebuild", "join", "disconnect"}]
  /\ quiet \in -1..2

\* After pause has returned the step thread makes one more step at most, the one it had
\* decided on before, until someone resumes or resets: a replay that paused the backend
\* steps it alone.
PauseHolds == quiet <= 1

\* Once an emergency stop has returned, no motor runs for a command that had returned when
\* the stop was called, even when a reset took the robot away meanwhile and the stop did
\* nothing. A torque the stop does not take back acts in one step and is gone: none
\* waits that was given before the last step.
StopForgets == \A j \in Joints : /\ motors[j].by \notin forgotten
                                 /\ pending[j] \cap spent = {}

\* What get_joint_command_state reports is what was last given to PyBullet for the joint and
\* is in force there: the command the motor runs for, or a torque that waits for the step
\* or whose step is over. Only a command that raised is reported and in force nowhere.
\* (Under a torque the motor goes on running for the command before, which is not reported.)
ReportedInForce ==
  lock = Free /\ robot # Absent /\ connected =>
    \A j \in Joints :
      \/ targets[j] \in {Absent, motors[j]}
      \/ targets[j].mode = "torque" /\ targets[j].by \in pending[j] \cup spent
      \/ targets[j].by \in dangling

\* A pose is set on (read from) the body of that name, if there is one, however many
\* resets there were since the id was looked up.
PoseReachesNamed ==
  [][\A c \in Clients :
       pc[c] = "pose" /\ pc'[c] # "pose" =>
         (arg[c].id \in DOMAIN world => world[arg[c].id] = arg[c].name)]_vars
=============================================================================
