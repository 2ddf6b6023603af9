# A TLA+ verification of RoboSim

RoboSim serves one simulated robot over gRPC: a scene package is compiled for a simulator, a *backend*
(MuJoCo, PyBullet or Gazebo) steps the physics, and an *episode recorder*, a *policy runner* and any
number of RPC clients read and command the robot at the same time. Two things are hard about it.
Physics, sampling, inference, rendering, executor and RPC threads share locks, events, bounded queues
and one simulated clock that a reset puts back to zero; and every scene is written three times, in three
formats, each with rules of its own for frames, joints and names. This directory holds models of both,
the TLC runs that check them on small instances and TLAPS proofs for all instances. `PROJECT.json` maps
every definition to the lines it models and lists the hazards each property is for.

Run, from this directory: `tlc -workers 2 -config Motion.cfg MCMotion.tla`, `tlapm Motion_proofs.tla`.

## 1. Inventory

| Component | State | Operations | What is hard | What makes it correct |
|---|---|---|---|---|
| Sim capture (`backends/mujoco/backend.py`) | `_sim_capture`, its `pool` and `samples` queues, `next_time`, `stop_event`; pooled `MjData` | `start/next/stop_sim_capture`, `_emit_capture_samples`, `reset_world` | decisions under the lock acted upon after it; a pool that must block physics but not for ever; a buffer read outside every lock | one holder per buffer, no lost buffer, no late, skipped or repeated sample, everyone leaves a stopped capture |
| Activity coordinator (`core/activity.py`) | `_active_mode` | `acquire`, `release` | re-acquired without a count, released outside its users' locks | one source of control at a time; the mode is free when nothing runs |
| Recorder and replay (`core/impl/recorder_lerobot.py`) | `_session`, `_replay_active`, the session's thread, stop event, failure, plan, features and dataset | `episode_start/end/cancel/replay`, the two sampling loops | requests overlapping the end of a session; every step may raise; joins; a frame put together from several reads | no forgotten session, no truncated episode saved, stop requests return; frames say what was so, replay moves the joints that were recorded |
| Policy runner (`core/impl/policy_lerobot.py`) | `_loaded`, `_thread`, `_stop_event`, the policy's action queue | `load/start/stop_policy`, the control loop, `notify_world_reset` | inference of any length against simulated time; resets with samples in flight | observations one interval apart, bounded latency, actions of this world |
| Feature adapters (`core/impl/lerobot_io.py`) | none | joints, groups, features, observations by name | several orders of joints; messages that lack a joint | a value reaches the joint it came from |
| MuJoCo motion control (`backends/mujoco/backend.py`) | `_control_targets`, `_idle_hold_joint_names`, `_trajectory`, `data.time`, `data.qpos` | `set_joint_target`, `execute_joint_trajectory`, `emergency_stop`, `reset_world`, `shutdown`, the physics step | callers blocked on a thread that may be stopped, reset or dead; positions set outright | every trajectory call returns, points on time, stops hold, held joints do not jump, actions replay |
| MuJoCo model, sensors and rendering | bodies, joints and groups taken for the robot; `_render_queue`, renderers, viewer | `__init__`, `get_sensors`, `_render_camera`, `_render_loop` | furniture has joints too; a render is requested with the state lock held | the robot is the robot; a request is answered or fails, in order, also across shutdown, and an answer is of one instant |
| PyBullet backend | body ids, targets, motors, paused, step thread | the same interface | unlocked reads while a reset rebuilds the world | a stop forgets, a pause holds, a pose reaches the body it names |
| Gazebo backend and runtime | subscriptions, sensor records, nav client and goals, process group | discovery, callbacks, `navigate_to`, trajectories, start and stop | check-then-act in a multi-threaded executor; feedback races result; everything may fail on the way up | one subscription per topic, a goal ends once, no process is left |
| Scene package compilers (`core/csd_compiler.py`, `core/*_openusd_package.py`) | none | reading, validation, MJCF, URDF and SDF | frames on both sides of a joint, Euler angles, link origins, order of materials | what runs is where the package puts it |
| Realization cache (the same files) | the slot: files and `manifest.json` | one compile, from reading to publishing | written in place, with other compiles, edits, exceptions and crashes | a hit is what the package is |
| CSD and OpenUSD authoring (`core/csd.py`, `core/openusd_csd.py`, `compile.py`) | none | reading and writing one document | many independent rules | – |
| gRPC services, server | a pool of ten workers, the owned objects | one call per RPC; `serve_async`, `shutdown` | long RPCs occupy workers; shutdown order | nothing is left running or unfinished |
| Teleoperation (`control_stubs/tools/teleop.py`, `servo_keyboard.py`, `joycon.py`) | motion state, target, last commands, episode state | keys, sticks, switches, `EpisodeController.handle` | commands in force at the server outlive what the client remembers | at the end everything rests and nothing records |
| Collection tools, client wrappers | little | one RPC each, or a script of them | failed steps midway | – |
| Agent (`agent/`) | session histories in SQLite, MCP sessions and tool lists, TTS queue | `Agent.run`, `Memory.load/save/clear`, `MCPConnection.call_tool` | read, think, write back; concurrent calls on one connection; reconnects and retries | histories a model accepts, nothing of a failed request, requests end |

Interaction: RPC servicers call the backend, the recorder or the policy runner; recorder and runner
call `start/next/stop_sim_capture` and `set_joint_target` on the backend from threads of their own and
share one coordinator; `ResetWorld` calls the backend and then the runner. The physics thread shares
the backend's state lock with all of them, its queues with the capture's consumer, and its data with
the render thread. A compiler writes what a backend loads; the MuJoCo backend then decides which part
of it is the robot. The server starts Gazebo's processes before its backend and stops them after it.

## 2. Modules

| Module | Models | State and actions against the code |
|---|---|---|
| `CaptureStream` | the promise of a capture, abstractly | a stream of numbered samples: open, publish, hand over, give back, close |
| `SimCapture` | sim capture, thread by thread | one action per locked block, queue operation, event test or unlocked read; `phys` and `call[t]` are program counters. `_sim_capture` is `cur`; capture objects are numbered, so that a stale reference can be told from the active one. `Phase` and `Chan` are the refinement mapping to `CaptureStream` |
| `PolicyPacing` | policy thread, `stop_policy`, `ResetWorld`, on top of `SimCapture` (EXTENDS; its actions are used for the backend calls) | `loop` is the thread's place in `_run_loop`; `queue` is the chunk of actions inside the LeRobot policy: how many, and from which observation |
| `ActiveControl` | coordinator, recorder, replay, policy runner, on a backend with or without sim capture | clients serve one request each, workers are the threads requests create; a step is one locked block or backend call. Of a capture only `cur` and the stop events remain |
| `Motion` | joint targets, holds, trajectories, emergency stop, reset, shutdown, physics step | `target`, `idle`, `traj`, `done` are `_control_targets`, `_idle_hold_joint_names`, `_trajectory` and the set `done_event`s; the physics step is one action, as it is one locked block |
| `Rendering` | `get_sensors`, captured readings, the render thread, shutdown | `reader[r]` is a thread that reads, `queue` and `render` are `_render_queue` and its thread, `lock` the state lock that `get_sensors` keeps while it waits; an instant of the live data is a number, and pixels are the instant they show |
| `EpisodeFrames` | what an episode holds and what becomes of it, on top of `Rendering` (EXTENDS) | `rec` is the recorder with its plan, features and frames, `policy` what a checkpoint made of the dataset observes, `sent` what a replay commands. A value is the joint it is of and the instant, or the number of the command, it was read at. One robot per kind of backend; the MuJoCo one is what `MujocoRobot` takes for the robot (`MCEpisodeFrames`) |
| `Realization` | a compile into a slot, and the slot as cache | `pc[c]` is a compile's place in `compile_openusd_scene_package`, `disk` and `manifest` the slot, `source` the package; a file is written from the description read at the start and, if it is one of `Rereading`, from the meshes there are when it is written; edits, removed files, exceptions and kills are actions |
| `Frames` | quaternions, poses, roll-pitch-yaw | the compilers' formulas, with the 24 rotations that map axes to axes |
| `ScenePackage` | a composed package and what reading it refuses | operators over assets, joints with two frames, instances, OBJ lines; also what the package *means*, the reference the compilers are checked against |
| `MujocoScene`, `PybulletScene`, `GazeboScene` | what each compiler refuses and writes, and how its simulator reads that | from a package to the pose and freedom of every link, cameras, lights, parts of meshes; for Gazebo the URDF-to-SDF conversion of a robot |
| `MujocoRobot` | which bodies, joints and groups the MuJoCo backend takes for the robot | pure operators over a forest of bodies and an SRDF |
| `SceneCompile` | composes the five: a package is read, compiled for a backend and loaded | `package`, `backend`, `pc`, `world` |
| `PybulletBackend` | commands, stop, pause, step, reset, poses, shutdown, the step thread | `lock` is the re-entrant lock, `world` the bodies by id, `robot` `_robot_id`, `targets` what was recorded, `motors` the motor PyBullet runs for each joint and `pending` the torques it adds in the next step; a command is the number of the call that gave it. A reset is one step per part that others see |
| `GazeboServer` | `serve_async` and the runtime's processes | `stage` is the place in `serve_async`, `running` the processes, some of which ignore SIGTERM, and what `ros2 run` starts for them (`Children`), which no signal of the runtime reaches; any part of the shutdown may raise |
| `GazeboBackend` | the backend in that server (EXTENDS) | `graph` is what ROS offers, `subs`, `live`, `records` the backend's subscriptions and sensor records, `work` what each executor thread is at, `goal` and `rpc` the navigation goals and the calls that poll them; a discovery may raise anywhere |
| `Teleop` | keyboard and Joy-Con sessions and the server's end of the stream | `velocity` is what is in force at the server for each target; directions and amounts are left out, zero is rest. A reading of the Joy-Con is a step per event (`pressed` are those not looked at), so that it may be interrupted or overtaken by the server between two of them |
| `Agent` | requests of one session of the agent (`run`, `run_stream`), memory, tool calls over one MCP connection | everything is on one event loop: a step is what a task does between two awaits that matter to others. `run[r]` is a request with its context, `caller[r, k]` the k-th tool call of its last answer; `session`, `listed`, `holder` are the connection's `session`, `_tools` and `_lock`. Of a message only its request and kind remain |
| `AgentSession` | what the agent promises of a session (abstract) | `history` is what `Memory` holds, `talk[r]` what a request has said so far, tool calls under way not included |
| `*_proofs` | theorems about `SimCapture` (and `PolicyPacing` on top of it), `ActiveControl`, `Motion`, `Realization`, `PybulletBackend`, `Agent` and `Teleop` (`Clients_proofs`), `GazeboBackend` (with `GazeboServer`), `EpisodeFrames` (with `Rendering`) | section 4 |
| `MC*` | instances for TLC, where constants are records, functions or sequences; the other modules are checked as they are | – |

Abstractions. What LeRobot, MuJoCo, PyBullet, ROS and the file system compute is left out: inference and
dataset calls are steps that may raise, the dynamics take a joint anywhere within its travel, a sample is
its time, its world (number of resets) and the instant it was taken for. `next_time += interval` is exact.
In `Motion` torque, velocity control laws, twist kinematics and the root hold are not modelled;
`PybulletBackend` distinguishes a torque, which acts in one step beside the motor, from a position or
velocity command, which sets the motor (what the code relies on PyBullet for, lines 290-315). `Motion`
counts time in physics steps, `SimCapture` in ticks with a step and an interval of any length. Of a file
in a slot the version it was realized from and the meshes that were read for it are kept; of meshes,
masses and materials whether they are complete, and the order of the lines of an OBJ. Histories that no
code keeps: `born`, `failed`, `epoch`, `runs`, `halted`, `seen`, `alone`, `spoiled`, `quiet`, `forgotten`,
`dangling`, `spent`, `overlapped`, `history`.

The definitions named `Mutant...` are plausible bugs of the definition that follows them. They are
used nowhere; putting one in its place must break the property `PROJECT.json` pairs it with.

## 3. Runs

| Run | Result | Shows |
|---|---|---|
| `capture` | passes | a capture stopped and another started, and a reset, with physics and a consumer still inside the first: `NoBufferLost`, `Backpressure` (simulated time waits), `OnSchedule` (jitter of one step, no drift), `OneHolder`, `StopUnblocks`, and `SimCapture` implements `CaptureStream` (`StreamSpec`) |
| `active_control` | passes | two clients, two workers: `OnePolicyLoop`, `SessionOwnsSampling`, `SavedIsComplete`, `LostToReleaseOnly`, `StopReturns` |
| `active_exclusive` | violated | `Exclusive`: the late `release` of a replay that is over takes the mode of the next replay, and a policy starts beside it |
| `policy_pacing` | passes | `ObservationSpacing`: exactly one interval apart however long inference takes; `ActionLatency` |
| `motion` | passes | `WaiterServed`, `PointsOnTime`, `StopHolds`, `HeldInPlace`, `TrajectoryReturns` |
| `agent` | passes | two requests of a session: `CallsAnswered` (the calls that are executed have their results in place), `KeepsSession` (implements `AgentSession`), `ListedIsServed`, `RunsEnd` |
| `realization` | passes | two compiles, edits (of meshes too, which are read again), removed files, one fault: `CachedIsCurrent` (a compile nothing disturbed hands out what it read), `ListedExist` |
| `scene` | passes | 46,376 states: every package of `MCScene`, for each backend: `AsAuthored` (links, cameras, lights, robot where the package has them; MuJoCo's robot is the robot), `PartsAgree` (two OBJ readers agree) |
| `pybullet` | passes | `PauseHolds` (one step after a pause at most), `StopForgets` (no motor runs for what was given before a stop; a torque acts in one step and no more), `ReportedInForce` (the motor's command, or a torque that waits or has acted), `PoseReachesNamed` |
| `gazebo` | passes | `NoProcessLeft` (unless the shutdown raised; children not covered), `ListedIsSubscribed` (but for topics whose subscribing raised), `ReadingsAdvance`, `NavigationEnds` |
| `teleop` | passes | `RestsAtEnd` (unless the stream failed or the keyboard left a target in motion), `NoEpisodeLeft` (but for lost answers) |
| `recording` | passes | 248,911 states: `OneInstant` (a reading, images included), `FramesTrue` (of position commands), `ByName` (values reach the joints they came from, also on another robot), `ReadingsEnd` |

**Bounds, and why they are enough.** `SimCapture`: two buffers (one queued and one read, and the pool can
run empty), two threads, of which one fetches samples and both stop captures, one reset, two captures (a
third would meet the first two as the second met the first). `StepTicks = 3`, `Interval = 2` in the
capture run, so that two samples can fall due in one step, and `1`, `2` in the policy run, so that steps
pass between samples; `MaxTime` is 6 and 9, which covers the pool running empty and a sample after it.
With `MaxTime` physics stops stepping: that is why deadlock is not checked, here and elsewhere (runs,
resets, workers, goals and instants are bounded too, and a server or a session that is over does nothing).
It is checked in `realization` and `pybullet`. `ActiveControl`: two clients and two workers let one
request overlap the end of one run and the start of the next; both kinds of backend are initial states.
`Motion`: a gripper joint with a mimic follower, a normalized travel of `0..1` mapped backwards; plans
with two points due at one instant and with points in two steps; three time steps, two trajectories (the
second may start while the first's caller is still inside its wait), one reset. Commands include a zero
velocity, a name outside the group after one inside it, and a mode nobody knows. Whether the base is free
is an initial choice. `Agent`: two requests with up to two concurrent tool calls each, so that calls of
one request and of two meet on the connection's lock; two rounds with the model (one that calls tools and
one that answers, and the limit is reached), two attempts per call, and a history of four messages, which
is one less than such a request has, so that trimming cuts a request. `Realization`: four versions of a
package: one that only moves an object, one whose mesh is replaced and with the digest the file it is
realized into, one whose mesh is replaced under the digest it had; the files of assets are made with
meshes read again, the scene's is not; two compilers (symmetric), two edits (there and back: the case a
key alone cannot tell) and one fault (a kill, an exception or a removed file). `scene`: articulations of
two joints, in a chain and from one root, with six frames (moved, turned, both, a right angle, one that
Euler angles do not determine) on the first joint and three on the second; all malformed shapes of two
joints over three links; a package for each thing that may be missing; robots of five links with every
combination of fixed and massless connectors; robots among furniture with fewer and with more joints; all
OBJ files of up to five lines. `PybulletBackend`: two clients (symmetric), two joints in three groups, two
bodies, two commands and two resets: a command before and one after the reset that a stop or a pose
overlaps. `GazeboBackend`: two executor threads and the main one, so that two discoveries and two messages
can overlap; one topic, as nothing of the code relates topics; a topic can vanish and come back (two
changes), messages carry two stamps, one goal runs. `Teleop`: two Cartesian and two joint targets, so that
there is one to switch to on each side; a queue of two, which may be cut anywhere; up to two buttons
pressed between two readings of the Joy-Con, whose events are taken one step at a time: that is every pair
of a switch with a switch, a save, a retry or a stop. `EpisodeFrames`: one client and the recorder read,
one camera, one buffer, two instants after the first, one command, one sample, one episode, one change of
Gazebo's sensors; the dataset is then used by any other robot of the instance. `RobotsAssumption` says
what a robot is: joints and groups have names of their own, and outside Gazebo a group lists joints that
the robot reports. An SRDF group that lists the link of a free base, whose joint is not reported, is
therefore outside the model.

**Fairness.** `SimCapture`: the physics loop and a call that was entered go on, each wait being timed;
nobody has to enter a call. `ActiveControl`: threads go on, but no sample need ever arrive (the
simulation may be paused, which is why `WorkerSample` is not fair and stopping a capture has to
unblock its consumer); two steps that need the recorder's lock are strongly fair, the lock being given
back after finitely many steps but contended: a `threading.RLock` promises no queue, so this is an
assumption about the scheduler. `Motion`: the physics thread steps and callers that can return do.
Physics is held back by an empty capture pool in the code; `TrajectoryReturns` is thus conditional on
a consumer that fetches its samples or stops its capture, which `StopUnblocks` completes. It also
exempts a physics thread that died. `Agent`: the model's client has a timeout and so has a tool call;
the connection's `asyncio.Lock` is served in order of arrival, hence strong fairness of entering it.
Connecting has no timeout: `RunsEnd` supposes that it ends. Local tools are supposed to return.
`GazeboBackend`: ROS delivers the callbacks of a goal it has answered, and the polling call goes on
(it sleeps between looks); that ROS answers is not assumed, nor that a client or a timer does anything.
`EpisodeFrames`, with `Rendering`'s steps: threads go on; taking the state lock is strongly fair, as above.

**Divergences found.** The violated run is the finding of `PROJECT.json`. For the rest the statement of
the document is kept in its module with a configuration that TLC finds violated
(`tlc -config ActiveLeak.cfg ActiveControl.tla` and so on):

| Configuration, property | The code | What is said |
|---|---|---|
| `ActiveLeak`, `RecordInProgress` | an `episode_start` that raises keeps the activity (`recorder_lerobot.py:92`) | the error "'record' is already in progress" |
| `ActiveOrphan`, `NobodyLeftWaiting` | `stop_sim_capture` clears a capture it did not stop; its consumer waits (`backend.py:1104`) | "unblocks both the physics and the consumer thread" (`backend.py:1098`) |
| `PolicyReset`, `QueueOfThisWorld` | after a reset, samples of the old world fill the action queue again (`policy_lerobot.py:204`) | `DESIGN.md:919` |
| `MotionReplay`, `Replayable` | recorded actions of normalized joints are not the commands that set them (`backend.py:718`) | `DESIGN.md:910` |
| `MotionReset`, `ResetRestores` | a reset does not restore the scene's initial joint positions (`backend.py:1190`) | `README.md:230` |
| `AgentRetry`, `RetryReconnects` | the second attempt gives up, having closed the session itself (`mcp_client.py:190`) | `mcp_client.py:227` |
| `RealizationHit`, `HitIsCurrent` | an edit between reading the package and its checksums (TLC's trace), of the meshes while files are written (`mujoco_openusd_package.py:943`), or back after a crash, and the cache hands out something else than the package (`:222`) | `docs/mujoco-openusd-asset-compiler.md:413-414` |
| `ScenePybullet`, `PybulletAsAuthored` | joints below a moved child frame are misplaced | `docs/openusd-csd-asset-contract.md:352-358` |
| `SceneRobot`, `GroupsKept` | a compiled robot has no SRDF (`mujoco_openusd_package.py:387-427`) | `DESIGN.md:135`, `docs/mujoco-openusd-asset-compiler.md:278` |
| `TeleopKeyboard`, `SwitchLeavesNothing` | a switch of one kind of target forgets the velocity of the other (`servo_keyboard.py:454`; `teleop.py:115` does it right) | `DESIGN.md:952`, `:974` |

Smaller ones met on the way, most of them exceptions that a property names:

- *MuJoCo motion and capture.* A trajectory writes the targets of the joints it names and not those of
  their mimic followers (`backend.py:954`, against `DESIGN.md:725`). `docs/policy-sim-time-pacing.md:29`
  gives the depth of the pool as the bound on an action's delay; `ActionLatency` shows that many
  intervals plus one and a physics step, because the sample in the consumer's hand has returned its
  buffer before inference begins. A reset leaves `next_time` of a running capture, and a running
  trajectory, ahead of simulated time: both stand still until it has caught up. An unknown control mode
  is accepted and ends the physics thread (`backend.py:1247`). A trajectory that an emergency stop
  aborted returns as a completed one does. `get_sensors` renders under the state lock (`backend.py:982`).
- *MuJoCo's robot.* Without an SRDF, furniture with more joints is taken for the robot (a known limit
  in `docs/scene-articulation-boundary-fix.md`); the root hold uses that guess even with an SRDF; a group
  that lists the link of a free base gets the free joint; a cycle of groups raises at start-up.
- *Recording.* With Gazebo the command state is the last goal, so the action of other joints is zero;
  positions are zero before the first joint state; an end-effector group cannot be recorded; sensors
  without data at the start make later frames not fit; a replay needs exactly a controller's group. An
  episode of joints that no group covers cannot be replayed. A render error loses the capture's buffer.
  A shutdown never ends a recording (`server.py:160`).
- *Scenes.* Joints in a circle beside the root are dropped by PyBullet's compiler; its robots are always
  fixed. Roll-pitch-yaw at a right angle of pitch loses the other two. Gazebo names meshes relative to the
  world, so that an ordinary package, whose meshes are outside the slot, is refused with `ValueError`
  (`gazebo_openusd_package.py:503`, against `README.md:23`); its cameras keep the USD orientation. MuJoCo
  draws a whole mesh once per object of its OBJ. Gazebo's compiler writes the parts of an OBJ it divides
  beside it into the package (`gazebo_openusd_package.py:573`). MuJoCo's does not copy meshes: what it
  loads later is the package's files, which an edit changes under a realization.
- *PyBullet.* Commands that are rejected are recorded and reported. A stop during a reset returns without
  having stopped anything (`StopForgets` shows that it does no harm). One step follows a pause. An emergency
  stop sets motors only (`backend.py:457`): a torque given before it still acts in the next step. A torque
  does not replace the motor: the position or velocity commanded before goes on being driven to, and what
  is reported is the torque, also when its one step is over.
- *Gazebo.* Discoveries that overlap subscribe twice and leak one; capabilities are not looked at again
  when topics only vanish; a navigation client destroyed under a call, or a shutdown, leaves the call
  polling; a client that goes away leaves its goal running. The shutdown has no `try` (`server.py:160-167`):
  if stopping the gRPC server, the policy or the backend raises, the runtime is not stopped and its processes
  stay. They are started through `ros2 run` (`runtime.py:59`), whose child no signal of the runtime reaches: it
  outlives the server if the wrapper does not pass the signal on or is killed. A `create_subscription` that
  raises leaves the record it was made for (`backend.py:287`): the sensor is listed without a subscription
  until the next discovery, and if its topic goes before that, for good. A topic removed and found again
  starts anew and may take an older message.
- *Teleoperation.* Closing the channel after a second cuts the queue of commands; a lost answer to
  `episode_start` leaves a recording on.
- *Agent.* A tool call that timed out is made again (`mcp_client.py:269`). An answer that has tool calls and
  another finish reason than `tool_calls` (cut at the token limit, for instance) is taken for the final one
  and stored with calls that have no results (`agent.py:103`, `:177`); the next request of the session sends
  it on, which a model's service refuses, until trimming drops it. `CallsAnswered` says where such an answer
  can be, and no more.

## 4. Proofs

All theorems are `Spec => []Inv`, `Spec => [][A]_vars`, or that one specification implements another
(`Spec => StreamSpec`, `PolicySpec => Spec`), for every value of the
constants that satisfies the named assumptions of the module; the bounds (`MaxTime`, `MaxCaptures`, ...)
are arbitrary naturals.

*`SimCapture_proofs`*: `CaptureTypeOK`, `CaptureOneHolder`, `CaptureNoBufferLost`,
`CaptureBackpressure`, `CaptureSnapshotStable`, `CaptureOnSchedule`, `CaptureImplementsStream`. `OneHolder`
is inductive only together with the types and `Handles`: a thread inside a call refers to a capture
that was started and, when it reads, to a buffer that exists; captures not yet started are empty. That a
stale physics thread cannot harm the next capture rests on capture objects never being reused.
`Backpressure` speaks of what physics may do between two steps, so it needs `PhysicsOnTime`, which says
at each place inside `_emit_capture_samples` how far time may be past the sampling instant, also when
the active capture is not the one physics is serving. `OnSchedule` adds that the grid is kept by
`next_time += interval` (`OneFurther`), and takes from `PhysicsOnTime` that a copy is made at most a step
late. *The refinement*: `CaptureStream`'s initial states are those of the code, and each of the code's
steps is `Open`, `Publish`, `HandOver`, `GiveBack`, `Close` or a stutter. What it takes is that the
consumer gets the samples in the order they were numbered (queues are kept as functions of the captures
for it), and that the abstract bound on samples in flight holds: `Room` counts the queued buffers, those
being read and the one physics holds as disjoint sets of the buffers there are.

*The policy, also in `SimCapture_proofs`*: `PolicyUsesCapture` shows that every step of `PolicyPacing` is a
step of `SimCapture` or leaves it alone, so that all of the above holds under a policy; `PolicyTypes`,
`PolicyObservationSpacing`, `PolicyActionLatency`. `PolicyInv` adds to the capture's invariant where the
policy thread is in the backend's calls for each place in its own loop (`Positions`), and that what it
took, what is in its hand and what is queued are the sampling instants 0, 1, 2, ... of its capture
(`Consecutive`, whenever it follows one: `Spaced`). Spacing is then subtraction; `ActionLatency` counts the
instants between the observation and the next one due by the buffers they occupy, and takes the rest from
`PhysicsOnTime`.

*`ActiveControl_proofs`*: `ActiveTypeOK`, `ActiveOnePolicyLoop`, `ActiveSessionOwnsSampling`,
`ActiveSavedIsComplete`, `ActiveLostToReleaseOnly`. The invariant (`ControlInv`) says which places each
kind of worker may be at (`Kinds`), that a policy's thread is the runner's until it clears `_thread`, and
a recording's thread that of the open session until it is done (`Owned`), that a request past its join
works on a thread that is done and that the one that sets a recording up has the recorder's lock
(`Requests`), under which there is neither session nor replay (`Recorder`), and that what was saved came
from threads that are done and did not raise (`Saved`). It does *not* say that the mode is held, which is
false (`Exclusive`); the last theorem says in which steps alone it is lost.

*`Motion_proofs`*: `MotionTypeOK`, `MotionWaiterServed`, `MotionStopHolds`, `MotionHeldInPlace`,
`MotionPointsOnTime`. `TypeOK` alone is not inductive: that positions stay within their travel when the
stabilizer sets held joints to their targets needs `HeldWhere`, which says that a held joint is where
it is held (`MotionInv`). `HeldInPlace` follows from `HeldWhere`. `PointsOnTime` needs plans in
order of time (`PlansAssumption`, what `execute_joint_trajectory` checks) and that the set of due points
has a maximum, `IndexMax`, proved from the well-foundedness of the naturals.

*`Realization_proofs`*: `RealizationTypeOK`, `RealizationListedExist`, `RealizationCachedIsCurrent`, for any
number of processes, edits and faults. The invariant (`CacheInv`) has three parts: a compile that writes
has put something into each file it is past (`Written`), a compile that is alone has put there what it
read (`AloneWrites`), and a slot nobody spoiled and nobody writes holds what its manifest says
(`SlotConsistent`). What a file holds is the version and the meshes that went into it; that a compile which
is alone wrote its own meshes rests on the package having them still while it writes (in `AloneWrites`).

*`PybulletBackend_proofs`*: `PybulletTypeOK`, `PybulletPauseHolds`, `PybulletStopForgets`,
`PybulletReportedInForce`, `PybulletPoseReachesNamed`. `PauseHolds` counts the steps the thread can still
make from where it is. `StopForgets` rests on commands being numbered in order of their calls and on a
world that is rebuilt having no motor on and no torque waiting; that a stop leaves no old torque for longer
than a step is that a step uses up all there are. `ReportedInForce` (whose torques wait, or had returned at
the last step, `spent`) is stated for a free lock and needs what holds
while it is taken. `PoseReachesNamed` holds because a rebuild appends bodies in the manifest's order, so
that an id that exists has the name it had.

*`Clients_proofs`*: `AgentTypes`, `AgentCallsAnswered`, `AgentNothingUnfinished`, `AgentConnection`,
`AgentLockGivenBack`, `AgentKeepsSession`, for any number of requests, rounds, calls per answer, attempts
and any length of the history kept. `CallsAnswered` speaks of whole contexts of calls that were executed;
inductive is what holds while calls are out (`Conversing`): the context is answered but for its last
message, and the calls under way are exactly those that message asks for. The lemmas say what appending a
message, appending the collected results and trimming the front do to an answered history: a cut may lose
calls but keeps what follows those that remain. Answers whose calls were not executed are followed through
all of it by `Conclusions`: only a request that goes to be saved ends with one. `NothingUnfinished` needs
that a request has in hand only its own messages and those of requests that are done (`Finished`).
`AgentConnection` joins `ListedIsServed` with `SessionStays` (nobody closes the session under a call) and
rests on `Holding`: whoever is past the lock is its holder, through connecting, calling and the back-off.
`AgentLockGivenBack` is the converse: while the lock is held, its holder is at work under it for a request
that waits for its calls (`HeldAtWork`), so that no failure, retry or cancellation leaves it taken. It is
what `RunsEnd` needs beside fairness, and uses `Conversing`: only a request that waits has calls under
way. `AgentKeepsSession` is a refinement. `AgentSession` knows no calls under way: an answer that asks for
tools and what they gave enter a conversation in one step, and a conversation enters the history whole or
not at all. The mapping (`Talk`) hides the answer whose calls are out, so that asking is a stutter and
collecting is the whole exchange; that what is collected completes what was hidden is `Conversing` again
(`ExchangeWhole`). Every cancellation, failed call and retry in between is a stutter, or the request's
failure. `TeleopNoEpisodeLeft` is about the other client, which the module extends as well: `EpisodeKnown`
says that the server records only what the tool knows of unless an answer was lost, and that the tool
knows of no episode where it starts one or has dropped it. `TeleopRestsAtEnd` (any catalogue of targets,
also one that names a target twice; any speeds and readings) needs to know where a queue that is still to
be applied leaves a target: the last command for it in the queue, or what it does now if there is none
(`Final`). Inductive is that this is what was asked of it last, and zero for a target that is not active
(`ToolRests`): sending settles one target and no other (`FinalAppend`), applying changes nothing of it
(`FinalApply`), a switch sends zero to what it leaves and comes to a target at rest (`SwitchRests`). The
exception `left` cannot be dropped: it is the finding of `TeleopKeyboard`.

*`GazeboBackend_proofs`*: `GazeboNoProcessLeft`, `GazeboListedIsSubscribed`, `GazeboReadingsAdvance`, for
any threads, topics, stamps and changes. `NoProcessLeft` needs that what runs is on the list of processes,
which is stopped from its end (`Listed`), or a child, which the theorem leaves out; a shutdown that raised
does not get to the state it speaks of. The other two are stated, as the runs check them, for executions
in which no two discoveries overlapped; under that condition `OneAtATime` is inductive: at most one thread
is inside a discovery, at most one subscription is being made, of a topic nobody is subscribed to, and the
records are those of the subscriptions, that one, and topics whose subscribing raised (`failed`).
`Unbuilt` covers the time before the timer starts. Without the condition they are false: overlapping
discoveries leak a subscription.

*`EpisodeFrames_proofs`*: `Renders`, `ReadingsOfOneInstant`, `ReadingsAreServed`, `Episodes`,
`FramesAreTrue`, `ValuesByName`, for any robots, requests, clients, cameras, buffers and lengths of an
episode, in two layers. `RenderInv`, of the threads: what a reader reads stands still, live data because
it keeps the state lock while it waits for the render thread, a buffer because it is neither free nor
filled (`Still`, `Distinct`); a request is of what its reader reads (`Asking`), and is in the queue once,
then drawn once, while its reader waits or has given up (`Queued`). `WaitInv` adds the invariant part of
`ReadingsEnd`: the state lock is kept across steps only by a thread that reads (`Kept`), whoever waits has
its answer or its request is still to be answered (`Served`), and the render thread ends only when the
backend stops (`Ending`). `EpisodeInv`, of what is made of readings: the history knows the targets of
every instant (`Past`), a filled buffer has those of its own (`Together`), a snapshot is of an instant as
far as it has got (`Snapshot`), the features are built from the plan (`Planned`), every frame made so far
is true (`Told`), every saved value is of the joint its dataset names (`Saved`), and a replay and a policy
use the dataset's names (`Used`). That by-name values arrive takes names without repetitions. The code
makes them so with a set of the names seen; the model says it as the places where a joint is named first,
in their order. That this is a sequence without gaps is `Ranked`: in a finite set of places every rank is
taken, and once, since the ranks are an injection into as many numbers.

**Only model-checked.** Liveness (`StopUnblocks`, `StopReturns`, `TrajectoryReturns`, `RunsEnd`,
`NavigationEnds`, `ReadingsEnd`), which is out of the prover's reach; what `RunsEnd` and `ReadingsEnd`
need of locks and queues at every moment is proved (`AgentLockGivenBack`, `ReadingsAreServed`).
`AsAuthored` and `PartsAgree` of the scene modules: what the recursive descriptions of articulations, and
the two readers of an OBJ, compute for every input is an induction over data as well. `MujocoRobot` is a
set of operators without states and is checked within `scene`. The type invariants, `SnapshotStable`,
`SessionStays` and `NothingUnfinished` (which `KeepsSession` implies) are proved and not checked again by
runs.

## 5. Not modelled

Listed with reasons under "components" in `PROJECT.json`.

- *Not at all*: reading and writing of CSD and OpenUSD documents (a list of independent conditions on
  the prims of one stage, no state), the scripts that collect or synthesize data, the client library and
  command-line tools (one RPC each), the agent's model client, speech, configuration and command line
  (outside services).
- *In part*: twist commands, the root hold, kinematics, named states and the viewer of the MuJoCo
  backend; rendering and the twist solver of PyBullet; transforms, conversions of messages and the
  feedback of navigation of Gazebo; controllers, plug-ins and semantics written for a Gazebo robot; meshes,
  masses, friction and textures of scenes; frame rates, dtypes and files of a dataset; the policy's
  wall-clock loop; `Memory.append`, which nothing calls, and disconnecting of the agent.
- *The server's pool of worker threads* (`server.py:107`): ten workers serve every RPC, and servo streams,
  trajectories and navigation keep theirs for as long as they run. Every model lets a request start when it
  is made; what a full pool delays, or blocks for ever behind ten streams, is not covered.

## 6. Plan

What is left, in order of importance; each extends what is there.

1. The pool of RPC workers over the long calls of all backends, and the server's shutdown with MuJoCo, its
   recorder and its policy.
2. An abstract motion control (commands, stop, pause, reset) that `Motion` and `PybulletBackend` both
   implement as far as both promise it.
3. `Frames`: the laws of composition as lemmas, from which `AsAuthored` for one joint follows for all frames.

A violated configuration gives way to a passing run as the documents and the code come to agree.
