---------------------------- MODULE GazeboServer ----------------------------
(***************************************************************************)
(* The server's life (serve_async in robosim/server.py) with Gazebo: the   *)
(* processes a manifest asks for (GazeboRuntime in robosim/backends/gazebo/ *)
(* runtime.py) are started, the backend and the services are built, and    *)
(* everything is put away in the reverse order, unless a step of that      *)
(* raises.                                                                 *)
(*                                                                         *)
(* A process may end by itself at any time and may ignore SIGTERM. What    *)
(* `ros2 run' starts is a child of the process the runtime knows, and      *)
(* outlives it unless it ends by itself: `ros2 run' is external, and need  *)
(* not pass a signal on. A signal to the server only sets an event, which  *)
(* is awaited once the server runs.                                        *)
(***************************************************************************)
EXTENDS Naturals, FiniteSets, SequencesExt

CONSTANTS Controllers     \* how many controllers the manifest lists

ASSUME GazeboServerAssumption == Controllers \in Nat

Processes == {"publisher", "gzserver", "gzclient"}
Children == {"publisher node", "spawner node"}      \* of `ros2 run'
ChildOf == [p \in Processes |-> IF p = "publisher" THEN {"publisher node"} ELSE {}]

VARIABLES
  manifest, headless,   \* a manifest was given; no viewer
  stage,                \* where serve_async is
  processes,            \* GazeboRuntime._processes
  running,              \* the processes and children that are alive
  terminated,           \* SIGTERM was sent to the last of the list
  spawned               \* controllers that are active

serverVars == <<manifest, headless, stage, processes, running, terminated, spawned>>

ServerInit ==
  /\ manifest \in BOOLEAN /\ headless \in IF manifest THEN BOOLEAN ELSE {TRUE}
  /\ stage = IF manifest THEN "launch" ELSE "construct"
  /\ processes = <<>> /\ running = {} /\ terminated = FALSE
  /\ spawned = 0

\* start: the list grows as each process starts.
Launch ==
  /\ stage = "launch"
  /\ LET next == IF processes = <<>> THEN "publisher" ELSE "gzserver"
     IN  /\ running' = running \cup {next} \cup ChildOf[next] /\ processes' = Append(processes, next)
         /\ stage' = IF next = "gzserver" THEN "spawn" ELSE stage
  /\ UNCHANGED <<manifest, headless, terminated, spawned>>

\* joint_state_broadcaster, then one controller per group, in gzserver's manager.
Spawn ==
  /\ stage = "spawn" /\ spawned <= Controllers
  /\ "gzserver" \in running
  /\ spawned' = spawned + 1
  /\ UNCHANGED <<manifest, headless, stage, processes, running, terminated>>

View ==
  /\ stage = "spawn" /\ spawned = Controllers + 1
  /\ stage' = "construct"
  /\ IF headless
       THEN UNCHANGED <<processes, running>>
       ELSE /\ processes' = Append(processes, "gzclient")
            /\ running' = running \cup {"gzclient"}
  /\ UNCHANGED <<manifest, headless, terminated, spawned>>

\* A process cannot be started, a spawner fails or takes more than thirty seconds: `ros2
\* run' is then killed.
StartFails ==
  /\ stage \in {"launch", "spawn"}
  /\ stage' = "abort"
  /\ \E left \in SUBSET (IF stage = "spawn" THEN {"spawner node"} ELSE {}) :
       running' = running \cup left
  /\ UNCHANGED <<manifest, headless, processes, terminated, spawned>>

\* The recorder, the policy runner, the gRPC server and its port.
Serve ==
  /\ stage = "services"
  /\ stage' \in {"serving", "stop"}
  /\ UNCHANGED <<manifest, headless, processes, running, terminated, spawned>>

\* A signal, which may have come before: the server drains for a second, the policy stops.
StopServing ==
  /\ stage = "serving"
  /\ stage' = "stop"
  /\ UNCHANGED <<manifest, headless, processes, running, terminated, spawned>>

\* server.stop or backend.shutdown raises: the rest of shutdown is left out, the runtime too.
ShutdownRaises ==
  /\ stage = "stop"
  /\ stage' = "raised"
  /\ UNCHANGED <<manifest, headless, processes, running, terminated, spawned>>

Exit(p) ==      \* a process ends, by itself or on SIGTERM
  /\ p \in running
  /\ running' = running \ {p}
  /\ UNCHANGED <<manifest, headless, stage, processes, terminated, spawned>>

(* GazeboRuntime.stop, last process first.                                 *)
Stopping == stage \in {"abort", "runtime"} /\ processes # <<>>

Terminate ==
  /\ Stopping /\ ~terminated
  /\ IF Last(processes) \in running
       THEN terminated' = TRUE /\ UNCHANGED processes
       ELSE processes' = Front(processes) /\ UNCHANGED terminated
  /\ UNCHANGED <<manifest, headless, stage, running, spawned>>

Ended ==
  /\ Stopping /\ terminated /\ Last(processes) \notin running
  /\ processes' = Front(processes) /\ terminated' = FALSE
  /\ UNCHANGED <<manifest, headless, stage, running, spawned>>

MutantKill ==
  /\ Stopping /\ terminated /\ Last(processes) \in running
  /\ processes' = Front(processes) /\ terminated' = FALSE
  /\ UNCHANGED <<manifest, headless, stage, running, spawned>>

Kill ==         \* after five seconds
  /\ Stopping /\ terminated /\ Last(processes) \in running
  /\ running' = running \ {Last(processes)}
  /\ processes' = Front(processes) /\ terminated' = FALSE
  /\ UNCHANGED <<manifest, headless, stage, spawned>>

\* start raises after it has stopped them, and the shutdown finds the list empty.
Stopped ==
  /\ stage \in {"abort", "runtime"} /\ processes = <<>>
  /\ stage' = IF stage = "abort" THEN "runtime" ELSE "returned"
  /\ UNCHANGED <<manifest, headless, processes, running, terminated, spawned>>

ServerNext ==
  \/ Launch \/ Spawn \/ View \/ StartFails \/ Serve \/ StopServing \/ ShutdownRaises
  \/ Terminate \/ Ended \/ Kill \/ Stopped
  \/ \E p \in Processes \cup Children : Exit(p)

-----------------------------------------------------------------------------
(* Properties.                                                             *)

\* When serve_async is over, normally, by a signal or because anything failed on the way
\* up, no process it started itself is left, unless the shutdown raised before it came to
\* the runtime. What those processes have started (Children) may be.
NoProcessLeft == stage = "returned" => running \cap Processes = {}
=============================================================================
