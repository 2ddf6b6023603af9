---------------------------- MODULE PolicyPacing ----------------------------
(***************************************************************************)
(* The policy thread (robosim/core/impl/policy_lerobot.py, _run_loop with  *)
(* _sim_capture_loop and _infer_and_apply) on top of SimCapture: it starts *)
(* a capture at the control rate and, sample after sample, takes the next  *)
(* action of the policy and makes it the joint target of the backend.      *)
(*                                                                         *)
(* A chunking policy (LeRobot's, outside this repository) keeps a queue of *)
(* actions: select_action computes Chunk of them from the observation when *)
(* the queue is empty and takes the first; reset() empties the queue.      *)
(*                                                                         *)
(* Another thread may stop the policy (stop_policy), and one may reset the *)
(* world (SimulationServicer.ResetWorld: backend.reset_world and then      *)
(* policy_runner.notify_world_reset).                                      *)
(***************************************************************************)
EXTENDS SimCapture

CONSTANTS Runner,   \* the policy thread
          Stopper,  \* the thread that serves stop_policy
          Chunk     \* actions the policy computes at a time

ASSUME RunnerAssumption == Runner \in Consumers /\ Stopper \in Threads \ {Runner}
ASSUME ChunkAssumption == Chunk \in Nat \ {0}

VARIABLES
  loop,      \* where the policy thread is in its own code
  stopping,  \* the runner's _stop_event
  obs,       \* the observation in hand
  seen,      \* number of observations since the thread was started
  queue,     \* the policy's queue: how many actions, computed from what
  notify     \* ResetWorld is between reset_world and notify_world_reset

policyVars == <<loop, stopping, obs, seen, queue, notify>>
allVars == <<vars, policyVars>>

Acting == {"infer", "apply"}
LoopPC == {"new", "open", "top", "next", "stop", "over"} \cup Acting
NoPlan == [left |-> 0, from |-> Blank]

PolicyTypeOK ==
  /\ TypeOK
  /\ loop \in LoopPC /\ stopping \in BOOLEAN /\ notify \in BOOLEAN
  /\ obs \in Snapshot /\ seen \in Nat /\ queue \in [left : 0..(Chunk - 1), from : Snapshot]

PolicyInit ==
  /\ Init
  /\ loop = "new" /\ stopping = FALSE /\ notify = FALSE
  /\ obs = Blank /\ seen = 0 /\ queue = NoPlan

-----------------------------------------------------------------------------
(* The policy thread.                                                      *)

\* start_policy resets the policy and starts the thread.
StartPolicy ==
  /\ loop \in {"new", "over"} /\ created < MaxCaptures
  /\ loop' = "open" /\ stopping' = FALSE /\ queue' = NoPlan /\ seen' = 0
  /\ UNCHANGED <<vars, obs, notify>>

LoopOpen ==
  /\ loop = "open" /\ StartCapture(Runner)
  /\ loop' = "top"
  /\ UNCHANGED <<stopping, obs, seen, queue, notify>>

\* The test of _stop_event; next_sim_capture returns None when there is no
\* capture any more.
LoopTop ==
  /\ loop = "top"
  /\ IF stopping \/ cur = None
     THEN loop' = "stop" /\ UNCHANGED vars
     ELSE loop' = "next" /\ NextEnter(Runner)
  /\ UNCHANGED <<stopping, obs, seen, queue, notify>>

\* next_sim_capture waits; it returns None once its capture is stopped.
LoopWait ==
  /\ loop = "next"
  /\ NextTest(Runner) \/ NextTimeout(Runner) \/ NextGot(Runner)
  /\ loop' = IF call'[Runner].pc = "idle" THEN "stop" ELSE "next"
  /\ UNCHANGED <<stopping, obs, seen, queue, notify>>

\* It returns the sample, whose buffer is in the pool again by then.
LoopObserve ==
  /\ loop = "next" /\ NextReturn(Runner)
  /\ obs' = data[call[Runner].cap][call[Runner].buf]
  /\ seen' = seen + 1
  /\ loop' = "infer"
  /\ UNCHANGED <<stopping, queue, notify>>

\* The locked block of _infer_and_apply, with select_action.
LoopInfer ==
  /\ loop = "infer"
  /\ queue' = IF queue.left = 0 THEN [left |-> Chunk - 1, from |-> obs]
              ELSE [queue EXCEPT !.left = @ - 1]
  /\ loop' = "apply"
  /\ UNCHANGED <<vars, stopping, obs, seen, notify>>

\* set_joint_target.
LoopApply ==
  /\ loop = "apply"
  /\ loop' = "top"
  /\ UNCHANGED <<vars, stopping, obs, seen, queue, notify>>

\* Fetching the sample, inferring or applying raises.
LoopRaises ==
  /\ \/ loop = "next" /\ NextRaise(Runner)
     \/ loop \in Acting /\ UNCHANGED vars
  /\ loop' = "stop"
  /\ UNCHANGED <<stopping, obs, seen, queue, notify>>

\* stop_sim_capture in the finally clause, then the end of _run_loop, which
\* clears _stop_event.
LoopStop ==
  /\ loop = "stop"
  /\ \/ cur = None /\ call[Runner].pc = "idle" /\ loop' = "over" /\ UNCHANGED vars
     \/ StopEnter(Runner) /\ UNCHANGED loop
     \/ StopClear(Runner) /\ loop' = "over"
  /\ stopping' = IF loop' = "over" THEN FALSE ELSE stopping
  /\ UNCHANGED <<obs, seen, queue, notify>>

PolicyLoop == \/ LoopOpen \/ LoopTop \/ LoopWait \/ LoopObserve
              \/ LoopInfer \/ LoopApply \/ LoopRaises \/ LoopStop

-----------------------------------------------------------------------------
(* The threads around it.                                                  *)

\* stop_policy: the locked block, then stop_sim_capture; joining the thread and
\* requests made while another one is served are left to ActiveControl.
StopPolicy ==
  /\ \/ /\ loop \notin {"new", "over"} /\ ~stopping /\ call[Stopper].pc = "idle"
        /\ stopping' = TRUE /\ UNCHANGED vars
     \/ stopping /\ StopEnter(Stopper) /\ UNCHANGED stopping
     \/ StopClear(Stopper) /\ UNCHANGED stopping
  /\ UNCHANGED <<loop, obs, seen, queue, notify>>

\* SimulationServicer.ResetWorld: the backend first.
ResetBackend ==
  /\ ~notify /\ ResetWorld
  /\ notify' = TRUE
  /\ UNCHANGED <<loop, stopping, obs, seen, queue>>

\* notify_world_reset: policy.reset() under the runner's lock.
NotifyReset ==
  /\ notify
  /\ notify' = FALSE /\ queue' = NoPlan
  /\ UNCHANGED <<vars, loop, stopping, obs, seen>>

PolicyNext ==
  \/ Physics /\ UNCHANGED policyVars
  \/ StartPolicy \/ PolicyLoop
  \/ StopPolicy \/ ResetBackend \/ NotifyReset

PolicySpec == PolicyInit /\ [][PolicyNext]_allVars

-----------------------------------------------------------------------------
(* How old an action is, and what it is an action for.                     *)

\* The policy acts on a sample of a capture that goes on, in the world the
\* sample shows.
ActsLive == loop \in Acting /\ cur # None /\ cur \notin stopped
              /\ obs.epoch = epoch /\ SameEpoch(cur)

\* Inference may take any time: the world the action is for is at most
\* BufferCount + 1 sampling intervals and a physics step ahead of the
\* observation it is computed from, because simulated time then waits.
ActionLatency ==
  ActsLive => time <= obs.due + (BufferCount + 1) * Interval + StepTicks

\* The k-th observation a policy acts upon is of sampling instant k - 1 of its
\* capture: they are exactly one interval of simulated time apart, however long
\* inference takes, none is skipped and none is seen twice.
ObservationSpacing ==
  loop \in Acting => obs.due = born[created].at + (seen - 1) * Interval

\* After a world reset "policy.reset() clears the queue of actions and the
\* history": once ResetWorld is over the queue holds no action computed from
\* what the world was before it.
QueueOfThisWorld == ~notify /\ queue.left > 0 => queue.from.epoch = epoch
=============================================================================
