------------------------------ MODULE Rendering ------------------------------
(***************************************************************************)
(* Reading and rendering of the MuJoCo backend's sensors                   *)
(* (robosim/backends/mujoco/backend.py).                                   *)
(*                                                                         *)
(* Every image is drawn by one render thread, from a queue of requests.    *)
(* get_sensors asks for images of the live data with the state lock held   *)
(* and waits for each, so the physics stands still meanwhile; a sample of  *)
(* a capture is drawn from its buffer, without the lock.  Shutdown puts an *)
(* end mark behind the requests, and whoever waits gives up.               *)
(*                                                                         *)
(* What the data of an instant look like is left out: an instant is a      *)
(* number, live data change under the lock (a physics step, a reset, a     *)
(* pose), and pixels are the instant they show.  Queues and events of a    *)
(* capture are those of SimCapture, in one step each.  The viewer's window *)
(* and the sizes of images are left out.                                   *)
(***************************************************************************)
EXTENDS Naturals, Sequences, FiniteSets

CONSTANTS Clients,      \* threads that call get_sensors
          Recorder,     \* the thread that fetches the samples of a capture
          Cameras,      \* the number of cameras of the scene
          Buffers,      \* buffers of a capture
          MaxInstants,  \* bound: instants of the live data
          MaxReadings,  \* bound: MaxReadings[r] readings begun by thread r
          NoOne         \* nobody holds the state lock

ASSUME CamerasAssumption == Cameras \in Nat
ASSUME RecorderAssumption == Recorder \notin Clients
ASSUME NoOneAssumption == NoOne \notin Clients \cup {Recorder}
ASSUME BoundsAssumption == 
  MaxInstants \in Nat /\ MaxReadings \in [Clients \cup {Recorder} -> Nat]

Readers == Clients \cup {Recorder}
Live == "live"          \* self._data
EndMark == "end"        \* the None that ends the render thread
ASSUME DataAssumption == Live \notin Buffers /\ EndMark \notin Readers

VARIABLES
  now,       \* the instant of the live data
  lock,      \* who holds _state_lock across a wait, or NoOne
  due,       \* it owes the capture a sample
  open,      \* a capture is active and not stopped
  pool,      \* its free buffers
  samples,   \* its filled buffers, in order
  shows,     \* shows[b]: the instant buffer b holds
  queue,     \* _render_queue
  request,   \* request[r]: the request reader r waits for
  render,    \* the render thread: [pc, of]
  reader,    \* reader[r]: [pc, data, left, seen]
  begun,     \* begun[r]: readings r has begun
  stopping,  \* _stop_event
  shut       \* how far shutdown is

captureVars == <<due, open, pool, samples, shows>>
renderVars == <<queue, request, render>>
shutVars == <<stopping, shut>>
renderingVars == <<now, lock, captureVars, renderVars, reader, begun, shutVars>>

Nothing == [data |-> Live, done |-> FALSE, pixels |-> 0, failed |-> FALSE]
Resting == [pc |-> "idle", data |-> Live, left |-> 0, seen |-> {}]

RenderingTypeOK ==
  /\ now \in 0..MaxInstants /\ lock \in Readers \cup {NoOne}
  /\ due \in BOOLEAN /\ open \in BOOLEAN
  /\ pool \subseteq Buffers /\ samples \in Seq(Buffers)
  /\ shows \in [Buffers -> 0..MaxInstants]
  /\ queue \in Seq(Readers \cup {EndMark})
  /\ request \in [Readers -> [data : Buffers \cup {Live}, done : BOOLEAN,
                              pixels : 0..MaxInstants, failed : BOOLEAN]]
  /\ render.pc \in {"get", "draw", "answer", "ended"} /\ render.of \in Readers
  /\ \A r \in Readers :
       /\ reader[r].pc \in {"idle", "lock", "read", "wait", "raised", "gone"}
       /\ reader[r].data \in Buffers \cup {Live}
       /\ reader[r].left \in 0..Cameras /\ reader[r].seen \subseteq 0..MaxInstants
  /\ \A r \in Readers : begun[r] \in 0..MaxReadings[r]
  /\ stopping \in BOOLEAN
  /\ shut \in {"no", "capture", "mark", "viewer", "done"}

RenderingInit ==
  /\ now = 0 /\ lock = NoOne
  /\ due = FALSE /\ open = FALSE /\ pool = {} /\ samples = <<>>
  /\ shows = [b \in Buffers |-> 0]
  /\ queue = <<>> /\ request = [r \in Readers |-> Nothing]
  /\ render = [pc |-> "get", of |-> Recorder]
  /\ reader = [r \in Readers |-> Resting] /\ begun = [r \in Readers |-> 0]
  /\ stopping = FALSE /\ shut = "no"

-----------------------------------------------------------------------------
(* The physics thread.                                                     *)

\* A locked step (one that is under way at a shutdown may still come); with a sample owed it would have to wait first.
Step ==
  /\ lock = NoOne /\ now < MaxInstants /\ ~due
  /\ now' = now + 1 /\ due' = open
  /\ UNCHANGED <<lock, open, pool, samples, shows, renderVars, reader, begun, shutVars>>

\* The locked copy into a free buffer.
Emit == \E b \in pool :
  /\ due /\ lock = NoOne
  /\ shows' = [shows EXCEPT ![b] = now] /\ pool' = pool \ {b}
  /\ samples' = Append(samples, b) /\ due' = FALSE
  /\ UNCHANGED <<now, lock, open, renderVars, reader, begun, shutVars>>

\* Any other call that changes the live data, under the lock: reset_world,
\* set_object_pose, a joint's target.
Disturb ==
  /\ lock = NoOne /\ now < MaxInstants
  /\ now' = now + 1
  /\ UNCHANGED <<lock, captureVars, renderVars, reader, begun, shutVars>>

-----------------------------------------------------------------------------
(* Readers.                                                                *)

\* get_sensors is called, for any number of cameras.
Call(r) == \E n \in 0..Cameras :
  /\ reader[r].pc = "idle" /\ begun[r] < MaxReadings[r]
  /\ reader' = [reader EXCEPT ![r] = [Resting EXCEPT !.pc = "lock", !.left = n]]
  /\ begun' = [begun EXCEPT ![r] = @ + 1]
  /\ UNCHANGED <<now, lock, captureVars, renderVars, shutVars>>

MutantTakeLock(r) ==  \* mutant: get_sensors reads the live data without the lock
  /\ reader[r].pc = "lock" /\ lock = NoOne
  /\ reader' = [reader EXCEPT ![r].pc = "read", ![r].seen = {now}]
  /\ UNCHANGED <<now, lock, captureVars, renderVars, begun, shutVars>>

\* The lock is taken, and what needs no rendering is read.
TakeLock(r) ==
  /\ reader[r].pc = "lock" /\ lock = NoOne
  /\ lock' = r
  /\ reader' = [reader EXCEPT ![r].pc = "read", ![r].seen = {now}]
  /\ UNCHANGED <<now, captureVars, renderVars, begun, shutVars>>

\* start_sim_capture, the recorder not being inside an earlier one.
OpenCapture ==
  /\ ~open /\ reader[Recorder].pc = "idle" /\ lock = NoOne
  /\ open' = TRUE /\ due' = FALSE /\ pool' = Buffers /\ samples' = <<>>
  /\ UNCHANGED <<now, lock, shows, renderVars, reader, begun, shutVars>>

\* stop_sim_capture: the event ends the waits, and the capture is forgotten.
CloseCapture ==
  /\ lock = NoOne
  /\ open' = FALSE /\ due' = FALSE /\ pool' = {} /\ samples' = <<>>
  /\ UNCHANGED <<now, lock, shows, renderVars, reader, begun, shutVars>>

\* next_sim_capture has a sample and reads from it what needs no rendering.
Fetch == \E n \in 0..Cameras :
  /\ reader[Recorder].pc = "idle" /\ open /\ samples # <<>>
  /\ begun[Recorder] < MaxReadings[Recorder]
  /\ reader' = [reader EXCEPT ![Recorder] =
       [pc |-> "read", data |-> Head(samples), left |-> n, seen |-> {shows[Head(samples)]}]]
  /\ samples' = Tail(samples)
  /\ begun' = [begun EXCEPT ![Recorder] = @ + 1]
  /\ UNCHANGED <<now, lock, due, open, pool, shows, renderVars, shutVars>>

\* _render_camera puts a request for the next camera into the queue.
Ask(r) ==
  /\ reader[r].pc = "read" /\ reader[r].left > 0
  /\ request' = [request EXCEPT ![r] = [Nothing EXCEPT !.data = reader[r].data]]
  /\ queue' = Append(queue, r)
  /\ reader' = [reader EXCEPT ![r].pc = "wait", ![r].left = @ - 1]
  /\ UNCHANGED <<now, lock, captureVars, render, begun, shutVars>>

\* The request is done.
Answered(r) ==
  /\ reader[r].pc = "wait" /\ request[r].done /\ ~request[r].failed
  /\ request' = [request EXCEPT ![r] = Nothing]
  /\ reader' = [reader EXCEPT ![r].pc = "read", ![r].seen = @ \cup {request[r].pixels}]
  /\ UNCHANGED <<now, lock, captureVars, queue, render, begun, shutVars>>

Release(r) == lock' = IF lock = r THEN NoOne ELSE lock

\* Rendering failed: the error leaves the lock, and a sample's buffer is lost.
Failed(r) ==
  /\ reader[r].pc = "wait" /\ request[r].done /\ request[r].failed
  /\ request' = [request EXCEPT ![r] = Nothing]
  /\ reader' = [reader EXCEPT ![r] =
                  [Resting EXCEPT !.pc = IF r = Recorder THEN "raised" ELSE "idle"]]
  /\ Release(r)
  /\ UNCHANGED <<now, captureVars, queue, render, begun, shutVars>>

\* The wait timed out and the backend is stopping, whether or not the request
\* is done by now.  A thread that was told so makes no further call here.
GiveUp(r) ==
  /\ reader[r].pc = "wait" /\ stopping
  /\ reader' = [reader EXCEPT ![r] = [Resting EXCEPT !.pc = "gone"]]
  /\ request' = [request EXCEPT ![r] = Nothing]
  /\ Release(r)
  /\ UNCHANGED <<now, captureVars, queue, render, begun, shutVars>>

\* All was read: the lock is left, or the buffer goes back to its pool.
Finish(r) ==
  /\ reader[r].pc = "read" /\ reader[r].left = 0
  /\ reader' = [reader EXCEPT ![r] = Resting]
  /\ Release(r)
  /\ pool' = IF open /\ reader[r].data # Live THEN pool \cup {reader[r].data} ELSE pool
  /\ UNCHANGED <<now, due, open, samples, shows, renderVars, begun, shutVars>>

-----------------------------------------------------------------------------
(* The render thread.                                                      *)

\* The next request, or the end mark.
RenderGet ==
  /\ render.pc = "get" /\ queue # <<>>
  /\ queue' = Tail(queue)
  /\ render' = IF Head(queue) = EndMark THEN [render EXCEPT !.pc = "ended"]
               ELSE [pc |-> "draw", of |-> Head(queue)]
  /\ UNCHANGED <<now, lock, captureVars, request, reader, begun, shutVars>>

\* A request that its reader gave up is drawn for nobody.
Asked == reader[render.of].pc = "wait"

\* update_scene and render, on whatever the data hold by now; a renderer cannot
\* be made, or the camera is unknown.
RenderDraw ==
  /\ render.pc = "draw"
  /\ LET d == request[render.of].data
         drawn == IF d = Live THEN now ELSE shows[d]
     IN request' \in IF ~Asked THEN {request} ELSE
                     {[request EXCEPT ![render.of].pixels = drawn],
                      [request EXCEPT ![render.of].failed = TRUE]}
  /\ render' = [render EXCEPT !.pc = "answer"]
  /\ UNCHANGED <<now, lock, captureVars, queue, reader, begun, shutVars>>

MutantRenderAnswer ==  \* mutant: an error leaves the event of its request unset
  /\ render.pc = "answer"
  /\ request' = IF Asked /\ ~request[render.of].failed
                THEN [request EXCEPT ![render.of].done = TRUE] ELSE request
  /\ render' = [pc |-> "get", of |-> Recorder]
  /\ UNCHANGED <<now, lock, captureVars, queue, reader, begun, shutVars>>

\* The event of the request is set, after an error too.
RenderAnswer ==
  /\ render.pc = "answer"
  /\ request' = IF Asked THEN [request EXCEPT ![render.of].done = TRUE] ELSE request
  /\ render' = [pc |-> "get", of |-> Recorder]
  /\ UNCHANGED <<now, lock, captureVars, queue, reader, begun, shutVars>>

-----------------------------------------------------------------------------
(* Shutdown.  Its joins of the threads are timed, so that none of them says*)
(* that its thread has ended.                                              *)

ShutBegin ==
  /\ shut = "no"
  /\ shut' = "capture" /\ stopping' = TRUE
  /\ UNCHANGED <<now, lock, captureVars, renderVars, reader, begun>>

\* stop_sim_capture inside shutdown needs the lock when a capture is open.
ShutCapture ==
  /\ shut = "capture" /\ (open => lock = NoOne)
  /\ shut' = "mark"
  /\ open' = FALSE /\ due' = FALSE /\ pool' = {} /\ samples' = <<>>
  /\ UNCHANGED <<now, lock, shows, renderVars, reader, begun, stopping>>

ShutMark ==
  /\ shut = "mark"
  /\ shut' = "viewer" /\ queue' = Append(queue, EndMark)
  /\ UNCHANGED <<now, lock, captureVars, request, render, reader, begun, stopping>>

\* The viewer is closed under the lock.
ShutViewer ==
  /\ shut = "viewer" /\ lock = NoOne
  /\ shut' = "done"
  /\ UNCHANGED <<now, lock, captureVars, renderVars, reader, begun, stopping>>

\* The process ends, and another begins.
NewProcess ==
  /\ now' = 0 /\ lock' = NoOne
  /\ due' = FALSE /\ open' = FALSE /\ pool' = {} /\ samples' = <<>>
  /\ shows' = [b \in Buffers |-> 0]
  /\ queue' = <<>> /\ request' = [r \in Readers |-> Nothing]
  /\ render' = [pc |-> "get", of |-> Recorder]
  /\ reader' = [r \in Readers |-> Resting] /\ begun' = [r \in Readers |-> 0]
  /\ stopping' = FALSE /\ shut' = "no"

Render == RenderGet \/ RenderDraw \/ RenderAnswer
Shutdown == ShutBegin \/ ShutCapture \/ ShutMark \/ ShutViewer
ShutGoesOn == ShutCapture \/ ShutMark \/ ShutViewer

-----------------------------------------------------------------------------

\* Everything in a reading, the images and what was read without rendering, is
\* of one instant, although it is put together by two threads and the world
\* moves on as soon as nobody holds it back.
OneInstant == \A r \in Readers : Cardinality(reader[r].seen) <= 1

\* Every reading ends, with an answer or an error, also when rendering fails
\* or the backend shuts down; a shutdown ends, and the render thread with it.
ReadingsEnd ==
  /\ \A r \in Readers :
       reader[r].pc \in {"lock", "read", "wait"} ~> reader[r].pc \notin {"lock", "read", "wait"}
  /\ shut # "no" ~> shut = "done" /\ render.pc = "ended"
=============================================================================
