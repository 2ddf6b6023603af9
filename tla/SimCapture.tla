----------------------------- MODULE SimCapture -----------------------------
(***************************************************************************)
(* Simulated-time capture of the MuJoCo backend                            *)
(* (robosim/backends/mujoco/backend.py).                                   *)
(*                                                                         *)
(* One physics thread steps the world and, whenever simulated time has     *)
(* reached the next sampling instant of the active capture, copies the     *)
(* world into a buffer taken from the capture's pool and queues it.        *)
(* Other threads (RPC handlers, the recorder's sampling thread, the policy *)
(* thread) start a capture, fetch samples and stop the capture.            *)
(*                                                                         *)
(* Every atomic step below is a block under _state_lock, one operation on  *)
(* a queue.Queue or a threading.Event, or one read of self._sim_capture.   *)
(* A timed queue wait is the test of stop_event before it, then the wait,  *)
(* which succeeds or times out and goes back to the test.                  *)
(* Simulated time counts in ticks: a physics step is StepTicks of them, a  *)
(* sampling interval (1/fps) Interval of them; the floating-point rounding *)
(* of next_time += interval is abstracted away.  Physics is taken as never *)
(* failing, and the wall-clock pacing of the loop is left out.             *)
(***************************************************************************)
EXTENDS Naturals, Sequences, FiniteSets, Functions

CONSTANTS Threads,       \* threads that start and stop captures
          Consumers,     \* those of them that also fetch samples
          MaxCaptures,   \* bound: number of captures started
          BufferCount,   \* SIM_CAPTURE_BUFFER_COUNT
          StepTicks,     \* ticks of one physics step (opt.timestep)
          Interval,      \* ticks between two sampling instants (1 / fps)
          None,          \* "no capture" and "no buffer"
          MaxTime,       \* bound: simulated time explored by TLC
          MaxResets      \* bound: number of ResetWorld calls explored

ASSUME ThreadAssumption == Consumers \subseteq Threads
ASSUME TickAssumption == StepTicks \in Nat \ {0} /\ Interval \in Nat \ {0}
ASSUME BufferAssumption == BufferCount \in Nat \ {0}
ASSUME BoundAssumption ==
  MaxCaptures \in Nat /\ MaxTime \in Nat /\ MaxResets \in Nat

\* The _SimCapture objects, numbered in the order of their construction.
Captures == 1..MaxCaptures

\* The buffers of a capture, in the order they were put into its pool.
Buffers == 1..BufferCount

ASSUME NoneAssumption == None \notin Captures /\ None \notin Buffers

VARIABLES
  time,       \* data.time
  epoch,      \* number of world resets so far (part of the world's state)
  cur,        \* self._sim_capture
  created,    \* number of _SimCapture objects constructed so far
  stopped,    \* the captures whose stop_event is set
  next,       \* next[c]    : next_time of capture c
  born,       \* born[c]    : time and epoch at which c was started
  pool,       \* pool[c]    : queue of free buffers
  samples,    \* samples[c] : queue of filled buffers
  data,       \* data[c][b] : what buffer b of capture c holds
  failed,     \* captures on which a consumer raised while holding a buffer
  phys,       \* the physics thread: [pc, cap, buf]
  call        \* call[t]: what thread t is doing in the backend: [pc, cap, buf]

streamVars == <<cur, created, stopped, next, born, pool, samples, data, failed>>
vars == <<time, epoch, streamVars, phys, call>>

\* A copy of the world; due is the sampling instant it was copied for.
Snapshot == [at : Nat, epoch : Nat, due : Nat]
Blank == [at |-> 0, epoch |-> 0, due |-> 0]

PhysPC == {"step", "emit", "check", "acquire", "get", "copy"}
CallPC == {"idle", "test", "get", "read", "clear"}
PhysState == [pc : PhysPC, cap : Captures \cup {None}, buf : Buffers \cup {None}]
CallState == [pc : CallPC, cap : Captures \cup {None}, buf : Buffers \cup {None}]
Idle == [pc |-> "idle", cap |-> None, buf |-> None]

TypeOK ==
  /\ time \in Nat /\ epoch \in Nat
  /\ cur \in Captures \cup {None}
  /\ created \in 0..MaxCaptures
  /\ stopped \subseteq Captures
  /\ failed \subseteq Captures
  /\ next \in [Captures -> Nat]
  /\ born \in [Captures -> [at : Nat, epoch : Nat]]
  /\ pool \in [Captures -> Seq(Buffers)]
  /\ samples \in [Captures -> Seq(Buffers)]
  /\ data \in [Captures -> [Buffers -> Snapshot]]
  /\ phys \in PhysState
  /\ call \in [Threads -> CallState]

Init ==
  /\ time = 0 /\ epoch = 0
  /\ cur = None
  /\ created = 0 /\ stopped = {} /\ failed = {}
  /\ next = [c \in Captures |-> 0]
  /\ born = [c \in Captures |-> [at |-> 0, epoch |-> 0]]
  /\ pool = [c \in Captures |-> [b \in Buffers |-> b]]
  /\ samples = [c \in Captures |-> <<>>]
  /\ data = [c \in Captures |-> [b \in Buffers |-> Blank]]
  /\ phys = [pc |-> "step", cap |-> None, buf |-> None]
  /\ call = [t \in Threads |-> Idle]

-----------------------------------------------------------------------------
(* The physics thread: _simulation_loop, _emit_capture_samples and         *)
(* _acquire_capture_buffer.                                                *)

\* One iteration up to the end of its locked block.
PhysStep ==
  /\ phys.pc = "step"
  /\ time + StepTicks <= MaxTime
  /\ time' = time + StepTicks
  /\ phys' = [phys EXCEPT !.pc = "emit"]
  /\ UNCHANGED <<epoch, streamVars, call>>

\* The unlocked read of self._sim_capture that opens _emit_capture_samples.
EmitEnter ==
  /\ phys.pc = "emit"
  /\ phys' = IF cur = None THEN [phys EXCEPT !.pc = "step"]
             ELSE [pc |-> "check", cap |-> cur, buf |-> None]
  /\ UNCHANGED <<time, epoch, streamVars, call>>

\* The locked test for a due sample.
EmitCheck ==
  /\ phys.pc = "check"
  /\ phys' = IF cur # phys.cap \/ time < next[phys.cap]
             THEN [pc |-> "step", cap |-> None, buf |-> None]
             ELSE [phys EXCEPT !.pc = "acquire"]
  /\ UNCHANGED <<time, epoch, streamVars, call>>

\* The test of stop_event before each timed wait for a buffer.
AcquireTest ==
  /\ phys.pc = "acquire"
  /\ phys' = IF phys.cap \in stopped
             THEN [pc |-> "step", cap |-> None, buf |-> None]
             ELSE [phys EXCEPT !.pc = "get"]
  /\ UNCHANGED <<time, epoch, streamVars, call>>

\* pool.get() succeeds, whether or not stop_event was set meanwhile.
AcquireBuffer ==
  /\ phys.pc = "get" /\ pool[phys.cap] # <<>>
  /\ pool' = [pool EXCEPT ![phys.cap] = Tail(@)]
  /\ phys' = [phys EXCEPT !.pc = "copy", !.buf = Head(pool[phys.cap])]
  /\ UNCHANGED <<time, epoch, cur, created, stopped, next, born,
                 samples, data, failed, call>>

MutantAcquireTimeout ==  \* mutant: drops the sample instead of waiting on
  /\ phys.pc = "get" /\ pool[phys.cap] = <<>>
  /\ phys' = [pc |-> "step", cap |-> None, buf |-> None]
  /\ UNCHANGED <<time, epoch, streamVars, call>>

AcquireTimeout ==
  /\ phys.pc = "get" /\ pool[phys.cap] = <<>>
  /\ phys' = [phys EXCEPT !.pc = "acquire"]
  /\ UNCHANGED <<time, epoch, streamVars, call>>

MutantEmitRelative ==  \* mutant: next instant counted from now, not absolute
  /\ phys.pc = "copy" /\ cur = phys.cap
  /\ data' = [data EXCEPT ![cur][phys.buf] =
                [at |-> time, epoch |-> epoch, due |-> next[cur]]]
  /\ samples' = [samples EXCEPT ![cur] = Append(@, phys.buf)]
  /\ next' = [next EXCEPT ![cur] = time + Interval]
  /\ phys' = [phys EXCEPT !.pc = "check", !.buf = None]
  /\ UNCHANGED <<time, epoch, cur, created, stopped, born, pool, failed, call>>

MutantEmitUnchecked ==  \* mutant: does not look whether the capture is still active
  /\ phys.pc = "copy"
  /\ data' = [data EXCEPT ![phys.cap][phys.buf] =
                [at |-> time, epoch |-> epoch, due |-> next[phys.cap]]]
  /\ samples' = [samples EXCEPT ![phys.cap] = Append(@, phys.buf)]
  /\ next' = [next EXCEPT ![phys.cap] = @ + Interval]
  /\ phys' = [phys EXCEPT !.pc = "check", !.buf = None]
  /\ UNCHANGED <<time, epoch, cur, created, stopped, born, pool, failed, call>>

\* The locked copy; a capture replaced in the meantime gets nothing.
EmitCopy ==
  /\ phys.pc = "copy" /\ cur = phys.cap
  /\ data' = [data EXCEPT ![cur][phys.buf] =
                [at |-> time, epoch |-> epoch, due |-> next[cur]]]
  /\ samples' = [samples EXCEPT ![cur] = Append(@, phys.buf)]
  /\ next' = [next EXCEPT ![cur] = @ + Interval]
  /\ phys' = [phys EXCEPT !.pc = "check", !.buf = None]
  /\ UNCHANGED <<time, epoch, cur, created, stopped, born, pool, failed, call>>

EmitAbandon ==
  /\ phys.pc = "copy" /\ cur # phys.cap
  /\ phys' = [pc |-> "step", cap |-> None, buf |-> None]
  /\ UNCHANGED <<time, epoch, streamVars, call>>

Physics == \/ PhysStep \/ EmitEnter \/ EmitCheck
           \/ AcquireTest \/ AcquireBuffer \/ AcquireTimeout
           \/ EmitCopy \/ EmitAbandon

-----------------------------------------------------------------------------
(* Calls of the other threads.                                             *)

\* start_sim_capture; it raises, and changes nothing, while one is active.
StartCapture(t) ==
  /\ call[t].pc = "idle" /\ cur = None /\ created < MaxCaptures
  /\ created' = created + 1
  /\ cur' = created + 1
  /\ next' = [next EXCEPT ![cur'] = time]
  /\ born' = [born EXCEPT ![cur'] = [at |-> time, epoch |-> epoch]]
  /\ UNCHANGED <<time, epoch, stopped, pool, samples, data, failed, phys, call>>

\* next_sim_capture reads self._sim_capture once; it returns None, and changes
\* nothing, when there is none.
NextEnter(t) ==
  /\ call[t].pc = "idle" /\ cur # None
  /\ call' = [call EXCEPT ![t] = [pc |-> "test", cap |-> cur, buf |-> None]]
  /\ UNCHANGED <<time, epoch, streamVars, phys>>

MutantNextTest(t) ==  \* mutant: waits for samples without looking at stop_event
  /\ call[t].pc = "test"
  /\ call' = [call EXCEPT ![t].pc = "get"]
  /\ UNCHANGED <<time, epoch, streamVars, phys>>

\* The test of stop_event before each timed wait for a sample.
NextTest(t) ==
  /\ call[t].pc = "test"
  /\ call' = [call EXCEPT ![t] = IF @.cap \in stopped THEN Idle
                                 ELSE [@ EXCEPT !.pc = "get"]]
  /\ UNCHANGED <<time, epoch, streamVars, phys>>

MutantNextPeek(t) == LET c == call[t].cap IN  \* mutant: leaves the sample queued
  /\ call[t].pc = "get" /\ samples[c] # <<>>
  /\ call' = [call EXCEPT ![t].pc = "read", ![t].buf = Head(samples[c])]
  /\ UNCHANGED <<time, epoch, streamVars, phys>>

\* samples.get() succeeds, whether or not stop_event was set meanwhile.
NextGot(t) == LET c == call[t].cap IN
  /\ call[t].pc = "get" /\ samples[c] # <<>>
  /\ samples' = [samples EXCEPT ![c] = Tail(@)]
  /\ call' = [call EXCEPT ![t].pc = "read", ![t].buf = Head(samples[c])]
  /\ UNCHANGED <<time, epoch, cur, created, stopped, next, born, pool,
                 data, failed, phys>>

NextTimeout(t) ==
  /\ call[t].pc = "get" /\ samples[call[t].cap] = <<>>
  /\ call' = [call EXCEPT ![t].pc = "test"]
  /\ UNCHANGED <<time, epoch, streamVars, phys>>

MutantNextKeep(t) ==  \* mutant: never puts the buffer back
  /\ call[t].pc = "read"
  /\ call' = [call EXCEPT ![t] = Idle]
  /\ UNCHANGED <<time, epoch, streamVars, phys>>

\* State extraction and rendering are done: the buffer goes back to the pool.
\* What a free buffer holds is never read, so it is forgotten.
NextReturn(t) == LET c == call[t].cap IN
  /\ call[t].pc = "read"
  /\ pool' = [pool EXCEPT ![c] = Append(@, call[t].buf)]
  /\ data' = [data EXCEPT ![c][call[t].buf] = Blank]
  /\ call' = [call EXCEPT ![t] = Idle]
  /\ UNCHANGED <<time, epoch, cur, created, stopped, next, born,
                 samples, failed, phys>>

\* Extraction or rendering raises: the buffer is not returned to the pool.
NextRaise(t) ==
  /\ call[t].pc = "read"
  /\ failed' = failed \cup {call[t].cap}
  /\ call' = [call EXCEPT ![t] = Idle]
  /\ UNCHANGED <<time, epoch, cur, created, stopped, next, born, pool,
                 samples, data, phys>>

\* stop_sim_capture up to stop_event.set(); with no capture it does nothing.
StopEnter(t) ==
  /\ call[t].pc = "idle" /\ cur # None
  /\ stopped' = stopped \cup {cur}
  /\ call' = [call EXCEPT ![t] = [pc |-> "clear", cap |-> cur, buf |-> None]]
  /\ UNCHANGED <<time, epoch, cur, created, next, born, pool, samples, data,
                 failed, phys>>

\* The locked assignment that ends stop_sim_capture: it clears whatever
\* capture is active by then.
StopClear(t) ==
  /\ call[t].pc = "clear"
  /\ cur' = None
  /\ call' = [call EXCEPT ![t] = Idle]
  /\ UNCHANGED <<time, epoch, created, stopped, next, born, pool,
                 samples, data, failed, phys>>

\* reset_world: mj_resetData puts simulated time back to zero; the capture is
\* left as it is.
ResetWorld ==
  /\ epoch < MaxResets
  /\ time' = 0
  /\ epoch' = epoch + 1
  /\ UNCHANGED <<streamVars, phys, call>>

Continue(t) == \/ NextTest(t) \/ NextGot(t) \/ NextTimeout(t)
               \/ NextReturn(t) \/ NextRaise(t) \/ StopClear(t)

Next ==
  \/ Physics
  \/ ResetWorld
  \/ \E t \in Threads : StartCapture(t) \/ StopEnter(t) \/ StopClear(t)
  \/ \E t \in Consumers : \/ NextEnter(t) \/ NextTest(t) \/ NextGot(t)
                         \/ NextTimeout(t) \/ NextReturn(t) \/ NextRaise(t)

Spec == Init /\ [][Next]_vars

\* The physics thread runs freely and a call that was entered goes on; nobody
\* is obliged to enter a call.
FairSpec == Spec /\ WF_vars(Physics) /\ \A t \in Threads : WF_vars(Continue(t))

-----------------------------------------------------------------------------
(* Who holds a buffer of capture c.                                        *)

PhysicsHolds(c) == IF phys.pc = "copy" /\ phys.cap = c THEN {phys.buf} ELSE {}
Reading(c) == {t \in Threads : call[t].pc = "read" /\ call[t].cap = c}
Readers(c) == {call[t].buf : t \in Reading(c)}
Free(c) == Range(pool[c])
Queued(c) == Range(samples[c])

\* A buffer of capture c is in one place only.
HeldOnce(c) ==
  /\ Free(c) \cap Queued(c) = {}
  /\ Free(c) \cap PhysicsHolds(c) = {}
  /\ Free(c) \cap Readers(c) = {}
  /\ Queued(c) \cap PhysicsHolds(c) = {}
  /\ Queued(c) \cap Readers(c) = {}
  /\ PhysicsHolds(c) \cap Readers(c) = {}
  /\ IsInjective(pool[c]) /\ IsInjective(samples[c])
  /\ \A t, u \in Reading(c) : call[t].buf = call[u].buf => t = u

\* Physics, or thread t, is in a wait loop on a capture that has been stopped.
PhysicsWaitsInVain == phys.pc \in {"acquire", "get"} /\ phys.cap \in stopped
WaitsInVain(t) == call[t].pc \in {"test", "get"} /\ call[t].cap \in stopped

\* A buffer of a capture is in one place only: free, being filled by physics,
\* queued (once), or with one reader.  This is what lets the physics thread
\* fill a buffer and a consumer render from another without a lock.
OneHolder == \A c \in Captures : HeldOnce(c)

\* As long as no read of it raised, the active capture has lost no buffer: a
\* lost one would shrink the pool for the rest of the capture, and losing all
\* of them would halt simulated time.
NoBufferLost ==
  cur # None /\ cur \notin failed
    => Free(cur) \cup Queued(cur) \cup PhysicsHolds(cur) \cup Readers(cur) = Buffers

\* The world was not reset since capture c was started.
SameEpoch(c) == epoch = born[c].epoch

\* Backpressure: while a capture is active and not stopped, simulated time
\* never gets more than one physics step past a sampling instant that has no
\* sample yet, and no new step begins with a sample overdue.
Backpressure ==
  cur # None /\ cur \notin stopped /\ SameEpoch(cur)
    => /\ time <= next[cur] + StepTicks
       /\ phys.pc = "step" => time <= next[cur]

\* Sampling instants lie on the grid born + k * Interval, and a sample taken
\* while the world was not reset shows the world at its instant or at most one
\* physics step later: frame jitter of at most a step and no drift.
OnSchedule == \A c \in Captures :
  /\ (next[c] - born[c].at) % Interval = 0
  /\ \A b \in Queued(c) \cup Readers(c) :
       data[c][b].epoch = born[c].epoch
         => /\ (data[c][b].due - born[c].at) % Interval = 0
            /\ data[c][b].at \in data[c][b].due .. data[c][b].due + StepTicks

\* What a consumer reads, or has waiting in the queue, is never overwritten.
SnapshotStable == [][\A c \in Captures :
    \A b \in (Queued(c) \cup Readers(c)) \cap (Queued(c) \cup Readers(c))' :
      data'[c][b] = data[c][b]]_vars

\* stop_sim_capture "unblocks both the physics and the consumer thread": whoever
\* waits on a capture whose stop_event is set gets out of the wait.
StopUnblocks ==
  /\ PhysicsWaitsInVain ~> ~PhysicsWaitsInVain
  /\ \A t \in Consumers : WaitsInVain(t) ~> ~WaitsInVain(t)

-----------------------------------------------------------------------------
(* What the proofs strengthen these with.                                  *)

\* The capture and the buffer a thread works on exist; an unborn capture is
\* empty, and no capture was born in a world yet to come.
Handles ==
  /\ cur = None \/ cur \in 1..created
  /\ phys.pc \in {"check", "acquire", "get", "copy"} => phys.cap \in 1..created
  /\ phys.pc = "copy" => phys.buf \in Buffers
  /\ \A t \in Threads : call[t].pc # "idle" => call[t].cap \in 1..created
  /\ \A t \in Threads : call[t].pc = "read" => call[t].buf \in Buffers
  /\ \A c \in Captures : c > created => samples[c] = <<>>
  /\ \A c \in Captures : born[c].epoch <= epoch /\ born[c].at <= next[c]

\* Inside _emit_capture_samples: a capture started meanwhile has no sample
\* overdue, and the one being served has had its sample due for less than a
\* physics step once physics has found it not stopped.
PhysicsOnTime == cur # None /\ SameEpoch(cur) =>
  /\ phys.pc \in {"check", "acquire", "get", "copy"} /\ cur # phys.cap => time <= next[cur]
  /\ phys.pc = "acquire" /\ cur = phys.cap => next[cur] <= time
  /\ phys.pc \in {"get", "copy"} /\ cur = phys.cap
       => next[cur] <= time /\ time <= next[cur] + StepTicks

-----------------------------------------------------------------------------
(* Sim capture implements the stream of samples it promises.               *)

SamplesSent(c) == (next[c] - born[c].at) \div Interval
SampleNumber(c, b) == (data[c][b].due - born[c].at) \div Interval

Phase(c) == IF c > created THEN "new" ELSE IF cur = c THEN "open" ELSE "closed"
Chan(c) == [i \in DOMAIN samples[c] |-> SampleNumber(c, samples[c][i])]

Stream == INSTANCE CaptureStream WITH
  Capacity <- BufferCount,
  phase <- [c \in Captures |-> Phase(c)],
  sent <- [c \in Captures |-> SamplesSent(c)],
  chan <- [c \in Captures |-> Chan(c)],
  reading <- [c \in Captures |-> Cardinality(Reading(c))]

StreamSpec == Stream!Spec
=============================================================================
