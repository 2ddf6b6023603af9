--------------------------- MODULE ActiveControl ---------------------------
(***************************************************************************)
(* Who controls the robot: the ActivityCoordinator                         *)
(* (robosim/core/activity.py) together with its three users, the episode   *)
(* recorder and its replay (robosim/core/impl/recorder_lerobot.py) and the *)
(* policy runner (robosim/core/impl/policy_lerobot.py), on a backend with  *)
(* or without sim capture.                                                 *)
(*                                                                         *)
(* Clients are threads of the RPC server, each serving one request at a    *)
(* time.  Workers are the threads these requests create: one per started   *)
(* policy, one per started episode.  Worker w begins at most one capture,  *)
(* named w too; SimCapture.tla has the inside of a capture, of which only  *)
(* self._sim_capture (cur) and the stop events (stopped) remain here.  A   *)
(* step is a block under one lock, or a call on the backend.  What the     *)
(* LeRobot dataset and policy compute is left out, except that each call   *)
(* of theirs may raise.                                                    *)
(***************************************************************************)
EXTENDS Naturals, FiniteSets

CONSTANTS Clients,      \* threads serving requests
          MaxWorkers,   \* bound: worker threads ever created
          NoClient      \* nobody holds the recorder's lock

ASSUME WorkerAssumption == MaxWorkers \in Nat
ASSUME ClientAssumption == NoClient \notin Clients

Workers == 1..MaxWorkers
None == 0               \* no worker, no capture

VARIABLES
  simCapture,  \* the backend offers start/next/stop_sim_capture (MuJoCo does)
  mode,        \* ActivityCoordinator._active_mode
  recLock,     \* the client inside episode_start's locked body
  session,     \* the recorder's _session, by its worker
  replaying,   \* the recorder's _replay_active
  loaded,      \* the policy runner has a policy
  thread,      \* the policy runner's _thread
  polStop,     \* the policy runner's _stop_event
  sesStop,     \* the sessions whose stop_event is set
  failure,     \* the sessions whose sampling raised
  pending,     \* the sessions whose dataset has frames not saved or cleared
  saved,       \* the sessions whose frames were saved as an episode
  cur,         \* the backend's _sim_capture
  stopped,     \* the captures whose stop_event is set
  created,     \* number of workers created so far
  worker,      \* worker[w]: [kind, pc, cap]
  client       \* client[c]: [pc, of, save]

recVars == <<session, sesStop, failure, pending, saved>>
polVars == <<loaded, thread, polStop>>
capVars == <<cur, stopped>>
vars == <<simCapture, mode, recLock, replaying, recVars, polVars, capVars,
          created, worker, client>>

Modes == {"none", "record", "replay", "policy"}
LoopPC == {"open", "check", "enter", "wait", "act"}
WorkerPC == LoopPC \cup {"unborn", "stop", "clear", "fin", "release", "done"}
ClientPC == {"idle", "plan", "stop", "clear", "join", "save", "drop", "release",
             "replay", "releaseReplay"}
IdleClient == [pc |-> "idle", of |-> None, save |-> FALSE]

TypeOK ==
  /\ simCapture \in BOOLEAN /\ mode \in Modes
  /\ recLock \in Clients \cup {NoClient}
  /\ session \in Workers \cup {None} /\ thread \in Workers \cup {None}
  /\ replaying \in BOOLEAN /\ loaded \in BOOLEAN /\ polStop \in BOOLEAN
  /\ sesStop \subseteq Workers /\ failure \subseteq Workers
  /\ pending \subseteq Workers /\ saved \subseteq Workers
  /\ cur \in Workers \cup {None} /\ stopped \subseteq Workers
  /\ created \in 0..MaxWorkers
  /\ worker \in [Workers -> [kind : {"none", "policy", "record"}, pc : WorkerPC,
                             cap : Workers \cup {None}]]
  /\ client \in [Clients -> [pc : ClientPC, of : Workers \cup {None},
                             save : BOOLEAN]]

Init ==
  /\ simCapture \in BOOLEAN
  /\ mode = "none" /\ recLock = NoClient
  /\ session = None /\ replaying = FALSE
  /\ loaded = FALSE /\ thread = None /\ polStop = FALSE
  /\ sesStop = {} /\ failure = {} /\ pending = {} /\ saved = {}
  /\ cur = None /\ stopped = {}
  /\ created = 0
  /\ worker = [w \in Workers |-> [kind |-> "none", pc |-> "unborn", cap |-> None]]
  /\ client = [c \in Clients |-> IdleClient]

-----------------------------------------------------------------------------
(* ActivityCoordinator.                                                    *)

MutantAcquire(m) == mode' = m  \* mutant: another active mode does not refuse it

\* acquire: taken again, without a count, by a mode that is active already.
Acquire(m) == mode \in {"none", m} /\ mode' = m

\* release: whoever holds the mode, it is free afterwards.
Release(m) == mode' = IF mode = m THEN "none" ELSE mode

-----------------------------------------------------------------------------
(* stop_sim_capture, called by clients and by workers; Stopped and Cleared *)
(* say what becomes of its caller.                                         *)

ReadAndStop == stopped' = IF cur = None THEN stopped ELSE stopped \cup {cur}
ClearCapture == cur' = None

-----------------------------------------------------------------------------
(* The policy runner's requests.                                           *)

\* load_policy: refused while a policy thread exists.
LoadPolicy(c) ==
  /\ client[c].pc = "idle" /\ thread = None /\ ~loaded
  /\ loaded' = TRUE
  /\ UNCHANGED <<simCapture, mode, recLock, replaying, recVars, thread, polStop,
                 capVars, created, worker, client>>

MutantStartPolicy(c) ==  \* mutant: does not look for a running thread
  /\ client[c].pc = "idle" /\ loaded
  /\ created < MaxWorkers
  /\ Acquire("policy")
  /\ polStop' = FALSE
  /\ created' = created + 1
  /\ thread' = created'
  /\ worker' = [worker EXCEPT ![created'] =
                  [kind |-> "policy", pc |-> IF simCapture THEN "open" ELSE "check",
                   cap |-> None]]
  /\ UNCHANGED <<simCapture, recLock, replaying, recVars, loaded, capVars, client>>

\* start_policy: one block under the runner's lock.
StartPolicy(c) ==
  /\ client[c].pc = "idle" /\ loaded /\ thread = None
  /\ created < MaxWorkers
  /\ Acquire("policy")
  /\ polStop' = FALSE
  /\ created' = created + 1
  /\ thread' = created'
  /\ worker' = [worker EXCEPT ![created'] =
                  [kind |-> "policy", pc |-> IF simCapture THEN "open" ELSE "check",
                   cap |-> None]]
  /\ UNCHANGED <<simCapture, recLock, replaying, recVars, loaded, capVars, client>>

\* start_policy when policy.reset() raises: the activity is kept, with no thread.
StartPolicyRaises(c) ==
  /\ client[c].pc = "idle" /\ loaded /\ thread = None
  /\ Acquire("policy")
  /\ polStop' = FALSE
  /\ UNCHANGED <<simCapture, recLock, replaying, recVars, loaded, thread, capVars,
                 created, worker, client>>

\* stop_policy up to the end of its locked block; with no thread it returns.
StopPolicy(c) ==
  /\ client[c].pc = "idle" /\ thread # None
  /\ polStop' = TRUE
  /\ client' = [client EXCEPT ![c] = [IdleClient EXCEPT !.pc = "stop", !.of = thread]]
  /\ UNCHANGED <<simCapture, mode, recLock, replaying, recVars, loaded, thread,
                 capVars, created, worker>>

-----------------------------------------------------------------------------
(* The recorder's requests.                                                *)

\* episode_start up to the end of activity.acquire; the recorder's lock stays
\* taken.
EpisodeStart(c) ==
  /\ client[c].pc = "idle" /\ recLock = NoClient
  /\ session = None /\ ~replaying
  /\ Acquire("record")
  /\ recLock' = c
  /\ client' = [client EXCEPT ![c].pc = "plan"]
  /\ UNCHANGED <<simCapture, replaying, recVars, polVars, capVars, created, worker>>

\* _build_plan, _open_dataset or start_sim_capture raises: the lock is given
\* back and the activity kept.
EpisodeStartRaises(c) ==
  /\ client[c].pc = "plan"
  /\ recLock' = NoClient
  /\ client' = [client EXCEPT ![c] = IdleClient]
  /\ UNCHANGED <<simCapture, mode, replaying, recVars, polVars, capVars, created, worker>>

\* The rest of a successful episode_start.
EpisodeStarts(c) ==
  /\ client[c].pc = "plan" /\ created < MaxWorkers
  /\ simCapture => cur = None
  /\ created' = created + 1
  /\ session' = created'
  /\ IF simCapture
     THEN cur' = created' /\ UNCHANGED pending
     ELSE pending' = pending \cup {created'} /\ UNCHANGED cur
  /\ worker' = [worker EXCEPT ![created'] = [kind |-> "record", pc |-> "check", cap |-> None]]
  /\ recLock' = NoClient
  /\ client' = [client EXCEPT ![c] = IdleClient]
  /\ UNCHANGED <<simCapture, mode, replaying, sesStop, failure, saved, polVars, stopped>>

\* episode_end (save) and episode_cancel up to stop_event.set().
FinishEpisode(c) ==
  /\ client[c].pc = "idle" /\ recLock = NoClient /\ session # None
  /\ sesStop' = sesStop \cup {session}
  /\ \E save \in BOOLEAN :
       client' = [client EXCEPT ![c] = [pc |-> "stop", of |-> session, save |-> save]]
  /\ UNCHANGED <<simCapture, mode, recLock, replaying, session, failure, pending,
                 saved, polVars, capVars, created, worker>>

MutantClientStop(c) ==  \* mutant: joins without stopping the capture
  /\ client[c].pc = "stop"
  /\ client' = [client EXCEPT ![c].pc = "join"]
  /\ UNCHANGED <<simCapture, mode, recLock, replaying, recVars, polVars, capVars,
                 created, worker>>

\* A client's stop_sim_capture: the read of the capture and stop_event.set(),
\* then the locked assignment.
ClientStop(c) ==
  /\ client[c].pc = "stop"
  /\ IF simCapture THEN ReadAndStop ELSE UNCHANGED stopped
  /\ client' = [client EXCEPT ![c].pc = IF cur = None THEN "join" ELSE "clear"]
  /\ UNCHANGED <<simCapture, mode, recLock, replaying, recVars, polVars, cur,
                 created, worker>>

ClientClear(c) ==
  /\ client[c].pc = "clear"
  /\ ClearCapture
  /\ client' = [client EXCEPT ![c].pc = "join"]
  /\ UNCHANGED <<simCapture, mode, recLock, replaying, recVars, polVars, stopped,
                 created, worker>>

MutantClientJoin(c) ==  \* mutant: does not wait for the thread
  /\ client[c].pc = "join"
  /\ client' = [client EXCEPT ![c] = IF worker[@.of].kind = "policy" THEN IdleClient
                                     ELSE [@ EXCEPT !.pc = "save"]]
  /\ UNCHANGED <<simCapture, mode, recLock, replaying, recVars, polVars, capVars,
                 created, worker>>

\* thread.join() returns: stop_policy is over, an episode is saved or dropped.
ClientJoin(c) ==
  /\ client[c].pc = "join" /\ worker[client[c].of].pc = "done"
  /\ client' = [client EXCEPT ![c] = IF worker[@.of].kind = "policy" THEN IdleClient
                                     ELSE [@ EXCEPT !.pc = "save"]]
  /\ UNCHANGED <<simCapture, mode, recLock, replaying, recVars, polVars, capVars,
                 created, worker>>

\* The dataset part of _finish_episode, where saving or clearing the frames may
\* raise; a failed session is never saved.  The frames are not looked at again.
FinishSave(c) == LET w == client[c].of IN
  /\ client[c].pc = "save"
  /\ \/ client[c].save /\ w \in pending \ failure /\ saved' = saved \cup {w}
     \/ UNCHANGED saved
  /\ pending' = pending \ {w}
  /\ client' = [client EXCEPT ![c].pc = "drop"]
  /\ UNCHANGED <<simCapture, mode, recLock, replaying, session, sesStop, failure,
                 polVars, capVars, created, worker>>

\* Removing the directory of a dataset that stays empty raises in the finally
\* clause: the session is not dropped and the activity not released.
FinishCancelRaises(c) ==
  /\ client[c].pc = "drop" /\ ~client[c].save
  /\ client' = [client EXCEPT ![c] = IdleClient]
  /\ UNCHANGED <<simCapture, mode, recLock, replaying, recVars, polVars, capVars,
                 created, worker>>

MutantFinishDrop(c) ==  \* mutant: clears whatever session is open by now
  /\ client[c].pc = "drop" /\ recLock = NoClient
  /\ session' = None
  /\ client' = [client EXCEPT ![c].pc = "release"]
  /\ UNCHANGED <<simCapture, mode, recLock, replaying, sesStop, failure, pending,
                 saved, polVars, capVars, created, worker>>

\* The locked block of _finish_episode's finally clause.
FinishDrop(c) ==
  /\ client[c].pc = "drop" /\ recLock = NoClient
  /\ session' = IF session = client[c].of THEN None ELSE session
  /\ client' = [client EXCEPT ![c].pc = "release"]
  /\ UNCHANGED <<simCapture, mode, recLock, replaying, sesStop, failure, pending,
                 saved, polVars, capVars, created, worker>>

\* activity.release("record"), after the lock was given back.
FinishRelease(c) ==
  /\ client[c].pc = "release"
  /\ Release("record")
  /\ client' = [client EXCEPT ![c] = IdleClient]
  /\ UNCHANGED <<simCapture, recLock, replaying, recVars, polVars, capVars, created, worker>>

\* episode_replay up to the end of its first locked block.
EpisodeReplay(c) ==
  /\ client[c].pc = "idle" /\ recLock = NoClient
  /\ session = None /\ ~replaying
  /\ Acquire("replay")
  /\ replaying' = TRUE
  /\ client' = [client EXCEPT ![c].pc = "replay"]
  /\ UNCHANGED <<simCapture, recLock, recVars, polVars, capVars, created, worker>>

\* The actions are sent, or something raised: the second locked block, and
\* then activity.release("replay").
ReplayEnds(c) ==
  /\ client[c].pc = "replay" /\ recLock = NoClient
  /\ replaying' = FALSE
  /\ client' = [client EXCEPT ![c].pc = "releaseReplay"]
  /\ UNCHANGED <<simCapture, mode, recLock, recVars, polVars, capVars, created, worker>>

ReplayRelease(c) ==
  /\ client[c].pc = "releaseReplay"
  /\ Release("replay")
  /\ client' = [client EXCEPT ![c] = IdleClient]
  /\ UNCHANGED <<simCapture, recLock, replaying, recVars, polVars, capVars, created, worker>>

-----------------------------------------------------------------------------
(* The worker threads: _run_loop with _sim_capture_loop or _wall_clock_loop *)
(* of the policy runner, and the recorder's two loops of the same names.    *)

GoTo(w, pc) == worker' = [worker EXCEPT ![w].pc = pc, ![w].cap = None]

StopRequested(w) == IF worker[w].kind = "policy" THEN polStop ELSE w \in sesStop

\* Where the loop is left to: a policy thread stops its capture on the way out.
Leave(w) == GoTo(w, IF worker[w].kind = "record" THEN "done"
                    ELSE IF simCapture THEN "stop" ELSE "fin")

\* The policy thread's start_sim_capture; it raises while one is active.
WorkerOpen(w) ==
  /\ worker[w].pc = "open"
  /\ IF cur = None THEN cur' = w /\ GoTo(w, "check")
                   ELSE UNCHANGED cur /\ GoTo(w, "fin")
  /\ UNCHANGED <<simCapture, mode, recLock, replaying, recVars, polVars, stopped,
                 created, client>>

WorkerCheck(w) ==
  /\ worker[w].pc = "check"
  /\ IF StopRequested(w) THEN Leave(w) ELSE GoTo(w, IF simCapture THEN "enter" ELSE "act")
  /\ UNCHANGED <<simCapture, mode, recLock, replaying, recVars, polVars, capVars,
                 created, client>>

\* next_sim_capture: the read of self._sim_capture; None when there is none.
WorkerEnter(w) ==
  /\ worker[w].pc = "enter"
  /\ IF cur = None THEN Leave(w)
     ELSE worker' = [worker EXCEPT ![w].pc = "wait", ![w].cap = cur]
  /\ UNCHANGED <<simCapture, mode, recLock, replaying, recVars, polVars, capVars,
                 created, client>>

\* next_sim_capture returns None once the capture it waits on is stopped.
WorkerUnblocked(w) ==
  /\ worker[w].pc = "wait" /\ worker[w].cap \in stopped
  /\ Leave(w)
  /\ UNCHANGED <<simCapture, mode, recLock, replaying, recVars, polVars, capVars,
                 created, client>>

\* A sample arrives; the physics thread feeds the active capture only.
WorkerSample(w) ==
  /\ worker[w].pc = "wait" /\ worker[w].cap = cur
  /\ GoTo(w, "act")
  /\ UNCHANGED <<simCapture, mode, recLock, replaying, recVars, polVars, capVars,
                 created, client>>

\* The sample is used: a frame is added to the dataset, or an action inferred
\* and sent to the backend.
WorkerAct(w) ==
  /\ worker[w].pc = "act"
  /\ pending' = IF worker[w].kind = "record" THEN pending \cup {w} ELSE pending
  /\ GoTo(w, "check")
  /\ UNCHANGED <<simCapture, mode, recLock, replaying, session, sesStop, failure,
                 saved, polVars, capVars, created, client>>

\* Fetching or using the sample raises.  A recorder's thread notes the failure
\* in its session; it sets its stop event after it has stopped the capture.
WorkerRaises(w) ==
  /\ worker[w].pc = "act"
  /\ IF worker[w].kind = "policy"
     THEN Leave(w) /\ UNCHANGED <<sesStop, failure>>
     ELSE /\ recLock = NoClient
          /\ failure' = IF session = w THEN failure \cup {w} ELSE failure
          /\ sesStop' = IF simCapture THEN sesStop ELSE sesStop \cup {w}
          /\ GoTo(w, IF simCapture THEN "stop" ELSE "done")
  /\ UNCHANGED <<simCapture, mode, recLock, replaying, session, pending, saved,
                 polVars, capVars, created, client>>

\* A worker's stop_sim_capture.
AfterStop(w) == IF worker[w].kind = "policy" THEN "fin" ELSE "done"

WorkerStop(w) ==
  /\ worker[w].pc = "stop"
  /\ ReadAndStop
  /\ GoTo(w, IF cur = None THEN AfterStop(w) ELSE "clear")
  /\ sesStop' = IF cur = None /\ worker[w].kind = "record" THEN sesStop \cup {w} ELSE sesStop
  /\ UNCHANGED <<simCapture, mode, recLock, replaying, session, failure, pending,
                 saved, polVars, cur, created, client>>

WorkerClear(w) ==
  /\ worker[w].pc = "clear"
  /\ ClearCapture
  /\ GoTo(w, AfterStop(w))
  /\ sesStop' = IF worker[w].kind = "record" THEN sesStop \cup {w} ELSE sesStop
  /\ UNCHANGED <<simCapture, mode, recLock, replaying, session, failure, pending,
                 saved, polVars, stopped, created, client>>

\* The locked block of _run_loop's finally clause.
PolicyFin(w) ==
  /\ worker[w].pc = "fin"
  /\ thread' = None
  /\ polStop' = FALSE
  /\ GoTo(w, "release")
  /\ UNCHANGED <<simCapture, mode, recLock, replaying, recVars, loaded, capVars,
                 created, client>>

\* activity.release("policy"), after the lock was given back.
PolicyRelease(w) ==
  /\ worker[w].pc = "release"
  /\ Release("policy")
  /\ GoTo(w, "done")
  /\ UNCHANGED <<simCapture, recLock, replaying, recVars, polVars, capVars, created, client>>

-----------------------------------------------------------------------------
ClientContinues(c) ==
  \/ EpisodeStartRaises(c) \/ EpisodeStarts(c)
  \/ ClientStop(c) \/ ClientClear(c) \/ ClientJoin(c)
  \/ FinishSave(c) \/ FinishCancelRaises(c) \/ FinishDrop(c) \/ FinishRelease(c)
  \/ ReplayEnds(c) \/ ReplayRelease(c)

WorkerStep(w) ==
  \/ WorkerOpen(w) \/ WorkerCheck(w) \/ WorkerEnter(w) \/ WorkerUnblocked(w)
  \/ WorkerAct(w) \/ WorkerRaises(w)
  \/ WorkerStop(w) \/ WorkerClear(w) \/ PolicyFin(w) \/ PolicyRelease(w)

Next ==
  \/ \E c \in Clients : \/ LoadPolicy(c) \/ StartPolicy(c) \/ StartPolicyRaises(c)
                        \/ StopPolicy(c)
                        \/ EpisodeStart(c) \/ FinishEpisode(c) \/ EpisodeReplay(c)
                        \/ ClientContinues(c)
  \/ \E w \in Workers : WorkerStep(w) \/ WorkerSample(w)

Spec == Init /\ [][Next]_vars

\* Threads run, but no sample has to arrive: simulation may be paused.  A step
\* that takes the recorder's lock gets it in the end, though others take it again
\* and again.
FairSpec ==
  /\ Spec
  /\ \A c \in Clients : /\ WF_vars(ClientContinues(c))
                        /\ SF_vars(FinishDrop(c)) /\ SF_vars(ReplayEnds(c))
  /\ \A w \in Workers : WF_vars(WorkerStep(w))

-----------------------------------------------------------------------------
(* What holds.                                                             *)

InLoop(kind) == {w \in Workers : worker[w].kind = kind /\ worker[w].pc \in LoopPC}

\* A second policy thread is never in its control loop beside the first, even
\* though a new one may be started before the old one has ended.
OnePolicyLoop == Cardinality(InLoop("policy")) <= 1

\* The recorder's own guard: a live sampling thread is that of the open session
\* (no session is forgotten with its thread still adding frames), and nothing is
\* replayed while a session is open.
SessionOwnsSampling ==
  /\ \A w \in InLoop("record") : session = w
  /\ session # None => ~replaying

\* An episode is saved only when its sampling thread has ended and never raised.
SavedIsComplete ==
  /\ \A c \in Clients : client[c].pc \in {"save", "drop", "release"}
                          => worker[client[c].of].pc = "done"
  /\ saved \cap failure = {}

\* Each kind of control that drives or samples the robot, or is being set up
\* (episode_start has acquired the activity), has its mode.
Held ==
  /\ InLoop("policy") # {} => mode = "policy"
  /\ InLoop("record") # {} \/ recLock # NoClient => mode = "record"
  /\ replaying => mode = "replay"

\* A control loop loses its mode to nothing but a release of that mode: no
\* request takes a mode away from whoever has it.
LostToReleaseOnly ==
  [][Held /\ ~Held' => \/ \E c \in Clients : FinishRelease(c) \/ ReplayRelease(c)
                       \/ \E w \in Workers : PolicyRelease(w)]_vars

\* A worker waits on a capture that is neither active nor stopped.
Orphaned == \E w \in Workers :
  worker[w].pc = "wait" /\ worker[w].cap # cur /\ worker[w].cap \notin stopped

Stopping(c) == client[c].pc \in {"stop", "clear", "join", "save", "drop", "release"}

\* StopPolicy, EpisodeEnd and EpisodeCancel return, unless a capture was lost.
StopReturns == \A c \in Clients : Stopping(c) ~> (~Stopping(c) \/ Orphaned)

-----------------------------------------------------------------------------
(* What the documents say and the code does not do.                        *)

\* "At any time one backend instance has one active source of control." The release of
\* what has ended comes after its user's lock was given back (recorder_lerobot.py:163 and
\* 221, policy_lerobot.py:229), when the mode may be that of the next one.
Exclusive == Cardinality({k \in {"policy", "record"} : InLoop(k) # {}}
                           \cup {k \in {"replay"} : replaying}) <= 1

\* "'record' is already in progress": the recorder holds the activity only while
\* there is a session, or a request that begins or ends one.
RecordInProgress ==
  mode = "record" => \/ session # None
                     \/ \E c \in Clients : client[c].pc \in {"plan", "release"}

\* Stopping a capture "unblocks both the physics and the consumer thread": nobody
\* is left waiting on a capture that is no longer the active one.
NobodyLeftWaiting == ~Orphaned
=============================================================================
