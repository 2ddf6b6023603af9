------------------------ MODULE ActiveControl_proofs ------------------------
(***************************************************************************)
(* Theorems about ActiveControl, for any clients and any number of         *)
(* workers, on a backend with and without sim capture.                     *)
(***************************************************************************)
EXTENDS ActiveControl, FiniteSetTheorems, TLAPS

-----------------------------------------------------------------------------
(* Types, and what the steps of a worker leave alone.                      *)

WorkerRecord == [kind : {"none", "policy", "record"}, pc : WorkerPC,
                 cap : Workers \cup {None}]

\* A worker that goes on changes nothing of the others and keeps its kind.
LEMMA GoToEffect ==
  ASSUME worker \in [Workers -> WorkerRecord],
         NEW w \in Workers, NEW pc \in WorkerPC, NEW cap \in Workers \cup {None},
         worker' = [worker EXCEPT ![w].pc = pc, ![w].cap = cap]
  PROVE  /\ worker' \in [Workers -> WorkerRecord]
         /\ worker'[w].pc = pc /\ worker'[w].kind = worker[w].kind
         /\ \A v \in Workers : v # w => worker'[v] = worker[v]
BY DEF WorkerRecord

\* Where a worker can be after a step, by the place it was at.
After(w, pc) ==
  CASE worker[w].pc = "open"  -> pc \in {"check", "fin"}
    [] worker[w].pc \in {"check", "enter", "wait", "act"} ->
         \/ pc \in {"check", "enter", "wait", "act"}
         \/ worker[w].kind # "policy" /\ pc \in {"stop", "done"}
         \/ worker[w].kind # "record" /\ pc \in {"stop", "fin"}
    [] worker[w].pc \in {"stop", "clear"} -> pc \in {"clear", AfterStop(w)}
    [] worker[w].pc = "fin" -> pc = "release"
    [] worker[w].pc = "release" -> pc = "done"
    [] OTHER -> FALSE

LEMMA WorkerGoesOn ==
  ASSUME TypeOK, NEW w \in Workers, WorkerStep(w) \/ WorkerSample(w)
  PROVE  \E pc \in WorkerPC, cap \in Workers \cup {None} :
           After(w, pc) /\ worker' = [worker EXCEPT ![w].pc = pc, ![w].cap = cap]
<1> USE DEF GoTo, WorkerPC, LoopPC, After, AfterStop, Leave
<1> DEFINE Goal == \E pc \in WorkerPC, cap \in Workers \cup {None} :
           After(w, pc) /\ worker' = [worker EXCEPT ![w].pc = pc, ![w].cap = cap]
<1>1. CASE WorkerOpen(w)
  BY <1>1 DEF WorkerOpen
<1>2. CASE WorkerCheck(w)
  BY <1>2 DEF WorkerCheck
<1>3. CASE WorkerEnter(w)
  BY <1>3 DEF WorkerEnter, TypeOK
<1>4. CASE WorkerUnblocked(w)
  BY <1>4 DEF WorkerUnblocked
<1>5. CASE WorkerSample(w)
  BY <1>5 DEF WorkerSample
<1>6. CASE WorkerAct(w)
  BY <1>6 DEF WorkerAct
<1>7. CASE WorkerRaises(w)
  BY <1>7 DEF WorkerRaises
<1>8. CASE WorkerStop(w)
  BY <1>8 DEF WorkerStop
<1>9. CASE WorkerClear(w)
  BY <1>9 DEF WorkerClear
<1>10. CASE PolicyFin(w)
  BY <1>10 DEF PolicyFin
<1>11. CASE PolicyRelease(w)
  BY <1>11 DEF PolicyRelease
<1> QED BY <1>1, <1>2, <1>3, <1>4, <1>5, <1>6, <1>7, <1>8, <1>9, <1>10, <1>11 DEF WorkerStep

\* What a worker's step does to the rest.
LEMMA WorkerFrame ==
  ASSUME TypeOK, NEW w \in Workers, WorkerStep(w) \/ WorkerSample(w)
  PROVE  /\ UNCHANGED <<simCapture, recLock, replaying, session, saved, loaded, created, client>>
         /\ \/ thread' = thread
            \/ worker[w].pc = "fin" /\ thread' = None
         /\ \/ failure' = failure
            \/ worker[w].pc = "act" /\ failure' = failure \cup {w}
         /\ \/ mode' = mode
            \/ PolicyRelease(w) /\ mode' = "none"
         /\ cur' \in {cur, None, w} /\ polStop' \in {polStop, FALSE}
         /\ sesStop' \in {sesStop, sesStop \cup {w}}
         /\ stopped' \in {stopped, stopped \cup {cur}} /\ stopped' \subseteq Workers
         /\ pending' \in {pending, pending \cup {w}}
<1> USE DEF recVars, polVars, capVars
<1>1. CASE WorkerOpen(w)
  BY <1>1 DEF WorkerOpen, TypeOK
<1>2. CASE WorkerCheck(w)
  BY <1>2 DEF WorkerCheck, TypeOK
<1>3. CASE WorkerEnter(w)
  BY <1>3 DEF WorkerEnter, TypeOK
<1>4. CASE WorkerUnblocked(w)
  BY <1>4 DEF WorkerUnblocked, TypeOK
<1>5. CASE WorkerSample(w)
  BY <1>5 DEF WorkerSample, TypeOK
<1>6. CASE WorkerAct(w)
  BY <1>6 DEF WorkerAct, TypeOK
<1>7. CASE WorkerRaises(w)
  BY <1>7 DEF WorkerRaises, TypeOK, Leave, GoTo
<1>8. CASE WorkerStop(w)
  BY <1>8 DEF WorkerStop, TypeOK, ReadAndStop, None
<1>9. CASE WorkerClear(w)
  BY <1>9 DEF WorkerClear, TypeOK, ClearCapture
<1>10. CASE PolicyFin(w)
  BY <1>10 DEF PolicyFin, TypeOK
<1>11. CASE PolicyRelease(w)
  BY <1>11 DEF PolicyRelease, TypeOK, Release
<1> QED BY <1>1, <1>2, <1>3, <1>4, <1>5, <1>6, <1>7, <1>8, <1>9, <1>10, <1>11 DEF WorkerStep

\* A worker that is created.
LEMMA Created ==
  ASSUME worker \in [Workers -> WorkerRecord], NEW v \in Workers, NEW kind \in {"policy", "record"},
         NEW pc \in {"open", "check"},
         worker' = [worker EXCEPT ![v] = [kind |-> kind, pc |-> pc, cap |-> None]]
  PROVE  worker' \in [Workers -> WorkerRecord]
BY DEF WorkerRecord, WorkerPC, LoopPC

LEMMA TypeStep == TypeOK /\ [Next]_vars => TypeOK'
<1> SUFFICES ASSUME TypeOK, [Next]_vars PROVE TypeOK'
  OBVIOUS
<1> USE WorkerAssumption, ClientAssumption DEF recVars, polVars, capVars
<1>0. worker \in [Workers -> WorkerRecord]
  BY DEF TypeOK, WorkerRecord
<1>d. ASSUME worker' \in [Workers -> WorkerRecord]
      PROVE  worker' \in [Workers -> [kind : {"none", "policy", "record"}, pc : WorkerPC,
                                       cap : Workers \cup {None}]]
  BY <1>d DEF WorkerRecord
<1>1. ASSUME NEW c \in Clients, LoadPolicy(c) PROVE TypeOK'
  BY <1>1 DEF LoadPolicy, TypeOK, Modes, ClientPC
<1>2. ASSUME NEW c \in Clients, StartPolicy(c) PROVE TypeOK'
  <2>1. created + 1 \in Workers /\ created' = created + 1 /\ created' \in 0..MaxWorkers
    BY <1>2 DEF StartPolicy, TypeOK, Workers
  <2>2. worker' \in [Workers -> WorkerRecord]
    BY <1>0, <1>2, <2>1, Created DEF StartPolicy
  <2>3. created' \in Workers
    BY <2>1
  <2> QED BY <1>2, <1>d, <2>1, <2>2, <2>3 DEF StartPolicy, TypeOK, Modes, Acquire, ClientPC, IdleClient, None
<1>3. ASSUME NEW c \in Clients, StartPolicyRaises(c) PROVE TypeOK'
  BY <1>3 DEF StartPolicyRaises, Acquire, TypeOK, Modes, ClientPC
<1>4. ASSUME NEW c \in Clients, StopPolicy(c) PROVE TypeOK'
  BY <1>4 DEF StopPolicy, IdleClient, TypeOK, Modes, ClientPC, None
<1>5. ASSUME NEW c \in Clients, EpisodeStart(c) PROVE TypeOK'
  BY <1>5 DEF EpisodeStart, Acquire, TypeOK, Modes, ClientPC
<1>6. ASSUME NEW c \in Clients, FinishEpisode(c) PROVE TypeOK'
  BY <1>6 DEF FinishEpisode, IdleClient, TypeOK, Modes, ClientPC, None
<1>7. ASSUME NEW c \in Clients, EpisodeReplay(c) PROVE TypeOK'
  BY <1>7 DEF EpisodeReplay, Acquire, TypeOK, Modes, ClientPC
<1>8. ASSUME NEW c \in Clients, EpisodeStartRaises(c) PROVE TypeOK'
  BY <1>8 DEF EpisodeStartRaises, IdleClient, TypeOK, Modes, ClientPC, None
<1>9. ASSUME NEW c \in Clients, EpisodeStarts(c) PROVE TypeOK'
  <2>1. created + 1 \in Workers /\ created' = created + 1 /\ created' \in 0..MaxWorkers
    BY <1>9 DEF EpisodeStarts, TypeOK, Workers
  <2>2. worker' \in [Workers -> WorkerRecord]
    BY <1>0, <1>9, <2>1, Created DEF EpisodeStarts
  <2>3. created' \in Workers
    BY <2>1
  <2>4. client' \in [Clients -> [pc : ClientPC, of : Workers \cup {None}, save : BOOLEAN]]
    BY <1>9 DEF EpisodeStarts, TypeOK, IdleClient, ClientPC, None
  <2>5. cur' \in Workers \cup {None} /\ pending' \subseteq Workers
    BY <1>9, <2>3 DEF EpisodeStarts, TypeOK
  <2>6. session' \in Workers \cup {None} /\ recLock' = NoClient
    BY <1>9, <2>3 DEF EpisodeStarts
  <2>7. UNCHANGED <<simCapture, mode, replaying, sesStop, failure, saved, loaded, thread,
                    polStop, stopped>>
    BY <1>9 DEF EpisodeStarts
  <2> QED BY <1>d, <2>1, <2>2, <2>4, <2>5, <2>6, <2>7 DEF TypeOK
<1>10. ASSUME NEW c \in Clients, ClientStop(c) PROVE TypeOK'
  BY <1>10 DEF ClientStop, ReadAndStop, TypeOK, Modes, ClientPC
<1>11. ASSUME NEW c \in Clients, ClientClear(c) PROVE TypeOK'
  BY <1>11 DEF ClientClear, ClearCapture, TypeOK, Modes, ClientPC
<1>12. ASSUME NEW c \in Clients, ClientJoin(c) PROVE TypeOK'
  BY <1>12 DEF ClientJoin, IdleClient, TypeOK, Modes, ClientPC, None
<1>13. ASSUME NEW c \in Clients, FinishSave(c) PROVE TypeOK'
  BY <1>13 DEF FinishSave, TypeOK, Modes, ClientPC
<1>14. ASSUME NEW c \in Clients, FinishCancelRaises(c) PROVE TypeOK'
  BY <1>14 DEF FinishCancelRaises, IdleClient, TypeOK, Modes, ClientPC, None
<1>15. ASSUME NEW c \in Clients, FinishDrop(c) PROVE TypeOK'
  BY <1>15 DEF FinishDrop, TypeOK, Modes, ClientPC
<1>16. ASSUME NEW c \in Clients, FinishRelease(c) PROVE TypeOK'
  BY <1>16 DEF FinishRelease, Release, IdleClient, TypeOK, Modes, ClientPC, None
<1>17. ASSUME NEW c \in Clients, ReplayEnds(c) PROVE TypeOK'
  BY <1>17 DEF ReplayEnds, TypeOK, Modes, ClientPC
<1>18. ASSUME NEW c \in Clients, ReplayRelease(c) PROVE TypeOK'
  BY <1>18 DEF ReplayRelease, Release, IdleClient, TypeOK, Modes, ClientPC, None
<1>19. ASSUME NEW w \in Workers, WorkerStep(w) \/ WorkerSample(w) PROVE TypeOK'
  <2>1. worker' \in [Workers -> WorkerRecord]
    BY <1>0, <1>19, WorkerGoesOn, GoToEffect
  <2>2. UNCHANGED <<simCapture, recLock, replaying, session, saved, loaded, created, client>>
    BY <1>19, WorkerFrame
  <2>3. /\ thread' \in {thread, None} /\ failure' \in {failure, failure \cup {w}}
        /\ mode' \in {mode, "none"} /\ cur' \in {cur, None, w} /\ polStop' \in {polStop, FALSE}
        /\ sesStop' \in {sesStop, sesStop \cup {w}} /\ stopped' \subseteq Workers
        /\ pending' \in {pending, pending \cup {w}}
    BY <1>19, WorkerFrame
  <2>4. mode' \in Modes
    BY <2>3 DEF TypeOK, Modes
  <2>5. /\ thread' \in Workers \cup {None} /\ cur' \in Workers \cup {None} /\ polStop' \in BOOLEAN
        /\ failure' \subseteq Workers /\ sesStop' \subseteq Workers /\ pending' \subseteq Workers
    BY <2>3 DEF TypeOK
  <2> QED BY <1>d, <2>1, <2>2, <2>3, <2>4, <2>5 DEF TypeOK
<1>20. CASE UNCHANGED vars
  BY <1>20 DEF vars, TypeOK
<1> QED
  BY <1>1, <1>2, <1>3, <1>4, <1>5, <1>6, <1>7, <1>8, <1>9, <1>10, <1>11, <1>12, <1>13, <1>14,
     <1>15, <1>16, <1>17, <1>18, <1>19, <1>20
  DEF Next, ClientContinues

\* All variables keep to their types: there is a worker for each thread, session and
\* capture that is referred to.
THEOREM ActiveTypeOK == Spec => []TypeOK
<1>1. ASSUME Init PROVE TypeOK
  <2>1. 0 \in 0..MaxWorkers
    BY WorkerAssumption
  <2> QED BY <1>1, <2>1 DEF Init, TypeOK, IdleClient, Modes, WorkerPC, ClientPC, None
<1> QED BY <1>1, TypeStep, PTL DEF Spec
-----------------------------------------------------------------------------
(* Who owns a thread.                                                      *)

\* A worker that was created is a policy's or a recording's, and only a policy's opens a
\* capture or ends in _run_loop's finally clause.
Kinds ==
  \A w \in Workers :
    /\ worker[w].pc # "unborn" => worker[w].kind \in {"policy", "record"}
    /\ worker[w].pc \in {"open", "fin", "release"} => worker[w].kind = "policy"
    /\ w > created => worker[w].pc = "unborn"

\* Until it clears it under the lock, a policy's thread is the runner's; until it is done,
\* a recording's thread is the open session's.
Owned ==
  \A w \in Workers :
    /\ worker[w].kind = "policy" /\ worker[w].pc \notin {"unborn", "release", "done"}
         => thread = w
    /\ worker[w].kind = "record" /\ worker[w].pc \notin {"unborn", "done"} => session = w

\* A request that is past the join works on a session whose thread is done, and the one
\* that sets a recording up has the recorder's lock.
Requests ==
  \A c \in Clients :
    /\ client[c].pc \in {"stop", "clear", "join", "save", "drop", "release"}
         => client[c].of \in Workers
    /\ client[c].pc \in {"save", "drop", "release"} => worker[client[c].of].pc = "done"
    /\ client[c].pc = "plan" => recLock = c

\* Under the lock of a recording that is set up there is neither session nor replay, and
\* never both.
Recorder ==
  /\ recLock # NoClient => session = None /\ ~replaying
  /\ session # None => ~replaying

\* What was saved came from threads that are done and did not raise.
Saved ==
  /\ \A w \in saved : worker[w].pc = "done"
  /\ saved \cap failure = {}

ControlInv == Kinds /\ Owned /\ Requests /\ Recorder /\ Saved

LEMMA ControlStep == TypeOK /\ ControlInv /\ [Next]_vars => ControlInv'
<1> SUFFICES ASSUME TypeOK, ControlInv, [Next]_vars PROVE ControlInv'
  OBVIOUS
<1> USE WorkerAssumption, ClientAssumption DEF recVars, polVars, capVars,
        ControlInv, Kinds, Owned, Requests, Recorder, Saved
<1>0. /\ worker \in [Workers -> WorkerRecord]
      /\ client = [c \in Clients |-> client[c]]
      /\ \A c \in Clients : client[c] = [pc |-> client[c].pc, of |-> client[c].of,
                                         save |-> client[c].save]
      /\ None \notin Workers /\ session \in Workers \cup {None} /\ thread \in Workers \cup {None}
  BY DEF TypeOK, WorkerRecord, Workers, None
<1>1. ASSUME NEW c \in Clients, LoadPolicy(c) PROVE ControlInv'
  BY <1>0, <1>1 DEF LoadPolicy
<1>2. ASSUME NEW c \in Clients, StartPolicy(c) PROVE ControlInv'
  <2>1. /\ created + 1 \in Workers /\ created' = created + 1
        /\ \A w \in Workers : w > created' => w > created /\ w # created + 1
    BY <1>2 DEF StartPolicy, TypeOK, Workers
  <2>2. /\ worker'[created + 1].kind = "policy"
        /\ worker'[created + 1].pc \in {"open", "check"}
        /\ \A w \in Workers : w # created + 1 => worker'[w] = worker[w]
    BY <1>0, <1>2, <2>1 DEF StartPolicy, WorkerRecord
  <2>3. worker[created + 1].pc = "unborn"
    BY <2>1 DEF TypeOK
  <2>4. thread = None /\ thread' = created + 1
        /\ UNCHANGED <<recLock, replaying, session, saved, failure, client>>
    BY <1>2, <2>1 DEF StartPolicy
  <2>5. Kinds'
    BY <2>1, <2>2
  <2>6. Owned'
    BY <1>0, <2>1, <2>2, <2>3, <2>4
  <2>7. Requests' /\ Recorder' /\ Saved'
    BY <2>1, <2>2, <2>3, <2>4 DEF TypeOK
  <2> QED BY <2>5, <2>6, <2>7
<1>3. ASSUME NEW c \in Clients, StartPolicyRaises(c) PROVE ControlInv'
  BY <1>0, <1>3 DEF StartPolicyRaises
<1>4. ASSUME NEW c \in Clients, StopPolicy(c) PROVE ControlInv'
  BY <1>0, <1>4 DEF StopPolicy, IdleClient
<1>5. ASSUME NEW c \in Clients, EpisodeStart(c) PROVE ControlInv'
  BY <1>0, <1>5 DEF EpisodeStart
<1>6. ASSUME NEW c \in Clients, FinishEpisode(c) PROVE ControlInv'
  BY <1>0, <1>6 DEF FinishEpisode, IdleClient
<1>7. ASSUME NEW c \in Clients, EpisodeReplay(c) PROVE ControlInv'
  BY <1>0, <1>7 DEF EpisodeReplay
<1>8. ASSUME NEW c \in Clients, EpisodeStartRaises(c) PROVE ControlInv'
  BY <1>0, <1>8 DEF EpisodeStartRaises, IdleClient
<1>9. ASSUME NEW c \in Clients, EpisodeStarts(c) PROVE ControlInv'
  <2>1. /\ created + 1 \in Workers /\ created' = created + 1
        /\ \A w \in Workers : w > created' => w > created /\ w # created + 1
    BY <1>9 DEF EpisodeStarts, TypeOK, Workers
  <2>2. /\ worker'[created + 1].kind = "record"
        /\ worker'[created + 1].pc = "check"
        /\ \A w \in Workers : w # created + 1 => worker'[w] = worker[w]
    BY <1>0, <1>9, <2>1 DEF EpisodeStarts, WorkerRecord
  <2>3. worker[created + 1].pc = "unborn"
    BY <2>1 DEF TypeOK
  <2>4. recLock = c /\ recLock' = NoClient /\ session' = created + 1
        /\ client'[c].pc = "idle"
        /\ UNCHANGED <<replaying, saved, failure, thread>>
    BY <1>0, <1>9, <2>1 DEF EpisodeStarts, IdleClient
  <2>5. \A d \in Clients : d # c => client'[d] = client[d]
    BY <1>0, <1>9 DEF EpisodeStarts
  <2>6. Kinds'
    BY <2>1, <2>2
  <2>7. Owned'
    BY <1>0, <1>9, <2>1, <2>2, <2>3, <2>4 DEF EpisodeStarts
  <2>8. Requests'
    BY <2>1, <2>2, <2>3, <2>4, <2>5
  <2>9. Recorder' /\ Saved'
    BY <2>1, <2>2, <2>3, <2>4 DEF TypeOK
  <2> QED BY <2>6, <2>7, <2>8, <2>9
<1>10. ASSUME NEW c \in Clients, ClientStop(c) PROVE ControlInv'
  BY <1>0, <1>10 DEF ClientStop
<1>11. ASSUME NEW c \in Clients, ClientClear(c) PROVE ControlInv'
  BY <1>0, <1>11 DEF ClientClear
<1>12. ASSUME NEW c \in Clients, ClientJoin(c) PROVE ControlInv'
  BY <1>0, <1>12 DEF ClientJoin, IdleClient
<1>13. ASSUME NEW c \in Clients, FinishSave(c) PROVE ControlInv'
  BY <1>0, <1>13 DEF FinishSave
<1>14. ASSUME NEW c \in Clients, FinishCancelRaises(c) PROVE ControlInv'
  BY <1>0, <1>14 DEF FinishCancelRaises, IdleClient
<1>15. ASSUME NEW c \in Clients, FinishDrop(c) PROVE ControlInv'
  BY <1>0, <1>15 DEF FinishDrop
<1>16. ASSUME NEW c \in Clients, FinishRelease(c) PROVE ControlInv'
  BY <1>0, <1>16 DEF FinishRelease, IdleClient
<1>17. ASSUME NEW c \in Clients, ReplayEnds(c) PROVE ControlInv'
  BY <1>0, <1>17 DEF ReplayEnds
<1>18. ASSUME NEW c \in Clients, ReplayRelease(c) PROVE ControlInv'
  BY <1>0, <1>18 DEF ReplayRelease, IdleClient
<1>19. ASSUME NEW w \in Workers, WorkerStep(w) \/ WorkerSample(w) PROVE ControlInv'
  <2>1. PICK pc \in WorkerPC, cap \in Workers \cup {None} :
          After(w, pc) /\ worker' = [worker EXCEPT ![w].pc = pc, ![w].cap = cap]
    BY <1>19, WorkerGoesOn
  <2>2. /\ worker'[w].pc = pc /\ worker'[w].kind = worker[w].kind
        /\ \A v \in Workers : v # w => worker'[v] = worker[v]
    <3>1. worker \in [Workers -> WorkerRecord]
      BY <1>0
    <3>2. worker' = [worker EXCEPT ![w].pc = pc, ![w].cap = cap]
      BY <2>1
    <3> QED BY <3>1, <3>2 DEF WorkerRecord
  <2>3. /\ UNCHANGED <<recLock, replaying, session, saved, created, client>>
        /\ \/ thread' = thread
           \/ worker[w].pc = "fin" /\ thread' = None
        /\ \/ failure' = failure
           \/ worker[w].pc = "act" /\ failure' = failure \cup {w}
    BY <1>19, WorkerFrame
  <2>4. worker[w].pc \notin {"unborn", "done"}
    BY <2>1 DEF After
  <2>5. Kinds'
    <3>1. worker[w].kind \in {"policy", "record"} /\ ~(w > created)
      BY <2>4
    <3>2. pc \in {"open", "fin", "release"} => worker[w].kind = "policy"
      BY <2>1, <3>1 DEF After, AfterStop
    <3> HIDE DEF After
    <3> QED BY <2>2, <2>3, <3>1, <3>2
  <2>6. Owned'
    BY <1>0, <2>1, <2>2, <2>3, <2>4 DEF After, AfterStop
  <2>7. Requests' /\ Recorder'
    BY <2>2, <2>3, <2>4
  <2>8. Saved'
    BY <2>2, <2>3, <2>4, <1>0 DEF TypeOK
  <2> QED BY <2>5, <2>6, <2>7, <2>8
<1>20. CASE UNCHANGED vars
  BY <1>20 DEF vars
<1> QED
  BY <1>1, <1>2, <1>3, <1>4, <1>5, <1>6, <1>7, <1>8, <1>9, <1>10, <1>11, <1>12, <1>13, <1>14,
     <1>15, <1>16, <1>17, <1>18, <1>19, <1>20
  DEF Next, ClientContinues

LEMMA ActiveControlled == Spec => [](TypeOK /\ ControlInv)
<1>1. Init => ControlInv
  BY DEF Init, ControlInv, Kinds, Owned, Requests, Recorder, Saved, IdleClient
<1> QED BY <1>1, ControlStep, TypeStep, ActiveTypeOK, PTL DEF Spec

\* There is one policy thread at a time in its control loop.
THEOREM ActiveOnePolicyLoop == Spec => []OnePolicyLoop
<1>1. ASSUME TypeOK, ControlInv PROVE OnePolicyLoop
  <2>1. InLoop("policy") \subseteq {thread}
    BY <1>1 DEF ControlInv, Owned, InLoop, LoopPC
  <2>2. IsFiniteSet({thread}) /\ Cardinality({thread}) = 1
    BY FS_Singleton
  <2>3. IsFiniteSet(InLoop("policy")) /\ Cardinality(InLoop("policy")) <= Cardinality({thread})
    BY <2>1, <2>2, FS_Subset
  <2> QED BY <2>2, <2>3 DEF OnePolicyLoop
<1> QED BY <1>1, ActiveControlled, PTL

\* A thread that samples an episode is that of the open session, and nothing is replayed
\* while a session is open.
THEOREM ActiveSessionOwnsSampling == Spec => []SessionOwnsSampling
<1>1. TypeOK /\ ControlInv => SessionOwnsSampling
  BY DEF ControlInv, Owned, Recorder, SessionOwnsSampling, InLoop, LoopPC
<1> QED BY <1>1, ActiveControlled, PTL

\* An episode that is saved was sampled to its end by a thread that did not raise.
THEOREM ActiveSavedIsComplete == Spec => []SavedIsComplete
<1>1. TypeOK /\ ControlInv => SavedIsComplete
  BY DEF ControlInv, Requests, Saved, SavedIsComplete
<1> QED BY <1>1, ActiveControlled, PTL

-----------------------------------------------------------------------------
(* How a mode is lost.                                                     *)

Releases == \/ \E c \in Clients : FinishRelease(c) \/ ReplayRelease(c)
            \/ \E w \in Workers : PolicyRelease(w)

LEMMA HeldStep ==
  ASSUME TypeOK, ControlInv, [Next]_vars, Held, ~Releases
  PROVE  Held'
<1> USE ClientAssumption DEF Held, recVars, polVars, capVars
<1>0. worker \in [Workers -> WorkerRecord]
  BY DEF TypeOK, WorkerRecord
\* A step that creates nobody takes nobody into a loop.
<1>1. ASSUME \A w \in Workers : worker'[w].kind = worker[w].kind
                                /\ (worker'[w].pc \in LoopPC => worker[w].pc \in LoopPC)
      PROVE  \A kind \in {"policy", "record"} : InLoop(kind)' \subseteq InLoop(kind)
  BY <1>1 DEF InLoop
<1>2. ASSUME NEW c \in Clients, StartPolicy(c) PROVE Held'
  <2>1. created + 1 \in Workers
    BY WorkerAssumption, <1>2 DEF StartPolicy, TypeOK, Workers
  <2>2. InLoop("record")' \subseteq InLoop("record")
    BY <1>0, <1>2, <2>1 DEF StartPolicy, InLoop, WorkerRecord
  <2> QED BY <1>2, <2>2 DEF StartPolicy, Acquire
<1>3. ASSUME NEW c \in Clients, EpisodeStarts(c) PROVE Held'
  <2>1. created + 1 \in Workers
    BY WorkerAssumption, <1>3 DEF EpisodeStarts, TypeOK, Workers
  <2>2. InLoop("policy")' \subseteq InLoop("policy")
    BY <1>0, <1>3, <2>1 DEF EpisodeStarts, InLoop, WorkerRecord
  <2>3. recLock = c
    BY <1>3 DEF EpisodeStarts, ControlInv, Requests
  <2> QED BY <1>3, <2>2, <2>3 DEF EpisodeStarts
<1>4. ASSUME NEW c \in Clients, LoadPolicy(c) PROVE Held'
  BY <1>1, <1>4 DEF LoadPolicy, InLoop
<1>5. ASSUME NEW c \in Clients, StartPolicyRaises(c) PROVE Held'
  BY <1>1, <1>5 DEF StartPolicyRaises, InLoop, Acquire
<1>6. ASSUME NEW c \in Clients, StopPolicy(c) PROVE Held'
  BY <1>1, <1>6 DEF StopPolicy, InLoop
<1>7. ASSUME NEW c \in Clients, EpisodeStart(c) PROVE Held'
  BY <1>1, <1>7 DEF EpisodeStart, InLoop, Acquire
<1>8. ASSUME NEW c \in Clients, FinishEpisode(c) PROVE Held'
  BY <1>1, <1>8 DEF FinishEpisode, InLoop
<1>9. ASSUME NEW c \in Clients, EpisodeReplay(c) PROVE Held'
  BY <1>1, <1>9 DEF EpisodeReplay, InLoop, Acquire
<1>10. ASSUME NEW c \in Clients, EpisodeStartRaises(c) PROVE Held'
  BY <1>1, <1>10 DEF EpisodeStartRaises, InLoop
<1>11. ASSUME NEW c \in Clients, ClientStop(c) PROVE Held'
  BY <1>1, <1>11 DEF ClientStop, InLoop
<1>12. ASSUME NEW c \in Clients, ClientClear(c) PROVE Held'
  BY <1>1, <1>12 DEF ClientClear, InLoop
<1>13. ASSUME NEW c \in Clients, ClientJoin(c) PROVE Held'
  BY <1>1, <1>13 DEF ClientJoin, InLoop
<1>14. ASSUME NEW c \in Clients, FinishSave(c) PROVE Held'
  BY <1>1, <1>14 DEF FinishSave, InLoop
<1>15. ASSUME NEW c \in Clients, FinishCancelRaises(c) PROVE Held'
  BY <1>1, <1>15 DEF FinishCancelRaises, InLoop
<1>16. ASSUME NEW c \in Clients, FinishDrop(c) PROVE Held'
  BY <1>1, <1>16 DEF FinishDrop, InLoop
<1>17. ASSUME NEW c \in Clients, ReplayEnds(c) PROVE Held'
  BY <1>1, <1>17 DEF ReplayEnds, InLoop
<1>18. ASSUME NEW w \in Workers, WorkerStep(w) \/ WorkerSample(w) PROVE Held'
  <2>1. PICK pc \in WorkerPC, cap \in Workers \cup {None} :
          After(w, pc) /\ worker' = [worker EXCEPT ![w].pc = pc, ![w].cap = cap]
    BY <1>18, WorkerGoesOn
  <2>2. /\ worker'[w].pc = pc /\ worker'[w].kind = worker[w].kind
        /\ \A v \in Workers : v # w => worker'[v] = worker[v]
    BY <1>0, <2>1, GoToEffect
  <2>3. pc \in LoopPC => worker[w].pc \in LoopPC
    BY <2>1 DEF After, AfterStop, LoopPC
  <2>4. \A kind \in {"policy", "record"} : InLoop(kind)' \subseteq InLoop(kind)
    BY <1>1, <2>2, <2>3
  <2>5. mode' = mode /\ recLock' = recLock /\ replaying' = replaying
    BY <1>18, WorkerFrame DEF Releases
  <2> QED BY <2>4, <2>5
<1>19. CASE UNCHANGED vars
  BY <1>19 DEF vars, InLoop
<1> QED
  BY <1>2, <1>3, <1>4, <1>5, <1>6, <1>7, <1>8, <1>9, <1>10, <1>11, <1>12, <1>13, <1>14, <1>15,
     <1>16, <1>17, <1>18, <1>19
  DEF Next, ClientContinues, Releases

\* Whoever drives or samples the robot loses its mode only to a release of that mode.
THEOREM ActiveLostToReleaseOnly == Spec => LostToReleaseOnly
<1>1. TypeOK /\ ControlInv /\ [Next]_vars => (Held /\ ~Held' => Releases)
  BY HeldStep
<1>2. Releases <=> \/ \E c \in Clients : FinishRelease(c) \/ ReplayRelease(c)
                   \/ \E w \in Workers : PolicyRelease(w)
  BY DEF Releases
<1>3. TypeOK /\ ControlInv /\ [Next]_vars
        => [Held /\ ~Held' => \/ \E c \in Clients : FinishRelease(c) \/ ReplayRelease(c)
                              \/ \E w \in Workers : PolicyRelease(w)]_vars
  BY <1>1, <1>2
<1> QED BY <1>3, ActiveControlled, PTL DEF Spec, LostToReleaseOnly
=============================================================================
