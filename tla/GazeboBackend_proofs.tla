------------------------- MODULE GazeboBackend_proofs -------------------------
(***************************************************************************)
(* Proofs about GazeboServer and GazeboBackend, for any number of          *)
(* controllers, topics, executor threads and clients, and without a bound  *)
(* on what ROS does.                                                       *)
(***************************************************************************)
EXTENDS GazeboBackend, SequenceTheorems, TLAPS

-----------------------------------------------------------------------------
(* The processes.                                                          *)

\* What runs is on the list or a child of what was, and the list is empty when serve_async
\* is over and shutdown has returned.
Own == running \cap Processes

Listed ==
  /\ processes \in Seq(Processes)
  /\ \A p \in Own : \E i \in 1..Len(processes) : processes[i] = p
  /\ stage = "returned" => processes = <<>>

-----------------------------------------------------------------------------
(* The sensors.                                                            *)

All == Threads \cup {Main}
Busy == {"scan", "test", "nav", "subscribe", "store", "remove"}

\* A thread makes a subscription only where its discovery does.
Making == UNION {job[th].making : th \in Discovering}

\* Until the backend is built there is nothing, and the timer comes after that.
Unbuilt ==
  stage \in {"launch", "spawn", "construct"} /\ ~spinning =>
    /\ \A th \in All : pc[th] = "idle"
    /\ records = <<>> /\ subs = {} /\ live = [t \in Topics |-> 0]

\* With one discovery at a time: the records are those of the subscriptions, of the one
\* that is being made, which nobody has made before, and of those that failed.
OneAtATime ==
  /\ \A a, b \in Discovering : a = b
  /\ \A th \in All : job[th].making # {} =>
       pc[th] = "store" /\ \E t \in Topics \ subs : job[th].making = {t}
  /\ DOMAIN records = subs \cup Making \cup failed
  /\ subs \subseteq Topics /\ DOMAIN live = Topics
  /\ spinning => \A t \in Topics : live[t] = IF t \in subs THEN 1 ELSE 0

Job == [seen : SUBSET (Topics \cup {"nav"}), new : SUBSET Topics, fresh : BOOLEAN,
        had : BOOLEAN, making : SUBSET Topics, caps : SUBSET {"joint", "camera", "imu"}]

Types ==
  /\ pc \in [All -> Busy \cup {"idle", "detect", "assign"}] /\ job \in [All -> Job]
  /\ graph \subseteq Topics \cup {"nav"}
  /\ clock \in [Topics -> Nat] /\ wire \subseteq Topics \X Nat
  /\ DOMAIN records \subseteq Topics /\ \A t \in DOMAIN records : records[t] \in Int

Backend == Types /\ Unbuilt /\ (~overlapped => OneAtATime)

-----------------------------------------------------------------------------
(* No process is left.                                                     *)

\* A process that is not the last of the list stays on it.
LEMMA FrontKeeps ==
  ASSUME NEW s \in Seq(Processes), s # <<>>, NEW p, \E i \in 1..Len(s) : s[i] = p, p # Last(s)
  PROVE  Front(s) \in Seq(Processes) /\ \E i \in 1..Len(Front(s)) : Front(s)[i] = p
<1>1. /\ Len(s) \in Nat \ {0} /\ Last(s) = s[Len(s)] /\ Front(s) = SubSeq(s, 1, Len(s) - 1)
      /\ \A i \in 1..Len(s) : s[i] \in Processes
  BY DEF Last, Front
<1>2. 1 \in Int /\ Len(s) - 1 \in Int /\ \A i \in 1..(Len(s) - 1) : s[i] \in Processes
  BY <1>1
<1>3. /\ Front(s) \in Seq(Processes)
      /\ Len(Front(s)) = IF 1 <= Len(s) - 1 THEN (Len(s) - 1) - 1 + 1 ELSE 0
      /\ \A i \in 1..((Len(s) - 1) - 1 + 1) : Front(s)[i] = s[1 + i - 1]
  BY <1>1, <1>2, SubSeqProperties
<1>4. PICK i \in 1..Len(s) : s[i] = p
  OBVIOUS
<1>5. i \in 1..(Len(s) - 1)
  BY <1>1, <1>4
<1>. QED BY <1>1, <1>3, <1>4, <1>5

LEMMA FrontType ==
  ASSUME NEW s \in Seq(Processes), s # <<>> PROVE Front(s) \in Seq(Processes)
<1>1. Len(s) \in Nat /\ \A i \in 1..(Len(s) - 1) : s[i] \in Processes
  OBVIOUS
<1>. QED BY <1>1, SubSeqProperties DEF Front

LEMMA ListedInit == Init => Listed
BY DEF Init, ServerInit, Listed, Own

LEMMA ChildrenApart == /\ Processes \cap Children = {}
                       /\ \A p \in Processes : ChildOf[p] \subseteq Children
BY DEF Processes, Children, ChildOf

LEMMA ListedServer == Listed /\ ServerNext => Listed'
<1>. SUFFICES ASSUME Listed, ServerNext PROVE Listed'
  OBVIOUS
<1>0. /\ processes \in Seq(Processes)
      /\ \A p \in Own : \E i \in 1..Len(processes) : processes[i] = p
  BY DEF Listed
<1>1. ASSUME NEW p \in Processes, processes' = Append(processes, p), Own' = Own \cup {p},
             stage' # "returned"
      PROVE  Listed'
  <2>1. /\ processes' \in Seq(Processes) /\ Len(processes) \in Nat
        /\ Len(processes') = Len(processes) + 1 /\ processes'[Len(processes) + 1] = p
        /\ \A i \in 1..Len(processes) : processes'[i] = processes[i]
    BY <1>0, <1>1
  <2>2. ASSUME NEW q \in Own' PROVE \E i \in 1..Len(processes') : processes'[i] = q
    <3>1. CASE q = p
      BY <2>1, <3>1
    <3>2. CASE q \in Own
      <4>1. PICK i \in 1..Len(processes) : processes[i] = q
        BY <1>0, <3>2
      <4>2. i \in 1..Len(processes')
        BY <2>1
      <4>. QED BY <2>1, <4>1, <4>2
    <3>. QED BY <1>1, <2>2, <3>1, <3>2
  <2>. QED BY <1>0, <1>1, <2>1, <2>2 DEF Listed
<1>2. ASSUME UNCHANGED processes, Own' \subseteq Own, stage' = "returned" => stage = "returned"
      PROVE  Listed'
  BY <1>2 DEF Listed
<1>3. CASE Launch \/ View
  <2>1. /\ stage \in {"launch", "spawn"} /\ stage' \in {"launch", "spawn", "construct"}
        /\ \/ UNCHANGED processes /\ Own' = Own
           \/ \E p \in Processes : processes' = Append(processes, p) /\ Own' = Own \cup {p}
    BY <1>3, ChildrenApart DEF Launch, View, Processes, Own
  <2>. QED BY <1>1, <1>2, <2>1
<1>4. CASE \/ Spawn \/ StartFails \/ Serve \/ StopServing \/ ShutdownRaises
           \/ \E p \in Processes \cup Children : Exit(p)
  <2>1. UNCHANGED processes /\ (stage' = "returned" => stage = "returned")
    BY <1>4 DEF Spawn, StartFails, Serve, StopServing, ShutdownRaises, Exit
  <2>2. Own' \subseteq Own
    BY <1>4, ChildrenApart
    DEF Spawn, StartFails, Serve, StopServing, ShutdownRaises, Exit, Own, Children
  <2>. QED BY <1>2, <2>1, <2>2
<1>5. CASE Terminate \/ Ended \/ Kill
  <2>1. /\ processes # <<>> /\ stage \in {"abort", "runtime"} /\ stage' = stage
        /\ \/ UNCHANGED <<processes, running>>
           \/ /\ processes' = Front(processes)
              /\ Own' \subseteq Own /\ Last(processes) \notin Own'
    BY <1>5 DEF Own, Terminate, Ended, Kill, Stopping
  <2>2. CASE UNCHANGED <<processes, running>>
    BY <1>2, <2>1, <2>2 DEF Own
  <2>3. CASE /\ processes' = Front(processes)
             /\ Own' \subseteq Own /\ Last(processes) \notin Own'
    BY <1>0, <2>1, <2>3, FrontKeeps, FrontType DEF Listed
  <2>. QED BY <2>1, <2>2, <2>3
<1>6. CASE Stopped
  BY <1>6 DEF Stopped, Listed, Own
<1>. QED BY <1>3, <1>4, <1>5, <1>6 DEF ServerNext

LEMMA ListedStep == Listed /\ (Next \/ UNCHANGED vars) => Listed'
<1>. SUFFICES ASSUME Listed, Next \/ UNCHANGED vars PROVE Listed'
  OBVIOUS
<1>1. CASE ServerNext
  BY <1>1, ListedServer
<1>2. CASE UNCHANGED <<processes, running>> /\ (stage' = "returned" => stage = "returned")
  BY <1>2 DEF Listed, Own
<1>3. ASSUME NEW th \in All,
             \/ Timer(th) \/ Scan(th) \/ Test(th) \/ NavUpdate(th) \/ Subscribe(th) \/ Store(th)
             \/ DiscoveryRaises(th) \/ RemoveGone(th) \/ Receive(th) \/ Detect(th) \/ Assign(th)
      PROVE  UNCHANGED serverVars
  BY <1>3 DEF Timer, Scan, Test, NavUpdate, Subscribe, Store, DiscoveryRaises, RemoveGone, Receive, Detect, Assign
<1>4. ASSUME NEW c \in Clients,
             \/ Navigate(c) \/ NavWait(c) \/ NavSend(c) \/ Reply(c) \/ OnGoalResponse(c)
             \/ OnResult(c) \/ NavEnd(c) \/ SendTarget(c) \/ RecordTarget(c)
      PROVE  UNCHANGED serverVars
  BY <1>4 DEF Navigate, NavWait, NavSend, Reply, OnGoalResponse, OnResult, NavEnd, SendTarget,
     RecordTarget
<1>. QED
  BY <1>1, <1>2, <1>3, <1>4
  DEF Next, Construct, Constructed, ConstructFails, Unspin, Shutdown, Change, Publish, All,
      serverVars, vars

\* When serve_async is over and its shutdown did not raise, no process it started itself is
\* left, whichever of them ended or ignored their signal, and wherever starting failed.
THEOREM GazeboNoProcessLeft == Spec => []NoProcessLeft
<1>1. Listed => NoProcessLeft
  <2>1. Len(<<>>) = 0 /\ 1..0 = {}
    OBVIOUS
  <2>. QED BY <2>1 DEF Listed, NoProcessLeft, Own
<1>. QED BY <1>1, ListedInit, ListedStep, PTL DEF Spec

-----------------------------------------------------------------------------
(* Types of what the sensors' invariant speaks of.                         *)

LEMMA NoJobType == NoJob \in Job /\ NoJob.making = {}
BY DEF NoJob, Job

\* A thread moves on; what its job becomes.
LEMMA ThreadMoves ==
  ASSUME Types, NEW th \in All, NEW place \in Busy \cup {"idle", "detect", "assign"}, NEW j \in Job,
         pc' = [pc EXCEPT ![th] = place], job' = [job EXCEPT ![th] = j],
         UNCHANGED <<graph, clock>>, wire' \subseteq Topics \X Nat,
         DOMAIN records' \subseteq Topics, \A t \in DOMAIN records' : records'[t] \in Int
  PROVE  /\ Types'
         /\ pc'[th] = place /\ job'[th] = j
         /\ \A o \in All : o # th => pc'[o] = pc[o] /\ job'[o] = job[o]
BY DEF Types

LEMMA ThreadSteps ==
  ASSUME Types, NEW th \in All, NEW place \in Busy \cup {"idle", "detect", "assign"}, NEW j \in Job,
         pc' = [pc EXCEPT ![th] = place], job' = [job EXCEPT ![th] = j],
         UNCHANGED <<graph, clock, wire, records>>
  PROVE  Types' /\ pc'[th] = place /\ job'[th] = j
         /\ \A o \in All : o # th => pc'[o] = pc[o] /\ job'[o] = job[o]
<1>1. /\ wire' \subseteq Topics \X Nat
      /\ DOMAIN records' \subseteq Topics /\ \A t \in DOMAIN records' : records'[t] \in Int
  BY DEF Types
<1>. QED BY <1>1, ThreadMoves

LEMMA PutFacts ==
  ASSUME Types, NEW t \in Topics, NEW x \in Int
  PROVE  LET f == Put(records, t, x) IN
         /\ DOMAIN f = DOMAIN records \cup {t} /\ f[t] = x
         /\ \A u \in DOMAIN records : u # t => f[u] = records[u]
         /\ \A u \in DOMAIN f : f[u] \in Int
BY DEF Types, Put

LEMMA UpdatedFacts ==
  ASSUME Types, NEW t \in Topics, NEW x \in Int
  PROVE  LET f == Updated(t, x) IN
         /\ DOMAIN f = DOMAIN records
         /\ \A u \in DOMAIN records : f[u] \in Int /\ f[u] >= records[u]
<1>1. \A u \in DOMAIN records : records[u] \in Int
  BY DEF Types
<1>2. CASE t \in DOMAIN records /\ x >= records[t]
  <2>. DEFINE f == Put(records, t, x)
  <2>1. /\ DOMAIN f = DOMAIN records \cup {t} /\ f[t] = x
        /\ \A u \in DOMAIN records : u # t => f[u] = records[u]
    BY PutFacts
  <2>2. Updated(t, x) = f
    BY <1>2 DEF Updated
  <2>. HIDE DEF f
  <2>. QED BY <1>1, <1>2, <2>1, <2>2
<1>3. CASE ~(t \in DOMAIN records /\ x >= records[t])
  <2>1. Updated(t, x) = records
    BY <1>3 DEF Updated
  <2>. QED BY <1>1, <2>1
<1>. QED BY <1>2, <1>3

\* What each step of a thread does to the threads and the records.
ThreadStep(th) ==
  \/ Timer(th) \/ Scan(th) \/ Test(th) \/ NavUpdate(th) \/ Subscribe(th) \/ Store(th)
  \/ DiscoveryRaises(th) \/ RemoveGone(th) \/ Receive(th) \/ Detect(th) \/ Assign(th)

LEMMA TypesThread == ASSUME Types, NEW th \in All, ThreadStep(th) PROVE Types'
<1>. USE DEF Busy
<1>1. /\ pc \in [All -> Busy \cup {"idle", "detect", "assign"}] /\ job \in [All -> Job]
      /\ job[th] \in Job /\ job = [job EXCEPT ![th] = job[th]] /\ NoJob \in Job
      /\ graph \subseteq Topics \cup {"nav"} /\ wire \subseteq Topics \X Nat
      /\ DOMAIN records \subseteq Topics /\ \A t \in DOMAIN records : records[t] \in Int
  BY NoJobType DEF Types
<1>2. CASE Timer(th)
  <2>1. pc' = [pc EXCEPT ![th] = "scan"] /\ job' = [job EXCEPT ![th] = job[th]]
        /\ UNCHANGED <<graph, clock, wire, records>>
    BY <1>1, <1>2 DEF Timer, ros, sensors
  <2>. QED BY <1>1, <2>1, ThreadSteps
<1>3. CASE Scan(th)
  <2>. DEFINE j == [job[th] EXCEPT !.seen = graph]
  <2>1. j \in Job
    BY <1>1 DEF Job
  <2>2. pc' = [pc EXCEPT ![th] = "test"] /\ job' = [job EXCEPT ![th] = j]
        /\ UNCHANGED <<graph, clock, wire, records>>
    BY <1>1, <1>3 DEF Scan, ros, sensors
  <2>. HIDE DEF j
  <2>. QED BY <2>1, <2>2, ThreadSteps
<1>4. CASE Test(th)
  <2>. DEFINE new == (job[th].seen \cap Topics) \ subs
              j == [job[th] EXCEPT !.new = new, !.fresh = new # {}, !.had = navClient # 0]
  <2>1. new \subseteq Topics
    OBVIOUS
  <2>2. pc' = [pc EXCEPT ![th] = "nav"] /\ job' = [job EXCEPT ![th] = j]
        /\ UNCHANGED <<graph, clock, wire, records>>
    BY <1>1, <1>4 DEF Test, ros, sensors
  <2>. HIDE DEF new
  <2>3. j \in Job
    BY <1>1, <2>1 DEF Job
  <2>. HIDE DEF j
  <2>. QED BY <2>2, <2>3, ThreadSteps
<1>5. CASE NavUpdate(th)
  <2>1. UNCHANGED <<graph, clock, wire, records>>
    BY <1>5 DEF NavUpdate, ros, sensors
  <2>2. CASE pc' = [pc EXCEPT ![th] = "idle"] /\ job' = [job EXCEPT ![th] = NoJob]
    BY <1>1, <2>1, <2>2, ThreadSteps
  <2>3. CASE pc' = [pc EXCEPT ![th] = "subscribe"] /\ UNCHANGED job
    <3>1. job' = [job EXCEPT ![th] = job[th]]
      BY <1>1, <2>3
    <3>. QED BY <1>1, <2>1, <2>3, <3>1, ThreadSteps
  <2>. QED BY <1>5, <2>2, <2>3 DEF NavUpdate
<1>6. CASE Subscribe(th)
  <2>1. CASE job[th].new = {}
    <3>1. pc' = [pc EXCEPT ![th] = "remove"] /\ job' = [job EXCEPT ![th] = job[th]]
          /\ UNCHANGED <<graph, clock, wire, records>>
      BY <1>1, <1>6, <2>1 DEF Subscribe, ros
    <3>. QED BY <1>1, <3>1, ThreadSteps
  <2>2. ASSUME NEW t \in job[th].new, t \in subs, job' = [job EXCEPT ![th].new = @ \ {t}],
               UNCHANGED <<pc, records>>
        PROVE  Types'
    <3>. DEFINE j == [job[th] EXCEPT !.new = @ \ {t}]
    <3>1. j \in Job /\ job' = [job EXCEPT ![th] = j] /\ UNCHANGED ros
      BY <1>1, <1>6, <2>2 DEF Job, Subscribe
    <3>2. job' \in [All -> Job]
      BY <1>1, <3>1
    <3>. QED BY <2>2, <3>1, <3>2 DEF Types, ros
  <2>3. ASSUME NEW t \in job[th].new, records' = Put(records, t, -1),
               job' = [job EXCEPT ![th].making = {t}], pc' = [pc EXCEPT ![th] = "store"]
        PROVE  Types'
    <3>. DEFINE j == [job[th] EXCEPT !.making = {t}]
    <3>1. t \in Topics /\ j \in Job /\ job' = [job EXCEPT ![th] = j] /\ UNCHANGED ros
      BY <1>1, <1>6, <2>3 DEF Job, Subscribe
    <3>. DEFINE f == Put(records, t, -1)
    <3>0. -1 \in Int
      OBVIOUS
    <3>3. DOMAIN f = DOMAIN records \cup {t} /\ \A u \in DOMAIN f : f[u] \in Int
      BY <3>0, <3>1, PutFacts
    <3>4. records' = f
      BY <2>3
    <3>. HIDE DEF f
    <3>2. DOMAIN records' \subseteq Topics /\ \A u \in DOMAIN records' : records'[u] \in Int
      BY <1>1, <3>1, <3>3, <3>4
    <3>. HIDE DEF j
    <3>. QED BY <1>1, <2>3, <3>1, <3>2, ThreadMoves DEF ros
  <2>. QED BY <1>6, <2>1, <2>2, <2>3 DEF Subscribe
<1>7. CASE Store(th)
  <2>1. PICK t \in job[th].making : job' = [job EXCEPT ![th].new = @ \ {t}, ![th].making = {}]
    BY <1>7 DEF Store
  <2>. DEFINE j == [job[th] EXCEPT !.new = @ \ {t}, !.making = {}]
  <2>2. j \in Job /\ job' = [job EXCEPT ![th] = j] /\ pc' = [pc EXCEPT ![th] = "subscribe"]
        /\ UNCHANGED <<graph, clock, wire, records>>
    BY <1>1, <1>7, <2>1 DEF Job, Store, ros
  <2>. HIDE DEF j
  <2>. QED BY <2>2, ThreadSteps
<1>8. CASE RemoveGone(th)
  <2>1. /\ pc' = [pc EXCEPT ![th] = Done(th)] /\ job' = [job EXCEPT ![th] = NoJob]
        /\ Done(th) \in {"detect", "idle"} /\ UNCHANGED <<graph, clock, wire>>
        /\ \E S : records' = Without(records, S)
    BY <1>8 DEF RemoveGone, ros, Done
  <2>2. DOMAIN records' \subseteq Topics /\ \A t \in DOMAIN records' : records'[t] \in Int
    BY <1>1, <2>1 DEF Without
  <2>. QED BY <1>1, <2>1, <2>2, ThreadMoves
<1>9. CASE Receive(th)
  <2>1. PICK m \in wire : wire' = wire \ {m} /\ records' = Updated(m[1], m[2])
                          /\ pc' = [pc EXCEPT ![th] = IF Kind[m[1]] = "imu" THEN "idle" ELSE "detect"]
    BY <1>9 DEF Receive
  <2>2. m[1] \in Topics /\ m[2] \in Int
    BY <1>1
  <2>3. DOMAIN records' \subseteq Topics /\ \A t \in DOMAIN records' : records'[t] \in Int
    BY <1>1, <2>1, <2>2, UpdatedFacts
  <2>4. job' = [job EXCEPT ![th] = job[th]] /\ UNCHANGED <<graph, clock>>
    BY <1>1, <1>9 DEF Receive
  <2>. QED BY <1>1, <2>1, <2>3, <2>4, ThreadMoves
<1>10. CASE Detect(th)
  <2>1. CASE manifest
    <3>1. pc' = [pc EXCEPT ![th] = "idle"] /\ job' = [job EXCEPT ![th] = job[th]]
          /\ UNCHANGED <<graph, clock, wire, records>>
      BY <1>1, <1>10, <2>1 DEF Detect, ros, sensors
    <3>. QED BY <1>1, <3>1, ThreadSteps
  <2>2. CASE ~manifest
    <3>. DEFINE kinds == {Kind[t] : t \in DOMAIN records}
                j == [job[th] EXCEPT !.caps = kinds]
    <3>1. kinds \subseteq {"joint", "camera", "imu"}
      BY <1>1, GazeboBackendAssumption
    <3>2. pc' = [pc EXCEPT ![th] = "assign"] /\ job' = [job EXCEPT ![th] = j]
          /\ UNCHANGED <<graph, clock, wire, records>>
      BY <1>1, <1>10, <2>2 DEF Detect, ros, sensors
    <3>. HIDE DEF kinds
    <3>3. j \in Job
      BY <1>1, <3>1 DEF Job
    <3>. HIDE DEF j
    <3>. QED BY <3>2, <3>3, ThreadSteps
  <2>. QED BY <2>1, <2>2
<1>11. CASE Assign(th)
  <2>1. pc' = [pc EXCEPT ![th] = "idle"] /\ job' = [job EXCEPT ![th] = NoJob]
        /\ UNCHANGED <<graph, clock, wire, records>>
    BY <1>11 DEF Assign, ros, sensors
  <2>. QED BY <1>1, <2>1, ThreadSteps
<1>12. CASE DiscoveryRaises(th)
  <2>1. pc' = [pc EXCEPT ![th] = "idle"] /\ job' = [job EXCEPT ![th] = NoJob]
        /\ UNCHANGED <<graph, clock, wire, records>>
    BY <1>12 DEF DiscoveryRaises, ros
  <2>. QED BY <1>1, <2>1, ThreadSteps
<1>. QED
  BY <1>2, <1>3, <1>4, <1>5, <1>6, <1>7, <1>8, <1>9, <1>10, <1>11, <1>12 DEF ThreadStep

\* A step that no thread of the discovery takes.
OtherStep ==
  \/ ServerNext /\ UNCHANGED <<ros, spinning, sensors, nav, caps, threads, calls>>
  \/ Construct \/ Constructed \/ ConstructFails \/ Unspin \/ Shutdown \/ Change
  \/ \E t \in Topics : Publish(t)
  \/ \E c \in Clients :
       \/ Navigate(c) \/ NavWait(c) \/ NavSend(c) \/ Reply(c) \/ OnGoalResponse(c)
       \/ OnResult(c) \/ NavEnd(c) \/ SendTarget(c) \/ RecordTarget(c)

LEMMA NextCases == Next <=> OtherStep \/ \E th \in All : ThreadStep(th)
BY DEF Next, OtherStep, ThreadStep, All

\* Apart from Construct and Shutdown they leave the sensors and the threads alone.
LEMMA OtherLeaves ==
  OtherStep => 
    \/ Construct \/ Shutdown
    \/ UNCHANGED <<records, subs, live, failed, pc, job, overlapped>>
<1>1. ASSUME NEW c \in Clients,
             \/ Navigate(c) \/ NavWait(c) \/ NavSend(c) \/ Reply(c) \/ OnGoalResponse(c)
             \/ OnResult(c) \/ NavEnd(c) \/ SendTarget(c) \/ RecordTarget(c)
      PROVE  UNCHANGED <<records, subs, live, failed, pc, job, overlapped>>
  BY <1>1 DEF Navigate, NavWait, NavSend, Reply, OnGoalResponse, OnResult, NavEnd, SendTarget,
     RecordTarget, sensors, threads
<1>. QED
  BY <1>1 DEF OtherStep, Constructed, ConstructFails, Unspin, Change, Publish, sensors, threads

LEMMA TypesOther == Types /\ OtherStep => Types'
<1>. SUFFICES ASSUME Types, OtherStep PROVE Types'
  OBVIOUS
<1>1. CASE Construct
  <2>1. ManifestTopics \subseteq Topics /\ UNCHANGED <<job, graph, clock, wire>> /\ -1 \in Int
    BY <1>1 DEF Construct, ManifestTopics, ros
  <2>2. DOMAIN records' \subseteq Topics /\ \A t \in DOMAIN records' : records'[t] \in Int
    <3>1. CASE manifest
      <4>1. records' = [t \in ManifestTopics |-> -1]
        BY <1>1, <3>1 DEF Construct
      <4>. QED BY <2>1, <4>1
    <3>2. CASE ~manifest
      BY <1>1, <3>2 DEF Construct, Types
    <3>. QED BY <3>1, <3>2
  <2>3. pc' \in [All -> Busy \cup {"idle", "detect", "assign"}]
    BY <1>1 DEF Construct, Types, Busy
  <2>. QED BY <2>1, <2>2, <2>3 DEF Types
<1>2. CASE \E t \in Topics : Publish(t)
  <2>1. PICK t \in Topics : Publish(t)
    BY <1>2
  <2>2. clock[t] + 1 \in Nat
    BY DEF Types
  <2>. QED BY <2>1, <2>2 DEF Publish, Types, sensors, threads
<1>3. CASE Change
  BY <1>3 DEF Change, Types, sensors, threads
<1>4. CASE Shutdown
  BY <1>4 DEF Shutdown, Types, ros, threads
<1>5. ASSUME NEW c \in Clients,
             \/ Navigate(c) \/ NavWait(c) \/ NavSend(c) \/ Reply(c) \/ OnGoalResponse(c)
             \/ OnResult(c) \/ NavEnd(c) \/ SendTarget(c) \/ RecordTarget(c)
      PROVE  UNCHANGED <<records, pc, job, graph, clock, wire>>
  BY <1>5 DEF Navigate, NavWait, NavSend, Reply, OnGoalResponse, OnResult, NavEnd, SendTarget,
     RecordTarget, sensors, threads, ros
<1>6. CASE UNCHANGED <<records, pc, job, graph, clock, wire>>
  BY <1>6 DEF Types
<1>. QED
  BY <1>1, <1>2, <1>3, <1>4, <1>5, <1>6
  DEF OtherStep, Constructed, ConstructFails, Unspin, sensors, threads, ros

LEMMA TypesStep == Types /\ (Next \/ UNCHANGED vars) => Types'
<1>1. Types /\ UNCHANGED vars => Types'
  BY DEF Types, vars, ros, sensors, threads
<1>. QED BY <1>1, TypesThread, TypesOther, NextCases

-----------------------------------------------------------------------------
(* Before the backend is built.                                            *)

LEMMA UnbuiltStep == Unbuilt /\ (Next \/ UNCHANGED vars) => Unbuilt'
<1>. SUFFICES ASSUME Unbuilt, Next \/ UNCHANGED vars,
                     stage' \in {"launch", "spawn", "construct"}, ~spinning'
              PROVE  /\ \A th \in All : pc'[th] = "idle"
                     /\ records' = <<>> /\ subs' = {} /\ live' = [t \in Topics |-> 0]
  BY DEF Unbuilt
<1>1. ASSUME stage \in {"launch", "spawn", "construct"}, ~spinning,
             UNCHANGED <<records, subs, live, pc>>
      PROVE  /\ \A th \in All : pc'[th] = "idle"
             /\ records' = <<>> /\ subs' = {} /\ live' = [t \in Topics |-> 0]
  BY <1>1 DEF Unbuilt
<1>2. CASE UNCHANGED vars
  BY <1>1, <1>2 DEF vars, serverVars, sensors, threads
<1>3. ASSUME NEW th \in All, ThreadStep(th) PROVE FALSE
  <2>1. UNCHANGED <<stage, spinning>> /\ (pc[th] = "idle" => spinning)
    BY <1>3 DEF ThreadStep, Timer, Scan, Test, NavUpdate, Subscribe, Store, DiscoveryRaises, RemoveGone, Receive,
       Detect, Assign, At, serverVars
  <2>. QED BY <2>1 DEF Unbuilt
<1>4. CASE ServerNext /\ UNCHANGED <<ros, spinning, sensors, nav, caps, threads, calls>>
  <2>1. stage \in {"launch", "spawn", "construct"}
    BY <1>4 DEF ServerNext, Launch, View, Spawn, StartFails, Serve, StopServing, ShutdownRaises, Exit,
       Terminate, Ended, Kill, Stopped, Stopping
  <2>. QED BY <1>1, <1>4, <2>1 DEF sensors, threads
<1>5. CASE Construct \/ Constructed \/ ConstructFails \/ Unspin \/ Shutdown
  BY <1>1, <1>5 DEF Construct, Constructed, ConstructFails, Unspin, Shutdown, serverVars
<1>6. CASE Change \/ \E t \in Topics : Publish(t)
  BY <1>1, <1>6 DEF Change, Publish, serverVars, sensors, threads
<1>7. ASSUME NEW c \in Clients,
             \/ Navigate(c) \/ NavWait(c) \/ NavSend(c) \/ Reply(c) \/ OnGoalResponse(c)
             \/ OnResult(c) \/ NavEnd(c) \/ SendTarget(c) \/ RecordTarget(c)
      PROVE  UNCHANGED <<stage, spinning, records, subs, live, pc>>
  BY <1>7 DEF Navigate, NavWait, NavSend, Reply, OnGoalResponse, OnResult, NavEnd, SendTarget,
     RecordTarget, sensors, threads, serverVars
<1>. QED
  BY <1>1, <1>2, <1>3, <1>4, <1>5, <1>6, <1>7, NextCases DEF OtherStep

-----------------------------------------------------------------------------
(* One discovery at a time.                                                *)

LEMMA Alone ==
  ASSUME Types, OneAtATime, NEW th \in Discovering
  PROVE  /\ th \in All /\ Discovering = {th} /\ Making = job[th].making
         /\ \A o \in All : o # th => pc[o] \notin Busy /\ job[o].making = {}
<1>1. th \in All /\ Discovering = {th}
  BY DEF OneAtATime, Discovering, All
<1>2. \A o \in All : o # th => pc[o] \notin Busy
  BY <1>1 DEF Discovering, All, Busy
<1>3. ASSUME NEW o \in All, o # th PROVE job[o].making = {}
  BY <1>2, <1>3 DEF OneAtATime, Busy
<1>. QED BY <1>1, <1>2, <1>3 DEF Making

\* The discovery takes a step, and goes on or ends.
LEMMA DiscoveryMoves ==
  ASSUME Types, OneAtATime, NEW th \in Discovering,
         \A o \in All : o # th => pc'[o] = pc[o] /\ job'[o] = job[o],
         pc'[th] \notin Busy => job'[th].making = {},
         job'[th].making # {} => pc'[th] = "store" /\ \E t \in Topics \ subs' : job'[th].making = {t}
  PROVE  /\ \A a, b \in Discovering' : a = b
         /\ \A o \in All : job'[o].making # {} =>
              pc'[o] = "store" /\ \E t \in Topics \ subs' : job'[o].making = {t}
         /\ Making' = job'[th].making
<1>1. /\ th \in All /\ \A o \in All : o # th => pc[o] \notin Busy /\ job[o].making = {}
  BY Alone
<1>2. Discovering' = IF pc'[th] \in Busy THEN {th} ELSE {}
  BY <1>1 DEF Discovering, All, Busy
<1>3. Making' = job'[th].making
  <2>1. CASE pc'[th] \in Busy
    BY <1>2, <2>1 DEF Making
  <2>2. CASE pc'[th] \notin Busy
    BY <1>2, <2>2 DEF Making
  <2>. QED BY <2>1, <2>2
<1>. QED BY <1>1, <1>2, <1>3

\* A thread that is not of the discovery takes a step.
LEMMA OthersMove ==
  ASSUME Types, OneAtATime, NEW th \in All, th \notin Discovering, pc'[th] \notin Busy,
         \A o \in All : o # th => pc'[o] = pc[o] /\ job'[o] = job[o],
         job'[th].making \in {{}, job[th].making},
         DOMAIN records' = DOMAIN records, UNCHANGED <<subs, live, failed, spinning>>
  PROVE  OneAtATime'
<1>1. Discovering' = Discovering
  BY DEF Discovering, All, Busy
<1>2. job[th].making = {} /\ job'[th].making = {}
  BY DEF OneAtATime, Discovering, All, Busy
<1>3. Making' = Making
  <2>1. \A o \in Discovering : job'[o] = job[o]
    BY DEF Discovering, All
  <2>. QED BY <1>1, <2>1 DEF Making
<1>. QED BY <1>1, <1>2, <1>3 DEF OneAtATime

\* A discovery starts, for there is none.
LEMMA DiscoveryStarts ==
  ASSUME Types, OneAtATime, NEW th \in All, Discovering = {}, pc'[th] = "scan",
         \A o \in All : o # th => pc'[o] = pc[o], UNCHANGED <<job, subs>>
  PROVE  /\ \A a, b \in Discovering' : a = b
         /\ \A o \in All : job'[o].making = {}
         /\ Making = {} /\ Making' = {}
<1>1. Discovering' = {th}
  BY DEF Discovering, All, Busy
<1>2. \A o \in All : job[o].making = {}
  BY DEF OneAtATime, Discovering, All
<1>. QED BY <1>1, <1>2 DEF Making

LEMMA OneThread ==
  ASSUME Types, OneAtATime, NEW th \in All, ThreadStep(th), ~overlapped'
  PROVE  OneAtATime'
<1>. USE DEF Busy
<1>0. /\ pc \in [All -> Busy \cup {"idle", "detect", "assign"}] /\ job \in [All -> Job]
      /\ job[th] \in Job /\ DOMAIN records \subseteq Topics /\ wire \subseteq Topics \X Nat
      /\ job[th].new \subseteq Topics /\ job[th].making \subseteq Topics
  BY DEF Types, Job
<1>1. CASE Timer(th)
  <2>1. Discovering = {} /\ pc'[th] = "scan" /\ \A o \in All : o # th => pc'[o] = pc[o]
    BY <1>0, <1>1 DEF Timer
  <2>2. UNCHANGED <<job, subs, records, live, failed, spinning>>
    BY <1>1 DEF Timer, sensors
  <2>3. /\ \A a, b \in Discovering' : a = b
        /\ \A o \in All : job'[o].making = {}
        /\ Making = {} /\ Making' = {}
    BY <2>1, <2>2, DiscoveryStarts
  <2>. QED BY <2>2, <2>3 DEF OneAtATime
<1>2. ASSUME pc[th] \in Busy PROVE th \in Discovering
  BY <1>2 DEF Discovering, All
<1>3. ASSUME pc[th] \notin Busy PROVE th \notin Discovering
  BY <1>3 DEF Discovering, All
<1>4. ASSUME pc[th] \in Busy 
      PROVE  DOMAIN records = subs \cup job[th].making \cup failed /\ Making = job[th].making
  BY <1>2, <1>4, Alone DEF OneAtATime
<1>5. ASSUME pc[th] \in Busy, pc[th] # "store" PROVE job[th].making = {}
  BY <1>5 DEF OneAtATime
<1>6. ASSUME th \in Discovering, job'[th].making = {}, Making' = {} => DOMAIN records' = subs' \cup failed',
             \A o \in All : o # th => pc'[o] = pc[o] /\ job'[o] = job[o],
             subs' \subseteq Topics, DOMAIN live' = Topics,
             spinning' => \A t \in Topics : live'[t] = IF t \in subs' THEN 1 ELSE 0
      PROVE  OneAtATime'
  <2>1. /\ \A a, b \in Discovering' : a = b
        /\ \A o \in All : job'[o].making # {} =>
              pc'[o] = "store" /\ \E t \in Topics \ subs' : job'[o].making = {t}
        /\ Making' = job'[th].making
    BY <1>6, DiscoveryMoves
  <2>. QED BY <1>6, <2>1 DEF OneAtATime
<1>7. CASE Scan(th) \/ Test(th) \/ NavUpdate(th)
  <2>1. /\ pc[th] \in Busy /\ pc[th] # "store"
        /\ job'[th].making \in {{}, job[th].making}
        /\ \A o \in All : o # th => pc'[o] = pc[o] /\ job'[o] = job[o]
        /\ UNCHANGED <<records, subs, live, failed, spinning>>
    <3>1. CASE Scan(th)
      BY <1>0, <3>1 DEF Scan, At, sensors, Job
    <3>2. CASE Test(th)
      BY <1>0, <3>2 DEF Test, At, sensors, Job
    <3>3. CASE NavUpdate(th)
      BY <1>0, <3>3, NoJobType DEF NavUpdate, At, sensors
    <3>. QED BY <1>7, <3>1, <3>2, <3>3
  <2>2. job'[th].making = {} /\ DOMAIN records = subs \cup failed
    BY <1>4, <1>5, <2>1
  <2>. QED BY <1>2, <1>6, <2>1, <2>2 DEF OneAtATime
<1>8. CASE Subscribe(th)
  <2>0. /\ pc[th] = "subscribe" /\ job[th].making = {} /\ DOMAIN records = subs \cup failed
        /\ UNCHANGED <<subs, live, failed, spinning>> /\ th \in Discovering
    BY <1>2, <1>4, <1>5, <1>8 DEF Subscribe, At
  <2>1. CASE UNCHANGED records /\ pc' \in {pc, [pc EXCEPT ![th] = "remove"]}
             /\ job' \in {job} \cup {[job EXCEPT ![th].new = @ \ {t}] : t \in job[th].new}
    <3>1. /\ job'[th].making = job[th].making
          /\ \A o \in All : o # th => pc'[o] = pc[o] /\ job'[o] = job[o]
      BY <1>0, <2>1 DEF Job
    <3>. QED BY <1>6, <2>0, <2>1, <3>1 DEF OneAtATime
  <2>2. ASSUME NEW t \in job[th].new, t \notin subs, records' = Put(records, t, -1),
               job' = [job EXCEPT ![th].making = {t}], pc' = [pc EXCEPT ![th] = "store"]
        PROVE  OneAtATime'
    <3>1. /\ pc'[th] = "store" /\ job'[th].making = {t} /\ t \in Topics \ subs'
          /\ \A o \in All : o # th => pc'[o] = pc[o] /\ job'[o] = job[o]
      BY <1>0, <2>0, <2>2 DEF Job
    <3>2. DOMAIN records' = subs' \cup {t} \cup failed'
      BY <2>0, <2>2 DEF Put
    <3>3. /\ \A a, b \in Discovering' : a = b
          /\ \A o \in All : job'[o].making # {} =>
                pc'[o] = "store" /\ \E u \in Topics \ subs' : job'[o].making = {u}
          /\ Making' = {t}
      BY <2>0, <3>1, DiscoveryMoves
    <3>. QED BY <2>0, <3>2, <3>3 DEF OneAtATime
  <2>. QED BY <1>8, <2>1, <2>2 DEF Subscribe
<1>9. CASE Store(th)
  <2>1. PICK t \in job[th].making :
          /\ subs' = subs \cup {t} /\ live' = [live EXCEPT ![t] = @ + 1]
          /\ job' = [job EXCEPT ![th].new = @ \ {t}, ![th].making = {}]
          /\ failed' = failed \ {t}
    BY <1>9 DEF Store
  <2>2. /\ pc[th] = "store" /\ pc' = [pc EXCEPT ![th] = "subscribe"] /\ UNCHANGED <<records, spinning>>
    BY <1>9 DEF Store, At
  <2>3. t \in Topics \ subs /\ job[th].making = {t} /\ DOMAIN records = subs \cup {t} \cup failed
        /\ th \in Discovering
    BY <1>2, <1>4, <2>1, <2>2 DEF OneAtATime
  <2>4. /\ job'[th].making = {}
        /\ \A o \in All : o # th => pc'[o] = pc[o] /\ job'[o] = job[o]
    BY <1>0, <2>1, <2>2 DEF Job
  <2>5. /\ subs' \subseteq Topics /\ DOMAIN live' = Topics
        /\ spinning' => \A u \in Topics : live'[u] = IF u \in subs' THEN 1 ELSE 0
    BY <2>1, <2>2, <2>3 DEF OneAtATime
  <2>. QED BY <1>6, <2>1, <2>2, <2>3, <2>4, <2>5
<1>10. CASE RemoveGone(th)
  <2>. DEFINE removed == known \ job[th].seen
  <2>1. /\ pc[th] = "remove" /\ records' = Without(records, removed) /\ subs' = subs \ removed
        /\ live' = [t \in Topics |-> IF t \in removed \cap subs THEN live[t] - 1 ELSE live[t]]
        /\ job' = [job EXCEPT ![th] = NoJob] /\ pc' = [pc EXCEPT ![th] = Done(th)]
        /\ failed' = failed \ removed
        /\ UNCHANGED spinning
    BY <1>10 DEF RemoveGone, At
  <2>. HIDE DEF removed
  <2>2. th \in Discovering /\ DOMAIN records = subs \cup failed /\ DOMAIN records' = subs' \cup failed'
    BY <1>2, <1>4, <1>5, <2>1 DEF Without
  <2>3. /\ job'[th].making = {}
        /\ \A o \in All : o # th => pc'[o] = pc[o] /\ job'[o] = job[o]
    BY <1>0, <2>1, NoJobType
  <2>4. /\ subs' \subseteq Topics /\ DOMAIN live' = Topics
        /\ spinning' => \A u \in Topics : live'[u] = IF u \in subs' THEN 1 ELSE 0
    BY <2>1 DEF OneAtATime
  <2>. QED BY <1>6, <2>2, <2>3, <2>4
<1>11. CASE Receive(th)
  <2>1. PICK m \in wire : records' = Updated(m[1], m[2])
                          /\ pc' = [pc EXCEPT ![th] = IF Kind[m[1]] = "imu" THEN "idle" ELSE "detect"]
    BY <1>11 DEF Receive
  <2>2. pc[th] = "idle" /\ UNCHANGED <<job, subs, live, failed, spinning>>
    BY <1>11 DEF Receive
  <2>3. m[1] \in Topics /\ m[2] \in Int
    BY <1>0
  <2>4. DOMAIN records' = DOMAIN records
    BY <2>1, <2>3, UpdatedFacts
  <2>5. pc'[th] \notin Busy /\ \A o \in All : o # th => pc'[o] = pc[o]
    BY <1>0, <2>1
  <2>. QED BY <1>3, <2>2, <2>4, <2>5, OthersMove
<1>12. CASE Detect(th) \/ Assign(th)
  <2>1. /\ pc[th] \notin Busy /\ pc'[th] \notin Busy /\ job'[th].making \in {{}, job[th].making}
        /\ \A o \in All : o # th => pc'[o] = pc[o] /\ job'[o] = job[o]
        /\ UNCHANGED <<records, subs, live, failed, spinning>>
    <3>1. CASE Detect(th)
      BY <1>0, <3>1 DEF Detect, At, sensors, Job
    <3>2. CASE Assign(th)
      BY <1>0, <3>2, NoJobType DEF Assign, At, sensors
    <3>. QED BY <1>12, <3>1, <3>2
  <2>. QED BY <1>3, <2>1, OthersMove
<1>13. CASE DiscoveryRaises(th)
  <2>1. /\ pc[th] \in Busy /\ job' = [job EXCEPT ![th] = NoJob]
        /\ pc' = [pc EXCEPT ![th] = "idle"] /\ failed' = failed \cup job[th].making
        /\ UNCHANGED <<records, subs, live, spinning>>
    BY <1>13 DEF DiscoveryRaises
  <2>2. /\ th \in Discovering /\ DOMAIN records' = subs' \cup failed'
        /\ job'[th].making = {}
        /\ \A o \in All : o # th => pc'[o] = pc[o] /\ job'[o] = job[o]
    BY <1>0, <1>2, <1>4, <2>1, NoJobType
  <2>. QED BY <1>6, <2>1, <2>2 DEF OneAtATime
<1>. QED
  BY <1>1, <1>7, <1>8, <1>9, <1>10, <1>11, <1>12, <1>13 DEF ThreadStep

LEMMA OneOther ==
  ASSUME Types, Unbuilt, OneAtATime, OtherStep PROVE OneAtATime'
<1>1. CASE Construct
  <2>1. /\ \A th \in All : pc[th] = "idle"
        /\ records = <<>> /\ subs = {} /\ live = [t \in Topics |-> 0]
        /\ UNCHANGED <<job, failed>> /\ failed = {}
    BY <1>1 DEF Construct, Unbuilt, OneAtATime
  <2>2. Discovering = {} /\ \A th \in All : job[th].making = {}
    BY <2>1 DEF OneAtATime, Discovering, All
  <2>3. CASE manifest
    <3>1. /\ records' = [t \in ManifestTopics |-> -1] /\ subs' = ManifestTopics
          /\ live' = [t \in Topics |-> IF t \in ManifestTopics THEN 1 ELSE 0]
          /\ UNCHANGED pc /\ ManifestTopics \subseteq Topics
      BY <1>1, <2>3 DEF Construct, ManifestTopics
    <3>2. Discovering' = {} /\ Making' = {}
      BY <2>2, <3>1 DEF Discovering, Making
    <3>. QED BY <2>1, <2>2, <3>1, <3>2 DEF OneAtATime
  <2>4. CASE ~manifest
    <3>1. pc' = [pc EXCEPT ![Main] = "scan"] /\ UNCHANGED <<records, subs, live>>
      BY <1>1, <2>4 DEF Construct
    <3>2. Main \in All /\ pc'[Main] = "scan" /\ \A o \in All : o # Main => pc'[o] = pc[o]
      BY <3>1 DEF Types, All
    <3>3. /\ \A a, b \in Discovering' : a = b
          /\ \A o \in All : job'[o].making = {}
          /\ Making = {} /\ Making' = {}
      BY <2>1, <2>2, <3>1, <3>2, DiscoveryStarts
    <3>4. \A t \in Topics : live'[t] = IF t \in subs' THEN 1 ELSE 0
      BY <2>1, <3>1
    <3>5. DOMAIN records' = subs' \cup failed' /\ subs' \subseteq Topics /\ DOMAIN live' = Topics
      BY <2>1, <2>2, <3>1, <3>3 DEF OneAtATime
    <3>. QED BY <3>3, <3>4, <3>5 DEF OneAtATime
  <2>. QED BY <2>3, <2>4
<1>2. CASE Shutdown
  <2>1. UNCHANGED <<records, subs, failed, pc, job, spinning>> /\ ~spinning /\ DOMAIN live' = Topics
    BY <1>2 DEF Shutdown, threads
  <2>2. Discovering' = Discovering /\ Making' = Making
    BY <2>1 DEF Discovering, Making
  <2>. QED BY <2>1, <2>2 DEF OneAtATime
<1>3. CASE ~Construct /\ ~Shutdown
  <2>1. UNCHANGED <<records, subs, live, failed, pc, job>>
    BY <1>3, OtherLeaves
  <2>2. Discovering' = Discovering /\ Making' = Making
    BY <2>1 DEF Discovering, Making
  <2>3. spinning' => spinning
    <3>1. ASSUME NEW c \in Clients,
                 \/ Navigate(c) \/ NavWait(c) \/ NavSend(c) \/ Reply(c) \/ OnGoalResponse(c)
                 \/ OnResult(c) \/ NavEnd(c) \/ SendTarget(c) \/ RecordTarget(c)
          PROVE  UNCHANGED spinning
      BY <3>1 DEF Navigate, NavWait, NavSend, Reply, OnGoalResponse, OnResult, NavEnd, SendTarget,
         RecordTarget
    <3>. QED
      BY <1>3, <3>1 DEF OtherStep, Constructed, ConstructFails, Unspin, Change, Publish
  <2>. QED BY <2>1, <2>2, <2>3 DEF OneAtATime
<1>. QED BY <1>1, <1>2, <1>3

\* Once two discoveries have run at once, that stays so.
LEMMA OverlapStays == overlapped /\ (Next \/ UNCHANGED vars) => overlapped'
<1>1. ASSUME NEW th \in All, ThreadStep(th) PROVE overlapped => overlapped'
  BY <1>1 DEF ThreadStep, Timer, Scan, Test, NavUpdate, Subscribe, Store, DiscoveryRaises, RemoveGone, Receive,
     Detect, Assign
<1>2. OtherStep => UNCHANGED overlapped
  BY OtherLeaves DEF Construct, Shutdown, threads
<1>. QED BY <1>1, <1>2, NextCases DEF vars, threads

LEMMA BackendInit == Init => Backend
<1>. SUFFICES ASSUME Init PROVE Backend
  OBVIOUS
<1>0. DOMAIN <<>> = {}
  OBVIOUS
<1>1. NoJob \in Job /\ NoJob.making = {}
  BY NoJobType
<1>2. Types
  BY <1>0, <1>1 DEF Init, Types, All, Busy
<1>3. Unbuilt
  BY DEF Init, Unbuilt, All
<1>4. Discovering = {} /\ Making = {}
  BY DEF Init, Discovering, Making, All
<1>5. OneAtATime
  BY <1>0, <1>1, <1>4 DEF Init, OneAtATime, All
<1>. QED BY <1>2, <1>3, <1>5 DEF Backend

LEMMA BackendStep == Backend /\ (Next \/ UNCHANGED vars) => Backend'
<1>. SUFFICES ASSUME Backend, Next \/ UNCHANGED vars PROVE Backend'
  OBVIOUS
<1>1. Types' /\ Unbuilt'
  BY TypesStep, UnbuiltStep DEF Backend
<1>2. ASSUME ~overlapped' PROVE OneAtATime'
  <2>1. Types /\ Unbuilt /\ OneAtATime
    BY <1>2, OverlapStays DEF Backend
  <2>2. UNCHANGED vars => OneAtATime'
    <3>1. ASSUME UNCHANGED vars PROVE UNCHANGED <<records, subs, live, failed, pc, job, spinning>>
      BY <3>1 DEF vars, sensors, threads
    <3>2. ASSUME UNCHANGED vars PROVE Discovering' = Discovering /\ Making' = Making
      BY <3>1, <3>2 DEF Discovering, Making
    <3>. QED BY <2>1, <3>1, <3>2 DEF OneAtATime
  <2>. QED BY <1>2, <2>1, <2>2, OneThread, OneOther, NextCases
<1>. QED BY <1>1, <1>2 DEF Backend

LEMMA BackendInvariant == Spec => []Backend
BY BackendInit, BackendStep, PTL DEF Spec

\* As long as no two discoveries ran at once, whatever appears and goes while they run: the
\* sensors the backend lists are those it has exactly one subscription to, and those whose
\* subscribing raised.
THEOREM GazeboListedIsSubscribed == Spec => []ListedIsSubscribed
<1>1. Backend => ListedIsSubscribed
  <2>. SUFFICES ASSUME Backend, spinning, ~overlapped, Discovering = {} PROVE
         /\ subs \subseteq DOMAIN records /\ DOMAIN records \ subs \subseteq failed
         /\ \A t \in Topics : live[t] = IF t \in subs THEN 1 ELSE 0
    BY DEF ListedIsSubscribed
  <2>1. Making = {}
    BY DEF Making
  <2>. QED BY <2>1 DEF Backend, OneAtATime
<1>. QED BY <1>1, BackendInvariant, PTL

-----------------------------------------------------------------------------
(* Readings never go back.                                                 *)

\* What a step leaves of the readings it does not remove.
Advance == \A t \in (DOMAIN records \cap DOMAIN records') \ failed : records'[t] >= records[t]

LEMMA AdvanceStep ==
  ASSUME Backend, Next \/ UNCHANGED vars, ~overlapped' PROVE Advance
<1>0. /\ Types /\ Unbuilt /\ OneAtATime
      /\ \A t \in DOMAIN records : records[t] \in Int
      /\ DOMAIN records \subseteq Topics /\ wire \subseteq Topics \X Nat
  BY OverlapStays DEF Backend, Types
<1>1. CASE UNCHANGED records
  BY <1>0, <1>1 DEF Advance
<1>2. ASSUME NEW th \in All, Subscribe(th) PROVE Advance
  <2>1. CASE UNCHANGED records
    BY <1>1, <2>1
  <2>2. CASE \E t \in job[th].new \ subs : records' = Put(records, t, -1)
    <3>1. PICK t \in job[th].new \ subs : records' = Put(records, t, -1)
      BY <2>2
    <3>2. th \in Discovering /\ job[th].making = {}
      BY <1>0, <1>2 DEF Subscribe, At, OneAtATime, Discovering, All
    <3>3. t \notin DOMAIN records \ failed
      BY <1>0, <3>1, <3>2, Alone DEF OneAtATime
    <3>4. \A u \in DOMAIN records \ failed : records'[u] = records[u]
      BY <3>1, <3>3 DEF Put
    <3>. QED BY <1>0, <3>4 DEF Advance
  <2>. QED BY <1>2, <2>1, <2>2 DEF Subscribe
<1>3. ASSUME NEW th \in All, RemoveGone(th) PROVE Advance
  <2>1. PICK S : records' = Without(records, S)
    BY <1>3 DEF RemoveGone
  <2>2. \A u \in DOMAIN records' : records'[u] = records[u]
    BY <2>1 DEF Without
  <2>. QED BY <1>0, <2>2 DEF Advance
<1>4. ASSUME NEW th \in All, Receive(th) PROVE Advance
  <2>1. PICK m \in wire : records' = Updated(m[1], m[2])
    BY <1>4 DEF Receive
  <2>2. m[1] \in Topics /\ m[2] \in Int
    BY <1>0
  <2>. QED BY <1>0, <2>1, <2>2, UpdatedFacts DEF Advance
<1>5. ASSUME NEW th \in All, Timer(th) \/ Scan(th) \/ Test(th) \/ NavUpdate(th) \/ Store(th)
                             \/ DiscoveryRaises(th) \/ Detect(th) \/ Assign(th)
      PROVE  UNCHANGED records
  BY <1>5 DEF Timer, Scan, Test, NavUpdate, Store, DiscoveryRaises, Detect, Assign, sensors
<1>6. CASE Construct
  <2>1. DOMAIN records = {}
    BY <1>6 DEF Construct, Unbuilt, Backend
  <2>. QED BY <2>1 DEF Advance
<1>7. CASE OtherStep /\ ~Construct
  BY <1>1, <1>7, OtherLeaves DEF Shutdown
<1>8. CASE UNCHANGED vars
  BY <1>1, <1>8 DEF vars, sensors
<1>. QED
  BY <1>1, <1>2, <1>3, <1>4, <1>5, <1>6, <1>7, <1>8, NextCases DEF ThreadStep

\* As long as no two discoveries ran at once, a reading is never replaced by an older one,
\* in whatever order the executor's threads take the messages, but where subscribing raised.
THEOREM GazeboReadingsAdvance == Spec => ReadingsAdvance
<1>1. Backend /\ [Next]_vars =>
        [~overlapped' => \A t \in (DOMAIN records \cap DOMAIN records') \ failed :
                           records'[t] >= records[t]]_vars
  BY AdvanceStep DEF Advance
<1>. QED BY <1>1, BackendInvariant, PTL DEF Spec, ReadingsAdvance
=============================================================================
