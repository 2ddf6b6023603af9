--------------------------- MODULE GazeboBackend ---------------------------
(***************************************************************************)
(* The Gazebo backend (GazeboBackend in robosim/backends/gazebo/           *)
(* backend.py) in the server that starts it. With a manifest it subscribes *)
(* to the topics the manifest names and drives trajectory controllers;     *)
(* without one a timer compares the ROS graph with what it has subscribed  *)
(* to and also finds the navigation server.                                *)
(*                                                                         *)
(* A multi-threaded executor runs the callbacks: timer, messages, goals.   *)
(* _state_lock is held inside one step at most, so every step is atomic,   *)
(* and what is read before it and used under it takes two. ROS (the graph, *)
(* the order of messages, the navigation server) is external.              *)
(***************************************************************************)
EXTENDS GazeboServer, Integers

CONSTANTS
  Topics, Kind,        \* sensor topics and what each carries
  Threads,             \* of the executor
  Main,                \* the thread of serve_async
  Clients,             \* RPC threads
  MaxStamp, MaxChanges, MaxGoals     \* bounds

ASSUME GazeboBackendAssumption ==
  /\ Kind \in [Topics -> {"joint", "camera", "imu"}]
  /\ Main \notin Threads /\ MaxStamp \in Nat /\ MaxChanges \in Nat /\ MaxGoals \in Nat

VARIABLES
  graph, changes,      \* ROS: the topics and "nav" there are; how often that changed
  clock, wire,         \* ROS: the last stamp of each topic; messages under way
  spinning,            \* the executor runs
  records,             \* _discovered_sensors: the stamp of each topic's data, -1 before
  subs,                \* _cur_subscriptions
  live,                \* ROS: subscriptions to each topic that exist
  known,               \* _known_topics
  failed,              \* history: topics whose last subscribing raised
  navClient, navLive,  \* _nav_client, 0 for None; ROS: the clients that exist
  caps,                \* _capabilities
  pc, job,             \* of the threads
  rpc, goal,           \* of the clients
  command, sent,       \* _joint_command_state; the last trajectory that was sent
  overlapped           \* history: two discoveries ran at once

ros == <<graph, changes, clock, wire>>
sensors == <<records, subs, live, known, failed>>
nav == <<navClient, navLive>>
threads == <<pc, job, overlapped>>
calls == <<rpc, goal, command, sent>>
vars == <<serverVars, ros, spinning, sensors, nav, caps, threads, calls>>

NoJob == [seen |-> {}, new |-> {}, fresh |-> FALSE, had |-> FALSE, making |-> {}, caps |-> {}]
NoGoal == [client |-> 0, reply |-> "none", done |-> FALSE]

Init ==
  /\ ServerInit
  /\ graph \in SUBSET (Topics \cup {"nav"}) /\ changes = 0
  /\ clock = [t \in Topics |-> 0] /\ wire = {}
  /\ spinning = FALSE
  /\ records = <<>> /\ subs = {} /\ live = [t \in Topics |-> 0] /\ known = {}
  /\ failed = {}
  /\ navClient = 0 /\ navLive = {} /\ caps = {}
  /\ pc = [th \in Threads \cup {Main} |-> "idle"] /\ job = [th \in Threads \cup {Main} |-> NoJob]
  /\ overlapped = FALSE
  /\ rpc = [c \in Clients |-> "idle"] /\ goal = [c \in Clients |-> NoGoal]
  /\ command = 0 /\ sent = 0

Without(f, S) == [t \in DOMAIN f \ S |-> f[t]]
Put(f, t, x) == [u \in DOMAIN f \cup {t} |-> IF u = t THEN x ELSE f[u]]

(* The constructor.                                                        *)
ManifestTopics == {t \in Topics : Kind[t] \in {"joint", "camera"}}

\* With a manifest: the subscriptions, for good. Without: the first discovery.
Construct ==
  /\ stage = "construct" /\ ~spinning
  /\ spinning' = TRUE
  /\ IF manifest
       THEN /\ records' = [t \in ManifestTopics |-> -1] /\ subs' = ManifestTopics
            /\ live' = [t \in Topics |-> IF t \in ManifestTopics THEN 1 ELSE 0]
            /\ stage' = "services"
            /\ UNCHANGED pc
       ELSE /\ pc' = [pc EXCEPT ![Main] = "scan"]
            /\ UNCHANGED <<records, subs, live, stage>>
  /\ UNCHANGED <<manifest, headless, processes, running, terminated, spawned, ros,
                 known, failed, nav, caps, job, overlapped, calls>>

\* Nobody has the backend: its node goes, and the processes follow.
ConstructFails ==
  /\ stage = "construct"
  /\ stage' = "runtime" /\ spinning' = FALSE
  /\ UNCHANGED <<manifest, headless, processes, running, terminated, spawned, ros,
                 sensors, nav, caps, threads, calls>>

Constructed ==
  /\ stage = "construct" /\ spinning /\ pc[Main] = "idle"
  /\ stage' = "services"
  /\ UNCHANGED <<manifest, headless, processes, running, terminated, spawned, ros,
                 spinning, sensors, nav, caps, threads, calls>>

(* _discover_and_subscribe.                                                *)
Discovering == {th \in Threads \cup {Main} :
                  pc[th] \in {"scan", "test", "nav", "subscribe", "store", "remove"}}

\* The constructor's discovery ends with the constructor.
At(th, place) == pc[th] = place /\ (th = Main => stage = "construct")

\* The timer, every five seconds, whether or not the last discovery is over; one overlap is
\* enough (a bound).
Timer(th) ==
  /\ ~manifest /\ spinning /\ stage \in {"services", "serving"}
  /\ th # Main /\ pc[th] = "idle" /\ ~overlapped
  /\ pc' = [pc EXCEPT ![th] = "scan"]
  /\ overlapped' = (overlapped \/ Discovering # {})
  /\ UNCHANGED <<serverVars, ros, spinning, sensors, nav, caps, job, calls>>

Scan(th) ==
  /\ At(th, "scan")
  /\ pc' = [pc EXCEPT ![th] = "test"] /\ job' = [job EXCEPT ![th].seen = graph]
  /\ UNCHANGED <<serverVars, ros, spinning, sensors, nav, caps, overlapped, calls>>

\* Which topics are new; whether there is a navigation client.
Test(th) ==
  /\ At(th, "test")
  /\ pc' = [pc EXCEPT ![th] = "nav"]
  /\ LET new == (job[th].seen \cap Topics) \ subs
     IN  job' = [job EXCEPT ![th].new = new, ![th].fresh = new # {},
                            ![th].had = navClient # 0]
  /\ UNCHANGED <<serverVars, ros, spinning, sensors, nav, caps, overlapped, calls>>

\* A number no client has.
Unused == LET taken == navLive \cup {goal[c].client : c \in Clients}
          IN  CHOOSE n \in 1..(Cardinality(taken) + 1) : n \notin taken

\* A client is made when there was none, and destroyed when the server has gone; when
\* another discovery has just destroyed it, that raises, and the discovery is over.
NavUpdate(th) ==
  /\ At(th, "nav")
  /\ LET appears == "nav" \in job[th].seen /\ ~job[th].had
         vanishes == "nav" \notin job[th].seen /\ job[th].had
     IN  /\ navClient' = IF appears THEN Unused ELSE IF vanishes THEN 0 ELSE navClient
         /\ navLive' = IF appears THEN navLive \cup {Unused}
                       ELSE IF vanishes THEN navLive \ {navClient} ELSE navLive
         /\ IF vanishes /\ navClient = 0
              THEN pc' = [pc EXCEPT ![th] = "idle"] /\ job' = [job EXCEPT ![th] = NoJob]
              ELSE pc' = [pc EXCEPT ![th] = "subscribe"] /\ UNCHANGED job
  /\ UNCHANGED <<serverVars, ros, spinning, sensors, caps, overlapped, calls>>

\* _subscribe_sensor: a record now, the subscription once it is made.
Subscribe(th) ==
  /\ At(th, "subscribe")
  /\ IF job[th].new = {}
       THEN pc' = [pc EXCEPT ![th] = "remove"] /\ UNCHANGED <<job, records>>
       ELSE \E t \in job[th].new :
              IF t \in subs
                THEN /\ job' = [job EXCEPT ![th].new = @ \ {t}] /\ UNCHANGED <<pc, records>>
                ELSE /\ records' = Put(records, t, -1)
                     /\ job' = [job EXCEPT ![th].making = {t}]
                     /\ pc' = [pc EXCEPT ![th] = "store"]
  /\ UNCHANGED <<serverVars, ros, spinning, subs, live, known, failed, nav, caps, overlapped, calls>>

Store(th) ==
  /\ At(th, "store")
  /\ \E t \in job[th].making :
       /\ subs' = subs \cup {t} /\ live' = [live EXCEPT ![t] = @ + 1]
       /\ job' = [job EXCEPT ![th].new = @ \ {t}, ![th].making = {}]
       /\ failed' = failed \ {t}
  /\ pc' = [pc EXCEPT ![th] = "subscribe"]
  /\ UNCHANGED <<serverVars, ros, spinning, records, known, nav, caps, overlapped, calls>>

\* create_subscription raises, or what reads the graph, or the making of a navigation client:
\* the timer's discovery is over (a constructor's ends in ConstructFails). The record stays,
\* and the topics that have gone are not looked for.
DiscoveryRaises(th) ==
  /\ th # Main /\ pc[th] \in {"scan", "nav", "store"}
  /\ pc[th] = "nav" => "nav" \in job[th].seen /\ ~job[th].had
  /\ failed' = failed \cup job[th].making
  /\ pc' = [pc EXCEPT ![th] = "idle"] /\ job' = [job EXCEPT ![th] = NoJob]
  /\ UNCHANGED <<serverVars, ros, spinning, records, subs, live, known, nav, caps, overlapped,
                 calls>>

Done(th) == IF job[th].fresh THEN "detect" ELSE "idle"

MutantRemoveGone(th) ==      \* pops the subscription without destroying it
  /\ At(th, "remove")
  /\ LET removed == known \ job[th].seen
     IN  /\ records' = Without(records, removed) /\ subs' = subs \ removed
         /\ failed' = failed \ removed
  /\ known' = job[th].seen \cap Topics
  /\ pc' = [pc EXCEPT ![th] = Done(th)] /\ job' = [job EXCEPT ![th] = NoJob]
  /\ UNCHANGED <<serverVars, ros, spinning, live, nav, caps, overlapped, calls>>

\* The topics that have gone, popped under the lock and destroyed after it.
RemoveGone(th) ==
  /\ At(th, "remove")
  /\ LET removed == known \ job[th].seen
     IN  /\ records' = Without(records, removed) /\ subs' = subs \ removed
         /\ failed' = failed \ removed
         /\ live' = [t \in Topics |-> IF t \in removed \cap subs THEN live[t] - 1 ELSE live[t]]
  /\ known' = job[th].seen \cap Topics
  /\ pc' = [pc EXCEPT ![th] = Done(th)] /\ job' = [job EXCEPT ![th] = NoJob]
  /\ UNCHANGED <<serverVars, ros, spinning, nav, caps, overlapped, calls>>

(* Messages: the executor's threads take them in any order.                *)
Publish(t) ==
  /\ t \in graph /\ live[t] > 0 /\ clock[t] < MaxStamp
  /\ clock' = [clock EXCEPT ![t] = @ + 1] /\ wire' = wire \cup {<<t, clock[t] + 1>>}
  /\ UNCHANGED <<serverVars, graph, changes, spinning, sensors, nav, caps, threads, calls>>

MutantUpdated(t, stamp) == IF t \in DOMAIN records THEN Put(records, t, stamp) ELSE records

\* _update_sensor
Updated(t, stamp) ==
  IF t \in DOMAIN records /\ stamp >= records[t] THEN Put(records, t, stamp) ELSE records

Receive(th) ==
  /\ spinning /\ th # Main /\ pc[th] = "idle"
  /\ \E m \in wire :
       /\ wire' = wire \ {m}
       /\ records' = Updated(m[1], m[2])
       /\ pc' = [pc EXCEPT ![th] = IF Kind[m[1]] = "imu" THEN "idle" ELSE "detect"]
  /\ UNCHANGED <<serverVars, graph, changes, clock, spinning, subs, live, known, failed, nav, caps, job,
                 overlapped, calls>>

\* _detect_capabilities: the sensors under the lock, and without a manifest the rest
\* after it. That joints can be read and written comes with the data, and is left out.
Detect(th) ==
  /\ At(th, "detect")
  /\ IF manifest
       THEN /\ caps' = {Kind[t] : t \in {u \in DOMAIN records : records[u] >= 0}}
            /\ pc' = [pc EXCEPT ![th] = "idle"] /\ UNCHANGED job
       ELSE /\ job' = [job EXCEPT ![th].caps = {Kind[t] : t \in DOMAIN records}]
            /\ pc' = [pc EXCEPT ![th] = "assign"] /\ UNCHANGED caps
  /\ UNCHANGED <<serverVars, ros, spinning, sensors, nav, overlapped, calls>>

Assign(th) ==
  /\ At(th, "assign")
  /\ caps' = job[th].caps \cup IF navClient # 0 THEN {"nav"} ELSE {}
  /\ pc' = [pc EXCEPT ![th] = "idle"] /\ job' = [job EXCEPT ![th] = NoJob]
  /\ UNCHANGED <<serverVars, ros, spinning, sensors, nav, overlapped, calls>>

(* navigate_to. _nav_client is read three times: when it is None the call  *)
(* raises. A client that goes away changes nothing: the thread polls on.   *)
Navigate(c) ==
  /\ stage = "serving" /\ rpc[c] = "idle"
  /\ "nav" \in caps /\ navClient # 0
  /\ rpc' = [rpc EXCEPT ![c] = "wait"]
  /\ UNCHANGED <<serverVars, ros, spinning, sensors, nav, caps, threads, goal, command, sent>>

NavWait(c) ==      \* for the server, five seconds at most
  /\ rpc[c] = "wait"
  /\ \E place \in IF navClient # 0 /\ "nav" \in graph THEN {"send"} ELSE {"idle"} :
       rpc' = [rpc EXCEPT ![c] = place]
  /\ UNCHANGED <<serverVars, ros, spinning, sensors, nav, caps, threads, goal, command, sent>>

NavSend(c) ==
  /\ rpc[c] = "send"
  /\ IF navClient = 0
       THEN rpc' = [rpc EXCEPT ![c] = "idle"] /\ UNCHANGED goal
       ELSE /\ rpc' = [rpc EXCEPT ![c] = "poll"]
            /\ goal' = [goal EXCEPT ![c] = [NoGoal EXCEPT !.client = navClient, !.reply = "sent"]]
  /\ UNCHANGED <<serverVars, ros, spinning, sensors, nav, caps, threads, command, sent>>

\* The navigation server takes the goal or not, and ends it some day.
Reply(c) ==
  /\ "nav" \in graph
  /\ \E from \in {"sent", "watched"} :
       /\ goal[c].reply = from
       /\ \E to \in IF from = "sent" THEN {"accepted", "rejected"} ELSE {"result"} :
            goal' = [goal EXCEPT ![c].reply = to]
  /\ UNCHANGED <<serverVars, ros, spinning, sensors, nav, caps, threads, rpc, command, sent>>

Callback(c) == spinning /\ goal[c].client \in navLive

MutantOnGoalResponse(c) ==      \* a rejection only sets the status
  /\ Callback(c) /\ goal[c].reply \in {"accepted", "rejected"}
  /\ goal' = [goal EXCEPT ![c].reply = IF @ = "accepted" THEN "watched" ELSE "over"]
  /\ UNCHANGED <<serverVars, ros, spinning, sensors, nav, caps, threads, rpc, command, sent>>

OnGoalResponse(c) ==
  /\ Callback(c) /\ goal[c].reply \in {"accepted", "rejected"}
  /\ goal' = [goal EXCEPT ![c].reply = IF @ = "accepted" THEN "watched" ELSE "over",
                          ![c].done = goal[c].reply = "rejected"]
  /\ UNCHANGED <<serverVars, ros, spinning, sensors, nav, caps, threads, rpc, command, sent>>

OnResult(c) ==
  /\ Callback(c) /\ goal[c].reply = "result"
  /\ goal' = [goal EXCEPT ![c].reply = "over", ![c].done = TRUE]
  /\ UNCHANGED <<serverVars, ros, spinning, sensors, nav, caps, threads, rpc, command, sent>>

\* The final feedback, once the event is set.
NavEnd(c) ==
  /\ rpc[c] = "poll" /\ goal[c].done
  /\ rpc' = [rpc EXCEPT ![c] = "idle"] /\ goal' = [goal EXCEPT ![c] = NoGoal]
  /\ UNCHANGED <<serverVars, ros, spinning, sensors, nav, caps, threads, command, sent>>

(* set_joint_target: the goal is sent, then recorded under the lock.       *)
SendTarget(c) ==
  /\ manifest /\ stage = "serving" /\ rpc[c] = "idle" /\ sent < MaxGoals
  /\ sent' = sent + 1 /\ goal' = [goal EXCEPT ![c].client = sent + 1]
  /\ rpc' = [rpc EXCEPT ![c] = "record"]
  /\ UNCHANGED <<serverVars, ros, spinning, sensors, nav, caps, threads, command>>

RecordTarget(c) ==
  /\ rpc[c] = "record"
  /\ command' = goal[c].client /\ goal' = [goal EXCEPT ![c] = NoGoal]
  /\ rpc' = [rpc EXCEPT ![c] = "idle"]
  /\ UNCHANGED <<serverVars, ros, spinning, sensors, nav, caps, threads, sent>>

(* shutdown: the executor ends with its callbacks, then the node goes.     *)
Unspin ==
  /\ stage = "stop" /\ spinning
  /\ spinning' = FALSE
  /\ UNCHANGED <<serverVars, ros, sensors, nav, caps, threads, calls>>

Shutdown ==
  /\ stage = "stop" /\ ~spinning /\ \A th \in Threads : pc[th] = "idle"
  /\ stage' = "runtime" /\ live' = [t \in Topics |-> 0]
  /\ UNCHANGED <<manifest, headless, processes, running, terminated, spawned, ros, spinning,
                 records, subs, known, failed, nav, caps, threads, calls>>

\* ROS: a topic or the navigation server comes or goes.
Change ==
  /\ changes < MaxChanges
  /\ \E x \in Topics \cup {"nav"} : graph' = (graph \ {x}) \cup ({x} \ graph)
  /\ changes' = changes + 1
  /\ UNCHANGED <<serverVars, clock, wire, spinning, sensors, nav, caps, threads, calls>>

Next ==
  \/ ServerNext /\ UNCHANGED <<ros, spinning, sensors, nav, caps, threads, calls>>
  \/ Construct \/ Constructed \/ ConstructFails \/ Unspin \/ Shutdown \/ Change
  \/ \E t \in Topics : Publish(t)
  \/ \E th \in Threads \cup {Main} :
       \/ Timer(th) \/ Scan(th) \/ Test(th) \/ NavUpdate(th) \/ Subscribe(th) \/ Store(th)
       \/ DiscoveryRaises(th) \/ RemoveGone(th) \/ Receive(th) \/ Detect(th) \/ Assign(th)
  \/ \E c \in Clients :
       \/ Navigate(c) \/ NavWait(c) \/ NavSend(c) \/ Reply(c) \/ OnGoalResponse(c)
       \/ OnResult(c) \/ NavEnd(c) \/ SendTarget(c) \/ RecordTarget(c)

\* The callbacks of a goal are run, and the polling goes on.
Spec == /\ Init /\ [][Next]_vars
        /\ \A c \in Clients : WF_vars(OnGoalResponse(c)) /\ WF_vars(OnResult(c))
                             /\ WF_vars(NavEnd(c))

-----------------------------------------------------------------------------
(* Properties.                                                             *)

\* As long as no two discoveries ran at once, whenever none is under way the backend lists
\* the sensors it is subscribed to, by one subscription each, and besides them only those
\* whose subscribing raised: their records stay listed without a subscription until a later
\* discovery subscribes.
ListedIsSubscribed ==
  spinning /\ ~overlapped /\ Discovering = {} =>
    /\ subs \subseteq DOMAIN records /\ DOMAIN records \ subs \subseteq failed
    /\ \A t \in Topics : live[t] = IF t \in subs THEN 1 ELSE 0

\* As long as no two discoveries ran at once, what a client reads of a record never goes
\* back in time, in whatever order the executor's threads run the callbacks, unless its
\* subscribing raised: it is then made anew. A topic that was removed and found again has
\* another record.
ReadingsAdvance ==
  [][~overlapped' => \A t \in (DOMAIN records \cap DOMAIN records') \ failed :
                       records'[t] >= records[t]]_vars

\* A navigation call whose goal the server rejected or ended returns, unless the
\* navigation client was destroyed or the backend shut down.
NavigationEnds ==
  \A c \in Clients :
    goal[c].reply \in {"rejected", "result"} ~>
      rpc[c] = "idle" \/ ~Callback(c)
=============================================================================
