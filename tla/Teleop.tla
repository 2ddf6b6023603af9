------------------------------- MODULE Teleop -------------------------------
(***************************************************************************)
(* Interactive teleoperation (control_stubs/tools): the keyboard           *)
(* (servo_keyboard.py) and the Joy-Con (joycon.py with teleop.py) turn     *)
(* input into velocity commands for one Cartesian and one joint target at  *)
(* a time, put them on a stream the server applies in order, and record    *)
(* episodes by calls that wait for their answer.                           *)
(*                                                                         *)
(* A velocity is a number, zero for rest: directions and steps are left    *)
(* out, and so is what the targets mean to the backend. The server is      *)
(* external: it applies commands, may end the stream, and answers calls or *)
(* loses the answer. What a held key or a tilted stick asks for is input.  *)
(***************************************************************************)
EXTENDS Integers, SequencesExt

CONSTANTS
  Groups,           \* joint groups, in the order of the robot's specification:
                    \* [name, ees, joints]: end effectors and number of joints
  TwistAsked, JointAsked,  \* --twist-target and --joint-target: groups, in order
  MaxSpeed, MaxQueue, MaxPressed  \* bounds; the last: buttons in a reading

ASSUME TeleopAssumption ==
  MaxSpeed \in Nat \ {0} /\ MaxQueue \in Nat /\ MaxPressed \in Nat

Kinds == {"twist", "joint"}
Named(name) == SelectSeq(Groups, LAMBDA g : g.name = name)
Effectors(g) == [k \in 1..Len(g.ees) |-> [group |-> g.name, ee |-> g.ees[k]]]
JointsOf(g) == <<[group |-> g.name, ee |-> "none"]>>

\* build_target_catalog: what was asked for; otherwise every end effector, and the groups
\* with joints and without end effector, the smallest first.
TwistTargets ==
  FlattenSeq(IF TwistAsked = <<>> THEN [k \in 1..Len(Groups) |-> Effectors(Groups[k])]
             ELSE [k \in 1..Len(TwistAsked) |->
                     SubSeq(Effectors(Named(TwistAsked[k])[1]), 1, 1)])
JointTargets ==
  FlattenSeq(IF JointAsked = <<>>
    THEN LET free == SelectSeq(Groups, LAMBDA g : g.joints > 0
                                  /\ \A k \in 1..Len(TwistTargets) : TwistTargets[k].group # g.name)
         IN  [k \in 1..Len(free) |-> JointsOf(SortSeq(free, LAMBDA a, b : a.joints < b.joints)[k])]
    ELSE [k \in 1..Len(JointAsked) |-> JointsOf(Named(JointAsked[k])[1])])
Catalog == [twist |-> TwistTargets, joint |-> JointTargets]
\* A command says which kind of target it is for.
AllTargets == UNION {{kind} \X ToSet(Catalog[kind]) : kind \in Kinds}

VARIABLES
  device,       \* "keyboard" or "joycon"
  records, resets,   \* --repo-name, --reset-between-episodes
  pc,           \* of the main thread
  active, last, \* of each kind: the index of the target, the velocity last asked of it
  held,         \* the keyboard's MotionState, 0 once the hold time is over
  pressed, events, stopping,  \* of the Joy-Con's last reading: the buttons to be looked
                \* at, the events to be answered, and that one of them was a stop
  episode,      \* EpisodeController._active
  wire,         \* CommandStream
  stream,       \* "open", "failed" (by the server), "cut" (by closing the channel)
  velocity,     \* the server: of each target
  recording,    \* the server: an episode of ours is being recorded
  left, lost    \* history: the keyboard left a target in motion; an answer never came

teleopVars == <<device, records, resets, pc, active, last, held, pressed, events, stopping,
                episode, wire, stream, velocity, recording, left, lost>>
options == <<device, records, resets>>
server == <<stream, velocity, recording>>

Rest == [kind \in Kinds |-> 0]
Speeds == 0..MaxSpeed
Motions == [Kinds -> Speeds]

TeleopInit ==
  /\ device \in {"keyboard", "joycon"} /\ records \in BOOLEAN /\ resets \in BOOLEAN
  /\ pc = IF records THEN "start" ELSE "events"
  /\ active = [kind \in Kinds |-> 1] /\ last = Rest /\ held = Rest
  /\ pressed = <<>> /\ events = <<>> /\ stopping = FALSE /\ episode = FALSE
  /\ wire = <<>> /\ stream = "open"
  /\ velocity = [t \in AllTargets |-> 0] /\ recording = FALSE /\ left = FALSE /\ lost = FALSE

Target(kind, index) == <<kind, Catalog[kind][index[kind]]>>
Command(kind, index, speed) == [to |-> Target(kind, index), speed |-> speed]
Present(kind) == Catalog[kind] # <<>>

\* A command for a kind whose velocity is not what was asked last.
Changes(kind, to) ==
  IF Present(kind) /\ to[kind] # last[kind] THEN <<Command(kind, active, to[kind])>> ELSE <<>>

Known(to) == [kind \in Kinds |-> IF Present(kind) THEN to[kind] ELSE 0]

\* cycle_twist, cycle_joint: zero for the target that was active.
Cycles(kind) == Len(Catalog[kind]) >= 2
Following(kind, index) == [index EXCEPT ![kind] = (@ % Len(Catalog[kind])) + 1]

Emit(motion) ==
  /\ wire' = wire \o Changes("twist", motion) \o Changes("joint", motion)
  /\ last' = Known(motion)

(* The keyboard, once per key or period.                                   *)
KeyLoop == device = "keyboard" /\ pc = "events" /\ stream = "open" /\ Len(wire) <= MaxQueue

\* A motion key; none, or space; the hold time may be over meanwhile.
KeyMotion ==
  /\ KeyLoop
  /\ \E kind \in Kinds, speed \in Speeds : held' = [held EXCEPT ![kind] = speed]
  /\ Emit(held')
  /\ UNCHANGED <<options, pc, active, pressed, events, stopping, episode, server, left, lost>>

KeyStill ==
  /\ KeyLoop
  /\ held' = Rest /\ Emit(Rest)
  /\ UNCHANGED <<options, pc, active, pressed, events, stopping, episode, server, left, lost>>

\* n and m: both velocities are taken for zero, and the other kind's target is not told.
KeySwitch(kind) ==
  /\ KeyLoop /\ Cycles(kind)
  /\ wire' = Append(wire, Command(kind, active, 0))
  /\ active' = Following(kind, active) /\ held' = Rest /\ last' = Rest
  /\ left' = (left \/ \E other \in Kinds \ {kind} : last[other] # 0)
  /\ UNCHANGED <<options, pc, pressed, events, stopping, episode, server, lost>>

\* e and c: at rest first; the call only when there is a recording.
KeyEpisode(call) ==
  /\ KeyLoop
  /\ held' = Rest /\ Emit(Rest)
  /\ pc' = IF records THEN call ELSE pc
  /\ UNCHANGED <<options, active, pressed, events, stopping, episode, server, left, lost>>

(* The Joy-Con: a reading is a motion and the buttons that were pressed.   *)
JoyEvents == {"next twist", "next joint", "end", "cancel", "stop"}
NextOf == [twist |-> "next twist", joint |-> "next joint"]

\* ServoSession.apply takes the events of a reading in order: a switch stops the target it
\* leaves, the others are answered later.
JoyRead ==
  /\ device = "joycon" /\ pc = "events" /\ events = <<>> /\ ~stopping /\ stream = "open"
  /\ Len(wire) <= MaxQueue
  /\ pressed' \in BoundedSeq(JoyEvents, MaxPressed)
  /\ pc' = "apply"
  /\ UNCHANGED <<options, active, last, held, events, stopping, episode, wire, server,
                 left, lost>>

MutantJoySwitch(kind) ==
  /\ pc = "apply" /\ pressed # <<>> /\ Head(pressed) = NextOf[kind]
  /\ pressed' = Tail(pressed)
  /\ IF Cycles(kind)
       THEN /\ active' = Following(kind, active) /\ last' = [last EXCEPT ![kind] = 0]
            /\ wire' = wire
       ELSE UNCHANGED <<wire, active, last>>
  /\ UNCHANGED <<options, pc, held, events, stopping, episode, server, left, lost>>

JoySwitch(kind) ==
  /\ pc = "apply" /\ pressed # <<>> /\ Head(pressed) = NextOf[kind]
  /\ pressed' = Tail(pressed)
  /\ IF Cycles(kind)
       THEN /\ wire' = Append(wire, Command(kind, active, 0))
            /\ active' = Following(kind, active) /\ last' = [last EXCEPT ![kind] = 0]
       ELSE UNCHANGED <<wire, active, last>>
  /\ UNCHANGED <<options, pc, held, events, stopping, episode, server, left, lost>>

JoyKeep ==
  /\ pc = "apply" /\ pressed # <<>> /\ Head(pressed) \notin {NextOf[kind] : kind \in Kinds}
  /\ pressed' = Tail(pressed) /\ events' = Append(events, Head(pressed))
  /\ UNCHANGED <<options, pc, active, last, held, stopping, episode, wire, server, left, lost>>

\* The motion of the reading, or rest when something is to be answered first.
JoyMove ==
  /\ pc = "apply" /\ pressed = <<>>
  /\ \E motion \in Motions : Emit(IF events = <<>> THEN motion ELSE Rest)
  /\ pc' = "events"
  /\ UNCHANGED <<options, active, held, pressed, events, stopping, episode, server, left, lost>>

JoyEvent ==
  /\ pc = "events" /\ events # <<>>
  /\ events' = Tail(events)
  /\ stopping' = (stopping \/ Head(events) = "stop")
  /\ pc' = IF Head(events) \in {"end", "cancel"} /\ records THEN Head(events) ELSE pc
  /\ UNCHANGED <<options, active, last, held, pressed, episode, wire, server, left, lost>>

(* EpisodeController: end or cancel, then reset, then start.               *)
\* What the server does: a call may be refused, and a save that fails ends the recording.
Served(call) ==
  CASE call = "start" -> ~recording /\ recording' = TRUE
    [] call = "reset" -> recording' = recording
    [] OTHER          -> recording /\ recording' = FALSE

Refused(call) ==
  CASE call = "end" -> recording' = FALSE
    [] call = "cancel" -> ~recording /\ recording' = recording
    [] OTHER -> recording' = recording

EpisodeCalls == {"start", "end", "cancel", "reset"}

AfterCall ==
  /\ episode' = (pc = "start")
  /\ pc' = CASE pc = "start" -> "events"
             [] pc = "reset" -> "start"
             [] OTHER        -> IF resets THEN "reset" ELSE "start"

CallAnswered ==
  /\ pc \in EpisodeCalls
  /\ Served(pc) /\ AfterCall
  /\ UNCHANGED <<options, active, last, held, pressed, events, stopping, wire, stream,
                 velocity, left, lost>>

\* Failed calls raise. An answer that is lost is only known not to have come.
MutantRaised == pc' = "finish" /\ episode' = FALSE
Raised == pc' = "finish" /\ episode' = episode

CallRefused ==
  /\ pc \in EpisodeCalls
  /\ Refused(pc) /\ Raised
  /\ UNCHANGED <<options, active, last, held, pressed, events, stopping, wire, stream,
                 velocity, left, lost>>

CallLost ==
  /\ pc \in EpisodeCalls
  /\ \/ Served(pc)
     \/ recording' = recording
  /\ lost' = (lost \/ pc = "start") /\ Raised
  /\ UNCHANGED <<options, active, last, held, pressed, events, stopping, wire, stream,
                 velocity, left>>

(* The end: the targets are stopped, the episode dropped, the stream       *)
(* closed, and one second later the channel.                               *)
\* A stop, the end of the stream, an interrupt, a device that is gone.
Quit ==
  /\ pc \in {"events", "apply"}
  /\ pc' = "finish"
  /\ UNCHANGED <<options, active, last, held, pressed, events, stopping, episode, wire,
                 server, left, lost>>

Stops(kind) == IF Present(kind) THEN <<Command(kind, active, 0)>> ELSE <<>>
Finish ==
  /\ pc = "finish"
  /\ IF device = "keyboard" THEN Emit(Rest)
     ELSE wire' = wire \o Stops("twist") \o Stops("joint") /\ last' = Rest
  /\ held' = Rest /\ pc' = IF episode THEN "drop" ELSE "close"
  /\ UNCHANGED <<options, active, pressed, events, stopping, episode, server, left, lost>>

Drop ==
  /\ pc = "drop"
  /\ \/ (Served("cancel") \/ Refused("cancel")) /\ lost' = lost
     \/ recording' = recording /\ lost' = TRUE
  /\ episode' = FALSE /\ pc' = "close"
  /\ UNCHANGED <<options, active, last, held, pressed, events, stopping, wire, stream,
                 velocity, left>>

\* The responses end when the server has applied everything; or a second passes.
Close ==
  /\ pc = "close"
  /\ pc' = "closed" /\ wire' = <<>>
  /\ stream' = IF wire = <<>> \/ stream = "failed" THEN stream ELSE "cut"
  /\ UNCHANGED <<options, active, last, held, pressed, events, stopping, episode,
                 velocity, recording, left, lost>>

(* The server.                                                             *)
Apply ==
  /\ stream = "open" /\ wire # <<>>
  /\ velocity' = [velocity EXCEPT ![Head(wire).to] = Head(wire).speed]
  /\ wire' = Tail(wire)
  /\ UNCHANGED <<options, pc, active, last, held, pressed, events, stopping, episode,
                 stream, recording, left, lost>>

Fail ==
  /\ stream = "open" /\ pc # "closed"
  /\ stream' = "failed"
  /\ UNCHANGED <<options, pc, active, last, held, pressed, events, stopping, episode,
                 wire, velocity,
                 recording, left, lost>>

TeleopNext ==
  \/ KeyMotion \/ KeyStill \/ \E kind \in Kinds : KeySwitch(kind)
  \/ \E call \in {"end", "cancel"} : KeyEpisode(call)
  \/ JoyRead \/ \E kind \in Kinds : JoySwitch(kind)
  \/ JoyKeep \/ JoyMove \/ JoyEvent
  \/ CallAnswered \/ CallRefused \/ CallLost
  \/ Quit \/ Finish \/ Drop \/ Close \/ Apply \/ Fail

TeleopSpec == TeleopInit /\ [][TeleopNext]_teleopVars

-----------------------------------------------------------------------------
(* Properties.                                                             *)

\* Once the tool is over and the server has applied all it was sent, every target is at
\* rest, whichever targets were switched to and whatever ended the session; but for those
\* the keyboard left in motion when it switched the target of the other kind, and unless
\* the stream failed before it was closed.
RestsAtEnd ==
  pc = "closed" /\ stream = "open" /\ ~left => \A t \in AllTargets : velocity[t] = 0

\* Once the tool is over no episode of it is being recorded, whichever call failed or
\* whose answer was lost, but for a start and for the last cancel.
NoEpisodeLeft == pc = "closed" /\ ~lost => ~recording

\* DESIGN.md: before a switch the old target is sent velocity zero, so that the backend
\* keeps no stale velocity command. The targets switched from, and those moving when the
\* session ended, rest.
SwitchLeavesNothing ==
  pc = "closed" /\ stream = "open" => \A t \in AllTargets : velocity[t] = 0
=============================================================================
