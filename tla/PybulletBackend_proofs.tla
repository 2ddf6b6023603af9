----------------------- MODULE PybulletBackend_proofs -----------------------
(***************************************************************************)
(* Theorems about PybulletBackend, for any clients, joints, groups, bodies *)
(* and bounds.                                                             *)
(***************************************************************************)
EXTENDS PybulletBackend, TLAPS

-----------------------------------------------------------------------------
(* A pause that holds.                                                     *)

\* After the one step that may follow a pause, the thread has seen the flag.
QuietInv == /\ quiet \in -1..1
            /\ quiet >= 0 => paused
            /\ quiet = 1 => loop # "step"

LEMMA QuietStep == QuietInv /\ [Next]_vars => QuietInv'
<1> SUFFICES ASSUME QuietInv, [Next]_vars PROVE QuietInv'
  OBVIOUS
<1>1. CASE LoopTest
  BY <1>1 DEF LoopTest, QuietInv
<1>2. CASE LoopStep
  BY <1>2 DEF LoopStep, QuietInv
<1>3. ASSUME NEW c \in Clients, Pause(c) PROVE QuietInv'
  BY <1>3 DEF Pause, QuietInv
<1>4. ASSUME NEW c \in Clients, Resume(c) PROVE QuietInv'
  BY <1>4 DEF Resume, QuietInv
<1>5. ASSUME NEW c \in Clients, ResetRebuild(c) PROVE QuietInv'
  BY <1>5 DEF ResetRebuild, QuietInv
<1>6. CASE UNCHANGED <<quiet, paused, loop>>
  BY <1>6 DEF QuietInv
<1>7. [Next]_vars => \/ LoopTest \/ LoopStep
                     \/ \E c \in Clients : Pause(c) \/ Resume(c) \/ ResetRebuild(c)
                     \/ UNCHANGED <<quiet, paused, loop>>
  <2>1. ASSUME NEW c \in Clients, SetCheck(c) \/ SetApply(c) \/ StopCheck(c) \/ StopApply(c)
        PROVE  UNCHANGED <<quiet, paused, loop>>
    BY <2>1 DEF SetCheck, SetApply, StopCheck, StopApply
  <2>2. ASSUME NEW c \in Clients, Lookup(c) \/ Pose(c) \/ StepPhysics(c)
        PROVE  UNCHANGED <<quiet, paused, loop>>
    BY <2>2 DEF Lookup, Pose, StepPhysics
  <2>3. ASSUME NEW c \in Clients, ResetClear(c) \/ ResetLoad(c) \/ ResetRaises(c)
        PROVE  UNCHANGED <<quiet, paused, loop>>
    BY <2>3 DEF ResetClear, ResetLoad, ResetRaises
  <2>4. ASSUME NEW c \in Clients, Shutdown(c) \/ Joined(c) \/ Disconnect(c)
        PROVE  UNCHANGED <<quiet, paused, loop>>
    BY <2>4 DEF Shutdown, Joined, Disconnect
  <2> QED BY <2>1, <2>2, <2>3, <2>4 DEF Next, vars
<1> QED BY <1>1, <1>2, <1>3, <1>4, <1>5, <1>6, <1>7

\* After pause returned, the step thread makes at most the one step it had begun.
THEOREM PybulletPauseHolds == Spec => []PauseHolds
<1>1. Init => QuietInv
  BY DEF Init, QuietInv
<1>2. QuietInv => PauseHolds
  BY DEF QuietInv, PauseHolds
<1> QED BY <1>1, <1>2, QuietStep, PTL DEF Spec

-----------------------------------------------------------------------------
(* Types.                                                                  *)

\* What a client keeps between its steps: a command, or the id of a name.
ArgOK ==
  /\ arg = [c \in Clients |-> arg[c]]
  /\ issued \in 0..MaxCommands
  /\ \A c \in Clients :
       /\ pc[c] = "set"  => arg[c].by \in 1..issued /\ arg[c].mode \in Modes
       /\ pc[c] = "pose" => arg[c].name \in DOMAIN Mapping /\ arg[c].id = IdOf(arg[c].name)

\* What a reset may have left of the world.
WorldOK ==
  /\ names \in {<<>>, Mapping}
  /\ \A k \in DOMAIN world : k \in 1..Len(Bodies) /\ world[k] = Bodies[k]

LEMMA NumberedSeq == Numbered \in Seq(STRING) /\ \A k \in DOMAIN Numbered :
                       k \in 1..Len(Bodies) /\ Numbered[k] = Bodies[k]
BY PybulletAssumption DEF Numbered

LEMMA LoadedSeq ==
  ASSUME NEW k \in 0..Len(Bodies)
  PROVE  LET w == SubSeq(Bodies, 1, k) IN
           w \in Seq(STRING) /\ \A i \in DOMAIN w : i \in 1..Len(Bodies) /\ w[i] = Bodies[i]
BY PybulletAssumption

\* The id of a body's name is where the loader puts it.
LEMMA IdOfName == \A name \in DOMAIN Mapping :
                    IdOf(name) \in 1..Len(Bodies) /\ Bodies[IdOf(name)] = name
BY PybulletAssumption DEF Mapping, IdOf

LEMMA SimulateType ==
  ASSUME Simulate PROVE pending' \in [Joints -> SUBSET (1..MaxCommands)]
BY DEF Simulate

LEMMA RecordedType ==
  ASSUME targets \in [Joints -> Command \cup {Idle, Absent}],
         NEW joints, NEW command \in Command
  PROVE  Recorded(joints, command) \in [Joints -> Command \cup {Idle, Absent}]
BY DEF Recorded

Types == TypeOK /\ ArgOK /\ WorldOK /\ QuietInv

\* Nobody is in the middle of a reset but the one who holds the lock, and while the
\* bodies are loaded there is no robot.
LockHeld == \A c \in Clients : /\ pc[c] \in {"load", "rebuild"} => lock = c
                               /\ pc[c] = "load" => robot = Absent

LEMMA TypeStep == Types /\ [Next]_vars => Types'
<1> SUFFICES ASSUME Types, [Next]_vars PROVE TypeOK' /\ ArgOK' /\ WorldOK'
  BY QuietStep DEF Types
<1> USE PybulletAssumption DEF Types, TypeOK, ArgOK, WorldOK, QuietInv, simulation, driven, history
<1>1. CASE LoopTest
  BY <1>1 DEF LoopTest
<1>2. CASE LoopStep
  <2>1. pending' \in [Joints -> SUBSET (1..MaxCommands)]
    BY <1>2, SimulateType DEF LoopStep
  <2> QED BY <1>2, <2>1 DEF LoopStep
<1>3. ASSUME NEW c \in Clients, SetCheck(c) PROVE TypeOK' /\ ArgOK' /\ WorldOK'
  <2>1. TypeOK'
    BY <1>3 DEF SetCheck, Goto
  <2>4. PICK joints \in (SUBSET Joints) \ {{}}, group \in DOMAIN Groups \cup {Absent},
             mode \in Modes :
          \E allowed \in Resolved(group, joints) :
            arg' = [arg EXCEPT ![c] = [by |-> issued + 1, mode |-> mode, joints |-> joints,
                                       allowed |-> joints \cap allowed]]
    BY <1>3 DEF SetCheck
  <2>2. ArgOK'
    <3>1. arg'[c].by = issued + 1 /\ arg'[c].mode \in Modes
      BY <2>4
    <3>2. pc' = [pc EXCEPT ![c] = "set"] /\ issued' = issued + 1 /\ issued' \in 0..MaxCommands
      BY <1>3 DEF SetCheck, Goto
    <3>3. \A d \in Clients : d # c => arg'[d] = arg[d]
      BY <2>4
    <3>4. arg' = [d \in Clients |-> arg'[d]]
      BY <2>4
    <3>5. issued \in Nat /\ 1..issued \subseteq 1..issued' /\ issued + 1 \in 1..issued'
      BY <3>2
    <3>6. ASSUME NEW d \in Clients, pc'[d] = "set"
          PROVE  arg'[d].by \in 1..issued' /\ arg'[d].mode \in Modes
      BY <3>1, <3>2, <3>3, <3>5, <3>6
    <3>7. ASSUME NEW d \in Clients, pc'[d] = "pose"
          PROVE  arg'[d].name \in DOMAIN Mapping /\ arg'[d].id = IdOf(arg'[d].name)
      BY <3>2, <3>3, <3>7
    <3> QED BY <3>2, <3>4, <3>6, <3>7
  <2>3. WorldOK'
    BY <1>3 DEF SetCheck
  <2> QED BY <2>1, <2>2, <2>3
<1>4. ASSUME NEW c \in Clients, SetApply(c) PROVE TypeOK' /\ ArgOK' /\ WorldOK'
  <2>1. [by |-> arg[c].by, mode |-> arg[c].mode] \in Command
    BY <1>4 DEF SetApply, Command
  <2>2. targets' \in [Joints -> Command \cup {Idle, Absent}]
    BY <1>4, <2>1, RecordedType DEF SetApply, InForce, Rejected
  <2>3. motors' \in [Joints -> Command \cup {Idle, Off}]
    BY <1>4, <2>1 DEF SetApply, InForce, Drive, Push, Rejected
  <2>7. arg[c].by \in 1..MaxCommands
    BY <2>1 DEF Command
  <2>8. pending' \in [Joints -> SUBSET (1..MaxCommands)]
    BY <1>4, <2>7 DEF SetApply, InForce, Drive, Push, Rejected
  <2>4. TypeOK'
    BY <1>4, <2>2, <2>3, <2>8 DEF SetApply, Goto
  <2>5. ArgOK'
    BY <1>4 DEF SetApply, Goto
  <2>6. WorldOK'
    BY <1>4 DEF SetApply
  <2> QED BY <2>1, <2>2, <2>3, <2>4, <2>5, <2>6
<1>5. ASSUME NEW c \in Clients, StopCheck(c) PROVE TypeOK' /\ ArgOK' /\ WorldOK'
  BY <1>5 DEF StopCheck, Goto
<1>6. ASSUME NEW c \in Clients, StopApply(c) PROVE TypeOK' /\ ArgOK' /\ WorldOK'
  BY <1>6 DEF StopApply, Goto
<1>7. ASSUME NEW c \in Clients, Lookup(c) PROVE TypeOK' /\ ArgOK' /\ WorldOK'
  <2>1. TypeOK'
    BY <1>7 DEF Lookup, Goto
  <2>4. PICK name \in DOMAIN names : arg' = [arg EXCEPT ![c] = [name |-> name, id |-> names[name]]]
    BY <1>7 DEF Lookup
  <2>5. names = Mapping
    <3>1. DOMAIN <<>> = {}
      OBVIOUS
    <3> QED BY <3>1, <2>4
  <2>6. names[name] = IdOf(name)
    BY <2>4, <2>5 DEF Mapping
  <2>2. ArgOK'
    <3>1. arg'[c].name \in DOMAIN Mapping /\ arg'[c].id = IdOf(arg'[c].name)
      BY <2>4, <2>5, <2>6
    <3>2. pc' = [pc EXCEPT ![c] = "pose"] /\ issued' = issued
      BY <1>7 DEF Lookup, Goto
    <3>3. \A d \in Clients : d # c => arg'[d] = arg[d]
      BY <2>4
    <3>4. arg' = [d \in Clients |-> arg'[d]]
      BY <2>4
    <3> QED BY <3>1, <3>2, <3>3, <3>4
  <2>3. WorldOK'
    BY <1>7 DEF Lookup
  <2> QED BY <2>1, <2>2, <2>3
<1>8. ASSUME NEW c \in Clients, Pose(c) PROVE TypeOK' /\ ArgOK' /\ WorldOK'
  BY <1>8 DEF Pose, Goto
<1>9. ASSUME NEW c \in Clients, Pause(c) PROVE TypeOK' /\ ArgOK' /\ WorldOK'
  BY <1>9 DEF Pause
<1>10. ASSUME NEW c \in Clients, Resume(c) PROVE TypeOK' /\ ArgOK' /\ WorldOK'
  <2>4. paused' = FALSE /\ quiet' = -1
    BY <1>10 DEF Resume
  <2>6. quiet' \in -1..2
    BY <2>4
  <2>5. paused' \in BOOLEAN /\ quiet' \in -1..2
    BY <2>4, <2>6
  <2>1. TypeOK'
    BY <1>10, <2>5 DEF Resume
  <2>2. ArgOK'
    BY <1>10 DEF Resume
  <2>3. WorldOK'
    BY <1>10 DEF Resume
  <2> QED BY <2>1, <2>2, <2>3
<1>11. ASSUME NEW c \in Clients, StepPhysics(c) PROVE TypeOK' /\ ArgOK' /\ WorldOK'
  <2>1. pending' \in [Joints -> SUBSET (1..MaxCommands)]
    BY <1>11, SimulateType DEF StepPhysics
  <2> QED BY <1>11, <2>1 DEF StepPhysics
<1>12. ASSUME NEW c \in Clients, ResetClear(c) PROVE TypeOK' /\ ArgOK' /\ WorldOK'
  BY <1>12 DEF ResetClear, Goto
<1>13. ASSUME NEW c \in Clients, ResetLoad(c) PROVE TypeOK' /\ ArgOK' /\ WorldOK'
  BY <1>13, NumberedSeq DEF ResetLoad, Goto
<1>14. ASSUME NEW c \in Clients, ResetRaises(c) PROVE TypeOK' /\ ArgOK' /\ WorldOK'
  BY <1>14, LoadedSeq DEF ResetRaises, Goto
<1>15. ASSUME NEW c \in Clients, ResetRebuild(c) PROVE TypeOK' /\ ArgOK' /\ WorldOK'
  <2>4. paused' = FALSE /\ quiet' = -1
    BY <1>15 DEF ResetRebuild
  <2>6. quiet' \in -1..2
    BY <2>4
  <2>5. paused' \in BOOLEAN /\ quiet' \in -1..2
    BY <2>4, <2>6
  <2>1. TypeOK'
    BY <1>15, <2>5 DEF ResetRebuild, Goto
  <2>2. ArgOK'
    BY <1>15 DEF ResetRebuild, Goto
  <2>3. WorldOK'
    BY <1>15 DEF ResetRebuild
  <2> QED BY <2>1, <2>2, <2>3
<1>16. ASSUME NEW c \in Clients, Shutdown(c) PROVE TypeOK' /\ ArgOK' /\ WorldOK'
  BY <1>16 DEF Shutdown, Goto
<1>17. ASSUME NEW c \in Clients, Joined(c) PROVE TypeOK' /\ ArgOK' /\ WorldOK'
  BY <1>17 DEF Joined, Goto
<1>18. ASSUME NEW c \in Clients, Disconnect(c) PROVE TypeOK' /\ ArgOK' /\ WorldOK'
  BY <1>18 DEF Disconnect, Goto
<1>19. CASE UNCHANGED vars
  BY <1>19 DEF vars
<1> QED BY <1>1, <1>2, <1>3, <1>4, <1>5, <1>6, <1>7, <1>8, <1>9, <1>10, <1>11, <1>12, <1>13, <1>14, <1>15, <1>16, <1>17, <1>18, <1>19 DEF Next

LEMMA PybulletTypes == Spec => []Types
<1>1. ASSUME Init PROVE Types
  <2> USE <1>1 DEF Init
  <2>1. quiet \in -1..1 /\ quiet \in -1..2 /\ QuietInv
    BY DEF QuietInv
  <2>5. targets \in [Joints -> Command \cup {Idle, Absent}]
        /\ motors \in [Joints -> Command \cup {Idle, Off}]
        /\ pending \in [Joints -> SUBSET (1..MaxCommands)]
    OBVIOUS
  <2>6. pc \in [Clients -> {"idle", "set", "stop", "pose", "load", "rebuild", "join", "disconnect"}]
    OBVIOUS
  <2>2. TypeOK
    BY <2>1, <2>5, <2>6, NumberedSeq DEF TypeOK
  <2>3. ArgOK
    BY PybulletAssumption DEF ArgOK
  <2>4. WorldOK
    BY NumberedSeq DEF WorldOK
  <2> QED BY <2>1, <2>2, <2>3, <2>4 DEF Types
<1> QED BY <1>1, TypeStep, PTL DEF Spec

\* All variables keep to their types.
THEOREM PybulletTypeOK == Spec => []TypeOK
<1>1. Types => TypeOK
  BY DEF Types
<1> QED BY <1>1, PybulletTypes, PTL

-----------------------------------------------------------------------------
(* The id of a body.                                                       *)

\* A pose reaches the body of the name that was looked up, or none.
THEOREM PybulletPoseReachesNamed == Spec => PoseReachesNamed
<1>1. ASSUME Types, NEW c \in Clients, pc[c] = "pose", arg[c].id \in DOMAIN world
      PROVE  world[arg[c].id] = arg[c].name
  BY <1>1, IdOfName DEF Types, ArgOK, WorldOK
<1>2. Types => \A c \in Clients : pc[c] = "pose" /\ pc'[c] # "pose" =>
                 (arg[c].id \in DOMAIN world => world[arg[c].id] = arg[c].name)
  BY <1>1
<1> QED BY <1>2, PybulletTypes, PTL DEF PoseReachesNamed

-----------------------------------------------------------------------------
(* Commands that were stopped.                                             *)

\* Commands are numbered as they come: one that is under way has not returned.
Numbering ==
  /\ returned \subseteq 1..issued
  /\ forgotten \subseteq returned
  /\ spent \subseteq returned
  /\ \A c \in Clients : seen[c] \subseteq returned
  /\ \A c \in Clients : pc[c] = "set" => arg[c].by \notin returned
  /\ \A c, d \in Clients : c # d /\ pc[c] = "set" /\ pc[d] = "set" => arg[c].by # arg[d].by

\* Only a command that has returned waits for a step.
Waiting == \A j \in Joints : pending[j] \subseteq returned

\* Without a robot no motor runs for a command.
Undriven == robot = Absent => \A j \in Joints : motors[j].by = 0

StopInv == Numbering /\ Waiting /\ Undriven /\ StopForgets /\ seen = [c \in Clients |-> seen[c]]

LEMMA StopCheckSteps ==
  ASSUME NEW c, StopCheck(c)
  PROVE  /\ pc' = pc \/ pc' = [pc EXCEPT ![c] = "stop"]
         /\ seen' = seen \/ seen' = [seen EXCEPT ![c] = returned]
         /\ forgotten' = forgotten \/ (robot = Absent /\ forgotten' = forgotten \cup returned)
         /\ UNCHANGED <<motors, pending, robot, arg, issued, returned, spent>>
BY DEF StopCheck, Goto, simulation, driven

LEMMA StopStep == Types /\ StopInv /\ [Next]_vars => StopInv'
<1> SUFFICES ASSUME Types, StopInv, [Next]_vars PROVE StopInv'
  OBVIOUS
<1> USE PybulletAssumption DEF Types, TypeOK, ArgOK, StopInv, Numbering, Waiting, Undriven, StopForgets,
        simulation, driven, history
<1>1. CASE LoopTest
  BY <1>1 DEF LoopTest
<1>2. CASE LoopStep
  BY <1>2 DEF LoopStep, Simulate
<1>3. ASSUME NEW c \in Clients, SetCheck(c) PROVE StopInv'
  BY <1>3 DEF SetCheck, Goto
<1>4. ASSUME NEW c \in Clients, SetApply(c) PROVE StopInv'
  <2> DEFINE by == arg[c].by
             command == [by |-> arg[c].by, mode |-> arg[c].mode]
  <2>1. /\ pc[c] = "set" /\ pc' = [pc EXCEPT ![c] = "idle"]
        /\ \A d \in Clients : d # c => arg'[d] = arg[d]
        /\ returned' = returned \cup {by}
        /\ UNCHANGED <<robot, issued, seen, forgotten, spent>>
    BY <1>4 DEF SetApply, Goto
  <2>2. /\ \A j \in Joints : motors'[j] \in {motors[j], command}
        /\ robot = Absent => motors' = motors
    BY <1>4 DEF SetApply, InForce, Drive, Push, Rejected
  <2>3. command.by = by /\ by \in 1..issued /\ by \notin forgotten /\ by \notin spent
    BY <2>1
  <2>4. Numbering'
    BY <2>1, <2>3
  <2>6. \A j \in Joints : pending'[j] \subseteq pending[j] \cup {by}
    BY <1>4 DEF SetApply, InForce, Drive, Push, Rejected
  <2>7. Waiting'
    BY <2>1, <2>6
  <2>8. Undriven' /\ \A j \in Joints : motors'[j].by \notin forgotten'
    BY <2>1, <2>2, <2>3
  <2>9. \A j \in Joints : pending'[j] \cap spent' = {}
    BY <2>1, <2>3, <2>6
  <2>5. Undriven' /\ StopForgets'
    BY <2>8, <2>9
  <2> QED BY <2>1, <2>4, <2>5, <2>7
<1>5. ASSUME NEW c \in Clients, StopCheck(c) PROVE StopInv'
  <2>1. /\ pc' = pc \/ pc' = [pc EXCEPT ![c] = "stop"]
        /\ seen' = seen \/ seen' = [seen EXCEPT ![c] = returned]
        /\ forgotten' = forgotten \/ (robot = Absent /\ forgotten' = forgotten \cup returned)
        /\ UNCHANGED <<motors, pending, robot, arg, issued, returned, spent>>
    BY <1>5, StopCheckSteps
  <2>2. Waiting' /\ Undriven' /\ seen' = [d \in Clients |-> seen'[d]]
    BY <2>1
  <2>5. \A d \in Clients : seen'[d] \in {seen[d], returned}
    BY <2>1
  <2>6. \A d \in Clients : pc'[d] = "set" => pc[d] = "set"
    BY <2>1
  <2>7. forgotten' \subseteq returned'
    BY <2>1
  <2>8. Numbering'
    <3>1. /\ returned' \subseteq 1..issued' /\ spent' \subseteq returned'
          /\ \A d \in Clients : seen'[d] \subseteq returned'
      BY <2>1, <2>5
    <3>2. \A d \in Clients : pc'[d] = "set" => arg'[d].by \notin returned'
      BY <2>1, <2>6
    <3>3. \A d, e \in Clients : d # e /\ pc'[d] = "set" /\ pc'[e] = "set" =>
            arg'[d].by # arg'[e].by
      BY <2>1, <2>6
    <3> QED BY <2>7, <3>1, <3>2, <3>3
  <2>3. 0 \notin returned
    OBVIOUS
  <2>4. StopForgets'
    BY <2>1, <2>3
  <2> QED BY <2>2, <2>4, <2>8
<1>6. ASSUME NEW c \in Clients, StopApply(c) PROVE StopInv'
  <2>1. pc' = [pc EXCEPT ![c] = "idle"] /\ seen' = [seen EXCEPT ![c] = {}]
        /\ UNCHANGED <<robot, arg, issued, returned, pending, spent>>
    BY <1>6 DEF StopApply, Goto
  <2>2. /\ forgotten' \in {forgotten, forgotten \cup seen[c]}
        /\ motors' = motors \/ \A j \in Joints : motors'[j].by = 0
        /\ motors' = motors => forgotten' = forgotten \/ \A j \in Joints : motors'[j].by = 0
    BY <1>6 DEF StopApply, Off
  <2>3. 0 \notin returned
    OBVIOUS
  <2>4. Numbering' /\ Waiting'
    BY <2>1, <2>2
  <2>5. Undriven' /\ StopForgets'
    BY <2>1, <2>2, <2>3
  <2> QED BY <2>1, <2>4, <2>5
<1>7. ASSUME NEW c \in Clients, Lookup(c) PROVE StopInv'
  BY <1>7 DEF Lookup, Goto
<1>8. ASSUME NEW c \in Clients, Pose(c) PROVE StopInv'
  BY <1>8 DEF Pose, Goto
<1>9. ASSUME NEW c \in Clients, Pause(c) PROVE StopInv'
  BY <1>9 DEF Pause
<1>10. ASSUME NEW c \in Clients, Resume(c) PROVE StopInv'
  BY <1>10 DEF Resume
<1>11. ASSUME NEW c \in Clients, StepPhysics(c) PROVE StopInv'
  BY <1>11 DEF StepPhysics, Simulate
<1>12. ASSUME NEW c \in Clients, ResetClear(c) PROVE StopInv'
  BY <1>12 DEF ResetClear, Goto, Off
<1>13. ASSUME NEW c \in Clients, ResetLoad(c) PROVE StopInv'
  BY <1>13 DEF ResetLoad, Goto
<1>14. ASSUME NEW c \in Clients, ResetRaises(c) PROVE StopInv'
  BY <1>14 DEF ResetRaises, Goto
<1>15. ASSUME NEW c \in Clients, ResetRebuild(c) PROVE StopInv'
  BY <1>15 DEF ResetRebuild, Goto, Idle
<1>16. ASSUME NEW c \in Clients, Shutdown(c) PROVE StopInv'
  BY <1>16 DEF Shutdown, Goto
<1>17. ASSUME NEW c \in Clients, Joined(c) PROVE StopInv'
  BY <1>17 DEF Joined, Goto
<1>18. ASSUME NEW c \in Clients, Disconnect(c) PROVE StopInv'
  BY <1>18 DEF Disconnect, Goto
<1>19. CASE UNCHANGED vars
  BY <1>19 DEF vars
<1> QED BY <1>1, <1>2, <1>3, <1>4, <1>5, <1>6, <1>7, <1>8, <1>9, <1>10, <1>11, <1>12, <1>13, <1>14, <1>15, <1>16, <1>17, <1>18, <1>19 DEF Next

LEMMA PybulletStopInv == Spec => []StopInv
<1>1. Init => StopInv
  BY DEF Init, StopInv, Numbering, Waiting, Undriven, StopForgets, Idle
<1> QED BY <1>1, StopStep, PybulletTypes, PTL DEF Spec

\* Once an emergency stop has returned, no motor runs for what had returned before it, and
\* a torque acts in one step at most.
THEOREM PybulletStopForgets == Spec => []StopForgets
<1>1. StopInv => StopForgets
  BY DEF StopInv
<1> QED BY <1>1, PybulletStopInv, PTL

-----------------------------------------------------------------------------
(* What is reported.                                                       *)

ReportInv == LockHeld /\ ReportedInForce

\* A torque that is reported stays so until it has acted, and after.
LEMMA SimulateReports ==
  ASSUME Types, Waiting, spent \subseteq returned, Simulate,
         NEW j \in Joints, NEW by, by \in pending[j] \cup spent
  PROVE  by \in pending'[j] \cup spent'
BY DEF Simulate, Waiting

LEMMA ReportStep == Types /\ StopInv /\ ReportInv /\ [Next]_vars => ReportInv'
<1> SUFFICES ASSUME Types, StopInv, ReportInv, [Next]_vars PROVE ReportInv'
  OBVIOUS
<1>a. Waiting /\ spent \subseteq returned
  BY DEF StopInv, Numbering
<1> USE PybulletAssumption DEF Types, TypeOK, ReportInv, LockHeld, ReportedInForce,
        simulation, driven, history
<1>1. CASE LoopTest
  BY <1>1 DEF LoopTest
<1>2. CASE LoopStep
  BY <1>2, <1>a, SimulateReports DEF LoopStep
<1>3. ASSUME NEW c \in Clients, SetCheck(c) PROVE ReportInv'
  BY <1>3 DEF SetCheck, Goto
<1>4. ASSUME NEW c \in Clients, SetApply(c) PROVE ReportInv'
  <2> DEFINE command == [by |-> arg[c].by, mode |-> arg[c].mode]
  <2>1. /\ pc' = [pc EXCEPT ![c] = "idle"] /\ lock = Free
        /\ UNCHANGED <<lock, robot, connected>>
    BY <1>4 DEF SetApply, Goto
  <2>2. LockHeld'
    BY <2>1
  <2>3. dangling \subseteq dangling'
    BY <1>4 DEF SetApply, InForce, Rejected
  <2>4. ASSUME NEW j \in Joints
        PROVE  \/ /\ targets'[j] = targets[j] /\ motors'[j] = motors[j]
                  /\ pending[j] \subseteq pending'[j] /\ spent' = spent
               \/ targets'[j] = motors'[j]
               \/ targets'[j].mode = "torque" /\ targets'[j].by \in pending'[j]
               \/ targets'[j].by \in dangling'
    <3>1. CASE InForce(c, command)
      BY <1>4, <3>1 DEF SetApply, InForce, Drive, Push, Recorded
    <3>2. CASE Rejected(c, command)
      BY <1>4, <3>2 DEF SetApply, Rejected, Recorded
    <3> QED BY <1>4, <3>1, <3>2 DEF SetApply
  <2>5. ReportedInForce'
    BY <2>1, <2>3, <2>4
  <2> QED BY <2>2, <2>5
<1>5. ASSUME NEW c \in Clients, StopCheck(c) PROVE ReportInv'
  BY <1>5 DEF StopCheck, Goto
<1>6. ASSUME NEW c \in Clients, StopApply(c) PROVE ReportInv'
  BY <1>6 DEF StopApply, Goto
<1>7. ASSUME NEW c \in Clients, Lookup(c) PROVE ReportInv'
  BY <1>7 DEF Lookup, Goto
<1>8. ASSUME NEW c \in Clients, Pose(c) PROVE ReportInv'
  BY <1>8 DEF Pose, Goto
<1>9. ASSUME NEW c \in Clients, Pause(c) PROVE ReportInv'
  BY <1>9 DEF Pause
<1>10. ASSUME NEW c \in Clients, Resume(c) PROVE ReportInv'
  BY <1>10 DEF Resume
<1>11. ASSUME NEW c \in Clients, StepPhysics(c) PROVE ReportInv'
  BY <1>11, <1>a, SimulateReports DEF StepPhysics
<1>12. ASSUME NEW c \in Clients, ResetClear(c) PROVE ReportInv'
  BY <1>12 DEF ResetClear, Goto
<1>13. ASSUME NEW c \in Clients, ResetLoad(c) PROVE ReportInv'
  BY <1>13 DEF ResetLoad, Goto
<1>14. ASSUME NEW c \in Clients, ResetRaises(c) PROVE ReportInv'
  BY <1>14 DEF ResetRaises, Goto
<1>15. ASSUME NEW c \in Clients, ResetRebuild(c) PROVE ReportInv'
  BY <1>15 DEF ResetRebuild, Goto
<1>16. ASSUME NEW c \in Clients, Shutdown(c) PROVE ReportInv'
  BY <1>16 DEF Shutdown, Goto
<1>17. ASSUME NEW c \in Clients, Joined(c) PROVE ReportInv'
  BY <1>17 DEF Joined, Goto
<1>18. ASSUME NEW c \in Clients, Disconnect(c) PROVE ReportInv'
  BY <1>18 DEF Disconnect, Goto
<1>19. CASE UNCHANGED vars
  BY <1>19 DEF vars
<1> QED BY <1>1, <1>2, <1>3, <1>4, <1>5, <1>6, <1>7, <1>8, <1>9, <1>10, <1>11, <1>12, <1>13, <1>14, <1>15, <1>16, <1>17, <1>18, <1>19 DEF Next

\* What is reported of a joint its motor runs for, or is a torque that waits for a step or
\* has had it, but for commands that raised.
THEOREM PybulletReportedInForce == Spec => []ReportedInForce
<1>1. Init => ReportInv
  BY DEF Init, ReportInv, LockHeld, ReportedInForce
<1>2. ReportInv => ReportedInForce
  BY DEF ReportInv
<1> QED BY <1>1, <1>2, ReportStep, PybulletStopInv, PybulletTypes, PTL DEF Spec
=============================================================================
