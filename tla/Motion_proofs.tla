---------------------------- MODULE Motion_proofs ----------------------------
(***************************************************************************)
(* Proofs about Motion for any joints, followers, travels, commands, plans *)
(* and callers, and any bounds.                                            *)
(***************************************************************************)
EXTENDS Motion, WellFoundedInduction, TLAPS

-----------------------------------------------------------------------------
(* The maximum of a non-empty set of indices.                              *)

\* Such a set has one: the least distance from the upper end is attained.
LEMMA IndexMax ==
  ASSUME NEW n \in Nat, NEW S \in SUBSET (1..n), S # {}
  PROVE  Max(S) \in S /\ \A i \in S : i <= Max(S)
<1> DEFINE T == {k \in Nat : n - k \in S}
<1>1. T \subseteq Nat /\ T # {}
  <2>1. PICK i \in S : TRUE
    OBVIOUS
  <2>2. n - i \in Nat /\ n - (n - i) = i
    BY <2>1
  <2>3. n - i \in T
    BY <2>1, <2>2
  <2> QED BY <2>3
<1>2. IsWellFoundedOn(OpToRel(<, Nat), Nat)
  BY NatLessThanWellFounded
<1>3. \E x \in T : \A y \in T : ~ (<<y, x>> \in OpToRel(<, Nat))
  <2> HIDE DEF T
  <2> QED BY <1>1, <1>2, WFMin
<1>4. PICK x \in T : \A y \in T : ~ (y < x)
  <2> HIDE DEF T
  <2> QED BY <1>1, <1>3 DEF OpToRel
<1>5. PICK m \in S : x = n - m
  <2>1. n - x \in S /\ x = n - (n - x)
    OBVIOUS
  <2> QED BY <2>1
<1>6. \A i \in S : m >= i
  <2> TAKE i \in S
  <2>1. n - i \in Nat /\ n - (n - i) = i
    OBVIOUS
  <2>2. n - i \in T
    BY <2>1
  <2>3. ~ (n - i < x)
    BY <2>2, <1>4
  <2> QED BY <2>3, <1>5
<1> QED BY <1>6 DEF Max

-----------------------------------------------------------------------------
(* Types.                                                                  *)

LEMMA PlanTyped ==
  ASSUME NEW plan \in Plans
  PROVE  /\ Len(plan.points) \in Nat /\ Len(plan.points) > 0
         /\ \A i \in 1..Len(plan.points) :
              plan.points[i].at \in Nat /\ plan.points[i].to \in Int
<1> DEFINE P == [at : Nat, to : Int]
<1>1. plan.points \in Seq(P) /\ Len(plan.points) > 0
  BY PlansAssumption
<1>2. Len(plan.points) \in Nat /\ \A i \in 1..Len(plan.points) : plan.points[i] \in P
  <2> HIDE DEF P
  <2>1. \A s \in Seq(P) : Len(s) \in Nat /\ \A i \in 1..Len(s) : s[i] \in P
    OBVIOUS
  <2> QED BY <1>1, <2>1
<1> QED BY <1>1, <1>2

LEMMA HoldTyped ==
  ASSUME NEW q, NEW j \in Joints, q[j] \in Travel(j)
  PROVE  Hold(j, q) \in Target
BY JointsAssumption DEF Hold, Target, Travel, Modes

\* What a command puts into the table.
LEMMA CommandTyped ==
  ASSUME NEW cmd \in Commands, NEW j \in Joints, Writes(cmd, j) # {}
  PROVE  LET i == Max(Writes(cmd, j)) IN
         [mode |-> cmd.mode, value |-> Physical(cmd.names[i], cmd.mode, cmd.data[i])] \in Target
<1> DEFINE i == Max(Writes(cmd, j))
           n == cmd.names[i]
<1>1. Len(cmd.names) \in Nat /\ Writes(cmd, j) \in SUBSET (1..Len(cmd.names))
  BY CommandsAssumption DEF Writes, Taken
<1>2. i \in Writes(cmd, j)
  BY <1>1, IndexMax
<1>3. i \in 1..Len(cmd.names) /\ i \in Taken(cmd)
  BY <1>1, <1>2 DEF Writes
<1>4. n \in Joints
  BY <1>3, JointsAssumption DEF Taken, Takes
<1>5. cmd.data[i] \in Int /\ cmd.mode \in Modes \cup {"other"}
  BY <1>3, CommandsAssumption
<1>6. Physical(n, cmd.mode, cmd.data[i]) \in Int
  <2>1. Lower[n] \in Int /\ Upper[n] \in Int
    BY <1>4, JointsAssumption
  <2>2. \A m \in Int : Lower[n] + m * (Upper[n] - Lower[n]) \in Int
    BY <2>1
  <2>3. 1 - cmd.data[i] \in Int
    BY <1>5
  <2> HIDE DEF i, n
  <2> QED BY <1>5, <2>2, <2>3 DEF Physical
<1> HIDE DEF i
<1> QED BY <1>5, <1>6 DEF Target, i

LEMMA DueTyped ==
  ASSUME TypeOK, NEW last \in Due
  PROVE  /\ traj \in Execution /\ traj.plan \in Plans
         /\ last \in traj.next..Len(traj.plan.points)
         /\ last \in 1..Len(traj.plan.points)
<1>1. traj # None /\ last \in traj.next..Len(traj.plan.points)
  BY DEF Due
<1>2. traj \in Execution
  BY <1>1 DEF TypeOK
<1>3. traj.plan \in Plans /\ traj.next \in Nat \ {0}
  BY <1>2 DEF Execution
<1>4. Len(traj.plan.points) \in Nat
  BY <1>3, PlanTyped
<1> QED BY <1>1, <1>2, <1>3, <1>4

LEMMA AdvanceTyped ==
  ASSUME TypeOK, AdvanceTrajectory
  PROVE  /\ DOMAIN target' = Joints /\ \A j \in Joints : target'[j] \in Target \cup {None}
         /\ idle' \subseteq Joints /\ done' \subseteq 1..runs
         /\ \/ traj' = None
            \/ traj' \in Execution /\ traj'.next <= Len(traj'.plan.points)
<1>1. CASE Due = {}
  BY <1>1 DEF TypeOK, AdvanceTrajectory, table
<1>2. CASE Due # {}
  <2>1. PICK last \in Due :
          /\ Applied(last)
          /\ IF last = Len(traj.plan.points)
             THEN traj' = None /\ done' = done \cup {traj.id}
             ELSE traj' = [traj EXCEPT !.next = last + 1] /\ UNCHANGED done
    BY <1>2 DEF AdvanceTrajectory
  <2>2. /\ traj \in Execution /\ traj.plan \in Plans
        /\ last \in traj.next..Len(traj.plan.points) /\ last \in 1..Len(traj.plan.points)
    BY DueTyped
  <2>3. [mode |-> "position", value |-> traj.plan.points[last].to] \in Target
    BY <2>2, PlanTyped DEF Target, Modes
  <2>4. DOMAIN target' = Joints /\ \A j \in Joints : target'[j] \in Target \cup {None}
    BY <2>1, <2>3 DEF Applied, TypeOK
  <2>5. idle' \subseteq Joints
    BY <2>1 DEF Applied, TypeOK
  <2>6. Len(traj.plan.points) \in Nat
    BY <2>2, PlanTyped
  <2>7. CASE last = Len(traj.plan.points)
    BY <2>1, <2>2, <2>4, <2>5, <2>7 DEF TypeOK, Execution
  <2>8. CASE last # Len(traj.plan.points)
    <3>1. traj' = [traj EXCEPT !.next = last + 1] /\ done' = done
      BY <2>1, <2>8
    <3>2. last + 1 \in Nat \ {0} /\ last + 1 <= Len(traj.plan.points)
      BY <2>2, <2>6, <2>8
    <3>3. traj' \in Execution /\ traj'.next = last + 1 /\ traj'.plan = traj.plan
      BY <2>2, <3>1, <3>2 DEF Execution
    <3> QED BY <2>4, <2>5, <3>1, <3>2, <3>3 DEF TypeOK
  <2> QED BY <2>7, <2>8
<1> QED BY <1>1, <1>2

\* The joints that are held, on a free base, are where they are held.
HeldWhere == \A j \in Joints : Pinned(j, target, idle) => target[j].value = qpos[j]

MotionInv == TypeOK /\ HeldWhere

LEMMA TypedInit ==
  ASSUME Init PROVE MotionInv
<1>1. \A j \in Joints : Start[j] \in Travel(j)
  BY JointsAssumption
<1>2. \A j \in Joints : Hold(j, Start) \in Target
  BY <1>1, HoldTyped
<1>3. DOMAIN qpos = Joints
  BY JointsAssumption DEF Init
<1>4. DOMAIN target = Joints /\ \A j \in Joints : target[j] = Hold(j, Start)
  BY DEF Init
<1>5. call \in [Callers -> Call]
  BY DEF Init, Call
<1>6. HeldWhere
  BY <1>4 DEF HeldWhere, Hold, Init
<1> QED
  <2>1. 0 \in 0..MaxTime /\ 0 \in 0..MaxResets /\ 0 \in 0..MaxRuns
    BY BoundsAssumption
  <2>3. idle \subseteq Joints /\ done \subseteq 1..runs /\ traj = None
    BY DEF Init
  <2>4. \A j \in Joints : qpos[j] \in Travel(j) /\ target[j] \in Target
    BY <1>1, <1>2, <1>4 DEF Init
  <2>5. /\ time \in 0..MaxTime /\ resets \in 0..MaxResets /\ runs \in 0..MaxRuns
        /\ freeBase \in BOOLEAN /\ stop = FALSE /\ halted = FALSE /\ physics = "run"
    BY <2>1, Zenon DEF Init
  <2> QED BY <1>3, <1>4, <1>5, <1>6, <2>3, <2>4, <2>5 DEF TypeOK, MotionInv

\* The trajectory lets go of the joints it moves.
LEMMA PinnedBefore ==
  ASSUME AdvanceTrajectory, NEW j \in Joints, Pinned(j, target', idle')
  PROVE  target'[j] = target[j] /\ Pinned(j, target, idle)
<1>1. CASE Due = {}
  BY <1>1 DEF AdvanceTrajectory, table, Pinned
<1>2. CASE Due # {}
  <2>1. PICK last \in Due : Applied(last)
    BY <1>2 DEF AdvanceTrajectory
  <2>2. j \in idle /\ j \notin traj.plan.joints
    BY <2>1 DEF Applied, Pinned
  <2>3. target'[j] = target[j]
    BY <2>1, <2>2 DEF Applied
  <2> QED BY <2>2, <2>3 DEF Pinned
<1> QED BY <1>1, <1>2

\* Each step keeps the types.
LEMMA TypedStep ==
  ASSUME MotionInv, [Next]_vars PROVE TypeOK'
<1> USE DEF MotionInv
<1>1. CASE PhysStep
  <2>1. /\ DOMAIN target' = Joints /\ \A j \in Joints : target'[j] \in Target \cup {None}
        /\ idle' \subseteq Joints /\ done' \subseteq 1..runs
        /\ \/ traj' = None
           \/ traj' \in Execution /\ traj'.next <= Len(traj'.plan.points)
    BY <1>1, AdvanceTyped DEF PhysStep
  <2>2. UNCHANGED <<freeBase, stop, runs, resets, halted, call>>
    BY <1>1 DEF PhysStep
  <2>3. physics' \in {"run", "dead", "over"} /\ time' \in 0..MaxTime /\ DOMAIN qpos' = Joints
    BY <1>1, BoundsAssumption DEF PhysStep, TypeOK, world
  <2>4. \A j \in Joints : qpos'[j] \in Travel(j)
    <3>1. CASE Raises(target')
      BY <1>1, <3>1 DEF PhysStep, TypeOK, world
    <3>2. CASE ~ Raises(target')
      <4> TAKE j \in Joints
      <4>1. IF Pinned(j, target', idle') THEN qpos'[j] = target'[j].value
            ELSE qpos'[j] \in Travel(j)
        BY <1>1, <3>2 DEF PhysStep
      <4>2. ASSUME Pinned(j, target', idle') PROVE qpos'[j] = qpos[j]
        BY <1>1, <4>1, <4>2, PinnedBefore DEF PhysStep, HeldWhere
      <4> QED BY <4>1, <4>2 DEF TypeOK
    <3> QED BY <3>1, <3>2
  <2> QED BY <2>1, <2>2, <2>3, <2>4 DEF TypeOK, Execution, Call
<1>2. CASE PhysOver
  BY <1>2 DEF PhysOver, TypeOK, table, world, Execution, Call
<1>3. ASSUME NEW cmd \in Commands, SetJointTarget(cmd) PROVE TypeOK'
  <2> DEFINE written == {j \in Joints : Writes(cmd, j) # {}}
             resting == {j \in written : Rests(cmd, j, Max(Writes(cmd, j)))}
  <2>1. /\ target' = [j \in Joints |->
             IF j \notin written THEN target[j]
             ELSE IF j \in resting THEN Hold(j, qpos)
             ELSE LET i == Max(Writes(cmd, j)) IN
               [mode |-> cmd.mode, value |-> Physical(cmd.names[i], cmd.mode, cmd.data[i])]]
        /\ idle' = (idle \ written) \cup resting
        /\ halted' = (halted /\ written = {})
        /\ UNCHANGED <<freeBase, physics, stop, world, traj, done, runs, resets, call>>
    BY <1>3 DEF SetJointTarget
  <2>2. \A j \in Joints : Hold(j, qpos) \in Target
    BY HoldTyped DEF TypeOK
  <2>3. \A j \in written : LET i == Max(Writes(cmd, j)) IN
          [mode |-> cmd.mode, value |-> Physical(cmd.names[i], cmd.mode, cmd.data[i])] \in Target
    BY CommandTyped
  <2>4. DOMAIN target' = Joints
    BY <2>1
  <2>5. \A j \in Joints : target'[j] \in Target \cup {None}
    <3> TAKE j \in Joints
    <3>1. target[j] \in Target \cup {None}
      BY DEF TypeOK
    <3> HIDE DEF written, resting
    <3> QED BY <2>1, <2>2, <2>3, <3>1
  <2>6. idle' \subseteq Joints
    BY <2>1 DEF TypeOK
  <2>7. halted' \in BOOLEAN
    BY <2>1
  <2> HIDE DEF written, resting
  <2> QED BY <2>1, <2>4, <2>5, <2>6, <2>7 DEF TypeOK, world, Execution, Call
<1>4. ASSUME NEW c \in Callers, NEW plan \in Plans, ExecuteStart(c, plan) PROVE TypeOK'
  <2>1. /\ runs' = runs + 1 /\ runs' \in 0..MaxRuns /\ runs \in Nat
        /\ traj' = [id |-> runs + 1, plan |-> plan, start |-> time, next |-> 1,
                    world |-> resets]
        /\ call' = [call EXCEPT ![c] = [pc |-> "wait", id |-> runs + 1]]
        /\ halted' = FALSE
        /\ UNCHANGED <<freeBase, physics, stop, world, table, done, resets>>
    BY <1>4, BoundsAssumption DEF ExecuteStart, Started, TypeOK
  <2>2. Len(plan.points) \in Nat /\ Len(plan.points) > 0
    BY PlanTyped
  <2>3. traj' \in Execution' /\ traj'.next <= Len(traj'.plan.points)
    BY <2>1, <2>2, BoundsAssumption DEF Execution, TypeOK, world
  <2>4. call' \in [Callers -> Call']
    BY <2>1 DEF TypeOK, Call
  <2>5. done' \subseteq 1..runs'
    BY <2>1 DEF TypeOK
  <2> QED BY <2>1, <2>3, <2>4, <2>5 DEF TypeOK, world, table
<1>5. ASSUME NEW c \in Callers, ExecuteReturn(c) PROVE TypeOK'
  <2>1. call' \in [Callers -> Call]
    BY <1>5, BoundsAssumption DEF ExecuteReturn, TypeOK, Call
  <2> QED BY <1>5, <2>1 DEF ExecuteReturn, TypeOK, world, table, Execution, Call
<1>6. ASSUME NEW c \in Callers, EmergencyStop(c) PROVE TypeOK'
  <2>1. call' \in [Callers -> Call]
    <3> DEFINE now == IF traj = None THEN Idle ELSE [pc |-> "halt", id |-> traj.id]
    <3>1. now \in Call
      BY BoundsAssumption DEF TypeOK, Call, Execution
    <3>2. call' = [call EXCEPT ![c] = now]
      BY <1>6 DEF EmergencyStop, Halted
    <3> HIDE DEF now
    <3> QED BY <3>1, <3>2 DEF TypeOK
  <2>2. DOMAIN target' = Joints /\ \A j \in Joints : target'[j] = None
    BY <1>6 DEF EmergencyStop, Halted
  <2> QED BY <1>6, <2>1, <2>2 DEF EmergencyStop, Halted, TypeOK, world, Execution, Call
<1>7. ASSUME NEW c \in Callers, EmergencySignal(c) PROVE TypeOK'
  <2>1. call' \in [Callers -> Call]
    BY <1>7, BoundsAssumption DEF EmergencySignal, TypeOK, Call
  <2>2. call[c].id \in 1..runs
    BY <1>7 DEF EmergencySignal, TypeOK, Call, Idle
  <2> QED BY <1>7, <2>1, <2>2 DEF EmergencySignal, TypeOK, world, table, Execution, Call
<1>8. CASE ResetWorld
  <2>1. \A j \in Joints : Home[j] \in Travel(j) /\ Hold(j, Home) \in Target
    BY JointsAssumption, HoldTyped
  <2>2. /\ DOMAIN qpos' = Joints /\ \A j \in Joints : qpos'[j] \in Travel(j)
        /\ DOMAIN target' = Joints /\ \A j \in Joints : target'[j] \in Target \cup {None}
        /\ idle' \subseteq Joints
    BY <1>8, <2>1, JointsAssumption DEF ResetWorld, HoldAll
  <2>3. time' \in 0..MaxTime /\ resets' \in 0..MaxResets /\ 0..resets \subseteq 0..resets'
    BY <1>8, BoundsAssumption DEF ResetWorld, TypeOK
  <2>4. traj # None => traj \in Execution' /\ traj.next <= Len(traj.plan.points)
    BY <1>8, <2>3 DEF ResetWorld, TypeOK, Execution
  <2>5. UNCHANGED <<freeBase, physics, stop, traj, done, runs, call>> /\ halted' = FALSE
    BY <1>8 DEF ResetWorld
  <2> QED BY <2>2, <2>3, <2>4, <2>5 DEF TypeOK, Call
<1>9. CASE Shutdown
  BY <1>9 DEF Shutdown, TypeOK, table, world, Execution, Call
<1>10. CASE UNCHANGED vars
  BY <1>10 DEF vars, TypeOK, Execution, Call
<1> QED BY <1>1, <1>2, <1>3, <1>4, <1>5, <1>6, <1>7, <1>8, <1>9, <1>10 DEF Next

\* Each step keeps held joints where they are held.
LEMMA HeldStep ==
  ASSUME MotionInv, [Next]_vars PROVE HeldWhere'
<1> USE DEF MotionInv
<1>1. SUFFICES ASSUME NEW j \in Joints, Pinned(j, target, idle)'
               PROVE  target'[j].value = qpos'[j]
  BY DEF HeldWhere
<1>2. ASSUME UNCHANGED <<table, qpos, freeBase>> PROVE target'[j].value = qpos'[j]
  BY <1>1, <1>2 DEF HeldWhere, Pinned, table
<1>3. CASE PhysStep
  <2>1. Pinned(j, target', idle')
    BY <1>1, <1>3 DEF PhysStep, Pinned
  <2>2. target'[j] = target[j] /\ Pinned(j, target, idle)
    BY <1>3, <2>1, PinnedBefore DEF PhysStep
  <2>3. CASE Raises(target')
    BY <1>3, <2>2, <2>3 DEF PhysStep, world, HeldWhere
  <2>4. CASE ~ Raises(target')
    BY <1>3, <2>1, <2>4 DEF PhysStep
  <2> QED BY <2>3, <2>4
<1>4. ASSUME NEW cmd \in Commands, SetJointTarget(cmd) PROVE target'[j].value = qpos'[j]
  <2> DEFINE written == {k \in Joints : Writes(cmd, k) # {}}
             resting == {k \in written : Rests(cmd, k, Max(Writes(cmd, k)))}
  <2>1. /\ idle' = (idle \ written) \cup resting
        /\ qpos' = qpos /\ freeBase' = freeBase
        /\ j \in resting => target'[j] = Hold(j, qpos)
        /\ j \notin written => target'[j] = target[j]
    BY <1>4 DEF SetJointTarget, world
  <2>2. CASE j \in resting
    BY <2>1, <2>2 DEF Hold
  <2>3. CASE j \notin resting
    <3>1. j \in idle /\ j \notin written
      BY <1>1, <2>1, <2>3 DEF Pinned
    <3> HIDE DEF written, resting
    <3> QED BY <1>1, <2>1, <3>1 DEF Pinned, HeldWhere
  <2> QED BY <2>2, <2>3
<1>5. ASSUME NEW c \in Callers, EmergencyStop(c) PROVE target'[j].value = qpos'[j]
  BY <1>1, <1>5 DEF EmergencyStop, Halted, Pinned
<1>6. CASE ResetWorld
  BY <1>6 DEF ResetWorld, HoldAll, Hold
<1>7. CASE PhysOver \/ Shutdown \/ UNCHANGED vars
  BY <1>2, <1>7 DEF PhysOver, Shutdown, vars, table, world
<1>8. ASSUME NEW c \in Callers,
             ExecuteReturn(c) \/ EmergencySignal(c) \/ \E plan \in Plans : ExecuteStart(c, plan)
      PROVE  target'[j].value = qpos'[j]
  BY <1>2, <1>8 DEF ExecuteReturn, EmergencySignal, ExecuteStart, Started, table, world
<1> QED BY <1>3, <1>4, <1>5, <1>6, <1>7, <1>8 DEF Next

LEMMA MotionInvariant == Spec => []MotionInv
<1>1. Init => MotionInv
  BY TypedInit
<1>2. MotionInv /\ [Next]_vars => MotionInv'
  BY TypedStep, HeldStep DEF MotionInv
<1> QED BY <1>1, <1>2, PTL DEF Spec

\* The variables stay in their types, joints in their travel and trajectories
\* inside their plans (MuJoCoBackend's control state, set_joint_target to
\* reset_world).
THEOREM MotionTypeOK == Spec => []TypeOK
<1>1. MotionInv => TypeOK
  BY DEF MotionInv
<1> QED BY <1>1, MotionInvariant, PTL

-----------------------------------------------------------------------------
(* Every caller that waits is served, and an emergency stop holds.         *)

\* What a physics step does to trajectories and their events.
LEMMA PhysEnds ==
  ASSUME TypeOK, PhysStep
  PROVE  /\ call' = call /\ halted' = halted
         /\ \/ traj' = traj /\ done' = done /\ target' = target
            \/ traj # None /\ traj' # None /\ traj'.id = traj.id /\ done' = done
            \/ traj # None /\ done' = done \cup {traj.id}
<1>1. call' = call /\ halted' = halted
  BY DEF PhysStep
<1>2. CASE Due = {}
  BY <1>1, <1>2 DEF PhysStep, AdvanceTrajectory, table
<1>3. CASE Due # {}
  <2>1. PICK last \in Due :
          IF last = Len(traj.plan.points)
          THEN traj' = None /\ done' = done \cup {traj.id}
          ELSE traj' = [traj EXCEPT !.next = last + 1] /\ UNCHANGED done
    BY <1>3 DEF PhysStep, AdvanceTrajectory
  <2>2. traj # None /\ traj \in Execution /\ last + 1 \in Nat
    BY DueTyped, NoneAssumption, <1>3 DEF Due, Execution, TypeOK
  <2>3. CASE last # Len(traj.plan.points)
    <3>1. traj' = [traj EXCEPT !.next = last + 1] /\ done' = done
      BY <2>1, <2>3
    <3>2. traj'.id = traj.id
      BY <2>2, <3>1 DEF Execution
    <3>3. traj' \in [id : Nat, plan : Plans, start : Nat, next : Nat, world : Nat]
      BY <2>2, <3>1, BoundsAssumption DEF Execution, TypeOK
    <3> QED BY <1>1, <2>2, <3>1, <3>2, <3>3, NoneAssumption
  <2> QED BY <1>1, <2>1, <2>2, <2>3
<1> QED BY <1>2, <1>3

LEMMA ServedStep ==
  ASSUME TypeOK, WaiterServed, [Next]_vars PROVE WaiterServed'
<1>1. CASE PhysStep
  BY <1>1, PhysEnds DEF WaiterServed
<1>2. ASSUME UNCHANGED <<traj, done, call>> PROVE WaiterServed'
  BY <1>2 DEF WaiterServed
<1>3. ASSUME NEW c \in Callers, NEW plan \in Plans, ExecuteStart(c, plan) PROVE WaiterServed'
  <2>1. /\ traj = None /\ traj'.id = runs + 1 /\ done' = done /\ call[c] = Idle
        /\ call' = [call EXCEPT ![c] = [pc |-> "wait", id |-> runs + 1]]
    BY <1>3 DEF ExecuteStart, Started
  <2>2. traj' # None
    BY <1>3, NoneAssumption, BoundsAssumption DEF ExecuteStart, Started, TypeOK
  <2>3. \A d \in Callers \ {c} : call'[d] = call[d]
    BY <2>1 DEF TypeOK
  <2>4. call'[c].id = runs + 1
    BY <2>1 DEF TypeOK
  <2> QED BY <2>1, <2>2, <2>3, <2>4 DEF WaiterServed, Idle
<1>4. ASSUME NEW c \in Callers, ExecuteReturn(c) PROVE WaiterServed'
  <2>1. /\ UNCHANGED <<traj, done>> /\ call'[c].pc = "idle" /\ call[c].pc = "wait"
        /\ \A d \in Callers \ {c} : call'[d] = call[d]
    BY <1>4 DEF ExecuteReturn, TypeOK, Idle
  <2> QED BY <2>1 DEF WaiterServed
<1>5. ASSUME NEW c \in Callers, EmergencyStop(c) PROVE WaiterServed'
  <2>1. /\ done' = done /\ traj' = None /\ call[c] = Idle
        /\ \A d \in Callers \ {c} : call'[d] = call[d]
        /\ call'[c] = IF traj = None THEN Idle ELSE [pc |-> "halt", id |-> traj.id]
    BY <1>5 DEF EmergencyStop, Halted, TypeOK
  <2> QED BY <2>1 DEF WaiterServed, Idle
<1>6. ASSUME NEW c \in Callers, EmergencySignal(c) PROVE WaiterServed'
  <2>1. /\ done' = done \cup {call[c].id} /\ traj' = traj /\ call[c].pc = "halt"
        /\ \A d \in Callers \ {c} : call'[d] = call[d]
        /\ call'[c].pc = "idle"
    BY <1>6 DEF EmergencySignal, TypeOK, Idle
  <2> QED BY <2>1 DEF WaiterServed
<1>7. ASSUME NEW cmd \in Commands, SetJointTarget(cmd) PROVE WaiterServed'
  BY <1>2, <1>7 DEF SetJointTarget
<1>8. CASE PhysOver \/ ResetWorld \/ Shutdown \/ UNCHANGED vars
  BY <1>2, <1>8 DEF PhysOver, ResetWorld, Shutdown, vars
<1> QED BY <1>1, <1>3, <1>4, <1>5, <1>6, <1>7, <1>8 DEF Next

\* A caller of execute_joint_trajectory waits for the trajectory that runs, or its
\* event is set, or the emergency stop that dropped it has it still to set.
THEOREM MotionWaiterServed == Spec => []WaiterServed
<1>1. Init => WaiterServed
  BY DEF Init, WaiterServed, Idle
<1>2. TypeOK /\ WaiterServed /\ [Next]_vars => WaiterServed'
  BY ServedStep
<1> QED BY <1>1, <1>2, MotionTypeOK, PTL DEF Spec

LEMMA StopStep ==
  ASSUME TypeOK, StopHolds, [Next]_vars PROVE StopHolds'
<1>1. CASE PhysStep
  BY <1>1, PhysEnds DEF StopHolds
<1>2. ASSUME UNCHANGED <<halted, traj, target>> PROVE StopHolds'
  BY <1>2 DEF StopHolds
<1>3. ASSUME NEW cmd \in Commands, SetJointTarget(cmd) PROVE StopHolds'
  <2> DEFINE written == {k \in Joints : Writes(cmd, k) # {}}
  <2>1. /\ traj' = traj /\ halted' = (halted /\ written = {})
        /\ \A j \in Joints : j \notin written => target'[j] = target[j]
    BY <1>3 DEF SetJointTarget
  <2>2. halted' => halted /\ \A j \in Joints : j \notin written
    BY <2>1
  <2> HIDE DEF written
  <2> QED BY <2>1, <2>2 DEF StopHolds
<1>4. ASSUME NEW c \in Callers, EmergencyStop(c) PROVE StopHolds'
  BY <1>4 DEF EmergencyStop, Halted, StopHolds
<1>5. ASSUME NEW c \in Callers, NEW plan \in Plans, ExecuteStart(c, plan) PROVE StopHolds'
  BY <1>5 DEF ExecuteStart, Started, StopHolds
<1>6. CASE ResetWorld
  BY <1>6 DEF ResetWorld, StopHolds
<1>7. ASSUME NEW c \in Callers, ExecuteReturn(c) \/ EmergencySignal(c) PROVE StopHolds'
  BY <1>2, <1>7 DEF ExecuteReturn, EmergencySignal, table
<1>8. CASE PhysOver \/ Shutdown \/ UNCHANGED vars
  BY <1>2, <1>8 DEF PhysOver, Shutdown, vars, table
<1> QED BY <1>1, <1>3, <1>4, <1>5, <1>6, <1>7, <1>8 DEF Next

\* After emergency_stop nothing drives a joint until a later request: the
\* trajectory that ran is gone for the physics thread as well.
THEOREM MotionStopHolds == Spec => []StopHolds
<1>1. Init => StopHolds
  BY DEF Init, StopHolds
<1>2. TypeOK /\ StopHolds /\ [Next]_vars => StopHolds'
  BY StopStep
<1> QED BY <1>1, <1>2, MotionTypeOK, PTL DEF Spec

-----------------------------------------------------------------------------
(* Held joints stay, and points are applied when they are due.             *)

LEMMA HeldStays ==
  ASSUME MotionInv, [Next]_vars, NEW j \in Joints,
         Pinned(j, target, idle), Pinned(j, target', idle'), resets' = resets
  PROVE  qpos'[j] = qpos[j]
<1>1. CASE PhysStep
  <2>1. target'[j] = target[j]
    BY <1>1, PinnedBefore DEF PhysStep
  <2>2. CASE Raises(target')
    BY <1>1, <2>2 DEF PhysStep, world
  <2>3. CASE ~ Raises(target')
    <3>1. qpos'[j] = target'[j].value
      BY <1>1, <2>3 DEF PhysStep
    <3> QED BY <2>1, <3>1 DEF MotionInv, HeldWhere
  <2> QED BY <2>2, <2>3
<1>2. CASE ResetWorld
  <2>1. resets \in Nat /\ resets' = resets + 1
    BY <1>2, BoundsAssumption DEF ResetWorld, MotionInv, TypeOK
  <2> QED BY <2>1
<1>3. CASE UNCHANGED qpos
  BY <1>3
<1>4. PhysStep \/ ResetWorld \/ UNCHANGED qpos
  BY DEF Next, PhysOver, SetJointTarget, ExecuteStart, Started, ExecuteReturn,
         EmergencyStop, Halted, EmergencySignal, Shutdown, vars, world
<1> QED BY <1>1, <1>2, <1>3, <1>4

\* On a free base no step but a reset moves a joint that is held before and after
\* it, though _stabilize_idle_holds_locked sets positions outright.
THEOREM MotionHeldInPlace == Spec => HeldInPlace
<1>1. MotionInv /\ [Next]_vars =>
        [\A j \in Joints : /\ Pinned(j, target, idle) /\ Pinned(j, target', idle')
                           /\ resets' = resets
                           => qpos'[j] = qpos[j]]_vars
  BY HeldStays
<1> QED BY <1>1, MotionInvariant, PTL DEF Spec, HeldInPlace

LEMMA PointsStep ==
  ASSUME TypeOK, PointsOnTime, PhysStep PROVE PointsOnTime'
<1>1. SUFFICES ASSUME traj' # None, traj'.world = resets', physics' # "dead"
               PROVE  \A i \in 1..Len(traj'.plan.points) :
                        i < traj'.next <=> traj'.plan.points[i].at <= time' - 1 - traj'.start
  BY DEF PointsOnTime
<1>2. /\ physics = "run" /\ resets' = resets /\ time' = time + 1 /\ time \in Int
      /\ AdvanceTrajectory
  BY <1>1, BoundsAssumption DEF PhysStep, TypeOK
<1>3. traj # None
  BY <1>1, <1>2 DEF AdvanceTrajectory, Due
<1>4. traj \in Execution
  BY <1>3 DEF TypeOK
<1> DEFINE points == traj.plan.points
<1>5. /\ traj.plan \in Plans /\ traj.start \in Int /\ traj.next \in Nat \ {0}
      /\ Len(points) \in Nat /\ \A i \in 1..Len(points) : points[i].at \in Nat
      /\ \A i, k \in 1..Len(points) : i <= k => points[i].at <= points[k].at
  <2>1. /\ traj.plan \in Plans /\ traj.start \in 0..MaxTime /\ traj.next \in Nat \ {0}
    BY <1>4 DEF Execution
  <2>2. traj.start \in Int
    BY <2>1, BoundsAssumption
  <2>3. Len(points) \in Nat /\ \A i \in 1..Len(points) : points[i].at \in Nat
    BY <2>1, PlanTyped
  <2>4. \A i, k \in 1..Len(points) : i <= k => points[i].at <= points[k].at
    BY <2>1, PlansAssumption
  <2> QED BY <2>1, <2>2, <2>3, <2>4
<1>6. \A i \in 1..Len(points) : i \in Due <=> i >= traj.next /\ points[i].at <= time - traj.start
  <2>1. Due = {i \in traj.next..Len(points) : points[i].at <= time - traj.start}
    BY <1>3 DEF Due
  <2> HIDE DEF points
  <2> QED BY <1>5, <2>1
<1>7. CASE Due = {}
  <2>1. traj' = traj
    BY <1>2, <1>7 DEF AdvanceTrajectory
  <2>2. \A i \in 1..Len(points) :
          i < traj.next <=> points[i].at <= time - 1 - traj.start
    BY <1>1, <1>2, <1>3, <2>1 DEF PointsOnTime
  <2> HIDE DEF points
  <2>3. \A i \in 1..Len(points) : i < traj.next <=> points[i].at <= time' - 1 - traj.start
    BY <1>2, <1>5, <1>6, <1>7, <2>2
  <2> QED BY <2>1, <2>3 DEF points
<1>8. CASE Due # {}
  <2>1. PICK last \in Due :
          /\ \A i \in Due : i <= last
          /\ traj' = None \/ traj' = [traj EXCEPT !.next = last + 1]
    BY <1>2, <1>8 DEF AdvanceTrajectory, Applied
  <2>2. /\ traj'.next = last + 1 /\ traj'.plan = traj.plan /\ traj'.start = traj.start
        /\ traj'.world = traj.world
    BY <1>1, <1>4, <2>1 DEF Execution
  <2>3. last \in 1..Len(points)
    BY DueTyped
  <2>4. ASSUME NEW i \in 1..Len(points)
        PROVE  i < last + 1 <=> points[i].at <= time - traj.start
    <3>1. i <= last => points[i].at <= points[last].at
      BY <1>5, <2>3
    <3>2. points[last].at <= time - traj.start /\ last >= traj.next
      BY <1>6, <2>1, <2>3
    <3>3. i > last => i \notin Due /\ i >= traj.next
      BY <1>5, <2>1, <2>3, <3>2
    <3> HIDE DEF points
    <3> QED BY <1>2, <1>5, <1>6, <2>3, <3>1, <3>2, <3>3
  <2>5. time' - 1 = time
    BY <1>2
  <2> QED BY <2>2, <2>4, <2>5
<1> QED BY <1>7, <1>8

LEMMA PointsOtherSteps ==
  ASSUME TypeOK, PointsOnTime, Next, ~ PhysStep PROVE PointsOnTime'
<1>1. ASSUME UNCHANGED <<traj, resets, time>>, physics' # "dead" => physics # "dead"
      PROVE  PointsOnTime'
  BY <1>1 DEF PointsOnTime
<1>2. ASSUME NEW c \in Callers, NEW plan \in Plans, ExecuteStart(c, plan)
      PROVE  PointsOnTime'
  <2>1. /\ traj'.plan = plan /\ traj'.next = 1 /\ traj'.start = time /\ time' = time
        /\ time \in Int
    BY <1>2, BoundsAssumption DEF ExecuteStart, Started, TypeOK, world
  <2>2. \A i \in 1..Len(plan.points) : plan.points[i].at \in Nat /\ ~ (i < 1)
    BY PlanTyped
  <2> QED BY <2>1, <2>2 DEF PointsOnTime
<1>3. ASSUME NEW c \in Callers, EmergencyStop(c) PROVE PointsOnTime'
  BY <1>3 DEF EmergencyStop, PointsOnTime
<1>4. CASE ResetWorld
  <2>1. traj' = traj /\ resets' = resets + 1 /\ resets \in Nat
    BY <1>4, BoundsAssumption DEF ResetWorld, TypeOK
  <2>2. traj # None => traj.world \in 0..resets
    BY DEF TypeOK, Execution
  <2> QED BY <2>1, <2>2 DEF PointsOnTime
<1>5. ASSUME NEW c \in Callers, ExecuteReturn(c) \/ EmergencySignal(c) PROVE PointsOnTime'
  BY <1>1, <1>5 DEF ExecuteReturn, EmergencySignal, world
<1>6. ASSUME NEW cmd \in Commands, SetJointTarget(cmd) PROVE PointsOnTime'
  BY <1>1, <1>6 DEF SetJointTarget, world
<1>7. CASE PhysOver \/ Shutdown
  BY <1>1, <1>7 DEF PhysOver, Shutdown, world
<1> QED BY <1>2, <1>3, <1>4, <1>5, <1>6, <1>7 DEF Next

\* The points of a trajectory that were applied are those that are due, at every
\* physics step and whatever is commanded meanwhile.
THEOREM MotionPointsOnTime == Spec => []PointsOnTime
<1>1. Init => PointsOnTime
  BY DEF Init, PointsOnTime
<1>2. TypeOK /\ PointsOnTime /\ [Next]_vars => PointsOnTime'
  <2>1. ASSUME PointsOnTime, UNCHANGED vars PROVE PointsOnTime'
    BY <2>1 DEF vars, PointsOnTime
  <2> QED BY <2>1, PointsStep, PointsOtherSteps
<1> QED BY <1>1, <1>2, MotionTypeOK, PTL DEF Spec
=============================================================================
