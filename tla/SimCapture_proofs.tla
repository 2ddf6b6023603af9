-------------------------- MODULE SimCapture_proofs --------------------------
(***************************************************************************)
(* Proofs about SimCapture for any number of threads, captures, buffers,   *)
(* any step and interval, and without a bound on resets or time; and, from *)
(* what they show, about PolicyPacing for any chunk and inference time.    *)
(***************************************************************************)
EXTENDS PolicyPacing, FiniteSetTheorems, TLAPS

-----------------------------------------------------------------------------
(* Queues of distinct buffers.                                             *)

\* What a queue holds after a put.
LEMMA RangeAppend ==
  ASSUME NEW S, NEW s \in Seq(S), NEW x \in S
  PROVE  Range(Append(s, x)) = Range(s) \cup {x}
<1>1. /\ DOMAIN s = 1..Len(s) /\ Len(s) \in Nat
      /\ DOMAIN Append(s, x) = 1..(Len(s) + 1)
      /\ \A i \in 1..Len(s) : Append(s, x)[i] = s[i]
      /\ Append(s, x)[Len(s) + 1] = x
  OBVIOUS
<1>2. ASSUME NEW y \in Range(Append(s, x)) PROVE y \in Range(s) \cup {x}
  <2>1. PICK i \in 1..(Len(s) + 1) : y = Append(s, x)[i]
    BY <1>1, <1>2 DEF Range
  <2>2. CASE i = Len(s) + 1
    BY <1>1, <2>1, <2>2
  <2>3. CASE i \in 1..Len(s)
    BY <1>1, <2>1, <2>3 DEF Range
  <2>. QED BY <1>1, <2>2, <2>3
<1>3. ASSUME NEW y \in Range(s) \cup {x} PROVE y \in Range(Append(s, x))
  <2>1. CASE y = x
    BY <1>1, <2>1 DEF Range
  <2>2. CASE y \in Range(s)
    <3>1. PICK i \in 1..Len(s) : y = s[i]
      BY <1>1, <2>2 DEF Range
    <3>2. i \in 1..(Len(s) + 1) /\ Append(s, x)[i] = y
      BY <1>1, <3>1
    <3>. QED BY <1>1, <3>2 DEF Range
  <2>. QED BY <1>3, <2>1, <2>2
<1>. QED BY <1>2, <1>3

\* A put of something new keeps the entries of a queue distinct.
LEMMA InjectiveAppend ==
  ASSUME NEW S, NEW s \in Seq(S), NEW x \in S, IsInjective(s), x \notin Range(s)
  PROVE  IsInjective(Append(s, x))
<1>1. /\ DOMAIN s = 1..Len(s) /\ Len(s) \in Nat
      /\ DOMAIN Append(s, x) = 1..(Len(s) + 1)
      /\ \A i \in 1..Len(s) : Append(s, x)[i] = s[i]
      /\ Append(s, x)[Len(s) + 1] = x
  OBVIOUS
<1>2. \A i \in 1..Len(s) : s[i] # x
  BY <1>1 DEF Range
<1>3. \A i, j \in 1..Len(s) : s[i] = s[j] => i = j
  BY <1>1 DEF IsInjective
<1>4. SUFFICES ASSUME NEW i \in 1..(Len(s) + 1), NEW j \in 1..(Len(s) + 1),
                      Append(s, x)[i] = Append(s, x)[j]
               PROVE  i = j
  BY <1>1 DEF IsInjective
<1>5. CASE i \in 1..Len(s) /\ j \in 1..Len(s)
  BY <1>1, <1>3, <1>4, <1>5
<1>6. CASE i = Len(s) + 1 \/ j = Len(s) + 1
  <2>1. (i \in 1..Len(s) \/ i = Len(s) + 1) /\ (j \in 1..Len(s) \/ j = Len(s) + 1)
    BY <1>1
  <2>. QED BY <1>1, <1>2, <1>4, <1>6, <2>1
<1>. QED BY <1>1, <1>5, <1>6

\* A get takes the head, and only the head, out of a queue of distinct entries.
LEMMA TailFacts ==
  ASSUME NEW S, NEW s \in Seq(S), s # <<>>, IsInjective(s)
  PROVE  /\ Head(s) \in Range(s) /\ Head(s) \in S
         /\ Range(Tail(s)) = Range(s) \ {Head(s)}
         /\ IsInjective(Tail(s))
<1>1. /\ DOMAIN s = 1..Len(s) /\ Len(s) \in Nat \ {0}
      /\ Head(s) = s[1]
      /\ DOMAIN Tail(s) = 1..(Len(s) - 1)
      /\ \A i \in 1..(Len(s) - 1) : Tail(s)[i] = s[i + 1]
      /\ \A i \in 1..Len(s) : s[i] \in S
  OBVIOUS
<1>2. \A i, j \in 1..Len(s) : s[i] = s[j] => i = j
  BY <1>1 DEF IsInjective
<1>3. Head(s) \in Range(s) /\ Head(s) \in S
  BY <1>1 DEF Range
<1>4. ASSUME NEW y \in Range(Tail(s)) PROVE y \in Range(s) \ {Head(s)}
  <2>1. PICK i \in 1..(Len(s) - 1) : y = s[i + 1]
    BY <1>1, <1>4 DEF Range
  <2>2. i + 1 \in 1..Len(s) /\ 1 \in 1..Len(s) /\ i + 1 # 1
    BY <1>1
  <2>. QED BY <1>1, <1>2, <2>1, <2>2 DEF Range
<1>5. ASSUME NEW y \in Range(s) \ {Head(s)} PROVE y \in Range(Tail(s))
  <2>1. PICK i \in 1..Len(s) : y = s[i]
    BY <1>1, <1>5 DEF Range
  <2>2. i - 1 \in 1..(Len(s) - 1) /\ (i - 1) + 1 = i
    BY <1>1, <1>5, <2>1
  <2>3. y = Tail(s)[i - 1]
    BY <1>1, <2>1, <2>2
  <2>. QED BY <1>1, <2>2, <2>3 DEF Range
<1>6. IsInjective(Tail(s))
  <2>1. SUFFICES ASSUME NEW i \in 1..(Len(s) - 1), NEW j \in 1..(Len(s) - 1),
                        Tail(s)[i] = Tail(s)[j]
                 PROVE  i = j
    BY <1>1 DEF IsInjective
  <2>2. i + 1 \in 1..Len(s) /\ j + 1 \in 1..Len(s) /\ s[i + 1] = s[j + 1]
    BY <1>1, <2>1
  <2>. QED BY <1>2, <2>2
<1>. QED BY <1>3, <1>4, <1>5, <1>6
-----------------------------------------------------------------------------
(* Types, and the existence of what the threads work on.                   *)

Typed == TypeOK /\ Handles


\* A call that moves on to a legal state leaves the others as they were.
LEMMA CallMoves ==
  ASSUME Typed, NEW t \in Threads, NEW r \in CallState,
         call' = [call EXCEPT ![t] = r],
         r.pc # "idle" => r.cap \in 1..created,
         r.pc = "read" => r.buf \in Buffers
  PROVE  /\ call' \in [Threads -> CallState]
         /\ \A u \in Threads : call'[u].pc # "idle" => call'[u].cap \in 1..created
         /\ \A u \in Threads : call'[u].pc = "read" => call'[u].buf \in Buffers
<1>1. call \in [Threads -> CallState]
  BY DEF Typed, TypeOK
<1>2. call'[t] = r /\ \A u \in Threads : u # t => call'[u] = call[u]
  BY <1>1
<1>3. \A u \in Threads : /\ call[u].pc # "idle" => call[u].cap \in 1..created
                         /\ call[u].pc = "read" => call[u].buf \in Buffers
  BY DEF Typed, Handles
<1>4. call' \in [Threads -> CallState]
  BY <1>1
<1>. QED BY <1>2, <1>3, <1>4

\* Thread t, inside a call, works on a capture that was started.
LEMMA CallHandle ==
  ASSUME Typed, NEW t \in Threads, call[t].pc # "idle"
  PROVE  /\ call[t] \in CallState /\ call[t].cap \in 1..created
         /\ call[t].cap \in Captures
         /\ call[t].pc = "read" => call[t].buf \in Buffers
BY BoundAssumption DEF Typed, TypeOK, Handles, Captures

\* A buffer taken from a queue is a buffer, and what is left is a queue.
LEMMA Dequeue ==
  ASSUME NEW q \in [Captures -> Seq(Buffers)], NEW c \in Captures, q[c] # <<>>
  PROVE  /\ Head(q[c]) \in Buffers
         /\ [q EXCEPT ![c] = Tail(@)] \in [Captures -> Seq(Buffers)]
<1>1. Head(q[c]) \in Buffers /\ Tail(q[c]) \in Seq(Buffers)
  OBVIOUS
<1>. QED BY <1>1

LEMMA Enqueue ==
  ASSUME NEW q \in [Captures -> Seq(Buffers)], NEW c \in Captures, NEW b \in Buffers
  PROVE  [q EXCEPT ![c] = Append(@, b)] \in [Captures -> Seq(Buffers)]
<1>1. Append(q[c], b) \in Seq(Buffers)
  OBVIOUS
<1>. QED BY <1>1

LEMMA TypedInit == Init => Typed
<1>. SUFFICES ASSUME Init PROVE Typed
  OBVIOUS
<1>1. pool \in [Captures -> Seq(Buffers)]
  <2>1. [b \in Buffers |-> b] \in Seq(Buffers)
    BY BufferAssumption DEF Buffers
  <2>. QED BY <2>1 DEF Init
<1>2. data \in [Captures -> [Buffers -> Snapshot]]
  BY DEF Init, Snapshot, Blank
<1>3. phys \in PhysState
  BY DEF Init, PhysPC, PhysState
<1>4. call \in [Threads -> CallState]
  BY DEF Init, CallPC, CallState, Idle
<1>5. next \in [Captures -> Nat] /\ samples \in [Captures -> Seq(Buffers)]
  BY DEF Init
<1>6. born \in [Captures -> [at : Nat, epoch : Nat]]
  BY DEF Init
<1>7. created \in 0..MaxCaptures
  BY BoundAssumption DEF Init
<1>8. TypeOK
  BY <1>1, <1>2, <1>3, <1>4, <1>5, <1>6, <1>7 DEF Init, TypeOK
<1>9. Handles
  BY DEF Init, Handles, Idle, Captures
<1>. QED BY <1>8, <1>9 DEF Typed

\* A step of the physics thread that moves nothing but itself (and time).
LEMMA PhysMoves ==
  ASSUME Typed, UNCHANGED <<epoch, streamVars, call>>, time' \in Nat,
         phys' \in PhysState,
         phys'.pc \in {"check", "acquire", "get", "copy"} => phys'.cap \in 1..created,
         phys'.pc = "copy" => phys'.buf \in Buffers
  PROVE  Typed'
<1>1. TypeOK'
  BY DEF Typed, TypeOK, streamVars
<1>2. Handles'
  BY DEF Typed, Handles, streamVars
<1>. QED BY <1>1, <1>2 DEF Typed

\* A step of thread t that moves nothing but its own call.
LEMMA OnlyCallMoves ==
  ASSUME Typed, UNCHANGED <<time, epoch, streamVars, phys>>,
         NEW t \in Threads, NEW r \in CallState,
         call' = [call EXCEPT ![t] = r],
         r.pc # "idle" => r.cap \in 1..created,
         r.pc = "read" => r.buf \in Buffers
  PROVE  Typed'
<1>1. /\ call' \in [Threads -> CallState]
      /\ \A u \in Threads : call'[u].pc # "idle" => call'[u].cap \in 1..created
      /\ \A u \in Threads : call'[u].pc = "read" => call'[u].buf \in Buffers
  BY CallMoves
<1>2. TypeOK'
  BY <1>1 DEF Typed, TypeOK, streamVars
<1>3. Handles'
  BY <1>1 DEF Typed, Handles, streamVars
<1>. QED BY <1>2, <1>3 DEF Typed

LEMMA IdleCall == Idle \in CallState /\ Idle.pc = "idle"
BY DEF Idle, CallState, CallPC

LEMMA StartedCaptures == Typed => 1..created \subseteq Captures
BY BoundAssumption DEF Typed, TypeOK, Captures

LEMMA PhysicsTyped == ASSUME Typed, Physics PROVE Typed'
<1>. /\ time \in Nat /\ phys \in PhysState
     /\ cur = None \/ cur \in 1..created
     /\ phys.pc \in {"check", "acquire", "get", "copy"} => phys.cap \in 1..created
     /\ phys.pc = "copy" => phys.buf \in Buffers
     /\ 1..created \subseteq Captures
  BY StartedCaptures DEF Typed, TypeOK, Handles
<1>1. CASE PhysStep
  <2>1. time' \in Nat
    BY <1>1, TickAssumption DEF PhysStep
  <2>2. phys' \in PhysState /\ phys'.pc = "emit"
    BY <1>1 DEF PhysStep, PhysState, PhysPC
  <2>. QED BY <1>1, <2>1, <2>2, PhysMoves DEF PhysStep
<1>2. CASE EmitEnter
  <2>1. /\ phys' \in PhysState
        /\ phys'.pc \in {"check", "acquire", "get", "copy"} => phys'.cap \in 1..created
        /\ phys'.pc # "copy"
    BY <1>2 DEF EmitEnter, PhysState, PhysPC
  <2>. QED BY <1>2, <2>1, PhysMoves DEF EmitEnter
<1>3. CASE EmitCheck
  <2>1. /\ phys' \in PhysState
        /\ phys'.pc \in {"check", "acquire", "get", "copy"} => phys'.cap \in 1..created
        /\ phys'.pc # "copy"
    BY <1>3 DEF EmitCheck, PhysState, PhysPC
  <2>. QED BY <1>3, <2>1, PhysMoves DEF EmitCheck
<1>4. CASE AcquireTest
  <2>1. /\ phys' \in PhysState
        /\ phys'.pc \in {"check", "acquire", "get", "copy"} => phys'.cap \in 1..created
        /\ phys'.pc # "copy"
    BY <1>4 DEF AcquireTest, PhysState, PhysPC
  <2>. QED BY <1>4, <2>1, PhysMoves DEF AcquireTest
<1>5. CASE AcquireBuffer
  <2>1. pool \in [Captures -> Seq(Buffers)] /\ phys.cap \in Captures
    BY <1>5 DEF Typed, TypeOK, AcquireBuffer
  <2>2. Head(pool[phys.cap]) \in Buffers /\ pool' \in [Captures -> Seq(Buffers)]
    BY <1>5, <2>1, Dequeue DEF AcquireBuffer
  <2>3. /\ phys' \in PhysState /\ phys'.cap \in 1..created
        /\ phys'.pc = "copy" /\ phys'.buf \in Buffers
    BY <1>5, <2>2 DEF AcquireBuffer, PhysState, PhysPC
  <2>4. TypeOK'
    BY <1>5, <2>2, <2>3 DEF AcquireBuffer, Typed, TypeOK
  <2>5. Handles'
    BY <1>5, <2>3 DEF AcquireBuffer, Typed, Handles
  <2>. QED BY <2>4, <2>5 DEF Typed
<1>6. CASE AcquireTimeout
  <2>1. phys' \in PhysState /\ phys'.pc = "acquire" /\ phys'.cap \in 1..created
    BY <1>6 DEF AcquireTimeout, PhysState, PhysPC
  <2>. QED BY <1>6, <2>1, PhysMoves DEF AcquireTimeout
<1>7. CASE EmitCopy
  <2>. /\ data \in [Captures -> [Buffers -> Snapshot]] /\ next \in [Captures -> Nat]
       /\ samples \in [Captures -> Seq(Buffers)] /\ epoch \in Nat
       /\ created \in Nat
    BY DEF Typed, TypeOK
  <2>1. cur \in 1..created /\ cur \in Captures /\ phys.buf \in Buffers
    BY <1>7 DEF EmitCopy
  <2>2. data' \in [Captures -> [Buffers -> Snapshot]]
    <3>1. [at |-> time, epoch |-> epoch, due |-> next[cur]] \in Snapshot
      BY <2>1 DEF Snapshot
    <3>. QED BY <1>7, <2>1, <3>1 DEF EmitCopy
  <2>3. samples' \in [Captures -> Seq(Buffers)]
        /\ \A c \in Captures : c > created => samples'[c] = samples[c]
    BY <1>7, <2>1, Enqueue DEF EmitCopy, Captures
  <2>4. next' \in [Captures -> Nat] /\ \A c \in Captures : next[c] <= next'[c]
    BY <1>7, <2>1, TickAssumption DEF EmitCopy
  <2>5. phys' \in PhysState /\ phys'.cap \in 1..created /\ phys'.pc = "check"
    BY <1>7 DEF EmitCopy, PhysState, PhysPC
  <2>6. TypeOK'
    BY <1>7, <2>2, <2>3, <2>4, <2>5 DEF EmitCopy, Typed, TypeOK
  <2>7. \A c \in Captures : born[c].at <= next'[c]
    BY <2>4 DEF Typed, TypeOK, Handles
  <2>8. Handles'
    BY <1>7, <2>3, <2>5, <2>7 DEF EmitCopy, Typed, Handles
  <2>. QED BY <2>6, <2>8 DEF Typed
<1>8. CASE EmitAbandon
  <2>1. phys' \in PhysState /\ phys'.pc = "step"
    BY <1>8 DEF EmitAbandon, PhysState, PhysPC
  <2>. QED BY <1>8, <2>1, PhysMoves DEF EmitAbandon
<1>. QED
  BY <1>1, <1>2, <1>3, <1>4, <1>5, <1>6, <1>7, <1>8 DEF Physics

LEMMA StartTyped == ASSUME Typed, NEW t \in Threads, StartCapture(t) PROVE Typed'
<1>. /\ time \in Nat /\ epoch \in Nat /\ created \in 0..MaxCaptures
     /\ next \in [Captures -> Nat] /\ born \in [Captures -> [at : Nat, epoch : Nat]]
  BY DEF Typed, TypeOK
<1>1. cur' \in Captures /\ cur' = created + 1 /\ created' = created + 1
  BY BoundAssumption DEF StartCapture, Captures
<1>2. next' \in [Captures -> Nat] /\ next'[cur'] = time
      /\ \A c \in Captures : c # cur' => next'[c] = next[c]
  BY <1>1 DEF StartCapture
<1>3. born' \in [Captures -> [at : Nat, epoch : Nat]]
      /\ born'[cur'] = [at |-> time, epoch |-> epoch]
      /\ \A c \in Captures : c # cur' => born'[c] = born[c]
  BY <1>1 DEF StartCapture
<1>4. \A c \in Captures : born'[c].epoch <= epoch /\ born'[c].at <= next'[c]
  BY <1>1, <1>2, <1>3 DEF Typed, Handles
<1>5. created' \in 0..MaxCaptures
  BY <1>1 DEF Captures
<1>6. TypeOK'
  BY <1>1, <1>2, <1>3, <1>5 DEF StartCapture, Typed, TypeOK
<1>7. 1..created \subseteq 1..created' /\ \A c \in Captures : c > created' => c > created
  BY <1>1 DEF Captures
<1>8. cur' \in 1..created'
  BY <1>1
<1>9. UNCHANGED <<epoch, phys, call, samples>>
  BY DEF StartCapture
<1>10. Handles'
  BY <1>4, <1>7, <1>8, <1>9 DEF Typed, Handles
<1>. QED BY <1>6, <1>10 DEF Typed

LEMMA StopTyped ==
  ASSUME Typed, NEW t \in Threads, StopEnter(t) \/ StopClear(t) PROVE Typed'
<1>. Idle \in CallState /\ Idle.pc = "idle"
  BY IdleCall
<1>1. CASE StopEnter(t)
  <2> DEFINE r == [pc |-> "clear", cap |-> cur, buf |-> None]
  <2>1. cur \in 1..created /\ cur \in Captures
    BY <1>1, StartedCaptures DEF StopEnter, Typed, Handles
  <2>2. r \in CallState /\ r.pc = "clear" /\ r.cap \in 1..created
    BY <2>1 DEF CallState, CallPC
  <2>3. call' = [call EXCEPT ![t] = r]
    BY <1>1 DEF StopEnter
  <2> HIDE DEF r
  <2>4. /\ call' \in [Threads -> CallState]
        /\ \A u \in Threads : call'[u].pc # "idle" => call'[u].cap \in 1..created
        /\ \A u \in Threads : call'[u].pc = "read" => call'[u].buf \in Buffers
    BY <2>2, <2>3, CallMoves
  <2>5. TypeOK'
    BY <1>1, <2>1, <2>4 DEF StopEnter, Typed, TypeOK
  <2>6. Handles'
    BY <1>1, <2>4 DEF StopEnter, Typed, Handles
  <2>. QED BY <2>5, <2>6 DEF Typed
<1>2. CASE StopClear(t)
  <2>1. /\ call' \in [Threads -> CallState]
        /\ \A u \in Threads : call'[u].pc # "idle" => call'[u].cap \in 1..created
        /\ \A u \in Threads : call'[u].pc = "read" => call'[u].buf \in Buffers
    BY <1>2, CallMoves DEF StopClear
  <2>2. TypeOK'
    BY <1>2, <2>1 DEF StopClear, Typed, TypeOK
  <2>3. Handles'
    BY <1>2, <2>1 DEF StopClear, Typed, Handles
  <2>. QED BY <2>2, <2>3 DEF Typed
<1>. QED BY <1>1, <1>2

LEMMA NextWaitTyped ==
  ASSUME Typed, NEW t \in Threads, NextEnter(t) \/ NextTest(t) \/ NextTimeout(t)
  PROVE  Typed'
<1>. Idle \in CallState /\ Idle.pc = "idle"
  BY IdleCall
<1>. call \in [Threads -> CallState]
  BY DEF Typed, TypeOK
<1>1. CASE NextEnter(t)
  <2> DEFINE r == [pc |-> "test", cap |-> cur, buf |-> None]
  <2>1. cur \in 1..created /\ cur \in Captures
    BY <1>1, StartedCaptures DEF NextEnter, Typed, Handles
  <2>2. r \in CallState /\ r.pc = "test" /\ r.cap \in 1..created
    BY <2>1 DEF CallState, CallPC
  <2>3. call' = [call EXCEPT ![t] = r] /\ UNCHANGED <<time, epoch, streamVars, phys>>
    BY <1>1 DEF NextEnter
  <2> HIDE DEF r
  <2>. QED BY <2>2, <2>3, OnlyCallMoves
<1>2. CASE NextTest(t)
  <2> DEFINE r == IF call[t].cap \in stopped THEN Idle ELSE [call[t] EXCEPT !.pc = "get"]
  <2>1. call[t] \in CallState /\ call[t].cap \in 1..created
    BY <1>2, CallHandle DEF NextTest
  <2>2. /\ r \in CallState /\ r.pc \in {"idle", "get"}
        /\ r.pc # "idle" => r.cap \in 1..created
    BY <2>1 DEF CallState, CallPC
  <2>3. call' = [call EXCEPT ![t] = r] /\ UNCHANGED <<time, epoch, streamVars, phys>>
    BY <1>2 DEF NextTest
  <2> HIDE DEF r
  <2>. QED BY <2>2, <2>3, OnlyCallMoves
<1>3. CASE NextTimeout(t)
  <2> DEFINE r == [call[t] EXCEPT !.pc = "test"]
  <2>1. call[t] \in CallState /\ call[t].cap \in 1..created
    BY <1>3, CallHandle DEF NextTimeout
  <2>2. r \in CallState /\ r.pc = "test" /\ r.cap \in 1..created
    BY <2>1 DEF CallState, CallPC
  <2>3. call' = [call EXCEPT ![t] = r] /\ UNCHANGED <<time, epoch, streamVars, phys>>
    BY <1>3 DEF NextTimeout
  <2> HIDE DEF r
  <2>. QED BY <2>2, <2>3, OnlyCallMoves
<1>. QED BY <1>1, <1>2, <1>3

LEMMA NextReadTyped ==
  ASSUME Typed, NEW t \in Threads, NextGot(t) \/ NextReturn(t) \/ NextRaise(t)
  PROVE  Typed'
<1>. Idle \in CallState /\ Idle.pc = "idle"
  BY IdleCall
<1>. /\ call \in [Threads -> CallState] /\ samples \in [Captures -> Seq(Buffers)]
     /\ pool \in [Captures -> Seq(Buffers)] /\ data \in [Captures -> [Buffers -> Snapshot]]
     /\ created \in Nat
  BY DEF Typed, TypeOK
<1>1. /\ call[t] \in CallState /\ call[t].cap \in 1..created /\ call[t].cap \in Captures
      /\ call[t].pc = "read" => call[t].buf \in Buffers
  BY CallHandle DEF NextGot, NextReturn, NextRaise
<1>2. CASE NextGot(t)
  <2> DEFINE r == [call[t] EXCEPT !.pc = "read", !.buf = Head(samples[call[t].cap])]
  <2>1. Head(samples[call[t].cap]) \in Buffers /\ samples' \in [Captures -> Seq(Buffers)]
    BY <1>1, <1>2, Dequeue DEF NextGot
  <2>2. r \in CallState /\ r.cap \in 1..created /\ r.buf \in Buffers
    BY <1>1, <2>1 DEF CallState, CallPC
  <2>3. call' = [call EXCEPT ![t] = r]
    BY <1>2 DEF NextGot
  <2> HIDE DEF r
  <2>4. /\ call' \in [Threads -> CallState]
        /\ \A u \in Threads : call'[u].pc # "idle" => call'[u].cap \in 1..created
        /\ \A u \in Threads : call'[u].pc = "read" => call'[u].buf \in Buffers
    BY <2>2, <2>3, CallMoves
  <2>5. \A c \in Captures : c > created => samples'[c] = samples[c]
    BY <1>1, <1>2 DEF NextGot, Captures
  <2>6. TypeOK'
    BY <1>2, <2>1, <2>4 DEF NextGot, Typed, TypeOK
  <2>7. Handles'
    BY <1>2, <2>4, <2>5 DEF NextGot, Typed, Handles
  <2>. QED BY <2>6, <2>7 DEF Typed
<1>3. CASE NextReturn(t)
  <2>1. pool' \in [Captures -> Seq(Buffers)]
    BY <1>1, <1>3, Enqueue DEF NextReturn
  <2>2. data' \in [Captures -> [Buffers -> Snapshot]]
    BY <1>1, <1>3 DEF NextReturn, Blank, Snapshot
  <2>3. /\ call' \in [Threads -> CallState]
        /\ \A u \in Threads : call'[u].pc # "idle" => call'[u].cap \in 1..created
        /\ \A u \in Threads : call'[u].pc = "read" => call'[u].buf \in Buffers
    BY <1>3, CallMoves DEF NextReturn
  <2>4. TypeOK'
    BY <1>3, <2>1, <2>2, <2>3 DEF NextReturn, Typed, TypeOK
  <2>5. Handles'
    BY <1>3, <2>3 DEF NextReturn, Typed, Handles
  <2>. QED BY <2>4, <2>5 DEF Typed
<1>4. CASE NextRaise(t)
  <2>1. /\ call' \in [Threads -> CallState]
        /\ \A u \in Threads : call'[u].pc # "idle" => call'[u].cap \in 1..created
        /\ \A u \in Threads : call'[u].pc = "read" => call'[u].buf \in Buffers
    BY <1>4, CallMoves DEF NextRaise
  <2>2. TypeOK'
    BY <1>1, <1>4, <2>1 DEF NextRaise, Typed, TypeOK
  <2>3. Handles'
    BY <1>4, <2>1 DEF NextRaise, Typed, Handles
  <2>. QED BY <2>2, <2>3 DEF Typed
<1>. QED BY <1>2, <1>3, <1>4

LEMMA ResetTyped == ASSUME Typed, ResetWorld PROVE Typed'
<1>1. epoch' \in Nat /\ time' \in Nat /\ epoch <= epoch'
  BY DEF ResetWorld, Typed, TypeOK
<1>2. UNCHANGED <<cur, created, stopped, next, born, pool, samples, data, failed, phys, call>>
  BY DEF ResetWorld, streamVars
<1>3. TypeOK'
  BY <1>1, <1>2 DEF Typed, TypeOK
<1>4. \A c \in Captures : born[c].epoch <= epoch'
  BY <1>1 DEF Typed, TypeOK, Handles
<1>5. Handles'
  BY <1>2, <1>4 DEF Typed, Handles
<1>. QED BY <1>3, <1>5 DEF Typed

LEMMA TypedStep == Typed /\ [Next]_vars => Typed'
<1>. SUFFICES ASSUME Typed, [Next]_vars PROVE Typed'
  OBVIOUS
<1>1. CASE Physics
  BY <1>1, PhysicsTyped
<1>2. CASE ResetWorld
  BY <1>2, ResetTyped
<1>3. ASSUME NEW t \in Threads, StartCapture(t) \/ StopEnter(t) \/ StopClear(t)
      PROVE  Typed'
  BY <1>3, StartTyped, StopTyped
<1>4. ASSUME NEW t \in Consumers, \/ NextEnter(t) \/ NextTest(t) \/ NextGot(t)
                                  \/ NextTimeout(t) \/ NextReturn(t) \/ NextRaise(t)
      PROVE  Typed'
  BY <1>4, ThreadAssumption, NextWaitTyped, NextReadTyped
<1>5. CASE UNCHANGED vars
  BY <1>5 DEF vars, streamVars, Typed, TypeOK, Handles
<1>. QED BY <1>1, <1>2, <1>3, <1>4, <1>5 DEF Next

\* Every reachable state has the types and the handles it should have.
THEOREM CaptureTypeOK == Spec => [](TypeOK /\ Handles)
<1>1. Spec => []Typed
  BY TypedInit, TypedStep, PTL DEF Spec
<1>2. Typed => TypeOK /\ Handles
  BY DEF Typed
<1>. QED BY <1>1, <1>2, PTL
-----------------------------------------------------------------------------
(* No buffer is in two places.                                             *)

\* A step that hands no buffer of any capture to anybody.
LEMMA NoNewHolder ==
  ASSUME OneHolder, pool' = pool, samples' = samples,
         \A c \in Captures : PhysicsHolds(c)' \subseteq PhysicsHolds(c),
         \A c \in Captures : Reading(c)' \subseteq Reading(c),
         \A c \in Captures : \A t \in Reading(c)' : call'[t].buf = call[t].buf
  PROVE  OneHolder'
<1>1. SUFFICES ASSUME NEW c \in Captures PROVE HeldOnce(c)'
  BY DEF OneHolder
<1>2. Free(c)' = Free(c) /\ Queued(c)' = Queued(c)
  BY DEF Free, Queued
<1>3. Readers(c)' \subseteq Readers(c)
  BY DEF Readers
<1>4. PhysicsHolds(c)' \subseteq PhysicsHolds(c)
  OBVIOUS
<1>5. IsInjective(pool[c])' /\ IsInjective(samples[c])'
  BY DEF OneHolder, HeldOnce
<1>6. \A t, u \in Reading(c)' : call'[t].buf = call'[u].buf => t = u
  BY DEF OneHolder, HeldOnce
<1>. QED BY <1>2, <1>3, <1>4, <1>5, <1>6 DEF OneHolder, HeldOnce

LEMMA OneHolderInit == Init => OneHolder
<1>. SUFFICES ASSUME Init, NEW c \in Captures
     PROVE /\ Queued(c) = {} /\ PhysicsHolds(c) = {} /\ Reading(c) = {} /\ Readers(c) = {}
           /\ IsInjective(pool[c]) /\ IsInjective(samples[c])
  BY DEF OneHolder, HeldOnce
<1>1. samples[c] = <<>> /\ DOMAIN <<>> = {}
  BY DEF Init
<1>2. pool[c] = [b \in Buffers |-> b]
  BY DEF Init
<1>3. PhysicsHolds(c) = {} /\ Reading(c) = {} /\ Readers(c) = {}
  BY DEF Init, PhysicsHolds, Reading, Readers, Idle
<1>. QED BY <1>1, <1>2, <1>3 DEF Queued, Range, IsInjective

\* Only taking a buffer from the pool, queueing it, fetching it from the queue
\* and giving it back move a buffer.
LEMMA OneHolderQuiet ==
  ASSUME Typed, OneHolder,
         \/ PhysStep \/ EmitEnter \/ EmitCheck \/ AcquireTest \/ AcquireTimeout
         \/ EmitAbandon \/ ResetWorld \/ UNCHANGED vars
  PROVE  OneHolder'
<1>1. pool' = pool /\ samples' = samples /\ call' = call
  BY DEF PhysStep, EmitEnter, EmitCheck, AcquireTest, AcquireTimeout, EmitAbandon,
         ResetWorld, vars, streamVars
<1>2. phys'.pc # "copy" \/ phys' = phys
  BY DEF PhysStep, EmitEnter, EmitCheck, AcquireTest, AcquireTimeout, EmitAbandon,
         ResetWorld, vars, Typed, TypeOK, PhysState
<1>3. \A c \in Captures : PhysicsHolds(c)' \subseteq PhysicsHolds(c)
  BY <1>2 DEF PhysicsHolds
<1>4. \A c \in Captures : Reading(c)' = Reading(c)
  BY <1>1 DEF Reading
<1>. QED BY <1>1, <1>3, <1>4, NoNewHolder

LEMMA OneHolderQuietCall ==
  ASSUME Typed, OneHolder, NEW t \in Threads,
         \/ StartCapture(t) \/ StopEnter(t) \/ StopClear(t)
         \/ NextEnter(t) \/ NextTest(t) \/ NextTimeout(t) \/ NextRaise(t)
  PROVE  OneHolder'
<1>1. pool' = pool /\ samples' = samples /\ phys' = phys
  BY DEF StartCapture, StopEnter, StopClear, NextEnter, NextTest, NextTimeout, NextRaise,
         streamVars
<1>2. call \in [Threads -> CallState]
  BY DEF Typed, TypeOK
<1>3. \A u \in Threads : u # t => call'[u] = call[u]
  BY <1>2 DEF StartCapture, StopEnter, StopClear, NextEnter, NextTest, NextTimeout, NextRaise
<1>4. call'[t].pc # "read" \/ call' = call
  BY <1>2 DEF StartCapture, StopEnter, StopClear, NextEnter, NextTest, NextTimeout, NextRaise,
     Idle, CallState
<1>5. \A c \in Captures : PhysicsHolds(c)' \subseteq PhysicsHolds(c)
  BY <1>1 DEF PhysicsHolds
<1>6. \A c \in Captures : \A u \in Reading(c)' : u \in Reading(c) /\ call'[u] = call[u]
  BY <1>3, <1>4 DEF Reading
<1>. QED BY <1>1, <1>5, <1>6, NoNewHolder

LEMMA OneHolderAcquire == ASSUME Typed, OneHolder, AcquireBuffer PROVE OneHolder'
<1>. DEFINE k == phys.cap
            b == Head(pool[k])
<1>1. k \in Captures /\ pool \in [Captures -> Seq(Buffers)] /\ phys \in PhysState
  BY StartedCaptures DEF AcquireBuffer, Typed, TypeOK, Handles
<1>2. /\ b \in Range(pool[k]) /\ Range(Tail(pool[k])) = Range(pool[k]) \ {b}
      /\ IsInjective(Tail(pool[k]))
  <2>. pool[k] \in Seq(Buffers) /\ pool[k] # <<>> /\ IsInjective(pool[k])
    BY <1>1 DEF AcquireBuffer, OneHolder, HeldOnce
  <2>. QED BY TailFacts
<1>3. /\ pool'[k] = Tail(pool[k]) /\ \A c \in Captures : c # k => pool'[c] = pool[c]
      /\ samples' = samples /\ call' = call
      /\ phys'.pc = "copy" /\ phys'.cap = k /\ phys'.buf = b
  BY <1>1 DEF AcquireBuffer, PhysState
<1>. HIDE DEF k, b
<1>4. SUFFICES ASSUME NEW c \in Captures PROVE HeldOnce(c)'
  BY DEF OneHolder
<1>5. /\ Queued(c)' = Queued(c) /\ Readers(c)' = Readers(c) /\ Reading(c)' = Reading(c)
  BY <1>3 DEF Queued, Readers, Reading
<1>6. CASE c = k
  <2>1. Free(c)' = Free(c) \ {b} /\ PhysicsHolds(c)' = {b} /\ b \in Free(c)
    BY <1>2, <1>3, <1>6 DEF Free, PhysicsHolds
  <2>2. IsInjective(pool[c])' /\ IsInjective(samples[c])'
    BY <1>2, <1>3, <1>6 DEF OneHolder, HeldOnce
  <2>. QED BY <1>3, <1>5, <2>1, <2>2 DEF OneHolder, HeldOnce
<1>7. CASE c # k
  <2>1. Free(c)' = Free(c) /\ PhysicsHolds(c)' = {}
    BY <1>3, <1>7 DEF Free, PhysicsHolds
  <2>2. IsInjective(pool[c])' /\ IsInjective(samples[c])'
    BY <1>3, <1>7 DEF OneHolder, HeldOnce
  <2>. QED BY <1>3, <1>5, <2>1, <2>2 DEF OneHolder, HeldOnce
<1>. QED BY <1>6, <1>7

LEMMA OneHolderCopy == ASSUME Typed, OneHolder, EmitCopy PROVE OneHolder'
<1>. DEFINE k == phys.cap
            b == phys.buf
<1>1. k \in Captures /\ b \in Buffers /\ samples \in [Captures -> Seq(Buffers)]
      /\ phys \in PhysState /\ cur = k /\ phys.pc = "copy"
  BY StartedCaptures DEF EmitCopy, Typed, TypeOK, Handles
<1>2. PhysicsHolds(k) = {b} /\ b \notin Queued(k) /\ b \notin Free(k) /\ b \notin Readers(k)
  <2>1. PhysicsHolds(k) = {b}
    BY <1>1 DEF PhysicsHolds
  <2>. QED BY <1>1, <2>1 DEF OneHolder, HeldOnce
<1>3. /\ samples'[k] = Append(samples[k], b)
      /\ \A c \in Captures : c # k => samples'[c] = samples[c]
      /\ pool' = pool /\ call' = call /\ phys'.pc = "check"
  BY <1>1 DEF EmitCopy, PhysState
<1>4. /\ Range(Append(samples[k], b)) = Range(samples[k]) \cup {b}
      /\ IsInjective(Append(samples[k], b))
  <2>. samples[k] \in Seq(Buffers) /\ IsInjective(samples[k]) /\ b \notin Range(samples[k])
    BY <1>1, <1>2 DEF OneHolder, HeldOnce, Queued
  <2>. QED BY <1>1, RangeAppend, InjectiveAppend
<1>. HIDE DEF k, b
<1>5. SUFFICES ASSUME NEW c \in Captures PROVE HeldOnce(c)'
  BY DEF OneHolder
<1>6. /\ Free(c)' = Free(c) /\ Readers(c)' = Readers(c) /\ Reading(c)' = Reading(c)
      /\ PhysicsHolds(c)' = {}
  BY <1>3 DEF Free, Readers, Reading, PhysicsHolds
<1>7. /\ Queued(c)' = IF c = k THEN Queued(c) \cup {b} ELSE Queued(c)
      /\ IsInjective(pool[c])' /\ IsInjective(samples[c])'
  BY <1>3, <1>4 DEF OneHolder, HeldOnce, Queued
<1>. QED BY <1>2, <1>3, <1>6, <1>7 DEF OneHolder, HeldOnce

LEMMA OneHolderGot ==
  ASSUME Typed, OneHolder, NEW t \in Threads, NextGot(t) PROVE OneHolder'
<1>. DEFINE k == call[t].cap
            b == Head(samples[k])
<1>1. k \in Captures /\ samples \in [Captures -> Seq(Buffers)]
      /\ call \in [Threads -> CallState]
  BY CallHandle DEF NextGot, Typed, TypeOK
<1>2. /\ b \in Range(samples[k]) /\ Range(Tail(samples[k])) = Range(samples[k]) \ {b}
      /\ IsInjective(Tail(samples[k]))
  <2>. samples[k] \in Seq(Buffers) /\ samples[k] # <<>> /\ IsInjective(samples[k])
    BY <1>1 DEF NextGot, OneHolder, HeldOnce
  <2>. QED BY TailFacts
<1>3. /\ samples'[k] = Tail(samples[k])
      /\ \A c \in Captures : c # k => samples'[c] = samples[c]
      /\ pool' = pool /\ phys' = phys
  BY <1>1 DEF NextGot
<1>4. /\ call[t].pc = "get"
      /\ call'[t].pc = "read" /\ call'[t].cap = k /\ call'[t].buf = b
      /\ \A u \in Threads : u # t => call'[u] = call[u]
  BY <1>1 DEF NextGot, CallState
<1>5. k = call[t].cap
  OBVIOUS
<1>. HIDE DEF k, b
<1>6. SUFFICES ASSUME NEW c \in Captures PROVE HeldOnce(c)'
  BY DEF OneHolder
<1>7. /\ Free(c)' = Free(c) /\ PhysicsHolds(c)' = PhysicsHolds(c)
      /\ IsInjective(pool[c])' /\ IsInjective(samples[c])'
  BY <1>2, <1>3 DEF Free, PhysicsHolds, OneHolder, HeldOnce
<1>8. CASE c = k
  <2>1. Queued(c)' = Queued(c) \ {b} /\ b \in Queued(c)
    BY <1>2, <1>3, <1>8 DEF Queued
  <2>2. Reading(c)' = Reading(c) \cup {t} /\ t \notin Reading(c)
    BY <1>4, <1>8 DEF Reading
  <2>3. \A u \in Reading(c) : call'[u].buf = call[u].buf /\ call[u].buf \in Readers(c)
    BY <1>4, <2>2 DEF Reading, Readers
  <2>4. Readers(c)' = Readers(c) \cup {b}
    BY <1>4, <2>2, <2>3 DEF Readers
  <2>5. b \notin Readers(c) /\ b \notin Free(c) /\ b \notin PhysicsHolds(c)
    BY <2>1 DEF OneHolder, HeldOnce
  <2>6. \A u, v \in Reading(c)' : call'[u].buf = call'[v].buf => u = v
    BY <1>4, <2>2, <2>3, <2>5 DEF OneHolder, HeldOnce
  <2>. QED BY <1>7, <2>1, <2>4, <2>5, <2>6 DEF OneHolder, HeldOnce
<1>9. CASE c # k
  <2>1. Queued(c)' = Queued(c)
    BY <1>3, <1>9 DEF Queued
  <2>2. Reading(c)' = Reading(c) /\ t \notin Reading(c)
    BY <1>4, <1>9 DEF Reading
  <2>3. \A u \in Reading(c) : call'[u].buf = call[u].buf
    BY <1>4, <2>2 DEF Reading
  <2>4. Readers(c)' = Readers(c)
    BY <2>2, <2>3 DEF Readers
  <2>. QED BY <1>7, <2>1, <2>2, <2>3, <2>4 DEF OneHolder, HeldOnce
<1>. QED BY <1>8, <1>9

LEMMA OneHolderReturn ==
  ASSUME Typed, OneHolder, NEW t \in Threads, NextReturn(t) PROVE OneHolder'
<1>. DEFINE k == call[t].cap
            b == call[t].buf
<1>1. k \in Captures /\ b \in Buffers /\ pool \in [Captures -> Seq(Buffers)]
      /\ call \in [Threads -> CallState] /\ t \in Reading(k) /\ b \in Readers(k)
  BY CallHandle DEF NextReturn, Typed, TypeOK, Reading, Readers
<1>2. b \notin Free(k) /\ b \notin Queued(k) /\ b \notin PhysicsHolds(k)
      /\ \A u \in Reading(k) : u # t => call[u].buf # b
  BY <1>1 DEF OneHolder, HeldOnce
<1>3. /\ pool'[k] = Append(pool[k], b)
      /\ \A c \in Captures : c # k => pool'[c] = pool[c]
      /\ samples' = samples /\ phys' = phys
  BY <1>1 DEF NextReturn
<1>4. call'[t].pc = "idle" /\ \A u \in Threads : u # t => call'[u] = call[u]
  BY <1>1 DEF NextReturn, Idle
<1>5. /\ Range(Append(pool[k], b)) = Range(pool[k]) \cup {b}
      /\ IsInjective(Append(pool[k], b))
  <2>. pool[k] \in Seq(Buffers) /\ IsInjective(pool[k]) /\ b \notin Range(pool[k])
    BY <1>1, <1>2 DEF OneHolder, HeldOnce, Free
  <2>. QED BY <1>1, RangeAppend, InjectiveAppend
<1>6. k = call[t].cap /\ b = call[t].buf
  OBVIOUS
<1>. HIDE DEF k, b
<1>7. SUFFICES ASSUME NEW c \in Captures PROVE HeldOnce(c)'
  BY DEF OneHolder
<1>8. /\ Queued(c)' = Queued(c) /\ PhysicsHolds(c)' = PhysicsHolds(c)
      /\ IsInjective(pool[c])' /\ IsInjective(samples[c])'
      /\ Free(c)' = IF c = k THEN Free(c) \cup {b} ELSE Free(c)
  BY <1>3, <1>5 DEF Free, Queued, PhysicsHolds, OneHolder, HeldOnce
<1>9. Reading(c)' = Reading(c) \ {t}
  BY <1>4 DEF Reading
<1>10. \A u \in Reading(c)' : call'[u].buf = call[u].buf
  BY <1>4, <1>9 DEF Reading
<1>11. Readers(c)' \subseteq Readers(c)
  BY <1>9, <1>10 DEF Readers
<1>12. c = k => b \notin Readers(c)'
  BY <1>2, <1>9, <1>10 DEF Readers
<1>13. \A u, v \in Reading(c)' : call'[u].buf = call'[v].buf => u = v
  BY <1>9, <1>10 DEF OneHolder, HeldOnce
<1>. QED BY <1>2, <1>8, <1>11, <1>12, <1>13 DEF OneHolder, HeldOnce

LEMMA OneHolderStep == Typed /\ OneHolder /\ [Next]_vars => OneHolder'
<1>. SUFFICES ASSUME Typed, OneHolder, [Next]_vars PROVE OneHolder'
  OBVIOUS
<1>1. CASE Physics
  BY <1>1, OneHolderQuiet, OneHolderAcquire, OneHolderCopy DEF Physics
<1>2. CASE ResetWorld \/ UNCHANGED vars
  BY <1>2, OneHolderQuiet
<1>3. ASSUME NEW t \in Threads, StartCapture(t) \/ StopEnter(t) \/ StopClear(t)
      PROVE  OneHolder'
  BY <1>3, OneHolderQuietCall
<1>4. ASSUME NEW t \in Consumers, \/ NextEnter(t) \/ NextTest(t) \/ NextGot(t)
                                  \/ NextTimeout(t) \/ NextReturn(t) \/ NextRaise(t)
      PROVE  OneHolder'
  BY <1>4, ThreadAssumption, OneHolderQuietCall, OneHolderGot, OneHolderReturn
<1>. QED BY <1>1, <1>2, <1>3, <1>4 DEF Next

\* For any number of threads, captures and buffers no buffer is ever free,
\* queued, being filled and being read in more than one way at a time.
THEOREM CaptureOneHolder == Spec => []OneHolder
<1>1. Init => Typed /\ OneHolder
  BY TypedInit, OneHolderInit
<1>2. (Typed /\ OneHolder) /\ [Next]_vars => (Typed /\ OneHolder)'
  BY TypedStep, OneHolderStep
<1>. QED BY <1>1, <1>2, PTL DEF Spec
-----------------------------------------------------------------------------
(* Simulated time waits for the consumer.                                  *)

Paced == Backpressure /\ PhysicsOnTime

LEMMA PacedInit == Init => Paced
BY DEF Init, Paced, Backpressure, PhysicsOnTime

LEMMA PacedPhysics == ASSUME Typed, Paced, Physics PROVE Paced'
<1>1. /\ time \in Nat /\ phys \in PhysState /\ epoch \in Nat /\ next \in [Captures -> Nat]
      /\ StepTicks \in Nat /\ Interval \in Nat
  BY TickAssumption DEF Typed, TypeOK
<1>2. cur # None => cur \in Captures /\ next[cur] \in Nat
  BY <1>1 DEF Typed, TypeOK
<1>3. /\ cur' = cur /\ epoch' = epoch /\ born' = born /\ stopped' = stopped
  BY DEF Physics, PhysStep, EmitEnter, EmitCheck, AcquireTest, AcquireBuffer,
         AcquireTimeout, EmitCopy, EmitAbandon, streamVars
<1>4. cur # None => SameEpoch(cur)' = SameEpoch(cur)
  BY <1>3 DEF SameEpoch
<1>5. CASE cur = None
  BY <1>3, <1>5 DEF Paced, Backpressure, PhysicsOnTime
<1>6. CASE cur # None /\ ~SameEpoch(cur)
  BY <1>3, <1>4, <1>6 DEF Paced, Backpressure, PhysicsOnTime
<1>7. CASE cur # None /\ SameEpoch(cur)
  <2>. USE <1>1, <1>2, <1>3, <1>4, <1>7 DEF Paced, Backpressure, PhysicsOnTime
  <2>1. CASE PhysStep
    <3>1. time' = time + StepTicks /\ next' = next /\ phys'.pc = "emit" /\ phys.pc = "step"
      BY <2>1 DEF PhysStep, streamVars, PhysState
    <3>. QED BY <3>1
  <2>2. CASE EmitEnter
    <3>1. /\ time' = time /\ next' = next /\ phys.pc = "emit"
          /\ phys'.pc = "check" /\ phys'.cap = cur
      BY <2>2 DEF EmitEnter, streamVars
    <3>. QED BY <3>1
  <2>3. CASE EmitCheck
    <3>1. /\ time' = time /\ next' = next /\ phys.pc = "check"
          /\ \/ (cur # phys.cap \/ time < next[phys.cap]) /\ phys'.pc = "step"
             \/ cur = phys.cap /\ ~(time < next[cur]) /\ phys'.pc = "acquire" /\ phys'.cap = cur
      BY <2>3 DEF EmitCheck, streamVars, PhysState
    <3>2. CASE cur = phys.cap
      BY <3>1, <3>2
    <3>3. CASE cur # phys.cap
      BY <3>1, <3>3
    <3>. QED BY <3>2, <3>3
  <2>4. CASE AcquireTest
    <3>1. /\ time' = time /\ next' = next /\ phys.pc = "acquire"
          /\ \/ phys.cap \in stopped /\ phys'.pc = "step"
             \/ phys.cap \notin stopped /\ phys'.pc = "get" /\ phys'.cap = phys.cap
      BY <2>4 DEF AcquireTest, streamVars, PhysState
    <3>. QED BY <3>1
  <2>5. CASE AcquireBuffer
    <3>1. /\ time' = time /\ next' = next /\ phys.pc = "get"
          /\ phys'.pc = "copy" /\ phys'.cap = phys.cap
      BY <2>5 DEF AcquireBuffer, PhysState
    <3>. QED BY <3>1
  <2>6. CASE AcquireTimeout
    <3>1. /\ time' = time /\ next' = next /\ phys.pc = "get"
          /\ phys'.pc = "acquire" /\ phys'.cap = phys.cap
      BY <2>6 DEF AcquireTimeout, streamVars, PhysState
    <3>. QED BY <3>1
  <2>7. CASE EmitCopy
    <3>1. /\ time' = time /\ next'[cur] = next[cur] + Interval
          /\ phys'.pc = "check" /\ phys'.cap = cur
      BY <2>7 DEF EmitCopy, PhysState
    <3>. QED BY <3>1
  <2>8. CASE EmitAbandon
    <3>1. /\ time' = time /\ next' = next /\ phys.pc = "copy" /\ phys.cap # cur
          /\ phys'.pc = "step"
      BY <2>8 DEF EmitAbandon, streamVars
    <3>. QED BY <3>1
  <2>. QED BY <2>1, <2>2, <2>3, <2>4, <2>5, <2>6, <2>7, <2>8 DEF Physics
<1>. QED BY <1>5, <1>6, <1>7

\* A capture that starts has its first sample due at once, and physics, which
\* may still be serving an earlier one, is not late for it.
LEMMA PacedStart == ASSUME Typed, NEW t \in Threads, StartCapture(t) PROVE Paced'
<1>1. /\ created \in 0..MaxCaptures /\ time \in Nat /\ next \in [Captures -> Nat]
      /\ StepTicks \in Nat
      /\ phys.pc \in {"check", "acquire", "get", "copy"} => phys.cap \in 1..created
  BY TickAssumption DEF Typed, TypeOK, Handles
<1>2. /\ cur' = created + 1 /\ cur' \in Captures /\ time' = time /\ phys' = phys
  BY <1>1, BoundAssumption DEF StartCapture, Captures
<1>3. next'[cur'] = time
  BY <1>1, <1>2 DEF StartCapture
<1>4. phys'.pc \in {"check", "acquire", "get", "copy"} => cur' # phys'.cap
  BY <1>1, <1>2
<1>. QED BY <1>1, <1>2, <1>3, <1>4 DEF Paced, Backpressure, PhysicsOnTime

\* After a reset nothing is promised of a capture that was started before it.
LEMMA PacedReset == ASSUME Typed, ResetWorld PROVE Paced'
<1>1. cur' # None => ~SameEpoch(cur)'
  BY DEF ResetWorld, streamVars, Typed, TypeOK, Handles, SameEpoch
<1>. QED BY <1>1 DEF Paced, Backpressure, PhysicsOnTime

LEMMA PacedStep == Typed /\ Paced /\ [Next]_vars => Paced'
<1>. SUFFICES ASSUME Typed, Paced, [Next]_vars PROVE Paced'
  OBVIOUS
<1>1. CASE Physics
  BY <1>1, PacedPhysics
<1>2. CASE ResetWorld
  BY <1>2, PacedReset
<1>3. ASSUME NEW t \in Threads, StartCapture(t) PROVE Paced'
  BY <1>3, PacedStart
<1>4. ASSUME UNCHANGED <<time, epoch, next, born, phys>>, cur' \in {None, cur},
             stopped \subseteq stopped'
      PROVE  Paced'
  BY <1>4 DEF Paced, Backpressure, PhysicsOnTime, SameEpoch
<1>5. ASSUME NEW t \in Threads,
             \/ StopEnter(t) \/ StopClear(t) \/ NextEnter(t) \/ NextTest(t) \/ NextGot(t)
             \/ NextTimeout(t) \/ NextReturn(t) \/ NextRaise(t)
      PROVE  Paced'
  BY <1>4, <1>5 DEF StopEnter, StopClear, NextEnter, NextTest, NextGot, NextTimeout,
                    NextReturn, NextRaise, streamVars
<1>6. CASE UNCHANGED vars
  BY <1>4, <1>6 DEF vars, streamVars
<1>. QED BY <1>1, <1>2, <1>3, <1>5, <1>6, ThreadAssumption DEF Next

\* Simulated time never gets more than one physics step past a sampling instant
\* whose sample is missing, however slow the consumers are.
THEOREM CaptureBackpressure == Spec => []Backpressure
<1>1. Init => Typed /\ Paced
  BY TypedInit, PacedInit
<1>2. (Typed /\ Paced) /\ [Next]_vars => (Typed /\ Paced)'
  BY TypedStep, PacedStep
<1>3. Typed /\ Paced => Backpressure
  BY DEF Paced
<1>. QED BY <1>1, <1>2, <1>3, PTL DEF Spec
-----------------------------------------------------------------------------
(* No buffer of an active capture is lost, and none is overwritten while a *)
(* consumer has it.                                                        *)

\* All buffers of capture c are accounted for.
Whole(c) == c \notin failed
              => Free(c) \cup Queued(c) \cup PhysicsHolds(c) \cup Readers(c) = Buffers

\* A capture that is replaced while physics holds one of its buffers loses that
\* one; only an active capture, and one yet to be started, are sure to be whole.
WholeActive == \A c \in Captures : c = cur \/ c > created => Whole(c)

LEMMA WholeInit == Init => WholeActive
<1>. SUFFICES ASSUME Init, NEW c \in Captures PROVE Free(c) = Buffers
                                              /\ Queued(c) \cup PhysicsHolds(c) \cup Readers(c) = {}
  BY DEF WholeActive, Whole
<1>1. pool[c] = [b \in Buffers |-> b] /\ samples[c] = <<>>
  BY DEF Init
<1>2. Free(c) = Buffers /\ Queued(c) = {}
  BY <1>1 DEF Free, Queued, Range
<1>3. PhysicsHolds(c) = {} /\ Readers(c) = {}
  BY DEF Init, PhysicsHolds, Reading, Readers, Idle
<1>. QED BY <1>2, <1>3

\* A buffer that one place gives up is in the next one.
LEMMA WholeAcquire ==
  ASSUME Typed, AcquireBuffer, NEW c \in Captures, Whole(c), IsInjective(pool[c])
  PROVE  Whole(c)'
<1>1. phys.cap \in Captures /\ pool \in [Captures -> Seq(Buffers)] /\ phys \in PhysState
  BY StartedCaptures DEF AcquireBuffer, Typed, TypeOK, Handles
<1>2. /\ Queued(c)' = Queued(c) /\ Readers(c)' = Readers(c) /\ failed' = failed
      /\ PhysicsHolds(c) = {}
  BY DEF AcquireBuffer, Queued, Readers, Reading, PhysicsHolds
<1>3. CASE c # phys.cap
  <2>1. Free(c)' = Free(c) /\ PhysicsHolds(c)' = {}
    BY <1>1, <1>3 DEF AcquireBuffer, Free, PhysicsHolds, PhysState
  <2>. QED BY <1>2, <2>1 DEF Whole
<1>4. CASE c = phys.cap
  <2>. DEFINE b == Head(pool[c])
  <2>1. b \in Range(pool[c]) /\ Range(Tail(pool[c])) = Range(pool[c]) \ {b}
    <3>. pool[c] \in Seq(Buffers) /\ pool[c] # <<>>
      BY <1>1, <1>4 DEF AcquireBuffer
    <3>. QED BY TailFacts
  <2>2. pool'[c] = Tail(pool[c]) /\ phys'.pc = "copy" /\ phys'.cap = c /\ phys'.buf = b
    BY <1>1, <1>4 DEF AcquireBuffer, PhysState
  <2>. HIDE DEF b
  <2>3. Free(c)' = Free(c) \ {b} /\ b \in Free(c) /\ PhysicsHolds(c)' = {b}
    BY <2>1, <2>2 DEF Free, PhysicsHolds
  <2>. QED BY <1>2, <2>3 DEF Whole
<1>. QED BY <1>3, <1>4

LEMMA WholeCopy ==
  ASSUME Typed, EmitCopy, NEW c \in Captures, Whole(c) PROVE Whole(c)'
<1>1. /\ phys.cap \in Captures /\ samples \in [Captures -> Seq(Buffers)]
      /\ phys \in PhysState /\ phys.buf \in Buffers /\ phys.pc = "copy" /\ cur = phys.cap
  BY StartedCaptures DEF EmitCopy, Typed, TypeOK, Handles
<1>2. /\ Free(c)' = Free(c) /\ Readers(c)' = Readers(c) /\ failed' = failed
      /\ PhysicsHolds(c)' = {}
  BY <1>1 DEF EmitCopy, Free, Readers, Reading, PhysicsHolds, PhysState
<1>3. CASE c # phys.cap
  <2>1. Queued(c)' = Queued(c) /\ PhysicsHolds(c) = {}
    BY <1>1, <1>3 DEF EmitCopy, Queued, PhysicsHolds
  <2>. QED BY <1>2, <2>1 DEF Whole
<1>4. CASE c = phys.cap
  <2>1. samples'[c] = Append(samples[c], phys.buf)
    BY <1>1, <1>4 DEF EmitCopy
  <2>2. Range(Append(samples[c], phys.buf)) = Range(samples[c]) \cup {phys.buf}
    BY <1>1, RangeAppend
  <2>3. Queued(c)' = Queued(c) \cup {phys.buf} /\ PhysicsHolds(c) = {phys.buf}
    BY <1>1, <1>4, <2>1, <2>2 DEF Queued, PhysicsHolds
  <2>. QED BY <1>2, <2>3 DEF Whole
<1>. QED BY <1>3, <1>4

LEMMA WholeGot ==
  ASSUME Typed, NEW t \in Threads, NextGot(t), NEW c \in Captures, Whole(c),
         IsInjective(samples[c])
  PROVE  Whole(c)'
<1>1. call[t].cap \in Captures /\ samples \in [Captures -> Seq(Buffers)]
      /\ call \in [Threads -> CallState] /\ call[t].pc = "get"
  BY CallHandle DEF NextGot, Typed, TypeOK
<1>2. /\ Free(c)' = Free(c) /\ PhysicsHolds(c)' = PhysicsHolds(c) /\ failed' = failed
  BY DEF NextGot, Free, PhysicsHolds
<1>3. /\ call'[t].pc = "read" /\ call'[t].cap = call[t].cap
      /\ call'[t].buf = Head(samples[call[t].cap])
      /\ \A u \in Threads : u # t => call'[u] = call[u]
  BY <1>1 DEF NextGot, CallState
<1>4. Readers(c) \subseteq Readers(c)'
  <2>1. \A u \in Reading(c) : u \in Reading(c)' /\ call'[u].buf = call[u].buf
    BY <1>1, <1>3 DEF Reading
  <2>. QED BY <2>1 DEF Readers
<1>5. CASE c # call[t].cap
  <2>1. Queued(c)' = Queued(c)
    BY <1>1, <1>5 DEF NextGot, Queued
  <2>2. \A u \in Reading(c)' : u \in Reading(c) /\ call'[u].buf = call[u].buf
    BY <1>3, <1>5 DEF Reading
  <2>3. Readers(c)' = Readers(c)
    BY <1>4, <2>2 DEF Readers
  <2>. QED BY <1>2, <2>1, <2>3 DEF Whole
<1>6. CASE c = call[t].cap
  <2>. DEFINE b == Head(samples[c])
  <2>1. b \in Range(samples[c]) /\ Range(Tail(samples[c])) = Range(samples[c]) \ {b}
    <3>. samples[c] \in Seq(Buffers) /\ samples[c] # <<>>
      BY <1>1, <1>6 DEF NextGot
    <3>. QED BY TailFacts
  <2>2. samples'[c] = Tail(samples[c])
    BY <1>1, <1>6 DEF NextGot
  <2>3. call'[t].buf = b /\ t \in Reading(c)'
    BY <1>3, <1>6 DEF Reading
  <2>. HIDE DEF b
  <2>4. Queued(c)' = Queued(c) \ {b} /\ b \in Queued(c)
    BY <2>1, <2>2 DEF Queued
  <2>5. \A u \in Reading(c)' : u = t \/ (u \in Reading(c) /\ call'[u].buf = call[u].buf)
    BY <1>3 DEF Reading
  <2>6. Readers(c)' = Readers(c) \cup {b}
    BY <1>4, <2>3, <2>5 DEF Readers
  <2>. QED BY <1>2, <2>4, <2>6 DEF Whole
<1>. QED BY <1>5, <1>6

LEMMA WholeReturn ==
  ASSUME Typed, NEW t \in Threads, NextReturn(t), NEW c \in Captures, Whole(c)
  PROVE  Whole(c)'
<1>1. /\ call[t].cap \in Captures /\ call[t].buf \in Buffers
      /\ pool \in [Captures -> Seq(Buffers)] /\ call \in [Threads -> CallState]
      /\ call[t].pc = "read"
  BY CallHandle DEF NextReturn, Typed, TypeOK
<1>2. Queued(c)' = Queued(c) /\ PhysicsHolds(c)' = PhysicsHolds(c) /\ failed' = failed
  BY DEF NextReturn, Queued, PhysicsHolds
<1>3. call'[t].pc = "idle" /\ \A u \in Threads : u # t => call'[u] = call[u]
  BY <1>1 DEF NextReturn, Idle
<1>4. Reading(c)' = Reading(c) \ {t} /\ \A u \in Reading(c)' : call'[u].buf = call[u].buf
  BY <1>3 DEF Reading
<1>5. CASE c # call[t].cap
  <2>1. Free(c)' = Free(c)
    BY <1>1, <1>5 DEF NextReturn, Free
  <2>2. t \notin Reading(c)
    BY <1>5 DEF Reading
  <2>3. Readers(c)' = Readers(c)
    BY <1>4, <2>2 DEF Readers
  <2>. QED BY <1>2, <2>1, <2>3 DEF Whole
<1>6. CASE c = call[t].cap
  <2>1. pool'[c] = Append(pool[c], call[t].buf)
    BY <1>1, <1>6 DEF NextReturn
  <2>2. Free(c)' = Free(c) \cup {call[t].buf}
    BY <1>1, <2>1, RangeAppend DEF Free
  <2>3. t \in Reading(c)
    BY <1>1, <1>6 DEF Reading
  <2>4. Readers(c) \cup {call[t].buf} = Readers(c)' \cup {call[t].buf}
        /\ call[t].buf \in Readers(c)
    BY <1>4, <2>3 DEF Readers
  <2>. QED BY <1>2, <2>2, <2>4 DEF Whole
<1>. QED BY <1>5, <1>6

\* The steps that move no buffer, but for the one that gives up on a capture.
LEMMA WholeQuiet ==
  ASSUME Typed, WholeActive,
         \/ PhysStep \/ EmitEnter \/ EmitCheck \/ AcquireTest \/ AcquireTimeout
         \/ EmitAbandon \/ ResetWorld \/ UNCHANGED vars
  PROVE  WholeActive'
<1>1. pool' = pool /\ samples' = samples /\ call' = call /\ failed' = failed
      /\ cur' = cur /\ created' = created
  BY DEF PhysStep, EmitEnter, EmitCheck, AcquireTest, AcquireTimeout, EmitAbandon,
         ResetWorld, vars, streamVars
<1>2. phys.pc = "copy" => phys' = phys \/ (cur # phys.cap /\ phys.cap \in 1..created)
  BY DEF PhysStep, EmitEnter, EmitCheck, AcquireTest, AcquireTimeout, EmitAbandon,
         ResetWorld, vars, Typed, Handles
<1>3. phys'.pc = "copy" => phys' = phys
  BY DEF PhysStep, EmitEnter, EmitCheck, AcquireTest, AcquireTimeout, EmitAbandon,
         ResetWorld, vars, Typed, TypeOK, PhysState
<1>4. SUFFICES ASSUME NEW c \in Captures, c = cur \/ c > created PROVE Whole(c)'
  BY <1>1 DEF WholeActive
<1>5. created \in Nat /\ c \in Nat
  BY DEF Typed, TypeOK, Captures
<1>6. PhysicsHolds(c)' = PhysicsHolds(c)
  BY <1>2, <1>3, <1>4, <1>5 DEF PhysicsHolds
<1>7. Free(c)' = Free(c) /\ Queued(c)' = Queued(c) /\ Readers(c)' = Readers(c)
  BY <1>1 DEF Free, Queued, Readers, Reading
<1>. QED BY <1>1, <1>4, <1>6, <1>7 DEF WholeActive, Whole

LEMMA WholeQuietCall ==
  ASSUME Typed, WholeActive, NEW t \in Threads,
         \/ StartCapture(t) \/ StopEnter(t) \/ StopClear(t)
         \/ NextEnter(t) \/ NextTest(t) \/ NextTimeout(t) \/ NextRaise(t)
  PROVE  WholeActive'
<1>1. pool' = pool /\ samples' = samples /\ phys' = phys
  BY DEF StartCapture, StopEnter, StopClear, NextEnter, NextTest, NextTimeout, NextRaise,
         streamVars
<1>2. call \in [Threads -> CallState] /\ created \in Nat
  BY DEF Typed, TypeOK
<1>3. \A c \in Captures : c = cur' \/ c > created' => c = cur \/ c > created
  BY <1>2, NoneAssumption DEF StartCapture, StopEnter, StopClear, NextEnter, NextTest,
     NextTimeout, NextRaise, streamVars, Captures
<1>4. /\ \A u \in Threads : u # t => call'[u] = call[u]
      /\ failed \subseteq failed'
      /\ call'[t].pc # "read" \/ call' = call
      /\ call[t].pc = "read" => call' = call \/ call[t].cap \in failed'
  BY <1>2 DEF StartCapture, StopEnter, StopClear, NextEnter, NextTest, NextTimeout,
     NextRaise, streamVars, Idle, CallState
<1>5. SUFFICES ASSUME NEW c \in Captures, Whole(c), c \notin failed' PROVE Whole(c)'
  BY <1>3 DEF WholeActive, Whole
<1>6. \A u \in Threads : /\ u \in Reading(c)' <=> u \in Reading(c)
                         /\ u \in Reading(c) => call'[u] = call[u]
  BY <1>4, <1>5 DEF Reading
<1>7. Reading(c)' = Reading(c) /\ \A u \in Reading(c) : call'[u] = call[u]
  BY <1>6 DEF Reading
<1>8. /\ Readers(c)' = Readers(c) /\ PhysicsHolds(c)' = PhysicsHolds(c)
      /\ Free(c)' = Free(c) /\ Queued(c)' = Queued(c)
  BY <1>1, <1>7 DEF Readers, PhysicsHolds, Free, Queued
<1>. QED BY <1>4, <1>5, <1>8 DEF Whole

LEMMA WholeStep == Typed /\ OneHolder /\ WholeActive /\ [Next]_vars => WholeActive'
<1>. SUFFICES ASSUME Typed, OneHolder, WholeActive, [Next]_vars PROVE WholeActive'
  OBVIOUS
<1>1. \A c \in Captures : IsInjective(pool[c]) /\ IsInjective(samples[c])
  BY DEF OneHolder, HeldOnce
<1>2. CASE AcquireBuffer \/ EmitCopy
  <2>1. cur' = cur /\ created' = created
    BY <1>2 DEF AcquireBuffer, EmitCopy
  <2>. QED BY <1>1, <1>2, <2>1, WholeAcquire, WholeCopy DEF WholeActive
<1>3. ASSUME NEW t \in Threads, NextGot(t) \/ NextReturn(t) PROVE WholeActive'
  <2>1. cur' = cur /\ created' = created
    BY <1>3 DEF NextGot, NextReturn
  <2>. QED BY <1>1, <1>3, <2>1, WholeGot, WholeReturn DEF WholeActive
<1>4. CASE Physics
  BY <1>2, <1>4, WholeQuiet DEF Physics
<1>5. CASE ResetWorld \/ UNCHANGED vars
  BY <1>5, WholeQuiet
<1>6. ASSUME NEW t \in Threads, StartCapture(t) \/ StopEnter(t) \/ StopClear(t)
      PROVE  WholeActive'
  BY <1>6, WholeQuietCall
<1>7. ASSUME NEW t \in Consumers, \/ NextEnter(t) \/ NextTest(t) \/ NextGot(t)
                                  \/ NextTimeout(t) \/ NextReturn(t) \/ NextRaise(t)
      PROVE  WholeActive'
  BY <1>3, <1>7, ThreadAssumption, WholeQuietCall
<1>. QED BY <1>4, <1>5, <1>6, <1>7 DEF Next

\* Whatever stops, replacements and races there have been, an active capture has
\* all its buffers unless a read of it raised.
THEOREM CaptureNoBufferLost == Spec => []NoBufferLost
<1>1. Init => Typed /\ OneHolder /\ WholeActive
  BY TypedInit, OneHolderInit, WholeInit
<1>2. (Typed /\ OneHolder /\ WholeActive) /\ [Next]_vars => (Typed /\ OneHolder /\ WholeActive)'
  BY TypedStep, OneHolderStep, WholeStep
<1>3. Typed /\ OneHolder /\ WholeActive => NoBufferLost
  BY DEF NoBufferLost, WholeActive, Whole, Typed, TypeOK
<1>. QED BY <1>1, <1>2, <1>3, PTL DEF Spec

\* The step that fills a buffer and the one that forgets a returned buffer touch
\* none that is queued or being read.
LEMMA StableStep ==
  ASSUME Typed, OneHolder, OneHolder', [Next]_vars, NEW c \in Captures,
         NEW b \in (Queued(c) \cup Readers(c)) \cap (Queued(c) \cup Readers(c))'
  PROVE  data'[c][b] = data[c][b]
<1>. data \in [Captures -> [Buffers -> Snapshot]]
  BY DEF Typed, TypeOK
<1>1. CASE EmitCopy
  <2>1. cur \in Captures /\ phys.pc = "copy" /\ cur = phys.cap
    BY <1>1, StartedCaptures DEF EmitCopy, Typed, Handles
  <2>2. cur = c => b # phys.buf
    BY <2>1 DEF OneHolder, HeldOnce, PhysicsHolds
  <2>. QED BY <1>1, <2>1, <2>2 DEF EmitCopy
<1>2. ASSUME NEW t \in Threads, NextReturn(t) PROVE data'[c][b] = data[c][b]
  <2>1. /\ call[t].cap \in Captures /\ call[t].buf \in Buffers
        /\ pool \in [Captures -> Seq(Buffers)]
    BY <1>2, CallHandle DEF NextReturn, Typed, TypeOK
  <2>2. c = call[t].cap => call[t].buf \in Free(c)'
    BY <1>2, <2>1, RangeAppend DEF NextReturn, Free
  <2>3. c = call[t].cap => b # call[t].buf
    BY <2>2 DEF OneHolder, HeldOnce
  <2>. QED BY <1>2, <2>1, <2>3 DEF NextReturn
<1>3. CASE UNCHANGED data
  BY <1>3
<1>. QED
  BY <1>1, <1>2, <1>3, ThreadAssumption
  DEF Next, Physics, PhysStep, EmitEnter, EmitCheck, AcquireTest, AcquireBuffer,
      AcquireTimeout, EmitAbandon, ResetWorld, StartCapture, StopEnter, StopClear,
      NextEnter, NextTest, NextGot, NextTimeout, NextRaise, vars, streamVars

\* A sample that waits in the queue or is being rendered from never changes.
THEOREM CaptureSnapshotStable == Spec => SnapshotStable
<1>1. Init => Typed /\ OneHolder
  BY TypedInit, OneHolderInit
<1>2. (Typed /\ OneHolder) /\ [Next]_vars => (Typed /\ OneHolder)'
  BY TypedStep, OneHolderStep
<1>3. Typed /\ OneHolder /\ OneHolder' /\ [Next]_vars
        => [\A c \in Captures :
              \A b \in (Queued(c) \cup Readers(c)) \cap (Queued(c) \cup Readers(c))' :
                data'[c][b] = data[c][b]]_vars
  BY StableStep
<1>. QED BY <1>1, <1>2, <1>3, PTL DEF Spec, SnapshotStable
-----------------------------------------------------------------------------
(* The grid of sampling instants.                                          *)

\* An interval further on the grid is on the grid.
LEMMA OneFurther ==
  ASSUME NEW n \in Int, NEW i \in Nat \ {0}, n % i = 0
  PROVE  (n + i) % i = 0 /\ (n + i) \div i = (n \div i) + 1
<1>1. n = i * (n \div i) /\ n \div i \in Int
  OBVIOUS
<1>. DEFINE q == n \div i
<1>. HIDE DEF q
<1>2. n + i = i * (q + 1) + 0
  BY <1>1 DEF q
<1>3. ASSUME NEW m \in Int, NEW k \in Int, NEW r \in 0..(i - 1), m = i * k + r
      PROVE  m % i = r /\ m \div i = k
  BY <1>3
<1>4. n + i \in Int /\ q + 1 \in Int /\ 0 \in 0..(i - 1)
  BY <1>1 DEF q
<1>. QED BY <1>2, <1>3, <1>4 DEF q

\* Only the copy gives anybody a sample that was not queued or read before.
LEMMA SamplesKept ==
  ASSUME Typed, OneHolder, [Next]_vars, ~EmitCopy, NEW c \in Captures
  PROVE  (Queued(c) \cup Readers(c))' \subseteq Queued(c) \cup Readers(c)
<1>0. call \in [Threads -> CallState]
  BY DEF Typed, TypeOK
<1>1. ASSUME UNCHANGED samples,
             \A u \in Threads : call'[u].pc = "read" => call'[u] = call[u]
      PROVE  (Queued(c) \cup Readers(c))' \subseteq Queued(c) \cup Readers(c)
  BY <1>1 DEF Queued, Readers, Reading
<1>2. ASSUME NEW t \in Threads, NextGot(t)
      PROVE  (Queued(c) \cup Readers(c))' \subseteq Queued(c) \cup Readers(c)
  <2>. DEFINE k == call[t].cap
              b == Head(samples[k])
  <2>1. k \in Captures /\ samples \in [Captures -> Seq(Buffers)]
    BY <1>2, CallHandle DEF NextGot, Typed, TypeOK
  <2>2. b \in Range(samples[k]) /\ Range(Tail(samples[k])) = Range(samples[k]) \ {b}
    <3>. samples[k] \in Seq(Buffers) /\ samples[k] # <<>> /\ IsInjective(samples[k])
      BY <1>2, <2>1 DEF NextGot, OneHolder, HeldOnce
    <3>. QED BY TailFacts
  <2>3. /\ samples'[k] = Tail(samples[k])
        /\ \A d \in Captures : d # k => samples'[d] = samples[d]
    BY <1>2, <2>1 DEF NextGot
  <2>4. /\ call'[t].cap = k /\ call'[t].buf = b
        /\ \A u \in Threads : u # t => call'[u] = call[u]
    BY <1>0, <1>2 DEF NextGot, CallState
  <2>. HIDE DEF k, b
  <2>5. Queued(c)' \subseteq Queued(c) /\ (c = k => b \in Queued(c))
    BY <2>2, <2>3 DEF Queued
  <2>6. ASSUME NEW u \in Reading(c)' PROVE call'[u].buf \in Queued(c) \cup Readers(c)
    <3>1. CASE u = t
      BY <2>4, <2>5, <2>6, <3>1 DEF Reading
    <3>2. CASE u # t
      BY <2>4, <2>6, <3>2 DEF Reading, Readers
    <3>. QED BY <3>1, <3>2
  <2>. QED BY <2>5, <2>6 DEF Readers
<1>3. ASSUME NEW t \in Threads,
             \/ StopEnter(t) \/ StopClear(t) \/ NextEnter(t) \/ NextTest(t)
             \/ NextTimeout(t) \/ NextReturn(t) \/ NextRaise(t)
      PROVE  (Queued(c) \cup Readers(c))' \subseteq Queued(c) \cup Readers(c)
  BY <1>0, <1>1, <1>3 DEF StopEnter, StopClear, NextEnter, NextTest, NextTimeout, NextReturn,
     NextRaise, Idle, CallState, streamVars
<1>4. CASE UNCHANGED <<samples, call>>
  BY <1>1, <1>4
<1>. QED
  BY <1>2, <1>3, <1>4, ThreadAssumption
  DEF Next, Physics, PhysStep, EmitEnter, EmitCheck, AcquireTest, AcquireBuffer,
      AcquireTimeout, EmitAbandon, ResetWorld, StartCapture, vars, streamVars

\* A sample that is on the grid and on time, if the world was not reset.
Timely(c, b) ==
  data[c][b].epoch = born[c].epoch
    => /\ (data[c][b].due - born[c].at) % Interval = 0
       /\ data[c][b].at \in data[c][b].due .. data[c][b].due + StepTicks

LEMMA ScheduleStep ==
  ASSUME Typed, OneHolder, OneHolder', Paced, OnSchedule, [Next]_vars
  PROVE  OnSchedule'
<1>. USE TickAssumption
<1>0. /\ next \in [Captures -> Nat] /\ born \in [Captures -> [at : Nat, epoch : Nat]]
      /\ time \in Nat /\ epoch \in Nat
      /\ data \in [Captures -> [Buffers -> Snapshot]]
      /\ samples \in [Captures -> Seq(Buffers)]
  BY DEF Typed, TypeOK
<1>1. SUFFICES ASSUME NEW c \in Captures
               PROVE  /\ ((next[c] - born[c].at) % Interval = 0)'
                      /\ \A b \in (Queued(c) \cup Readers(c))' : Timely(c, b)'
  BY DEF OnSchedule, Timely
<1>2. /\ (next[c] - born[c].at) % Interval = 0
      /\ \A b \in Queued(c) \cup Readers(c) : Timely(c, b)
  BY DEF OnSchedule, Timely
<1>3. ASSUME NEW b \in (Queued(c) \cup Readers(c)) \cap (Queued(c) \cup Readers(c))'
      PROVE  data'[c][b] = data[c][b]
  BY StableStep
<1>4. CASE EmitCopy
  <2>1. /\ cur \in Captures /\ cur = phys.cap /\ phys.pc = "copy" /\ phys.buf \in Buffers
        /\ UNCHANGED <<time, epoch, cur, born, call>>
    BY <1>4, StartedCaptures DEF EmitCopy, Typed, Handles
  <2>2. CASE c # cur
    <3>1. samples'[c] = samples[c] /\ next'[c] = next[c]
      BY <1>0, <1>4, <2>1, <2>2 DEF EmitCopy
    <3>2. (Queued(c) \cup Readers(c))' = Queued(c) \cup Readers(c)
      BY <2>1, <3>1 DEF Queued, Readers, Reading
    <3>. QED BY <1>2, <1>3, <2>1, <3>1, <3>2 DEF Timely
  <2>3. CASE c = cur
    <3>1. next'[c] = next[c] + Interval
      BY <1>0, <1>4, <2>1, <2>3 DEF EmitCopy
    <3>2. (next'[c] - born[c].at) % Interval = 0
      <4>1. next[c] - born[c].at \in Int /\ next'[c] - born[c].at = (next[c] - born[c].at) + Interval
        BY <1>0, <3>1
      <4>. QED BY <1>2, <4>1, OneFurther
    <3>8. PICK filled \in Buffers : filled = phys.buf
      BY <2>1
    <3>3. data'[c][filled] = [at |-> time, epoch |-> epoch, due |-> next[c]]
      BY <1>0, <1>4, <2>1, <2>3, <3>8 DEF EmitCopy
    <3>4. epoch = born[c].epoch => next[c] <= time /\ time <= next[c] + StepTicks
      BY <2>1, <2>3, NoneAssumption DEF Paced, PhysicsOnTime, SameEpoch
    <3>5. Timely(c, filled)'
      <4>1. born'[c] = born[c] /\ next[c] \in Nat /\ time \in Nat /\ StepTicks \in Nat
        BY <1>0, <2>1
      <4>2. /\ data'[c][filled].epoch = epoch /\ data'[c][filled].due = next[c]
            /\ data'[c][filled].at = time
        BY <3>3
      <4>3. epoch = born[c].epoch => time \in next[c] .. next[c] + StepTicks
        BY <3>4, <4>1
      <4>. QED BY <1>2, <4>1, <4>2, <4>3 DEF Timely
    <3>6. (Queued(c) \cup Readers(c))' \subseteq Queued(c) \cup Readers(c) \cup {filled}
      <4>1. samples'[c] = Append(samples[c], phys.buf)
        BY <1>0, <1>4, <2>1, <2>3 DEF EmitCopy
      <4>2. Queued(c)' = Queued(c) \cup {phys.buf}
        BY <1>0, <2>1, <4>1, RangeAppend DEF Queued
      <4>. QED BY <2>1, <3>8, <4>2 DEF Readers, Reading
    <3>7. ASSUME NEW b \in (Queued(c) \cup Readers(c))', b # filled PROVE Timely(c, b)'
      <4>1. b \in Queued(c) \cup Readers(c)
        BY <3>6, <3>7
      <4>. QED BY <1>2, <1>3, <2>1, <4>1 DEF Timely
    <3>. QED BY <2>1, <3>2, <3>5, <3>7
  <2>. QED BY <2>2, <2>3
<1>5. ASSUME NEW t \in Threads, StartCapture(t), c = created + 1
      PROVE  /\ ((next[c] - born[c].at) % Interval = 0)'
             /\ \A b \in (Queued(c) \cup Readers(c))' : Timely(c, b)'
  <2>1. next'[c] = time /\ born'[c].at = time /\ samples' = samples /\ call' = call
    BY <1>0, <1>5 DEF StartCapture
  <2>2. (next'[c] - born'[c].at) % Interval = 0
    BY <1>0, <2>1
  <2>3. Queued(c) = {} /\ Readers(c) = {}
    <3>1. created \in Nat /\ c > created
      BY <1>5, BoundAssumption DEF Typed, TypeOK
    <3>2. samples[c] = <<>> /\ DOMAIN <<>> = {}
      BY <3>1 DEF Typed, Handles
    <3>3. \A u \in Threads : call[u].pc # "idle" => call[u].cap # c
      BY <3>1 DEF Typed, Handles
    <3>. QED BY <3>2, <3>3 DEF Queued, Range, Readers, Reading
  <2>4. (Queued(c) \cup Readers(c))' = {}
    BY <2>1, <2>3 DEF Queued, Readers, Reading
  <2>. QED BY <2>2, <2>4
<1>6. CASE ~EmitCopy /\ next'[c] = next[c] /\ born'[c] = born[c]
  BY <1>2, <1>3, <1>6, SamplesKept DEF Timely
<1>7. ASSUME NEW t \in Threads, StartCapture(t), c # created + 1
      PROVE  next'[c] = next[c] /\ born'[c] = born[c] /\ ~EmitCopy
  BY <1>0, <1>7 DEF StartCapture, EmitCopy, Typed, TypeOK
<1>8. \/ EmitCopy \/ \E t \in Threads : StartCapture(t)
      \/ next' = next /\ born' = born
  BY ThreadAssumption
  DEF Next, Physics, PhysStep, EmitEnter, EmitCheck, AcquireTest, AcquireBuffer,
      AcquireTimeout, EmitAbandon, ResetWorld, StopEnter, StopClear, NextEnter, NextTest,
      NextGot, NextReturn, NextTimeout, NextRaise, vars, streamVars
<1>. QED BY <1>4, <1>5, <1>6, <1>7, <1>8

LEMMA ScheduleInit == Init => OnSchedule
<1>. SUFFICES ASSUME Init, NEW c \in Captures
     PROVE (next[c] - born[c].at) % Interval = 0 /\ Queued(c) = {} /\ Readers(c) = {}
  BY DEF OnSchedule
<1>1. next[c] = 0 /\ born[c].at = 0 /\ samples[c] = <<>> /\ DOMAIN <<>> = {}
  BY DEF Init
<1>2. (0 - 0) % Interval = 0
  BY TickAssumption
<1>. QED BY <1>1, <1>2 DEF Init, Queued, Range, Readers, Reading, Idle

\* Sampling instants lie on the grid, and every sample of a world that was not reset is
\* taken at its instant or at most one step later.
THEOREM CaptureOnSchedule == Spec => []OnSchedule
<1>2. Init => Typed /\ OneHolder /\ Paced /\ OnSchedule
  BY ScheduleInit, TypedInit, OneHolderInit, PacedInit
<1>3. (Typed /\ OneHolder /\ Paced /\ OnSchedule) /\ [Next]_vars
        => (Typed /\ OneHolder /\ Paced /\ OnSchedule)'
  BY TypedStep, OneHolderStep, PacedStep, ScheduleStep
<1>. QED BY <1>2, <1>3, PTL DEF Spec
-----------------------------------------------------------------------------
(* Sim capture implements CaptureStream.                                   *)

\* An unborn capture has published nothing.
Fresh == \A c \in Captures : c > created => next[c] = born[c].at

LEMMA FreshStep == Typed /\ Fresh /\ [Next]_vars => Fresh'
<1>. SUFFICES ASSUME Typed, Fresh, [Next]_vars PROVE Fresh'
  OBVIOUS
<1>0. /\ next \in [Captures -> Nat] /\ born \in [Captures -> [at : Nat, epoch : Nat]]
      /\ created \in Nat
  BY BoundAssumption DEF Typed, TypeOK
<1>1. CASE EmitCopy
  <2>1. cur \in 1..created /\ UNCHANGED <<born, created>>
    BY <1>1 DEF EmitCopy, Typed, Handles
  <2>. QED BY <1>0, <1>1, <2>1 DEF EmitCopy, Fresh
<1>2. ASSUME NEW t \in Threads, StartCapture(t) PROVE Fresh'
  <2>1. /\ created' = created + 1
        /\ \A c \in Captures : c # created + 1 => next'[c] = next[c] /\ born'[c] = born[c]
    BY <1>0, <1>2 DEF StartCapture
  <2>. QED BY <1>0, <2>1 DEF Fresh, Captures
<1>3. CASE UNCHANGED <<next, born, created>>
  BY <1>3 DEF Fresh
<1>. QED
  BY <1>1, <1>2, <1>3, ThreadAssumption
  DEF Next, Physics, PhysStep, EmitEnter, EmitCheck, AcquireTest, AcquireBuffer,
      AcquireTimeout, EmitAbandon, ResetWorld, StopEnter, StopClear, NextEnter, NextTest,
      NextGot, NextReturn, NextTimeout, NextRaise, vars, streamVars

\* The samples of a capture that are being read, by thread and by buffer.
LEMMA ReadersCounted ==
  ASSUME Typed, OneHolder, NEW c \in Captures
  PROVE  /\ IsFiniteSet(Reading(c)) /\ IsFiniteSet(Readers(c))
         /\ Readers(c) \subseteq Buffers
         /\ Cardinality(Readers(c)) = Cardinality(Reading(c))
<1>. DEFINE f == [t \in Reading(c) |-> call[t].buf]
<1>1. Readers(c) \subseteq Buffers
  BY CallHandle DEF Readers, Reading
<1>2. IsFiniteSet(Buffers)
  BY FS_Interval, BufferAssumption DEF Buffers
<1>3. \A t, u \in Reading(c) : f[t] = f[u] => t = u
  BY DEF OneHolder, HeldOnce
<1>4. IsFiniteSet(Readers(c))
  BY <1>1, <1>2, FS_Subset
<1>5. f \in Bijection(Reading(c), Readers(c))
  BY <1>3 DEF Readers, Bijection, Injection, Surjection, IsInjective
<1>6. IsFiniteSet(Reading(c)) /\ Cardinality(Reading(c)) <= Cardinality(Readers(c))
      /\ (Cardinality(Reading(c)) = Cardinality(Readers(c)) <=> f \in Surjection(Reading(c), Readers(c)))
  <2>. f \in Injection(Reading(c), Readers(c))
    BY <1>5 DEF Bijection
  <2>. HIDE DEF f
  <2>. QED BY <1>4, FS_Injection
<1>. QED BY <1>1, <1>4, <1>5, <1>6 DEF Bijection

\* The samples that are queued.
LEMMA QueueCounted ==
  ASSUME Typed, OneHolder, NEW c \in Captures
  PROVE  /\ IsFiniteSet(Queued(c)) /\ Queued(c) \subseteq Buffers
         /\ Cardinality(Queued(c)) = Len(samples[c])
<1>1. samples[c] \in Seq(Buffers) /\ IsInjective(samples[c])
  BY DEF Typed, TypeOK, OneHolder, HeldOnce
<1>2. /\ Len(samples[c]) \in Nat /\ DOMAIN samples[c] = 1..Len(samples[c])
      /\ samples[c] \in [1..Len(samples[c]) -> Buffers]
  BY <1>1
<1>3. samples[c] \in Surjection(1..Len(samples[c]), Queued(c))
  BY <1>2 DEF Queued, Range, Surjection
<1>4. samples[c] \in Injection(1..Len(samples[c]), Queued(c))
  BY <1>1, <1>2, <1>3 DEF Injection, Surjection
<1>5. IsFiniteSet(1..Len(samples[c])) /\ Cardinality(1..Len(samples[c])) = Len(samples[c])
  BY <1>2, FS_Interval
<1>6. IsFiniteSet(Queued(c)) /\ Cardinality(Queued(c)) = Cardinality(1..Len(samples[c]))
  BY <1>3, <1>4, <1>5, FS_Surjection
<1>7. Queued(c) \subseteq Buffers
  BY <1>2 DEF Queued, Range
<1>. QED BY <1>5, <1>6, <1>7

\* A buffer in the hand of physics is not among those queued and read.
LEMMA Room ==
  ASSUME Typed, OneHolder, phys.pc = "copy"
  PROVE  Len(samples[phys.cap]) + Cardinality(Reading(phys.cap)) < BufferCount
<1>. DEFINE c == phys.cap
            Q == Queued(c)
            R == Readers(c)
<1>1. c \in Captures /\ phys.buf \in Buffers /\ PhysicsHolds(c) = {phys.buf}
  BY StartedCaptures DEF Typed, Handles, PhysicsHolds
<1>2. Q \cap R = {} /\ phys.buf \notin Q \cup R
  BY <1>1 DEF OneHolder, HeldOnce
<1>3. /\ IsFiniteSet(Q) /\ Q \subseteq Buffers /\ Cardinality(Q) = Len(samples[c])
      /\ IsFiniteSet(R) /\ R \subseteq Buffers /\ Cardinality(R) = Cardinality(Reading(c))
  BY <1>1, QueueCounted, ReadersCounted
<1>4. IsFiniteSet(Buffers) /\ Cardinality(Buffers) = BufferCount
  BY FS_Interval, BufferAssumption DEF Buffers
<1>. HIDE DEF c, Q, R
<1>5. IsFiniteSet(Q \cup R) /\ Cardinality(Q \cup R) = Cardinality(Q) + Cardinality(R)
  <2>1. /\ IsFiniteSet(Q \cup R)
        /\ Cardinality(Q \cup R) = Cardinality(Q) + Cardinality(R) - Cardinality(Q \cap R)
    BY <1>3, FS_Union
  <2>2. Cardinality(Q \cap R) = 0
    BY <1>2, FS_EmptySet
  <2>3. Cardinality(Q) \in Nat /\ Cardinality(R) \in Nat
    BY <1>3, FS_CardinalityType
  <2>. QED BY <2>1, <2>2, <2>3
<1>6. /\ IsFiniteSet((Q \cup R) \cup {phys.buf})
      /\ Cardinality((Q \cup R) \cup {phys.buf}) = Cardinality(Q \cup R) + 1
  BY <1>2, <1>5, FS_AddElement
<1>7. Cardinality((Q \cup R) \cup {phys.buf}) <= Cardinality(Buffers)
  <2>. (Q \cup R) \cup {phys.buf} \in SUBSET Buffers
    BY <1>1, <1>3
  <2>. QED BY <1>4, FS_Subset
<1>8. Cardinality(Q) \in Nat /\ Cardinality(R) \in Nat /\ BufferCount \in Nat
  BY <1>3, FS_CardinalityType, BufferAssumption
<1>. QED BY <1>3, <1>4, <1>5, <1>6, <1>7, <1>8 DEF c

\* Queues as functions.
LEMMA AsFunction ==
  ASSUME NEW S, NEW s \in Seq(S)
  PROVE  s = [i \in 1..Len(s) |-> s[i]]
OBVIOUS

LEMMA AppendAsFunction ==
  ASSUME NEW S, NEW s \in Seq(S), NEW x \in S
  PROVE  Append(s, x) = [i \in 1..(Len(s) + 1) |-> IF i = Len(s) + 1 THEN x ELSE s[i]]
<1>1. Append(s, x) \in Seq(S) /\ Len(Append(s, x)) = Len(s) + 1
  OBVIOUS
<1>2. Append(s, x) = [i \in 1..(Len(s) + 1) |-> Append(s, x)[i]]
  BY <1>1, AsFunction
<1>3. \A i \in 1..(Len(s) + 1) : Append(s, x)[i] = IF i = Len(s) + 1 THEN x ELSE s[i]
  OBVIOUS
<1>. QED BY <1>2, <1>3

LEMMA TailAsFunction ==
  ASSUME NEW S, NEW s \in Seq(S), s # <<>>
  PROVE  Tail(s) = [i \in 1..(Len(s) - 1) |-> s[i + 1]]
<1>1. Tail(s) \in Seq(S) /\ Len(Tail(s)) = Len(s) - 1
  OBVIOUS
<1>2. Tail(s) = [i \in 1..(Len(s) - 1) |-> Tail(s)[i]]
  BY <1>1, AsFunction
<1>3. \A i \in 1..(Len(s) - 1) : Tail(s)[i] = s[i + 1]
  OBVIOUS
<1>. QED BY <1>2, <1>3

\* The numbers of the queued samples, in order.
LEMMA ChanSeq ==
  ASSUME Typed, NEW c \in Captures
  PROVE  /\ Chan(c) \in Seq(Int) /\ Len(Chan(c)) = Len(samples[c])
         /\ \A i \in 1..Len(samples[c]) : Chan(c)[i] = SampleNumber(c, samples[c][i])
<1>1. /\ samples[c] \in Seq(Buffers) /\ born[c].at \in Nat
      /\ \A b \in Buffers : data[c][b].due \in Nat
  BY DEF Typed, TypeOK, Snapshot
<1>2. Len(samples[c]) \in Nat /\ DOMAIN samples[c] = 1..Len(samples[c])
      /\ \A i \in 1..Len(samples[c]) : samples[c][i] \in Buffers
  BY <1>1
<1>3. \A b \in Buffers : SampleNumber(c, b) \in Int
  BY <1>1, TickAssumption DEF SampleNumber
<1>4. Chan(c) \in [1..Len(samples[c]) -> Int]
  BY <1>2, <1>3 DEF Chan
<1>. QED BY <1>2, <1>4 DEF Chan

LEMMA ChanKept ==
  ASSUME NEW c \in Captures, samples'[c] = samples[c], born'[c] = born[c],
         \A b \in Queued(c) : data'[c][b] = data[c][b]
  PROVE  Chan(c)' = Chan(c)
<1>1. \A i \in DOMAIN samples[c] : samples[c][i] \in Queued(c)
  BY DEF Queued, Range
<1>. QED BY <1>1 DEF Chan, SampleNumber

\* Steps the stream does not see.
LEMMA QuietImplements ==
  ASSUME UNCHANGED <<created, cur, next, born, samples, data>>,
         \A c \in Captures : Reading(c)' = Reading(c)
  PROVE  UNCHANGED Stream!vars
<1>1. \A c \in Captures : /\ Phase(c)' = Phase(c) /\ SamplesSent(c)' = SamplesSent(c)
                          /\ Chan(c)' = Chan(c)
                          /\ Cardinality(Reading(c))' = Cardinality(Reading(c))
  BY DEF Phase, SamplesSent, Chan, SampleNumber
<1>. QED BY <1>1 DEF Stream!vars

LEMMA OpenImplements ==
  ASSUME Typed, Fresh, NEW t \in Threads, StartCapture(t)
  PROVE  Stream!Next
<1>1. /\ created \in 0..MaxCaptures /\ created < MaxCaptures
      /\ cur = None /\ None \notin Captures
      /\ next \in [Captures -> Nat] /\ born \in [Captures -> [at : Nat, epoch : Nat]]
      /\ time \in Nat
  BY NoneAssumption DEF StartCapture, Typed, TypeOK
<1>2. PICK k \in Captures : k = created + 1
  BY <1>1, BoundAssumption DEF Captures
<1>3. /\ created' = k /\ cur' = k /\ UNCHANGED <<samples, data, call>>
      /\ next'[k] = time /\ born'[k].at = time
      /\ \A c \in Captures : c # k => next'[c] = next[c] /\ born'[c] = born[c]
  BY <1>1, <1>2 DEF StartCapture
<1>4. samples[k] = <<>> /\ next[k] = born[k].at
  BY <1>1, <1>2, BoundAssumption DEF Typed, Handles, Fresh
<1>5. /\ \A c \in Captures : Phase(c) # "open"
      /\ Phase(k) = "new" /\ Phase(k)' = "open"
      /\ \A c \in Captures : c # k => Phase(c)' = Phase(c)
  <2>1. /\ k > created /\ ~(k > created')
        /\ \A c \in Captures : c # k => (c > created' <=> c > created)
    BY <1>1, <1>2, <1>3, BoundAssumption DEF Captures
  <2>. QED BY <1>1, <1>3, <2>1 DEF Phase
<1>6. \A c \in Captures : SamplesSent(c)' = SamplesSent(c)
  <2>1. time - time = born[k].at - born[k].at
    BY <1>1
  <2>. QED BY <1>1, <1>3, <1>4, <2>1 DEF SamplesSent
<1>7. \A c \in Captures : Chan(c)' = Chan(c)
  <2>1. DOMAIN samples[k] = {} /\ samples'[k] = samples[k]
    BY <1>3, <1>4
  <2>3. Chan(k)' = [i \in {} |-> 0] /\ Chan(k) = [i \in {} |-> 0]
    BY <2>1 DEF Chan
  <2>4. ASSUME NEW c \in Captures, c # k PROVE Chan(c)' = Chan(c)
    BY <1>3, <2>4, ChanKept
  <2>. QED BY <2>3, <2>4
<1>8. \A c \in Captures : Cardinality(Reading(c))' = Cardinality(Reading(c))
  BY <1>3 DEF Reading
<1>9. Stream!Open(k)
  BY <1>5, <1>6, <1>7, <1>8 DEF Stream!Open
<1>. QED BY <1>9 DEF Stream!Next

LEMMA CloseImplements ==
  ASSUME Typed, NEW t \in Threads, StopClear(t)
  PROVE  Stream!Next \/ UNCHANGED Stream!vars
<1>0. call \in [Threads -> CallState] /\ cur \in Captures \cup {None} /\ None \notin Captures
  BY NoneAssumption DEF Typed, TypeOK
<1>1. /\ cur' = None
      /\ UNCHANGED <<created, next, born, samples, data>>
      /\ \A c \in Captures : Reading(c)' = Reading(c)
  BY <1>0 DEF StopClear, Reading, Idle
<1>2. CASE cur = None
  BY <1>1, <1>2, QuietImplements
<1>3. CASE cur \in Captures
  <2>1. cur \in 1..created /\ created \in Nat
    BY <1>0, <1>3, BoundAssumption DEF Typed, TypeOK, Handles
  <2>2. PICK k \in Captures : k = cur
    BY <1>3
  <2>3. /\ Phase(k) = "open" /\ Phase(k)' = "closed"
        /\ \A c \in Captures : c # k => Phase(c)' = Phase(c)
    BY <1>0, <1>1, <2>1, <2>2 DEF Phase
  <2>4. \A c \in Captures : /\ SamplesSent(c)' = SamplesSent(c) /\ Chan(c)' = Chan(c)
                            /\ Cardinality(Reading(c))' = Cardinality(Reading(c))
    BY <1>1 DEF SamplesSent, Chan, SampleNumber
  <2>5. Stream!Close(k)
    BY <2>3, <2>4 DEF Stream!Close
  <2>. QED BY <2>5 DEF Stream!Next
<1>. QED BY <1>0, <1>2, <1>3

LEMMA PublishImplements ==
  ASSUME Typed, OneHolder, OnSchedule, EmitCopy
  PROVE  Stream!Next
<1>1. /\ cur \in Captures /\ cur \in 1..created /\ created \in Nat
      /\ cur = phys.cap /\ phys.pc = "copy" /\ phys.buf \in Buffers
      /\ UNCHANGED <<time, epoch, created, cur, born, call>>
  BY StartedCaptures, BoundAssumption DEF EmitCopy, Typed, TypeOK, Handles
<1>2. PICK k \in Captures, b \in Buffers : k = cur /\ b = phys.buf
  BY <1>1
<1>3. /\ next \in [Captures -> Nat] /\ data \in [Captures -> [Buffers -> Snapshot]]
      /\ samples \in [Captures -> Seq(Buffers)] /\ born \in [Captures -> [at : Nat, epoch : Nat]]
  BY DEF Typed, TypeOK
<1>4. /\ samples'[k] = Append(samples[k], b) /\ next'[k] = next[k] + Interval
      /\ data'[k][b].due = next[k]
      /\ \A d \in Buffers : d # b => data'[k][d] = data[k][d]
      /\ \A c \in Captures : c # k => /\ samples'[c] = samples[c] /\ next'[c] = next[c]
                                      /\ data'[c] = data[c]
  BY <1>1, <1>2, <1>3 DEF EmitCopy
<1>5. Phase(k) = "open" /\ \A c \in Captures : Phase(c)' = Phase(c)
  BY <1>1, <1>2 DEF Phase
<1>6. \A c \in Captures : Cardinality(Reading(c))' = Cardinality(Reading(c))
  BY <1>1 DEF Reading
<1>7. Len(Chan(k)) + Cardinality(Reading(k)) < BufferCount
  BY <1>1, <1>2, Room, ChanSeq
<1>8. SamplesSent(k)' = SamplesSent(k) + 1
  <2>1. (next[k] - born[k].at) % Interval = 0
    BY DEF OnSchedule
  <2>2. next[k] \in Nat /\ born[k].at \in Nat /\ born'[k].at = born[k].at
    BY <1>1, <1>3
  <2>3. /\ next[k] - born[k].at \in Int
        /\ next'[k] - born'[k].at = (next[k] - born[k].at) + Interval
    BY <1>4, <2>2, TickAssumption
  <2>. QED BY <2>1, <2>3, OneFurther, TickAssumption DEF SamplesSent
<1>9. Chan(k)' = Append(Chan(k), SamplesSent(k))
  <2>. DEFINE n == Len(samples[k])
              number(d) == (data'[k][d].due - born'[k].at) \div Interval
  <2>1. /\ n \in Nat /\ DOMAIN samples[k] = 1..n /\ DOMAIN samples'[k] = 1..(n + 1)
        /\ \A i \in 1..n : samples'[k][i] = samples[k][i] /\ samples[k][i] \in Queued(k)
        /\ samples'[k][n + 1] = b
    BY <1>3, <1>4 DEF Queued, Range
  <2>2. b \notin Queued(k)
    BY <1>1, <1>2 DEF OneHolder, HeldOnce, PhysicsHolds
  <2>3. \A d \in Queued(k) : number(d) = SampleNumber(k, d)
    <3>1. Queued(k) \subseteq Buffers
      BY QueueCounted
    <3>. QED BY <1>1, <1>4, <2>2, <3>1 DEF SampleNumber
  <2>4. number(b) = SamplesSent(k)
    BY <1>1, <1>4 DEF SamplesSent
  <2>5. Chan(k)' = [i \in 1..(n + 1) |-> number(samples'[k][i])]
    BY <2>1 DEF Chan, SampleNumber
  <2>6. /\ Chan(k) \in Seq(Int) /\ Len(Chan(k)) = n
        /\ \A i \in 1..n : Chan(k)[i] = SampleNumber(k, samples[k][i])
    BY ChanSeq
  <2>. HIDE DEF n, number
  <2>7. Append(Chan(k), SamplesSent(k)) =
          [i \in 1..(n + 1) |-> IF i = n + 1 THEN SamplesSent(k) ELSE Chan(k)[i]]
    <3>1. SamplesSent(k) \in Int
      BY <1>3, TickAssumption DEF SamplesSent
    <3>. QED BY <2>6, <3>1, AppendAsFunction
  <2>8. ASSUME NEW i \in 1..(n + 1)
        PROVE  number(samples'[k][i]) = IF i = n + 1 THEN SamplesSent(k) ELSE Chan(k)[i]
    <3>1. CASE i = n + 1
      BY <2>1, <2>4, <3>1
    <3>2. CASE i # n + 1
      <4>1. i \in 1..n
        BY <2>1, <3>2
      <4>2. samples'[k][i] = samples[k][i] /\ samples[k][i] \in Queued(k)
        BY <2>1, <4>1
      <4>. QED BY <2>3, <2>6, <3>2, <4>1, <4>2
    <3>. QED BY <3>1, <3>2
  <2>. QED BY <2>5, <2>7, <2>8
<1>10. \A c \in Captures : c # k => Chan(c)' = Chan(c) /\ SamplesSent(c)' = SamplesSent(c)
  BY <1>1, <1>4, ChanKept DEF SamplesSent
<1>11. Stream!Publish(k)
  BY <1>5, <1>6, <1>7, <1>8, <1>9, <1>10 DEF Stream!Publish
<1>. QED BY <1>11 DEF Stream!Next

LEMMA HandOverImplements ==
  ASSUME Typed, OneHolder, NEW t \in Threads, NextGot(t)
  PROVE  Stream!Next
<1>1. PICK k \in Captures : k = call[t].cap
  BY CallHandle DEF NextGot
<1>2. /\ samples \in [Captures -> Seq(Buffers)] /\ call \in [Threads -> CallState]
      /\ samples[k] # <<>> /\ samples[k] \in Seq(Buffers)
  BY <1>1 DEF NextGot, Typed, TypeOK
<1>3. /\ samples'[k] = Tail(samples[k])
      /\ \A c \in Captures : c # k => samples'[c] = samples[c]
      /\ UNCHANGED <<cur, created, next, born, data>>
      /\ call[t].pc = "get" /\ call'[t].pc = "read" /\ call'[t].cap = k
      /\ \A u \in Threads : u # t => call'[u] = call[u]
  BY <1>1, <1>2 DEF NextGot, CallState
<1>4. \A c \in Captures : Phase(c)' = Phase(c) /\ SamplesSent(c)' = SamplesSent(c)
  BY <1>3 DEF Phase, SamplesSent
<1>5. Chan(k) # <<>> /\ Chan(k)' = Tail(Chan(k))
  <2>. DEFINE n == Len(samples[k])
  <2>1. n \in Nat \ {0} /\ DOMAIN samples[k] = 1..n /\ DOMAIN samples'[k] = 1..(n - 1)
        /\ \A i \in 1..(n - 1) : samples'[k][i] = samples[k][i + 1]
    BY <1>2, <1>3
  <2>2. /\ Chan(k) \in Seq(Int) /\ Len(Chan(k)) = n
        /\ \A i \in 1..n : Chan(k)[i] = SampleNumber(k, samples[k][i])
    BY ChanSeq
  <2>. HIDE DEF n
  <2>3. Chan(k) # <<>>
    BY <2>1, <2>2
  <2>4. Tail(Chan(k)) = [i \in 1..(n - 1) |-> Chan(k)[i + 1]]
    BY <2>2, <2>3, TailAsFunction
  <2>5. Chan(k)' = [i \in 1..(n - 1) |-> SampleNumber(k, samples[k][i + 1])]
    BY <1>3, <2>1 DEF Chan, SampleNumber
  <2>6. \A i \in 1..(n - 1) : Chan(k)[i + 1] = SampleNumber(k, samples[k][i + 1])
    BY <2>1, <2>2
  <2>. QED BY <2>3, <2>4, <2>5, <2>6
<1>6. \A c \in Captures : c # k => Chan(c)' = Chan(c)
  BY <1>3, ChanKept
<1>7. Reading(k)' = Reading(k) \cup {t} /\ t \notin Reading(k)
      /\ \A c \in Captures : c # k => Reading(c)' = Reading(c)
  BY <1>3 DEF Reading
<1>8. Cardinality(Reading(k))' = Cardinality(Reading(k)) + 1
  <2>1. IsFiniteSet(Reading(k))
    BY ReadersCounted
  <2>2. Cardinality(Reading(k) \cup {t}) = Cardinality(Reading(k)) + 1
    BY <1>7, <2>1, FS_AddElement
  <2>. QED BY <1>7, <2>2
<1>9. \A c \in Captures : c # k => Cardinality(Reading(c))' = Cardinality(Reading(c))
  BY <1>7
<1>10. Stream!HandOver(k)
  BY <1>4, <1>5, <1>6, <1>8, <1>9 DEF Stream!HandOver
<1>. QED BY <1>10 DEF Stream!Next

LEMMA GiveBackImplements ==
  ASSUME Typed, OneHolder, NEW t \in Threads, NextReturn(t) \/ NextRaise(t)
  PROVE  Stream!Next
<1>1. PICK k \in Captures : k = call[t].cap
  BY CallHandle DEF NextReturn, NextRaise
<1>2. /\ call \in [Threads -> CallState] /\ data \in [Captures -> [Buffers -> Snapshot]]
      /\ call[t].buf \in Buffers
  BY CallHandle DEF NextReturn, NextRaise, Typed, TypeOK
<1>3. /\ UNCHANGED <<cur, created, next, born, samples>>
      /\ call[t].pc = "read" /\ call'[t].pc = "idle"
      /\ \A u \in Threads : u # t => call'[u] = call[u]
      /\ \A c \in Captures, b \in Buffers :
           ~(c = k /\ b = call[t].buf) => data'[c][b] = data[c][b]
  BY <1>1, <1>2 DEF NextReturn, NextRaise, Idle
<1>4. \A c \in Captures : Phase(c)' = Phase(c) /\ SamplesSent(c)' = SamplesSent(c)
  BY <1>3 DEF Phase, SamplesSent
<1>5. t \in Reading(k) /\ call[t].buf \notin Queued(k)
  BY <1>1, <1>3 DEF Reading, Readers, OneHolder, HeldOnce
<1>6. ASSUME NEW c \in Captures PROVE Chan(c)' = Chan(c)
  <2>1. \A b \in Queued(c) : data'[c][b] = data[c][b]
    BY <1>3, <1>5, QueueCounted
  <2>. QED BY <1>3, <2>1, ChanKept
<1>7. Reading(k)' = Reading(k) \ {t}
      /\ \A c \in Captures : c # k => Reading(c)' = Reading(c)
  BY <1>1, <1>3 DEF Reading
<1>8. /\ Cardinality(Reading(k)) > 0
      /\ Cardinality(Reading(k))' = Cardinality(Reading(k)) - 1
  <2>1. IsFiniteSet(Reading(k))
    BY ReadersCounted
  <2>2. Cardinality(Reading(k) \ {t}) = Cardinality(Reading(k)) - 1
    BY <1>5, <2>1, FS_RemoveElement
  <2>3. Cardinality(Reading(k)) \in Nat /\ Cardinality(Reading(k)) # 0
    BY <1>5, <2>1, FS_EmptySet, FS_CardinalityType
  <2>. QED BY <1>7, <2>2, <2>3
<1>9. \A c \in Captures : c # k => Cardinality(Reading(c))' = Cardinality(Reading(c))
  BY <1>7
<1>10. Stream!GiveBack(k)
  BY <1>4, <1>6, <1>8, <1>9 DEF Stream!GiveBack
<1>. QED BY <1>10 DEF Stream!Next

LEMMA StreamInit == Init => Stream!Init
<1>. SUFFICES ASSUME Init, NEW c \in Captures
     PROVE /\ Phase(c) = "new" /\ SamplesSent(c) = 0 /\ Chan(c) = <<>>
           /\ Cardinality(Reading(c)) = 0
  BY DEF Stream!Init
<1>1. Phase(c) = "new"
  BY BoundAssumption DEF Init, Phase, Captures
<1>2. SamplesSent(c) = 0
  <2>1. (0 - 0) \div Interval = 0
    BY TickAssumption
  <2>. QED BY <2>1 DEF Init, SamplesSent
<1>3. Chan(c) = <<>>
  BY DEF Init, Chan
<1>4. Cardinality(Reading(c)) = 0
  <2>1. Reading(c) = {}
    BY DEF Init, Reading, Idle
  <2>. QED BY <2>1, FS_EmptySet
<1>. QED BY <1>1, <1>2, <1>3, <1>4

StreamInv == Typed /\ OneHolder /\ Paced /\ OnSchedule /\ Fresh

LEMMA StreamStep == StreamInv /\ [Next]_vars => [Stream!Next]_(Stream!vars)
<1>. SUFFICES ASSUME StreamInv, [Next]_vars PROVE Stream!Next \/ UNCHANGED Stream!vars
  OBVIOUS
<1>. USE DEF StreamInv
<1>0. call \in [Threads -> CallState]
  BY DEF Typed, TypeOK
<1>1. CASE EmitCopy
  BY <1>1, PublishImplements
<1>2. ASSUME NEW t \in Threads, StartCapture(t) PROVE Stream!Next
  BY <1>2, OpenImplements
<1>3. ASSUME NEW t \in Threads, StopClear(t) PROVE Stream!Next \/ UNCHANGED Stream!vars
  BY <1>3, CloseImplements
<1>4. ASSUME NEW t \in Threads, NextGot(t) PROVE Stream!Next
  BY <1>4, HandOverImplements
<1>5. ASSUME NEW t \in Threads, NextReturn(t) \/ NextRaise(t) PROVE Stream!Next
  BY <1>5, GiveBackImplements
<1>6. ASSUME NEW t \in Threads, StopEnter(t) \/ NextEnter(t) \/ NextTest(t) \/ NextTimeout(t)
      PROVE  UNCHANGED Stream!vars
  <2>1. UNCHANGED <<created, cur, next, born, samples, data>>
    BY <1>6 DEF StopEnter, NextEnter, NextTest, NextTimeout, streamVars
  <2>2. /\ call[t].pc # "read" /\ call'[t].pc # "read"
        /\ \A u \in Threads : u # t => call'[u] = call[u]
    BY <1>0, <1>6 DEF StopEnter, NextEnter, NextTest, NextTimeout, Idle, CallState
  <2>3. \A c \in Captures : Reading(c)' = Reading(c)
    BY <2>2 DEF Reading
  <2>. QED BY <2>1, <2>3, QuietImplements
<1>7. CASE UNCHANGED <<created, cur, next, born, samples, data, call>>
  BY <1>7, QuietImplements DEF Reading
<1>. QED
  BY <1>1, <1>2, <1>3, <1>4, <1>5, <1>6, <1>7, ThreadAssumption
  DEF Next, Physics, PhysStep, EmitEnter, EmitCheck, AcquireTest, AcquireBuffer,
      AcquireTimeout, EmitAbandon, ResetWorld, vars, streamVars

\* A capture is a stream: its samples are numbered as they fall due, published on the
\* open capture only, handed over in order and without a gap, and no more than the pool
\* holds are under way, however captures are stopped and started.
THEOREM CaptureImplementsStream == Spec => StreamSpec
<1>1. Init => StreamInv
  <2>1. Init => Fresh
    BY DEF Init, Fresh
  <2>2. Init => OnSchedule
    BY ScheduleInit
  <2>. QED BY <2>1, <2>2, TypedInit, OneHolderInit, PacedInit DEF StreamInv
<1>2. StreamInv /\ [Next]_vars => StreamInv'
  BY TypedStep, OneHolderStep, PacedStep, ScheduleStep, FreshStep DEF StreamInv
<1>. QED BY <1>1, <1>2, StreamInit, StreamStep, PTL DEF Spec, StreamSpec, Stream!Spec

-----------------------------------------------------------------------------
(* What the policy thread's own code keeps in step with the capture.       *)

Following == {"top", "next"} \cup Acting

\* The policy thread is inside a backend call where its code says so, on the capture
\* it started last, and nobody else fetches samples.
Positions ==
  /\ loop \in LoopPC /\ seen \in Nat
  /\ cur # None => cur = created
  /\ loop = "next" => call[Runner].pc \in {"test", "get", "read"} /\ call[Runner].cap = created
  /\ loop = "stop" => call[Runner].pc \in {"idle", "clear"}
  /\ loop \notin {"next", "stop"} => call[Runner].pc = "idle"
  /\ \A t \in Threads \ {Runner} : call[t].pc \in {"idle", "clear"}
  /\ loop = "open" => seen = 0
  /\ loop \in Following => created \in Captures

\* The k-th sampling instant of a capture that was born at time b.
Instant(b, k) == b + k * Interval

\* The samples taken out of the queue: those observed, and the one being read.
Taken == IF call[Runner].pc = "read" THEN seen + 1 ELSE seen

\* What is observed, read and queued, and what is due next, are consecutive
\* sampling instants.
Consecutive == LET b == born[created].at IN
  /\ next[created] = Instant(b, Taken + Len(samples[created]))
  /\ \A i \in 1..Len(samples[created]) :
       data[created][samples[created][i]].due = Instant(b, Taken + (i - 1))
  /\ call[Runner].pc = "read" => data[created][call[Runner].buf].due = Instant(b, seen)
  /\ loop \in Acting => obs.due = Instant(b, seen - 1)

Spaced == loop \in Following => Consecutive

CaptureInv == Typed /\ OneHolder /\ Paced
PolicyInv == CaptureInv /\ Positions /\ Spaced

Subject == <<created, born, next, samples, data>>

\* Every step of the policy, and of the threads around it, is a step of the capture.
LEMMA PolicySteps == PolicyNext \/ UNCHANGED allVars => [Next]_vars
<1>. SUFFICES ASSUME PolicyNext \/ UNCHANGED allVars PROVE [Next]_vars
  OBVIOUS
<1>1. Runner \in Consumers /\ Runner \in Threads /\ Stopper \in Threads
  BY RunnerAssumption, ThreadAssumption
<1>2. CASE PolicyLoop
  BY <1>1, <1>2 DEF PolicyLoop, LoopOpen, LoopTop, LoopWait, LoopObserve, LoopInfer, LoopApply,
     LoopRaises, LoopStop, Next
<1>3. CASE StartPolicy \/ StopPolicy \/ ResetBackend \/ NotifyReset
  BY <1>1, <1>3 DEF StartPolicy, StopPolicy, ResetBackend, NotifyReset, Next
<1>. QED BY <1>2, <1>3 DEF PolicyNext, allVars, Next

LEMMA CaptureInvStep == CaptureInv /\ [Next]_vars => CaptureInv'
BY TypedStep, OneHolderStep, PacedStep DEF CaptureInv

-----------------------------------------------------------------------------
(* Where the threads are.                                                  *)

LEMMA PositionsInit == PolicyInit => Positions
BY RunnerAssumption, ThreadAssumption DEF PolicyInit, Init, Positions, Idle, LoopPC, Following, Acting

\* A step of the physics thread or of the world.
LEMMA PositionsQuiet ==
  ASSUME Positions, UNCHANGED <<cur, created, call, loop, seen>>
  PROVE  Positions'
BY DEF Positions, Following

\* A step of the policy thread inside the backend: where it leaves the call.
LEMMA PositionsRunner ==
  ASSUME Typed, Positions, NEW r \in CallState, call' = [call EXCEPT ![Runner] = r],
         loop' \in LoopPC, seen' \in Nat, created' = created, cur' = cur \/ cur' = None,
         loop' = "next" => r.pc \in {"test", "get", "read"} /\ r.cap = created,
         loop' = "stop" => r.pc \in {"idle", "clear"},
         loop' \notin {"next", "stop"} => r.pc = "idle",
         loop' # "open", loop' \in Following => created \in Captures
  PROVE  Positions'
<1>1. call'[Runner] = r /\ \A t \in Threads \ {Runner} : call'[t] = call[t]
  BY RunnerAssumption, ThreadAssumption DEF Typed, TypeOK
<1>. QED BY <1>1 DEF Positions, Following

LEMMA PositionsLoop == ASSUME Typed, Positions, PolicyLoop PROVE Positions'
<1>. USE DEF LoopPC, Acting, Following
<1>1. /\ Runner \in Threads /\ call \in [Threads -> CallState] /\ call[Runner] \in CallState
      /\ created \in Nat /\ Idle \in CallState /\ Idle.pc = "idle"
  BY RunnerAssumption, ThreadAssumption, IdleCall, BoundAssumption DEF Typed, TypeOK
<1>2. CASE LoopOpen
  <2>1. created + 1 \in Captures
    BY <1>1, <1>2, BoundAssumption DEF LoopOpen, StartCapture, Captures
  <2>. QED BY <1>2, <2>1 DEF LoopOpen, StartCapture, Positions
<1>3. CASE LoopTop
  <2>1. CASE stopping \/ cur = None
    BY <1>3, <2>1 DEF LoopTop, Positions, vars, streamVars
  <2>2. CASE ~(stopping \/ cur = None)
    <3>. DEFINE r == [pc |-> "test", cap |-> cur, buf |-> None]
    <3>1. cur = created /\ cur \in Captures /\ loop' = "next" /\ NextEnter(Runner) /\ loop = "top"
      BY <1>3, <2>2 DEF LoopTop, Positions
    <3>2. r \in CallState /\ r.pc = "test" /\ r.cap = created
      BY <3>1 DEF CallState, CallPC
    <3>3. call' = [call EXCEPT ![Runner] = r]
      BY <3>1 DEF NextEnter
    <3>. HIDE DEF r
    <3>. QED
      BY <1>3, <3>1, <3>2, <3>3, PositionsRunner DEF LoopTop, NextEnter, Positions, streamVars
  <2>. QED BY <2>1, <2>2
<1>4. CASE LoopWait
  <2>1. /\ loop = "next" /\ UNCHANGED <<cur, created, seen>>
        /\ call[Runner].cap = created /\ created \in Captures
    BY <1>4 DEF LoopWait, NextTest, NextTimeout, NextGot, streamVars, Positions
  <2>2. ASSUME NEW r \in CallState, call' = [call EXCEPT ![Runner] = r], r.cap = created,
               r.pc \in {"test", "get", "read"}
        PROVE  Positions'
    <3>1. call'[Runner] = r
      BY <1>1, <2>2
    <3>. QED BY <1>4, <2>1, <2>2, <3>1, PositionsRunner DEF LoopWait, Positions
  <2>3. CASE NextTest(Runner) /\ call[Runner].cap \in stopped
    <3>1. call' = [call EXCEPT ![Runner] = Idle] /\ call'[Runner] = Idle /\ loop' = "stop"
      BY <1>1, <1>4, <2>3 DEF NextTest, LoopWait
    <3>. QED BY <1>1, <2>1, <3>1, PositionsRunner DEF Positions
  <2>4. CASE NextTest(Runner) /\ call[Runner].cap \notin stopped
    <3>1. call' = [call EXCEPT ![Runner] = [call[Runner] EXCEPT !.pc = "get"]]
      BY <1>1, <2>4 DEF NextTest
    <3>2. /\ [call[Runner] EXCEPT !.pc = "get"] \in CallState
          /\ [call[Runner] EXCEPT !.pc = "get"].cap = created
          /\ [call[Runner] EXCEPT !.pc = "get"].pc = "get"
      BY <1>1, <2>1 DEF CallState, CallPC
    <3>. QED BY <2>2, <3>1, <3>2
  <2>5. CASE NextTimeout(Runner)
    <3>1. call' = [call EXCEPT ![Runner] = [call[Runner] EXCEPT !.pc = "test"]]
      BY <1>1, <2>5 DEF NextTimeout
    <3>2. /\ [call[Runner] EXCEPT !.pc = "test"] \in CallState
          /\ [call[Runner] EXCEPT !.pc = "test"].cap = created
          /\ [call[Runner] EXCEPT !.pc = "test"].pc = "test"
      BY <1>1, <2>1 DEF CallState, CallPC
    <3>. QED BY <2>2, <3>1, <3>2
  <2>6. CASE NextGot(Runner)
    <3>. DEFINE r == [call[Runner] EXCEPT !.pc = "read", !.buf = Head(samples[created])]
    <3>1. call' = [call EXCEPT ![Runner] = r]
      BY <1>1, <2>1, <2>6 DEF NextGot
    <3>2. Head(samples[created]) \in Buffers
      BY <2>1, <2>6, Dequeue DEF NextGot, Typed, TypeOK
    <3>3. r \in CallState /\ r.cap = created /\ r.pc = "read"
      BY <1>1, <2>1, <3>2 DEF CallState, CallPC
    <3>. HIDE DEF r
    <3>. QED BY <2>2, <3>1, <3>3
  <2>. QED BY <1>4, <2>3, <2>4, <2>5, <2>6 DEF LoopWait
<1>5. CASE LoopObserve
  <2>1. /\ call' = [call EXCEPT ![Runner] = Idle] /\ loop' = "infer" /\ seen' \in Nat
        /\ UNCHANGED <<cur, created>> /\ created \in Captures
    BY <1>5 DEF LoopObserve, NextReturn, Positions
  <2>. QED BY <1>1, <2>1, PositionsRunner
<1>6. CASE LoopInfer \/ LoopApply
  BY <1>6 DEF LoopInfer, LoopApply, Positions, vars, streamVars
<1>7. CASE LoopRaises
  <2>1. CASE NextRaise(Runner)
    <3>1. /\ call' = [call EXCEPT ![Runner] = Idle] /\ loop' = "stop" /\ seen' \in Nat
          /\ UNCHANGED <<cur, created>>
      BY <1>7, <2>1 DEF LoopRaises, NextRaise, Positions
    <3>. QED BY <1>1, <3>1, PositionsRunner
  <2>2. CASE loop \in Acting /\ UNCHANGED vars
    BY <1>7, <2>2 DEF LoopRaises, Positions, vars, streamVars
  <2>. QED BY <1>7, <2>1, <2>2 DEF LoopRaises
<1>8. CASE LoopStop
  <2>1. CASE loop' = "over" /\ UNCHANGED vars /\ call[Runner].pc = "idle"
    BY <1>8, <2>1 DEF LoopStop, Positions, vars, streamVars
  <2>2. CASE StopEnter(Runner) /\ loop' = loop
    <3>. DEFINE r == [pc |-> "clear", cap |-> cur, buf |-> None]
    <3>1. call' = [call EXCEPT ![Runner] = r] /\ UNCHANGED <<cur, created, seen>> /\ loop = "stop"
      BY <1>8, <2>2 DEF LoopStop, StopEnter
    <3>2. r \in CallState /\ r.pc = "clear"
      BY <1>1 DEF CallState, CallPC, Typed, TypeOK
    <3>. HIDE DEF r
    <3>. QED BY <2>2, <3>1, <3>2, PositionsRunner DEF Positions
  <2>3. CASE StopClear(Runner) /\ loop' = "over"
    <3>1. /\ call' = [call EXCEPT ![Runner] = Idle] /\ seen' \in Nat
          /\ created' = created /\ cur' = None
      BY <1>8, <2>3 DEF LoopStop, StopClear, Positions
    <3>. QED BY <1>1, <2>3, <3>1, PositionsRunner
  <2>. QED BY <1>8, <2>1, <2>2, <2>3 DEF LoopStop
<1>. QED BY <1>2, <1>3, <1>4, <1>5, <1>6, <1>7, <1>8 DEF PolicyLoop

LEMMA PositionsStop == ASSUME Typed, Positions, StopPolicy PROVE Positions'
<1>1. /\ Runner # Stopper /\ Stopper \in Threads /\ Runner \in Threads
      /\ call \in [Threads -> CallState]
  BY RunnerAssumption, ThreadAssumption DEF Typed, TypeOK
<1>2. /\ created' = created /\ (cur' = cur \/ cur' = None)
      /\ UNCHANGED <<loop, seen>>
      /\ call'[Stopper] = call[Stopper] \/ call'[Stopper].pc \in {"idle", "clear"}
      /\ \A t \in Threads \ {Stopper} : call'[t] = call[t]
  BY <1>1 DEF StopPolicy, StopEnter, StopClear, Idle, vars, streamVars
<1>. QED BY <1>1, <1>2 DEF Positions, Following

LEMMA PositionsStep == Typed /\ Positions /\ (PolicyNext \/ UNCHANGED allVars) => Positions'
<1>. SUFFICES ASSUME Typed, Positions, PolicyNext \/ UNCHANGED allVars PROVE Positions'
  OBVIOUS
<1>1. CASE Physics /\ UNCHANGED policyVars
  <2>1. UNCHANGED <<cur, created, call, loop, seen>>
    BY <1>1 DEF policyVars, Physics, PhysStep, EmitEnter, EmitCheck, AcquireTest,
       AcquireBuffer, AcquireTimeout, EmitCopy, EmitAbandon, streamVars
  <2>. QED BY <2>1, PositionsQuiet
<1>2. CASE ResetBackend \/ NotifyReset \/ UNCHANGED allVars
  <2>1. UNCHANGED <<cur, created, call, loop, seen>>
    BY <1>2 DEF ResetBackend, NotifyReset, ResetWorld, allVars, policyVars, vars, streamVars
  <2>. QED BY <2>1, PositionsQuiet
<1>3. CASE StartPolicy
  BY <1>3 DEF StartPolicy, Positions, LoopPC, Following, Acting, vars, streamVars
<1>. QED BY <1>1, <1>2, <1>3, PositionsLoop, PositionsStop DEF PolicyNext

-----------------------------------------------------------------------------
(* What it observes.                                                       *)

LEMMA InstantType ==
  ASSUME NEW b \in Nat, NEW k \in Int
  PROVE  Instant(b, k) \in Int /\ Instant(b, k + 1) = Instant(b, k) + Interval
<1>1. (k + 1) * Interval = k * Interval + Interval
  BY TickAssumption
<1>. QED BY <1>1, TickAssumption DEF Instant

\* A step that touches neither the capture nor what the policy has in hand.
LEMMA SpacedQuiet ==
  ASSUME Spaced, UNCHANGED <<created, born, next, samples, data, seen>>,
         loop' \in Following =>
           /\ loop \in Following
           /\ call'[Runner].pc = "read" <=> call[Runner].pc = "read"
           /\ call'[Runner].pc = "read" => call'[Runner].buf = call[Runner].buf
           /\ loop' \in Acting => loop \in Acting /\ obs' = obs
  PROVE  Spaced'
BY DEF Spaced, Consecutive, Taken

\* The physics thread publishes the sample of the instant that is due.
LEMMA SpacedCopy ==
  ASSUME PolicyInv, EmitCopy, UNCHANGED policyVars, loop \in Following
  PROVE  Consecutive'
<1>. DEFINE k == created
            n == Len(samples[k])
            b == born[k].at
<1>1. /\ k \in Captures /\ cur = k /\ phys.cap = k /\ phys.pc = "copy" /\ phys.buf \in Buffers
      /\ Runner \in Threads
  <2>1. cur = phys.cap /\ phys.pc = "copy" /\ cur \in 1..created /\ phys.buf \in Buffers
    BY DEF PolicyInv, CaptureInv, Typed, Handles, EmitCopy
  <2>2. cur \in Captures
    BY <2>1, StartedCaptures DEF PolicyInv, CaptureInv
  <2>3. cur = k
    BY <2>2, NoneAssumption DEF PolicyInv, Positions
  <2>. QED BY <2>1, <2>2, <2>3, RunnerAssumption, ThreadAssumption
<1>2. /\ samples \in [Captures -> Seq(Buffers)] /\ next \in [Captures -> Nat]
      /\ data \in [Captures -> [Buffers -> Snapshot]] /\ seen \in Nat
      /\ born \in [Captures -> [at : Nat, epoch : Nat]]
  BY DEF PolicyInv, CaptureInv, Typed, TypeOK, Positions
<1>3. /\ created' = k /\ born' = born /\ loop' = loop /\ seen' = seen /\ obs' = obs
      /\ call' = call /\ next'[k] = next[k] + Interval
      /\ samples'[k] = Append(samples[k], phys.buf)
      /\ data'[k][phys.buf].due = next[k]
      /\ \A d \in Buffers : d # phys.buf => data'[k][d] = data[k][d]
  BY <1>1, <1>2 DEF EmitCopy, policyVars
<1>4. /\ n \in Nat /\ b \in Nat /\ Taken \in Nat /\ Taken' = Taken
      /\ Len(samples'[k]) = n + 1
      /\ \A i \in 1..n : samples'[k][i] = samples[k][i] /\ samples[k][i] \in Queued(k)
      /\ samples'[k][n + 1] = phys.buf
  BY <1>1, <1>2, <1>3 DEF Taken, Queued, Range
<1>5. Queued(k) \subseteq Buffers /\ phys.buf \notin Queued(k) \cup Readers(k)
  BY <1>1, QueueCounted DEF PolicyInv, CaptureInv, OneHolder, HeldOnce, PhysicsHolds
<1>6. Consecutive
  BY DEF PolicyInv, Spaced
<1>7. next[k] = Instant(b, Taken + n)
  BY <1>6 DEF Consecutive
<1>8. next'[k] = Instant(b, Taken + (n + 1))
  <2>. DEFINE m == Taken + n
  <2>0. m \in Int /\ m + 1 = Taken + (n + 1)
    BY <1>4
  <2>. HIDE DEF m
  <2>1. Instant(b, m + 1) = Instant(b, m) + Interval
    BY <1>4, <2>0, InstantType
  <2>. QED BY <1>3, <1>7, <2>0, <2>1 DEF m
<1>9. ASSUME NEW i \in 1..(n + 1)
      PROVE  data'[k][samples'[k][i]].due = Instant(b, Taken + (i - 1))
  <2>1. CASE i = n + 1
    BY <1>3, <1>4, <1>7, <2>1
  <2>2. CASE i \in 1..n
    <3>1. data'[k][samples'[k][i]] = data[k][samples[k][i]]
      BY <1>3, <1>4, <1>5, <2>2
    <3>2. data[k][samples[k][i]].due = Instant(b, Taken + (i - 1))
      BY <1>6, <2>2 DEF Consecutive
    <3>. QED BY <3>1, <3>2
  <2>. QED BY <1>4, <2>1, <2>2
<1>10. call'[Runner].pc = "read" => data'[k][call'[Runner].buf].due = Instant(b, seen)
  <2>. SUFFICES ASSUME call[Runner].pc = "read"
                PROVE  data'[k][call[Runner].buf].due = Instant(b, seen)
    BY <1>3
  <2>1. call[Runner].cap = k /\ call[Runner].buf \in Buffers
    BY <1>1, CallHandle DEF PolicyInv, CaptureInv, Positions
  <2>2. call[Runner].buf \in Readers(k)
    BY <1>1, <2>1 DEF Readers, Reading
  <2>. QED BY <1>3, <1>5, <1>6, <2>1, <2>2 DEF Consecutive
<1>11. loop' \in Acting => obs'.due = Instant(b, seen - 1)
  BY <1>3, <1>6 DEF Consecutive
<1>12. b = born'[created'].at /\ Len(samples'[created']) = n + 1
  BY <1>3, <1>4
<1>. HIDE DEF n, b
<1>. QED BY <1>3, <1>4, <1>8, <1>9, <1>10, <1>11, <1>12 DEF Consecutive

\* The capture the policy starts is empty and due at once.
LEMMA SpacedOpen ==
  ASSUME PolicyInv, LoopOpen PROVE Consecutive'
<1>. DEFINE k == created + 1
<1>1. /\ created \in 0..MaxCaptures /\ created < MaxCaptures /\ k \in Captures /\ k > created
      /\ Runner \in Threads /\ call[Runner].pc = "idle" /\ seen = 0 /\ time \in Nat
      /\ next \in [Captures -> Nat] /\ born \in [Captures -> [at : Nat, epoch : Nat]]
  <2>1. call[Runner].pc = "idle" /\ created < MaxCaptures /\ loop = "open"
    BY DEF LoopOpen, StartCapture
  <2>2. /\ created \in 0..MaxCaptures /\ time \in Nat
        /\ next \in [Captures -> Nat] /\ born \in [Captures -> [at : Nat, epoch : Nat]]
    BY DEF PolicyInv, CaptureInv, Typed, TypeOK
  <2>3. k \in Captures /\ k > created
    BY <2>1, <2>2, BoundAssumption DEF Captures
  <2>4. seen = 0
    BY <2>1 DEF PolicyInv, Positions
  <2>. QED BY <2>1, <2>2, <2>3, <2>4, RunnerAssumption, ThreadAssumption
<1>2. /\ created' = k /\ UNCHANGED <<samples, data, call, seen>> /\ loop' = "top"
      /\ next'[k] = time /\ born'[k].at = time
  BY <1>1 DEF LoopOpen, StartCapture
<1>3. samples[k] = <<>>
  BY <1>1 DEF PolicyInv, CaptureInv, Typed, Handles
<1>4. Instant(time, 0) = time
  BY <1>1, TickAssumption DEF Instant
<1>5. Taken' = 0 /\ Len(samples'[created']) = 0
  BY <1>1, <1>2, <1>3 DEF Taken
<1>6. loop' \notin Acting
  BY <1>2 DEF Acting
<1>. HIDE DEF k
<1>. QED BY <1>1, <1>2, <1>4, <1>5, <1>6 DEF Consecutive

\* It takes the oldest sample.
LEMMA SpacedGot ==
  ASSUME PolicyInv, LoopWait, NextGot(Runner) PROVE Consecutive'
<1>. DEFINE k == created
            n == Len(samples[k])
            b == born[k].at
            h == Head(samples[k])
<1>1. /\ Runner \in Threads /\ loop = "next" /\ call[Runner].pc = "get"
      /\ call[Runner].cap = k /\ k \in Captures
  BY RunnerAssumption, ThreadAssumption
  DEF PolicyInv, Positions, Following, LoopWait, NextGot
<1>2. /\ samples \in [Captures -> Seq(Buffers)] /\ call \in [Threads -> CallState]
      /\ samples[k] # <<>> /\ samples[k] \in Seq(Buffers) /\ seen \in Nat
  BY <1>1 DEF PolicyInv, CaptureInv, Typed, TypeOK, Positions, NextGot
<1>3. /\ created' = k /\ UNCHANGED <<born, next, data, seen, obs>>
      /\ samples'[k] = Tail(samples[k])
      /\ call'[Runner].pc = "read" /\ call'[Runner].buf = h
  BY <1>1, <1>2 DEF LoopWait, NextGot, CallState
<1>4. /\ n \in Nat \ {0} /\ h = samples[k][1] /\ Len(samples'[k]) = n - 1
      /\ \A i \in 1..(n - 1) : samples'[k][i] = samples[k][i + 1]
      /\ Taken = seen /\ Taken' = seen + 1
  BY <1>1, <1>2, <1>3 DEF Taken
<1>5. Consecutive
  BY <1>1 DEF PolicyInv, Spaced, Following
<1>6. /\ next'[k] = Instant(b, seen + n)
      /\ \A i \in 1..n : data'[k][samples[k][i]].due = Instant(b, seen + (i - 1))
  BY <1>3, <1>4, <1>5 DEF Consecutive
<1>7. next'[k] = Instant(b, Taken' + (n - 1))
  <2>1. n \in Nat /\ seen \in Nat /\ Taken' = seen + 1
    BY <1>2, <1>4
  <2>2. next'[k] = Instant(b, seen + n)
    BY <1>6
  <2>. HIDE DEF n
  <2>3. Taken' + (n - 1) = seen + n
    BY <2>1
  <2>. QED BY <2>2, <2>3
<1>8. ASSUME NEW i \in 1..(n - 1)
      PROVE  data'[k][samples'[k][i]].due = Instant(b, Taken' + (i - 1))
  <2>1. i + 1 \in 1..n /\ seen + ((i + 1) - 1) = (seen + 1) + (i - 1)
    BY <1>2, <1>4
  <2>. QED BY <1>4, <1>6, <2>1
<1>9. data'[k][call'[Runner].buf].due = Instant(b, seen)
  BY <1>2, <1>3, <1>4, <1>6
<1>10. loop' \notin Acting
  BY <1>1 DEF LoopWait, Acting
<1>11. b = born'[created'].at /\ Len(samples'[created']) = n - 1
  BY <1>3, <1>4
<1>. HIDE DEF n, b, h
<1>. QED BY <1>3, <1>4, <1>7, <1>8, <1>9, <1>10, <1>11 DEF Consecutive

\* It has the sample in hand, and the buffer is nobody's sample any more.
LEMMA SpacedObserve ==
  ASSUME PolicyInv, LoopObserve PROVE Consecutive'
<1>. DEFINE k == created
            n == Len(samples[k])
            b == born[k].at
            d == call[Runner].buf
<1>1. /\ Runner \in Threads /\ loop = "next" /\ call[Runner].pc = "read"
      /\ call[Runner].cap = k /\ k \in Captures
  BY RunnerAssumption, ThreadAssumption
  DEF PolicyInv, Positions, Following, LoopObserve, NextReturn
<1>2. /\ samples \in [Captures -> Seq(Buffers)] /\ call \in [Threads -> CallState]
      /\ data \in [Captures -> [Buffers -> Snapshot]] /\ d \in Buffers /\ seen \in Nat
  BY <1>1, CallHandle DEF PolicyInv, CaptureInv, Typed, TypeOK, Positions
<1>3. /\ created' = k /\ UNCHANGED <<born, next, samples>>
      /\ seen' = seen + 1 /\ obs' = data[k][d] /\ call'[Runner].pc = "idle"
      /\ \A e \in Buffers : e # d => data'[k][e] = data[k][e]
  BY <1>1, <1>2 DEF LoopObserve, NextReturn, Idle
<1>4. Taken = seen + 1 /\ Taken' = seen + 1
  BY <1>1, <1>3 DEF Taken
<1>5. d \in Readers(k) /\ d \notin Queued(k) /\ Queued(k) \subseteq Buffers
  BY <1>1, QueueCounted DEF PolicyInv, CaptureInv, OneHolder, HeldOnce, Readers, Reading
<1>6. Consecutive
  BY <1>1 DEF PolicyInv, Spaced, Following
<1>7. ASSUME NEW i \in 1..n
      PROVE  data'[k][samples'[k][i]].due = Instant(b, Taken' + (i - 1))
  <2>1. samples[k][i] \in Queued(k)
    BY <1>1, <1>2 DEF Queued, Range
  <2>2. data[k][samples[k][i]].due = Instant(b, Taken + (i - 1))
    BY <1>6 DEF Consecutive
  <2>. QED BY <1>3, <1>4, <1>5, <2>1, <2>2
<1>8. next'[k] = Instant(b, Taken' + n)
  BY <1>3, <1>4, <1>6 DEF Consecutive
<1>9. obs'.due = Instant(b, seen' - 1)
  BY <1>1, <1>2, <1>3, <1>6 DEF Consecutive
<1>10. b = born'[created'].at /\ Len(samples'[created']) = n
  BY <1>3
<1>. HIDE DEF n, b, d
<1>. QED BY <1>3, <1>7, <1>8, <1>9, <1>10 DEF Consecutive

LEMMA SpacedStep == PolicyInv /\ (PolicyNext \/ UNCHANGED allVars) => Spaced'
<1>. SUFFICES ASSUME PolicyInv, PolicyNext \/ UNCHANGED allVars PROVE Spaced'
  OBVIOUS
<1>0. /\ Spaced /\ Positions /\ call \in [Threads -> CallState]
      /\ Runner \in Threads /\ Stopper \in Threads /\ Runner # Stopper
  BY RunnerAssumption, ThreadAssumption DEF PolicyInv, CaptureInv, Typed, TypeOK
<1>1. CASE Physics /\ UNCHANGED policyVars
  <2>1. CASE EmitCopy
    BY <1>1, <2>1, SpacedCopy DEF Spaced, policyVars
  <2>2. CASE ~EmitCopy
    <3>1. UNCHANGED <<created, born, next, samples, data, seen, call, loop, obs>>
      BY <1>1, <2>2 DEF policyVars, Physics, PhysStep, EmitEnter, EmitCheck, AcquireTest,
         AcquireBuffer, AcquireTimeout, EmitAbandon, streamVars
    <3>. QED BY <1>0, <3>1, SpacedQuiet
  <2>. QED BY <2>1, <2>2
<1>2. CASE ResetBackend \/ NotifyReset \/ UNCHANGED allVars
  <2>1. UNCHANGED <<created, born, next, samples, data, seen, call, loop, obs>>
    BY <1>2 DEF ResetBackend, NotifyReset, ResetWorld, allVars, policyVars, vars, streamVars
  <2>. QED BY <1>0, <2>1, SpacedQuiet
<1>3. CASE StopPolicy
  <2>1. /\ UNCHANGED <<created, born, next, samples, data, seen, loop, obs>>
        /\ call'[Runner] = call[Runner]
    BY <1>0, <1>3 DEF StopPolicy, StopEnter, StopClear, vars, streamVars
  <2>. QED BY <1>0, <2>1, SpacedQuiet
<1>4. CASE loop' \notin Following
  BY <1>4 DEF Spaced
<1>5. CASE StartPolicy \/ LoopRaises
  BY <1>4, <1>5 DEF StartPolicy, LoopRaises, Following, Acting
<1>6. CASE LoopStop
  BY <1>4, <1>6 DEF LoopStop, Following, Acting
<1>7. CASE LoopOpen
  BY <1>7, SpacedOpen DEF Spaced
<1>8. CASE LoopObserve
  BY <1>8, SpacedObserve DEF Spaced
<1>9. CASE LoopTop
  <2>1. CASE loop' = "stop"
    BY <1>4, <2>1 DEF Following, Acting
  <2>2. CASE NextEnter(Runner) /\ loop' = "next"
    <3>1. /\ UNCHANGED <<created, born, next, samples, data, seen>> /\ loop = "top"
          /\ call[Runner].pc = "idle" /\ call'[Runner].pc = "test" /\ loop' \notin Acting
      BY <1>0, <1>9, <2>2 DEF LoopTop, NextEnter, streamVars, Acting
    <3>. QED BY <1>0, <3>1, SpacedQuiet DEF Following
  <2>. QED BY <1>9, <2>1, <2>2 DEF LoopTop
<1>10. CASE LoopWait
  <2>1. CASE NextGot(Runner)
    BY <1>10, <2>1, SpacedGot DEF Spaced
  <2>2. CASE NextTest(Runner) \/ NextTimeout(Runner)
    <3>1. /\ UNCHANGED <<created, born, next, samples, data, seen>> /\ loop = "next"
          /\ call[Runner].pc # "read" /\ call'[Runner].pc # "read" /\ loop' \notin Acting
      BY <1>0, <1>10, <2>2 DEF LoopWait, NextTest, NextTimeout, streamVars, Acting, Idle, CallState
    <3>. QED BY <1>0, <3>1, SpacedQuiet DEF Following
  <2>. QED BY <1>10, <2>1, <2>2 DEF LoopWait
<1>11. CASE LoopInfer \/ LoopApply
  <2>1. /\ UNCHANGED <<created, born, next, samples, data, seen, call, obs>>
        /\ loop \in Acting
    BY <1>11 DEF LoopInfer, LoopApply, vars, streamVars, Acting
  <2>. QED BY <1>0, <2>1, SpacedQuiet DEF Following
<1>. QED BY <1>1, <1>2, <1>3, <1>5, <1>6, <1>7, <1>8, <1>9, <1>10, <1>11 DEF PolicyNext, PolicyLoop

-----------------------------------------------------------------------------
(* The theorems.                                                           *)

\* The policy and the threads around it use the capture as its callers may: all that
\* SimCapture_proofs shows of a capture holds under a policy.
THEOREM PolicyUsesCapture == PolicySpec => Spec
<1>1. PolicyInit => Init
  BY DEF PolicyInit
<1>2. [PolicyNext]_allVars => [Next]_vars
  BY PolicySteps
<1>. QED BY <1>1, <1>2, PTL DEF PolicySpec, Spec

\* Types; in particular the policy's queue never holds more than Chunk - 1 actions.
THEOREM PolicyTypes == PolicySpec => []PolicyTypeOK
<1>. DEFINE T == PolicyTypeOK /\ Handles
<1>1. PolicyInit => T
  <2>1. Blank \in Snapshot /\ NoPlan \in [left : 0..(Chunk - 1), from : Snapshot]
    BY ChunkAssumption DEF NoPlan, Snapshot, Blank
  <2>2. PolicyInit => TypeOK /\ Handles
    BY TypedInit DEF PolicyInit, Typed
  <2>3. PolicyInit => loop \in LoopPC /\ seen \in Nat
    BY DEF PolicyInit, LoopPC
  <2>. QED BY <2>1, <2>2, <2>3, Zenon DEF PolicyInit, PolicyTypeOK
<1>2. T /\ [PolicyNext]_allVars => T'
  <2>. SUFFICES ASSUME T, PolicyNext \/ UNCHANGED allVars PROVE T'
    OBVIOUS
  <2>1. Typed /\ TypeOK' /\ Handles'
    BY PolicySteps, TypedStep DEF PolicyTypeOK, Typed
  <2>2. Runner \in Threads /\ data \in [Captures -> [Buffers -> Snapshot]] /\ Blank \in Snapshot
    BY RunnerAssumption, ThreadAssumption DEF PolicyTypeOK, TypeOK, Snapshot, Blank
  <2>3. loop' \in LoopPC /\ stopping' \in BOOLEAN /\ notify' \in BOOLEAN /\ seen' \in Nat
    <3>. loop \in LoopPC /\ stopping \in BOOLEAN /\ notify \in BOOLEAN /\ seen \in Nat
      BY DEF PolicyTypeOK
    <3>1. loop' \in LoopPC
      BY DEF LoopPC, Acting, PolicyNext, PolicyLoop, StartPolicy, LoopOpen, LoopTop, LoopWait,
         LoopObserve, LoopInfer, LoopApply, LoopRaises, LoopStop, StopPolicy, ResetBackend,
         NotifyReset, allVars, policyVars
    <3>2. stopping' \in BOOLEAN
      BY DEF PolicyNext, PolicyLoop, StartPolicy, LoopOpen, LoopTop, LoopWait,
         LoopObserve, LoopInfer, LoopApply, LoopRaises, LoopStop, StopPolicy, ResetBackend,
         NotifyReset, allVars, policyVars
    <3>3. notify' \in BOOLEAN
      BY DEF PolicyNext, PolicyLoop, StartPolicy, LoopOpen, LoopTop, LoopWait,
         LoopObserve, LoopInfer, LoopApply, LoopRaises, LoopStop, StopPolicy, ResetBackend,
         NotifyReset, allVars, policyVars
    <3>4. seen' \in Nat
      <4>1. seen' \in {0, seen, seen + 1}
        BY Zenon DEF PolicyNext, PolicyLoop, StartPolicy, LoopOpen, LoopTop, LoopWait,
           LoopObserve, LoopInfer, LoopApply, LoopRaises, LoopStop, StopPolicy, ResetBackend,
           NotifyReset, allVars, policyVars
      <4>. QED BY <4>1
    <3>. QED BY <3>1, <3>2, <3>3, <3>4
  <2>4. obs' \in Snapshot
    <3>1. CASE LoopObserve
      <4>1. call[Runner].cap \in Captures /\ call[Runner].buf \in Buffers
        BY <2>1, <2>2, <3>1, CallHandle DEF LoopObserve, NextReturn
      <4>. QED BY <2>2, <3>1, <4>1 DEF LoopObserve
    <3>2. CASE ~LoopObserve
      BY <3>2 DEF PolicyTypeOK, PolicyNext, PolicyLoop, StartPolicy, LoopOpen, LoopTop, LoopWait,
         LoopInfer, LoopApply, LoopRaises, LoopStop, StopPolicy, ResetBackend,
         NotifyReset, allVars, policyVars
    <3>. QED BY <3>1, <3>2
  <2>5. queue' \in [left : 0..(Chunk - 1), from : Snapshot]
    <3>. NoPlan \in [left : 0..(Chunk - 1), from : Snapshot]
      BY <2>2, ChunkAssumption DEF NoPlan
    <3>. queue \in [left : 0..(Chunk - 1), from : Snapshot] /\ obs \in Snapshot
      BY DEF PolicyTypeOK
    <3>1. CASE LoopInfer
      <4>1. CASE queue.left = 0
        <5>1. queue' = [left |-> Chunk - 1, from |-> obs]
          BY <3>1, <4>1 DEF LoopInfer
        <5>. QED BY <5>1, ChunkAssumption
      <4>2. CASE queue.left # 0
        <5>1. queue' = [queue EXCEPT !.left = queue.left - 1]
          BY <3>1, <4>2, Zenon DEF LoopInfer
        <5>2. queue.left - 1 \in 0..(Chunk - 1)
          BY <4>2, ChunkAssumption
        <5>. QED BY <5>1, <5>2
      <4>. QED BY <4>1, <4>2
    <3>2. CASE ~LoopInfer
      BY <3>2 DEF PolicyNext, PolicyLoop, StartPolicy, LoopOpen, LoopTop, LoopWait,
         LoopObserve, LoopApply, LoopRaises, LoopStop, StopPolicy, ResetBackend,
         NotifyReset, allVars, policyVars
    <3>. QED BY <3>1, <3>2
  <2>. QED BY <2>1, <2>3, <2>4, <2>5 DEF PolicyTypeOK
<1>3. T => PolicyTypeOK
  OBVIOUS
<1>. HIDE DEF T
<1>. QED BY <1>1, <1>2, <1>3, PTL DEF PolicySpec

LEMMA PolicyInvariant == PolicySpec => []PolicyInv
<1>1. PolicyInit => PolicyInv
  <2>1. PolicyInit => Spaced
    BY DEF PolicyInit, Spaced, Following, Acting
  <2>. QED BY <2>1, TypedInit, OneHolderInit, PacedInit, PositionsInit
       DEF PolicyInit, PolicyInv, CaptureInv
<1>2. PolicyInv /\ [PolicyNext]_allVars => PolicyInv'
  BY PolicySteps, CaptureInvStep, PositionsStep, SpacedStep DEF PolicyInv, CaptureInv
<1>. QED BY <1>1, <1>2, PTL DEF PolicySpec

\* The observations a policy acts upon are one interval of simulated time apart, none
\* skipped and none seen twice, whatever inference takes and whoever stops or resets.
THEOREM PolicyObservationSpacing == PolicySpec => []ObservationSpacing
<1>1. PolicyInv => ObservationSpacing
  BY DEF PolicyInv, Spaced, Consecutive, Following, ObservationSpacing, Instant
<1>. QED BY <1>1, PolicyInvariant, PTL

\* The world an action is for is never further ahead of the observation it was computed
\* from than the buffers allow.
THEOREM PolicyActionLatency == PolicySpec => []ActionLatency
<1>1. PolicyInv => ActionLatency
  <2>. SUFFICES ASSUME PolicyInv, ActsLive
                PROVE  time <= obs.due + (BufferCount + 1) * Interval + StepTicks
    BY DEF ActionLatency
  <2>. DEFINE n == Len(samples[created])
              b == born[created].at
  <2>1. /\ loop \in Acting /\ cur = created /\ cur \in Captures /\ cur \notin stopped
        /\ SameEpoch(cur) /\ call[Runner].pc = "idle" /\ seen \in Nat
    BY DEF ActsLive, PolicyInv, CaptureInv, Positions, Typed, TypeOK, Acting
  <2>2. /\ time \in Nat /\ next[created] \in Nat /\ b \in Nat /\ n \in Nat
        /\ BufferCount \in Nat /\ StepTicks \in Nat /\ Interval \in Nat
    BY <2>1, BufferAssumption, TickAssumption DEF PolicyInv, CaptureInv, Typed, TypeOK
  <2>3. time <= next[created] + StepTicks
    BY <2>1, NoneAssumption DEF PolicyInv, CaptureInv, Paced, Backpressure
  <2>4. next[created] = Instant(b, seen + n) /\ obs.due = Instant(b, seen - 1)
    BY <2>1 DEF PolicyInv, Spaced, Following, Consecutive, Taken
  <2>5. n <= BufferCount
    <3>1. /\ Queued(created) \in SUBSET Buffers /\ Cardinality(Queued(created)) = n
      BY <2>1, QueueCounted DEF PolicyInv, CaptureInv
    <3>2. IsFiniteSet(Buffers) /\ Cardinality(Buffers) = BufferCount
      BY FS_Interval, BufferAssumption DEF Buffers
    <3>. QED BY <3>1, <3>2, FS_Subset
  <2>. HIDE DEF n, b
  <2>6. (seen + n) * Interval = (seen - 1) * Interval + (n + 1) * Interval
    BY <2>1, <2>2
  <2>7. (n + 1) * Interval <= (BufferCount + 1) * Interval
    BY <2>2, <2>5
  <2>8. /\ (n + 1) * Interval \in Int /\ (seen - 1) * Interval \in Int
        /\ (BufferCount + 1) * Interval \in Int
    BY <2>1, <2>2
  <2>. QED BY <2>2, <2>3, <2>4, <2>6, <2>7, <2>8 DEF Instant
<1>. QED BY <1>1, PolicyInvariant, PTL
=============================================================================
