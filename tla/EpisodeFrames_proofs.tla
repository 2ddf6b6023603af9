------------------------ MODULE EpisodeFrames_proofs ------------------------
(***************************************************************************)
(* Proofs about Rendering and EpisodeFrames, for any number of clients,    *)
(* cameras and buffers, any robots, requests and sensors' readings, and    *)
(* without a bound on instants, commands, samples, episodes or changes.    *)
(***************************************************************************)
EXTENDS EpisodeFrames, FiniteSetTheorems, SequenceTheorems, TLAPS

-----------------------------------------------------------------------------
(* Sequences.                                                              *)

\* A sequence, of whatever.
Proper(s) == s \in Seq(ToSet(s))

LEMMA AppendFacts ==
  ASSUME NEW s, Proper(s), NEW x
  PROVE  /\ Proper(Append(s, x)) /\ ToSet(Append(s, x)) = ToSet(s) \cup {x}
         /\ Len(s) \in Nat /\ DOMAIN s = 1..Len(s)
         /\ Len(Append(s, x)) = Len(s) + 1 /\ DOMAIN Append(s, x) = 1..(Len(s) + 1)
         /\ Append(s, x)[Len(s) + 1] = x /\ \A i \in DOMAIN s : Append(s, x)[i] = s[i]
<1>. DEFINE S == ToSet(s) \cup {x}
<1>1. s \in Seq(ToSet(s)) /\ ToSet(s) \subseteq S /\ x \in S
  BY DEF Proper
<1>2. Len(s) \in Nat /\ DOMAIN s = 1..Len(s) /\ s \in Seq(S)
  <2>1. Len(s) \in Nat /\ DOMAIN s = 1..Len(s) /\ \A i \in 1..Len(s) : s[i] \in ToSet(s)
    BY <1>1
  <2>. HIDE DEF S
  <2>2. s \in Seq(S)
    BY <1>1
  <2>. QED BY <2>1, <2>2
<1>. DEFINE t == Append(s, x)
<1>3. /\ t \in Seq(S) /\ Len(t) = Len(s) + 1 /\ DOMAIN t = 1..(Len(s) + 1)
      /\ t[Len(s) + 1] = x /\ \A i \in 1..Len(s) : t[i] = s[i]
  <2>. HIDE DEF S
  <2>. QED BY <1>1, <1>2
<1>4. ToSet(t) = S
  BY <1>2, <1>3 DEF ToSet
<1>. QED BY <1>2, <1>3, <1>4 DEF Proper

LEMMA EmptyProper == Proper(<<>>) /\ ToSet(<<>>) = {} /\ Len(<<>>) = 0 /\ DOMAIN <<>> = {}
BY DEF Proper, ToSet

LEMMA SingleProper ==
  ASSUME NEW x
  PROVE  Proper(<<x>>) /\ ToSet(<<x>>) = {x} /\ Len(<<x>>) = 1 /\ DOMAIN <<x>> = {1} /\ <<x>>[1] = x
BY DEF Proper, ToSet

-----------------------------------------------------------------------------
(* One instant.                                                            *)

\* What reader r reads is of this instant.
Instant(r) == IF reader[r].data = Live THEN now ELSE shows[reader[r].data]
Reading(r) == reader[r].pc \in {"read", "wait"}
Drawing(r) == render.pc \in {"draw", "answer"} /\ render.of = r

ReaderRecord == [pc : {"idle", "lock", "read", "wait", "raised", "gone"},
                 data : Buffers \cup {Live}, left : Nat, seen : SUBSET Nat]
RequestRecord == [data : Buffers \cup {Live}, done : BOOLEAN, pixels : Nat, failed : BOOLEAN]

RenderTypes ==
  /\ now \in Nat /\ pool \subseteq Buffers /\ samples \in Seq(Buffers)
  /\ shows \in [Buffers -> Nat]
  /\ queue \in Seq(Readers \cup {EndMark}) /\ request \in [Readers -> RequestRecord]
  /\ render \in [pc : {"get", "draw", "answer", "ended"}, of : Readers]
  /\ reader \in [Readers -> ReaderRecord]

\* What is read stands still: the live data because the reader holds the lock, a buffer
\* because nobody fills it.
Still ==
  \A r \in Readers :
    IF Reading(r)
    THEN /\ reader[r].data = Live => lock = r
         /\ reader[r].data # Live =>
              r = Recorder /\ reader[r].data \notin pool /\ reader[r].data \notin ToSet(samples)
         /\ reader[r].seen = {Instant(r)}
    ELSE reader[r].seen = {} /\ reader[r].data = Live

\* Free and filled buffers are different ones.
Distinct ==
  /\ \A i, j \in DOMAIN samples : samples[i] = samples[j] => i = j
  /\ pool \cap ToSet(samples) = {}

\* A request is of what its reader reads, and is done when it shows it.
Asking ==
  \A r \in Readers : reader[r].pc = "wait" =>
    /\ request[r].data = reader[r].data
    /\ ~request[r].failed /\ (request[r].done \/ (render.pc = "answer" /\ render.of = r)) =>
         request[r].pixels = Instant(r)

\* A request is in the queue once, then drawn once, while its reader waits or has gone.
Queued ==
  /\ \A i, j \in DOMAIN queue : queue[i] = queue[j] /\ queue[i] \in Readers => i = j
  /\ \A r \in Readers : r \in ToSet(queue) \/ Drawing(r) =>
       reader[r].pc = "gone" \/ (reader[r].pc = "wait" /\ ~request[r].done)
  /\ \A r \in Readers : Drawing(r) => r \notin ToSet(queue)

RenderInv == RenderTypes /\ Still /\ Distinct /\ Asking /\ Queued

LEMMA AskedFor ==
  ASSUME RenderInv, NEW r \in Readers, reader[r].pc = "wait"
  PROVE  /\ request[r].data = reader[r].data
         /\ ~request[r].failed => (request[r].done => request[r].pixels = Instant(r))
         /\ ~request[r].failed => (render.pc = "answer" /\ render.of = r => request[r].pixels = Instant(r))
BY DEF RenderInv, Asking

LEMMA RenderInit == RenderingInit => RenderInv
<1>. SUFFICES ASSUME RenderingInit PROVE RenderInv
  OBVIOUS
<1>1. Recorder \in Readers /\ ToSet(<<>>) = {} /\ DOMAIN <<>> = {}
  BY EmptyProper DEF Readers
<1>2. RenderTypes
  BY <1>1 DEF RenderingInit, RenderTypes, Nothing, Resting, ReaderRecord, RequestRecord
<1>3. Still /\ Distinct /\ Asking /\ Queued
  BY <1>1 DEF RenderingInit, Still, Distinct, Asking, Queued, Resting, Reading, Drawing
<1>. QED BY <1>2, <1>3 DEF RenderInv

LEMMA RenderNew == NewProcess => RenderInv'
<1>. SUFFICES ASSUME NewProcess PROVE RenderInv'
  OBVIOUS
<1>1. Recorder \in Readers /\ ToSet(<<>>) = {} /\ DOMAIN <<>> = {}
  BY EmptyProper DEF Readers
<1>2. RenderTypes'
  BY <1>1 DEF NewProcess, RenderTypes, Nothing, Resting, ReaderRecord, RequestRecord
<1>3. (Still /\ Distinct /\ Asking /\ Queued)'
  BY <1>1 DEF NewProcess, Still, Distinct, Asking, Queued, Resting, Reading, Drawing
<1>. QED BY <1>2, <1>3 DEF RenderInv

\* The live data move on only when nobody holds them.
LEMMA RenderMoves ==
  ASSUME RenderInv, lock = NoOne, now' = now + 1,
         UNCHANGED <<lock, pool, samples, shows, queue, request, render, reader>>
  PROVE  RenderInv'
<1>1. \A r \in Readers : Reading(r) => reader[r].data # Live
  BY NoOneAssumption DEF RenderInv, Still, Readers
<1>2. \A r \in Readers : Reading(r) => Instant(r)' = Instant(r)
  BY <1>1 DEF Instant
<1>3. RenderTypes' /\ Distinct' /\ Queued'
  BY DEF RenderInv, RenderTypes, Distinct, Queued, Drawing
<1>4. Still'
  BY <1>2 DEF RenderInv, Still, Reading
<1>5. Asking'
  BY <1>2 DEF RenderInv, Asking, Reading
<1>. QED BY <1>3, <1>4, <1>5 DEF RenderInv

LEMMA RenderEmit == RenderInv /\ Emit => RenderInv'
<1>. SUFFICES ASSUME RenderInv, Emit PROVE RenderInv'
  OBVIOUS
<1>1. PICK b \in pool :
        /\ shows' = [shows EXCEPT ![b] = now] /\ pool' = pool \ {b} /\ samples' = Append(samples, b)
        /\ UNCHANGED <<now, lock, queue, request, render, reader>>
  BY DEF Emit, renderVars
<1>2. /\ b \in Buffers /\ samples \in Seq(Buffers) /\ Len(samples) \in Nat
      /\ samples' \in Seq(Buffers) /\ DOMAIN samples' = 1..(Len(samples) + 1)
      /\ DOMAIN samples = 1..Len(samples)
      /\ samples'[Len(samples) + 1] = b /\ \A i \in DOMAIN samples : samples'[i] = samples[i]
  BY <1>1 DEF RenderInv, RenderTypes
<1>3. ToSet(samples') = ToSet(samples) \cup {b}
  BY <1>2 DEF ToSet
<1>4. Distinct'
  <2>1. \A i \in DOMAIN samples : samples[i] # b
    BY <1>1 DEF RenderInv, Distinct, ToSet
  <2>2. \A i, j \in DOMAIN samples' : samples'[i] = samples'[j] => i = j
    BY <1>2, <2>1 DEF RenderInv, Distinct
  <2>3. pool' \cap ToSet(samples') = {}
    BY <1>1, <1>3 DEF RenderInv, Distinct
  <2>. QED BY <2>2, <2>3 DEF Distinct
<1>5. \A r \in Readers : Reading(r) => Instant(r)' = Instant(r)
  BY <1>1, <1>2 DEF RenderInv, RenderTypes, Still, Instant
<1>6. RenderTypes' /\ Queued'
  BY <1>1, <1>2 DEF RenderInv, RenderTypes, Queued, Drawing
<1>7. Still'
  BY <1>1, <1>3, <1>5 DEF RenderInv, Still, Reading
<1>8. Asking'
  BY <1>1, <1>5 DEF RenderInv, Asking, Reading
<1>. QED BY <1>4, <1>6, <1>7, <1>8 DEF RenderInv

\* A capture is opened, for nobody reads a buffer, or closed.
LEMMA RenderCapture ==
  ASSUME RenderInv, samples' = <<>>, pool' = {} \/ (pool' = Buffers /\ reader[Recorder].pc = "idle"),
         UNCHANGED <<now, lock, shows, queue, request, render, reader>>
  PROVE  RenderInv'
<1>1. ToSet(<<>>) = {} /\ DOMAIN <<>> = {}
  BY EmptyProper
<1>2. \A r \in Readers : Instant(r)' = Instant(r)
  BY DEF Instant
<1>3. RenderTypes' /\ Distinct' /\ Queued' /\ Asking'
  BY <1>1, <1>2 DEF RenderInv, RenderTypes, Distinct, Queued, Asking, Drawing
<1>4. Still'
  BY <1>1, <1>2 DEF RenderInv, Still, Reading
<1>. QED BY <1>3, <1>4 DEF RenderInv

\* What a step of reader r leaves to the others.
LEMMA Others ==
  ASSUME RenderTypes, NEW r \in Readers, NEW x, reader' = [reader EXCEPT ![r] = x],
         UNCHANGED <<now, shows>>
  PROVE  /\ reader'[r] = x
         /\ \A o \in Readers : o # r =>
              reader'[o] = reader[o] /\ (Reading(o)' <=> Reading(o)) /\ Instant(o)' = Instant(o)
BY DEF RenderTypes, Reading, Instant

\* Reader r begins, or ends: it reads nothing, before as after, or lets go what it read.
LEMMA RenderRests ==
  ASSUME RenderInv, NEW r \in Readers, NEW x \in ReaderRecord,
         x.pc \notin {"read", "wait"}, x.seen = {}, x.data = Live, reader' = [reader EXCEPT ![r] = x],
         request' = request \/ request' = [request EXCEPT ![r] = Nothing],
         r \in ToSet(queue) \/ Drawing(r) => x.pc = "gone",
         lock' = lock \/ (lock = r /\ lock' = NoOne),
         pool' \subseteq pool \cup (IF Reading(r) THEN {reader[r].data} \ {Live} ELSE {}),
         samples' = samples \/ samples' = <<>>, UNCHANGED <<now, shows, queue, render>>
  PROVE  RenderInv'
<1>1. ToSet(samples') \subseteq ToSet(samples)
  BY EmptyProper
<1>2. /\ reader' = [reader EXCEPT ![r] = x] /\ reader'[r] = x
      /\ \A o \in Readers : o # r =>
           reader'[o] = reader[o] /\ (Reading(o)' <=> Reading(o)) /\ Instant(o)' = Instant(o)
  BY Others DEF RenderInv
<1>3. ~Reading(r)' /\ reader'[r].seen = {} /\ reader'[r].data = Live /\ reader'[r].pc = x.pc
  BY <1>2 DEF Reading
<1>4. Nothing \in RequestRecord
  BY DEF Nothing, RequestRecord
<1>5. request' \in [Readers -> RequestRecord] /\ \A o \in Readers : o # r => request'[o] = request[o]
  BY <1>4 DEF RenderInv, RenderTypes
<1>6. pool' \subseteq Buffers
  BY DEF RenderInv, RenderTypes, ReaderRecord
<1>7. RenderTypes'
  <2>1. reader' \in [Readers -> ReaderRecord]
    BY <1>2 DEF RenderInv, RenderTypes
  <2>2. samples' \in Seq(Buffers)
    <3>1. <<>> \in Seq(Buffers)
      OBVIOUS
    <3>. QED BY <3>1 DEF RenderInv, RenderTypes
  <2>. QED BY <1>5, <1>6, <2>1, <2>2 DEF RenderInv, RenderTypes
<1>8. Distinct'
  BY <1>1, EmptyProper DEF RenderInv, Distinct, Still
<1>9. Asking'
  BY <1>2, <1>3, <1>5 DEF RenderInv, Asking, Reading
<1>10. Queued'
  BY <1>2, <1>3, <1>5 DEF RenderInv, Queued, Drawing
<1>11. ASSUME NEW o \in Readers, Reading(o)', reader'[o].data # Live
       PROVE  o = Recorder /\ reader'[o].data \notin pool' /\ reader'[o].data \notin ToSet(samples')
  <2>1. o # r /\ Reading(o) /\ reader'[o] = reader[o]
    BY <1>2, <1>3, <1>11
  <2>2. o = Recorder /\ reader[o].data \notin pool /\ reader[o].data \notin ToSet(samples)
    BY <1>11, <2>1 DEF RenderInv, Still
  <2>3. Reading(r) => reader[r].data = Live
    BY <2>1, <2>2 DEF RenderInv, Still
  <2>. QED BY <1>1, <2>1, <2>2, <2>3
<1>12. ASSUME NEW o \in Readers, Reading(o)', reader'[o].data = Live PROVE lock' = o
  <2>1. o # r /\ Reading(o) /\ reader'[o] = reader[o]
    BY <1>2, <1>3, <1>12
  <2>. QED BY <1>12, <2>1 DEF RenderInv, Still
<1>13. Still'
  <2>1. ASSUME NEW o \in Readers
        PROVE  IF Reading(o)' THEN reader'[o].seen = {Instant(o)'}
               ELSE reader'[o].seen = {} /\ reader'[o].data = Live
    BY <1>2, <1>3 DEF RenderInv, Still
  <2>. QED BY <1>11, <1>12, <2>1 DEF Still
<1>. QED BY <1>7, <1>8, <1>9, <1>10, <1>13 DEF RenderInv

LEMMA RenderCall == ASSUME RenderInv, NEW r \in Readers, Call(r) PROVE RenderInv'
<1>1. PICK n \in 0..Cameras :
        /\ reader[r].pc = "idle"
        /\ reader' = [reader EXCEPT ![r] = [Resting EXCEPT !.pc = "lock", !.left = n]]
        /\ UNCHANGED <<now, lock, pool, samples, shows, queue, request, render>>
  BY DEF Call, captureVars, renderVars
<1>. DEFINE x == [Resting EXCEPT !.pc = "lock", !.left = n]
<1>0. n \in Nat
  BY CamerasAssumption
<1>2. x \in ReaderRecord /\ x.pc \notin {"read", "wait"} /\ x.seen = {} /\ x.data = Live
  BY <1>0 DEF Resting, ReaderRecord
<1>3. ~(r \in ToSet(queue) \/ Drawing(r))
  BY <1>1 DEF RenderInv, Queued
<1>4. reader' = [reader EXCEPT ![r] = x]
  BY <1>1
<1>. HIDE DEF x
<1>. QED BY <1>1, <1>2, <1>3, <1>4, RenderRests

LEMMA RenderEnds ==
  ASSUME RenderInv, NEW r \in Readers, Failed(r) \/ GiveUp(r) \/ Finish(r) PROVE RenderInv'
<1>. DEFINE x(pc) == [Resting EXCEPT !.pc = pc]
<1>1. \A pc \in {"idle", "raised", "gone"} :
        x(pc) \in ReaderRecord /\ x(pc).pc = pc /\ x(pc).seen = {} /\ x(pc).data = Live
  BY DEF Resting, ReaderRecord
<1>2. Resting \in ReaderRecord /\ Resting.pc = "idle" /\ Resting.seen = {} /\ Resting.data = Live
  BY DEF Resting, ReaderRecord
<1>. HIDE DEF x
<1>3. CASE Failed(r)
  <2>1. PICK pc \in {"idle", "raised"} : reader' = [reader EXCEPT ![r] = x(pc)]
    <3>1. CASE r = Recorder
      BY <1>3, <3>1 DEF Failed, x
    <3>2. CASE r # Recorder
      BY <1>3, <3>2 DEF Failed, x
    <3>. QED BY <3>1, <3>2
  <2>2. /\ reader[r].pc = "wait" /\ request[r].done /\ request' = [request EXCEPT ![r] = Nothing]
        /\ lock' = lock \/ (lock = r /\ lock' = NoOne)
        /\ UNCHANGED <<now, pool, samples, shows, queue, render>>
    BY <1>3 DEF Failed, Release, captureVars
  <2>3. ~(r \in ToSet(queue) \/ Drawing(r))
    BY <2>2 DEF RenderInv, Queued
  <2>. QED BY <1>1, <2>1, <2>2, <2>3, RenderRests
<1>4. CASE GiveUp(r)
  <2>1. /\ reader' = [reader EXCEPT ![r] = x("gone")] /\ request' = [request EXCEPT ![r] = Nothing]
        /\ lock' = lock \/ (lock = r /\ lock' = NoOne)
        /\ UNCHANGED <<now, pool, samples, shows, queue, render>>
    BY <1>4 DEF GiveUp, Release, captureVars, x
  <2>. QED BY <1>1, <2>1, RenderRests
<1>5. CASE Finish(r)
  <2>1. /\ reader[r].pc = "read" /\ reader' = [reader EXCEPT ![r] = Resting]
        /\ lock' = lock \/ (lock = r /\ lock' = NoOne)
        /\ pool' \subseteq pool \cup (IF Reading(r) THEN {reader[r].data} \ {Live} ELSE {})
        /\ UNCHANGED <<now, samples, shows, queue, request, render>>
    BY <1>5 DEF Finish, Release, renderVars, Reading
  <2>2. ~(r \in ToSet(queue) \/ Drawing(r))
    BY <2>1 DEF RenderInv, Queued
  <2>. QED BY <1>2, <2>1, <2>2, RenderRests
<1>. QED BY <1>3, <1>4, <1>5

\* Reader r goes on: what it reads stays what it was, or is what it has just taken.
LEMMA RenderGoesOn ==
  ASSUME RenderInv, NEW r \in Readers, NEW x \in ReaderRecord,
         x.pc \in {"read", "wait"}, reader' = [reader EXCEPT ![r] = x],
         request' \in [Readers -> RequestRecord], \A o \in Readers : o # r => request'[o] = request[o],
         queue' \in Seq(Readers \cup {EndMark}),
         IF x.pc = "wait"
           THEN /\ request'[r].data = x.data /\ ~request'[r].done /\ queue' = Append(queue, r)
           ELSE queue' = queue,
         r \notin ToSet(queue) /\ ~Drawing(r),
         x.data = Live => lock' = r,
         x.data # Live => r = Recorder /\ x.data \notin pool /\ x.data \notin ToSet(samples'),
         x.seen = {IF x.data = Live THEN now ELSE shows[x.data]},
         lock \in Readers => lock' = lock,
         Distinct', samples' \in Seq(Buffers), ToSet(samples') \subseteq ToSet(samples),
         UNCHANGED <<now, pool, shows, render>>
  PROVE  RenderInv'
<1>1. /\ reader'[r] = x
      /\ \A o \in Readers : o # r =>
           reader'[o] = reader[o] /\ (Reading(o)' <=> Reading(o)) /\ Instant(o)' = Instant(o)
  BY Others DEF RenderInv
<1>2. RenderTypes'
  BY DEF RenderInv, RenderTypes
<1>3. Still'
  <2>1. ASSUME NEW o \in Readers, o # r, Reading(o)
        PROVE  /\ reader[o].data = Live => lock' = o
               /\ reader[o].data # Live =>
                    o = Recorder /\ reader[o].data \notin pool' /\ reader[o].data \notin ToSet(samples')
               /\ reader[o].seen = {Instant(o)}
    BY <2>1 DEF RenderInv, Still
  <2>2. ASSUME NEW o \in Readers, o # r, ~Reading(o) PROVE reader[o].seen = {} /\ reader[o].data = Live
    BY <2>2 DEF RenderInv, Still
  <2>3. Reading(r)' /\ Instant(r)' = IF x.data = Live THEN now ELSE shows[x.data]
    BY <1>1 DEF Reading, Instant
  <2>. QED BY <1>1, <2>1, <2>2, <2>3 DEF Still
<1>4. Asking'
  BY <1>1 DEF RenderInv, Asking, Drawing
<1>5. /\ ToSet(queue') \subseteq ToSet(queue) \cup {r}
      /\ r \in ToSet(queue') => x.pc = "wait"
      /\ \A i, j \in DOMAIN queue' : queue'[i] = queue'[j] /\ queue'[i] \in Readers => i = j
  <2>1. CASE x.pc = "wait"
    <3>1. /\ queue \in Seq(Readers \cup {EndMark}) /\ queue' = Append(queue, r) /\ Len(queue) \in Nat
          /\ DOMAIN queue' = 1..(Len(queue) + 1) /\ queue'[Len(queue) + 1] = r
          /\ DOMAIN queue = 1..Len(queue) /\ \A i \in DOMAIN queue : queue'[i] = queue[i]
      <4>. DEFINE S == Readers \cup {EndMark}
      <4>1. queue \in Seq(S) /\ r \in S
        BY DEF RenderInv, RenderTypes
      <4>. HIDE DEF S
      <4>2. /\ Append(queue, r) \in Seq(S) /\ Len(queue) \in Nat /\ DOMAIN queue = 1..Len(queue)
            /\ DOMAIN Append(queue, r) = 1..(Len(queue) + 1) /\ Append(queue, r)[Len(queue) + 1] = r
            /\ \A i \in 1..Len(queue) : Append(queue, r)[i] = queue[i]
        BY <4>1
      <4>. QED BY <2>1, <4>1, <4>2 DEF S
    <3>2. \A i \in DOMAIN queue : queue[i] # r
      BY DEF ToSet
    <3>. QED BY <2>1, <3>1, <3>2 DEF RenderInv, Queued, ToSet
  <2>2. CASE x.pc # "wait"
    BY <2>2 DEF RenderInv, Queued
  <2>. QED BY <2>1, <2>2
<1>6. Queued'
  <2>1. ASSUME NEW o \in Readers, o \in ToSet(queue') \/ Drawing(o)'
        PROVE  reader'[o].pc = "gone" \/ (reader'[o].pc = "wait" /\ ~request'[o].done)
    BY <1>1, <1>5, <2>1 DEF RenderInv, Queued, Drawing
  <2>2. ASSUME NEW o \in Readers, Drawing(o)' PROVE o \notin ToSet(queue')
    BY <1>5, <2>2 DEF RenderInv, Queued, Drawing
  <2>. QED BY <1>5, <2>1, <2>2 DEF Queued
<1>. QED BY <1>2, <1>3, <1>4, <1>6 DEF RenderInv

LEMMA RenderTakes == ASSUME RenderInv, NEW r \in Readers, TakeLock(r) PROVE RenderInv'
<1>. DEFINE x == [reader[r] EXCEPT !.pc = "read", !.seen = {now}]
<1>1. /\ reader[r].pc = "lock" /\ lock = NoOne /\ lock' = r
      /\ reader' = [reader EXCEPT ![r] = x]
      /\ UNCHANGED <<now, pool, samples, shows, queue, request, render>>
  BY DEF TakeLock, captureVars, renderVars
<1>2. reader[r] \in ReaderRecord /\ now \in Nat /\ lock \notin Readers
  BY <1>1, NoOneAssumption DEF RenderInv, RenderTypes, Readers
<1>3. x \in ReaderRecord /\ x.pc = "read" /\ x.seen = {now} /\ x.data = reader[r].data
  BY <1>2 DEF ReaderRecord
<1>5. x.data = Live
  BY <1>1, <1>3 DEF RenderInv, Still, Reading
<1>4. r \notin ToSet(queue) /\ ~Drawing(r)
  BY <1>1 DEF RenderInv, Queued
<1>. HIDE DEF x
<1>. QED BY <1>1, <1>2, <1>3, <1>4, <1>5, RenderGoesOn DEF RenderInv, RenderTypes, Distinct

LEMMA RenderFetch == ASSUME RenderInv, Fetch PROVE RenderInv'
<1>. DEFINE b == Head(samples)
<1>1. PICK n \in 0..Cameras :
        /\ reader[Recorder].pc = "idle" /\ samples # <<>> /\ samples' = Tail(samples)
        /\ reader' = [reader EXCEPT ![Recorder] =
                         [pc |-> "read", data |-> b, left |-> n, seen |-> {shows[b]}]]
        /\ UNCHANGED <<now, lock, pool, shows, queue, request, render>>
  BY DEF Fetch, renderVars
<1>. DEFINE x == [pc |-> "read", data |-> b, left |-> n, seen |-> {shows[b]}]
<1>2. /\ b \in Buffers /\ Tail(samples) \in Seq(Buffers) /\ Len(samples) \in Nat \ {0}
      /\ DOMAIN samples = 1..Len(samples) /\ DOMAIN Tail(samples) = 1..(Len(samples) - 1)
      /\ b = samples[1] /\ \A i \in DOMAIN Tail(samples) : Tail(samples)[i] = samples[i + 1]
  BY <1>1 DEF RenderInv, RenderTypes
<1>3. shows[b] \in Nat /\ n \in Nat /\ Recorder \in Readers /\ b # Live
  BY <1>2, CamerasAssumption, DataAssumption DEF RenderInv, RenderTypes, Readers
<1>4. /\ x \in ReaderRecord /\ x.pc = "read" /\ x.data = b /\ x.seen = {shows[b]}
      /\ reader' = [reader EXCEPT ![Recorder] = x]
  BY <1>1, <1>2, <1>3 DEF ReaderRecord
<1>5. Recorder \notin ToSet(queue) /\ ~Drawing(Recorder)
  BY <1>1, <1>3 DEF RenderInv, Queued
<1>6. /\ ToSet(samples') \subseteq ToSet(samples) /\ b \in ToSet(samples) /\ b \notin ToSet(samples')
      /\ \A i, j \in DOMAIN samples' : samples'[i] = samples'[j] => i = j
  BY <1>1, <1>2 DEF RenderInv, Distinct, ToSet
<1>7. Distinct' /\ b \notin pool
  BY <1>1, <1>6 DEF RenderInv, Distinct
<1>. HIDE DEF x, b
<1>8. /\ request' \in [Readers -> RequestRecord] /\ request' = request /\ queue' = queue
      /\ queue' \in Seq(Readers \cup {EndMark})
      /\ samples' \in Seq(Buffers) /\ x.data # Live /\ x.pc # "wait"
      /\ x.seen = {IF x.data = Live THEN now ELSE shows[x.data]}
      /\ x.data \notin pool /\ x.data \notin ToSet(samples')
  BY <1>1, <1>2, <1>3, <1>4, <1>6, <1>7 DEF RenderInv, RenderTypes
<1>. QED BY <1>1, <1>3, <1>4, <1>5, <1>6, <1>7, <1>8, RenderGoesOn

LEMMA RenderAsk == ASSUME RenderInv, NEW r \in Readers, Ask(r) PROVE RenderInv'
<1>. DEFINE x == [reader[r] EXCEPT !.pc = "wait", !.left = @ - 1]
            y == [Nothing EXCEPT !.data = reader[r].data]
<1>1. /\ reader[r].pc = "read" /\ reader[r].left > 0
      /\ reader' = [reader EXCEPT ![r] = x] /\ request' = [request EXCEPT ![r] = y]
      /\ queue' = Append(queue, r) /\ UNCHANGED <<now, lock, pool, samples, shows, render>>
  BY DEF Ask, captureVars
<1>2. reader[r] \in ReaderRecord
  BY DEF RenderInv, RenderTypes
<1>3. /\ x \in ReaderRecord /\ x.pc = "wait" /\ x.seen = reader[r].seen /\ x.data = reader[r].data
      /\ y \in RequestRecord /\ y.data = x.data /\ ~y.done
  <2>1. reader[r].left - 1 \in Nat /\ reader[r].data \in Buffers \cup {Live}
    BY <1>1, <1>2 DEF ReaderRecord
  <2>2. x \in ReaderRecord /\ x.pc = "wait" /\ x.seen = reader[r].seen /\ x.data = reader[r].data
    BY <1>2, <2>1 DEF ReaderRecord
  <2>3. y \in RequestRecord /\ y.data = reader[r].data /\ ~y.done
    BY <2>1 DEF RequestRecord, Nothing
  <2>. QED BY <2>2, <2>3
<1>4. r \notin ToSet(queue) /\ ~Drawing(r)
  BY <1>1 DEF RenderInv, Queued
<1>5. /\ Reading(r) /\ x.seen = {IF x.data = Live THEN now ELSE shows[x.data]}
      /\ x.data = Live => lock = r
      /\ x.data # Live => r = Recorder /\ x.data \notin pool /\ x.data \notin ToSet(samples)
  BY <1>1, <1>3 DEF RenderInv, Still, Reading, Instant
<1>. HIDE DEF x, y
<1>6. request' \in [Readers -> RequestRecord] /\ request'[r] = y
  BY <1>1, <1>3 DEF RenderInv, RenderTypes
<1>7. queue' \in Seq(Readers \cup {EndMark})
  <2>. DEFINE S == Readers \cup {EndMark}
  <2>1. queue \in Seq(S) /\ r \in S
    BY DEF RenderInv, RenderTypes
  <2>. HIDE DEF S
  <2>2. Append(queue, r) \in Seq(S)
    BY <2>1
  <2>. QED BY <1>1, <2>2 DEF S
<1>8. Distinct' /\ samples' \in Seq(Buffers)
  BY <1>1 DEF RenderInv, RenderTypes, Distinct
<1>. QED BY <1>1, <1>3, <1>4, <1>5, <1>6, <1>7, <1>8, RenderGoesOn

\* An image shows what was read before.
LEMMA RenderAnswered == ASSUME RenderInv, NEW r \in Readers, Answered(r) PROVE RenderInv'
<1>. DEFINE x == [reader[r] EXCEPT !.pc = "read", !.seen = @ \cup {request[r].pixels}]
<1>1. /\ reader[r].pc = "wait" /\ request[r].done /\ ~request[r].failed
      /\ reader' = [reader EXCEPT ![r] = x] /\ request' = [request EXCEPT ![r] = Nothing]
      /\ UNCHANGED <<now, lock, pool, samples, shows, queue, render>>
  BY DEF Answered, captureVars
<1>2. /\ reader[r] \in ReaderRecord /\ Reading(r) /\ reader[r].seen = {Instant(r)}
      /\ request[r].pixels = Instant(r) /\ request[r].pixels \in Nat
  <2>1. request[r] \in RequestRecord /\ reader[r] \in ReaderRecord
    BY DEF RenderInv, RenderTypes
  <2>2. Reading(r) /\ reader[r].seen = {Instant(r)}
    BY <1>1 DEF RenderInv, Still, Reading
  <2>3. request[r].pixels = Instant(r)
    BY <1>1, AskedFor
  <2>. QED BY <2>1, <2>2, <2>3 DEF RequestRecord
<1>3. /\ x \in ReaderRecord /\ x.pc = "read" /\ x.seen = {Instant(r)} /\ x.data = reader[r].data
      /\ Nothing \in RequestRecord
  BY <1>2 DEF ReaderRecord, RequestRecord, Nothing
<1>4. r \notin ToSet(queue) /\ ~Drawing(r)
  BY <1>1 DEF RenderInv, Queued
<1>5. /\ x.seen = {IF x.data = Live THEN now ELSE shows[x.data]}
      /\ x.data = Live => lock = r
      /\ x.data # Live => r = Recorder /\ x.data \notin pool /\ x.data \notin ToSet(samples)
  BY <1>2, <1>3 DEF RenderInv, Still, Instant
<1>. HIDE DEF x
<1>6. request' \in [Readers -> RequestRecord]
  BY <1>1, <1>3 DEF RenderInv, RenderTypes
<1>7. Distinct' /\ samples' \in Seq(Buffers) /\ queue' \in Seq(Readers \cup {EndMark})
  BY <1>1 DEF RenderInv, RenderTypes, Distinct
<1>. QED BY <1>1, <1>3, <1>4, <1>5, <1>6, <1>7, RenderGoesOn

\* The render thread takes what it is asked for.
LEMMA RenderGets == RenderInv /\ RenderGet => RenderInv'
<1>. SUFFICES ASSUME RenderInv, RenderGet PROVE RenderInv'
  OBVIOUS
<1>1. /\ render.pc = "get" /\ queue # <<>> /\ queue' = Tail(queue)
      /\ render' = IF Head(queue) = EndMark THEN [render EXCEPT !.pc = "ended"]
                   ELSE [pc |-> "draw", of |-> Head(queue)]
      /\ UNCHANGED <<now, lock, pool, samples, shows, request, reader>>
  BY DEF RenderGet, captureVars
<1>2. /\ Head(queue) \in Readers \cup {EndMark} /\ Head(queue) \in ToSet(queue) /\ Head(queue) = queue[1]
      /\ Tail(queue) \in Seq(Readers \cup {EndMark}) /\ ToSet(Tail(queue)) \subseteq ToSet(queue)
      /\ Len(queue) \in Nat \ {0} /\ DOMAIN queue = 1..Len(queue) /\ DOMAIN Tail(queue) = 1..(Len(queue) - 1)
      /\ \A i \in DOMAIN Tail(queue) : Tail(queue)[i] = queue[i + 1]
  <2>. DEFINE S == Readers \cup {EndMark}
  <2>1. queue \in Seq(S) /\ queue # <<>>
    BY <1>1 DEF RenderInv, RenderTypes
  <2>. HIDE DEF S
  <2>2. /\ Head(queue) \in S /\ Head(queue) = queue[1] /\ Tail(queue) \in Seq(S)
        /\ Len(queue) \in Nat \ {0} /\ DOMAIN queue = 1..Len(queue)
        /\ DOMAIN Tail(queue) = 1..(Len(queue) - 1)
        /\ \A i \in DOMAIN Tail(queue) : Tail(queue)[i] = queue[i + 1]
    BY <2>1
  <2>3. Head(queue) \in ToSet(queue) /\ ToSet(Tail(queue)) \subseteq ToSet(queue)
    BY <2>2 DEF ToSet
  <2>. QED BY <2>2, <2>3 DEF S
<1>3. \A i, j \in DOMAIN queue' : queue'[i] = queue'[j] /\ queue'[i] \in Readers => i = j
  BY <1>1, <1>2 DEF RenderInv, Queued
<1>4. /\ render' \in [pc : {"get", "draw", "answer", "ended"}, of : Readers]
      /\ render'.pc \in {"draw", "ended"}
      /\ render'.pc = "draw" => render'.of = Head(queue)
  BY <1>1, <1>2 DEF RenderInv, RenderTypes
<1>5. RenderTypes' /\ Distinct' /\ Still'
  BY <1>1, <1>2, <1>4 DEF RenderInv, RenderTypes, Distinct, Still, Reading, Instant
<1>6. Asking'
  <2>1. \A r \in Readers : Instant(r)' = Instant(r)
    BY <1>1 DEF Instant
  <2>2. render'.pc # "answer"
    BY <1>4
  <2>3. ASSUME NEW r \in Readers, reader[r].pc = "wait"
        PROVE  /\ request[r].data = reader[r].data
               /\ ~request[r].failed /\ request[r].done => request[r].pixels = Instant(r)
    BY <2>3, AskedFor
  <2>. QED BY <1>1, <2>1, <2>2, <2>3 DEF Asking
<1>7. Queued'
  <2>1. ASSUME NEW r \in Readers, r \in ToSet(queue') \/ Drawing(r)'
        PROVE  reader[r].pc = "gone" \/ (reader[r].pc = "wait" /\ ~request[r].done)
    BY <1>1, <1>2, <1>4, <2>1 DEF RenderInv, Queued, Drawing
  <2>2. ASSUME NEW r \in Readers, Drawing(r)' PROVE r \notin ToSet(queue')
    <3>1. r = queue[1]
      BY <1>2, <1>4, <2>2 DEF Drawing
    <3>2. \A i \in DOMAIN queue' : queue'[i] # r
      BY <1>1, <1>2, <3>1 DEF RenderInv, Queued
    <3>. QED BY <3>2 DEF ToSet
  <2>. QED BY <1>1, <1>3, <2>1, <2>2 DEF Queued
<1>. QED BY <1>5, <1>6, <1>7 DEF RenderInv

\* It draws what stands still, and says so.
LEMMA RenderDraws == RenderInv /\ (RenderDraw \/ RenderAnswer) => RenderInv'
<1>. SUFFICES ASSUME RenderInv, RenderDraw \/ RenderAnswer PROVE RenderInv'
  OBVIOUS
<1>. DEFINE of == render.of
<1>1. UNCHANGED <<now, lock, pool, samples, shows, queue, reader>>
  BY DEF RenderDraw, RenderAnswer, captureVars
<1>2. /\ Drawing(of) /\ of \in Readers /\ of \notin ToSet(queue)
      /\ request[of] \in RequestRecord /\ reader[of] \in ReaderRecord
  BY DEF RenderInv, RenderTypes, RenderDraw, RenderAnswer, Drawing, Queued
<1>3. Asked => /\ ~request[of].done /\ request[of].data = reader[of].data /\ Instant(of) \in Nat
               /\ (render.pc = "answer" /\ ~request[of].failed => request[of].pixels = Instant(of))
  BY <1>2 DEF Asked, RenderInv, RenderTypes, ReaderRecord, Asking, Queued, Instant
<1>4. /\ request' \in [Readers -> RequestRecord]
      /\ \A o \in Readers : o # of => request'[o] = request[o]
      /\ render' \in [pc : {"get", "draw", "answer", "ended"}, of : Readers]
      /\ ~Asked => request' = request
      /\ Asked => /\ request'[of].data = request[of].data
                  /\ ~request'[of].failed => request'[of].pixels = Instant(of)
      /\ \/ render'.pc = "answer" /\ render'.of = of /\ (Asked => ~request'[of].done)
         \/ render'.pc = "get"
  <2>1. CASE RenderDraw
    <3>1. /\ render' = [render EXCEPT !.pc = "answer"]
          /\ request' \in IF ~Asked THEN {request} ELSE
                           {[request EXCEPT ![of].pixels = Instant(of)],
                            [request EXCEPT ![of].failed = TRUE]}
      BY <1>3, <2>1 DEF RenderDraw, Instant
    <3>2. render' \in [pc : {"get", "draw", "answer", "ended"}, of : Readers]
          /\ render'.pc = "answer" /\ render'.of = of
      BY <3>1 DEF RenderInv, RenderTypes
    <3>3. CASE ~Asked
      BY <3>1, <3>2, <3>3 DEF RenderInv, RenderTypes
    <3>4. CASE Asked /\ request' = [request EXCEPT ![of].pixels = Instant(of)]
      <4>1. request'[of] = [request[of] EXCEPT !.pixels = Instant(of)]
        BY <1>2, <3>4 DEF RenderInv, RenderTypes
      <4>2. /\ request'[of] \in RequestRecord /\ request'[of].data = request[of].data
            /\ request'[of].pixels = Instant(of) /\ request'[of].done = request[of].done
        BY <1>2, <1>3, <3>4, <4>1 DEF RequestRecord
      <4>. QED BY <1>2, <1>3, <3>2, <3>4, <4>2 DEF RenderInv, RenderTypes
    <3>5. CASE Asked /\ request' = [request EXCEPT ![of].failed = TRUE]
      <4>1. request'[of] = [request[of] EXCEPT !.failed = TRUE]
        BY <1>2, <3>5 DEF RenderInv, RenderTypes
      <4>2. /\ request'[of] \in RequestRecord /\ request'[of].data = request[of].data
            /\ request'[of].failed /\ request'[of].done = request[of].done
        BY <1>2, <4>1 DEF RequestRecord
      <4>. QED BY <1>2, <1>3, <3>2, <3>5, <4>2 DEF RenderInv, RenderTypes
    <3>. QED BY <3>1, <3>3, <3>4, <3>5
  <2>2. CASE RenderAnswer
    <3>1. /\ render.pc = "answer" /\ render' = [pc |-> "get", of |-> Recorder]
          /\ request' = IF Asked THEN [request EXCEPT ![of].done = TRUE] ELSE request
      BY <2>2 DEF RenderAnswer
    <3>2. render' \in [pc : {"get", "draw", "answer", "ended"}, of : Readers] /\ render'.pc = "get"
      BY <3>1 DEF Readers
    <3>3. CASE ~Asked
      BY <3>1, <3>2, <3>3 DEF RenderInv, RenderTypes
    <3>4. CASE Asked
      <4>1. request'[of] = [request[of] EXCEPT !.done = TRUE]
        BY <1>2, <3>1, <3>4 DEF RenderInv, RenderTypes
      <4>2. /\ request'[of] \in RequestRecord /\ request'[of].data = request[of].data
            /\ request'[of].failed = request[of].failed /\ request'[of].pixels = request[of].pixels
        BY <1>2, <4>1 DEF RequestRecord
      <4>. QED BY <1>2, <1>3, <3>1, <3>2, <3>4, <4>2 DEF RenderInv, RenderTypes
    <3>. QED BY <3>3, <3>4
  <2>. QED BY <2>1, <2>2
<1>. HIDE DEF of
<1>5. RenderTypes' /\ Distinct' /\ Still'
  BY <1>1, <1>4 DEF RenderInv, RenderTypes, Distinct, Still, Reading, Instant
<1>6. Asking'
  <2>1. ASSUME NEW r \in Readers, reader[r].pc = "wait"
        PROVE  /\ request'[r].data = reader[r].data
               /\ ~request'[r].failed /\ (request'[r].done \/ (render'.pc = "answer" /\ render'.of = r)) =>
                    request'[r].pixels = Instant(r)
    <3>1. CASE r = of
      BY <1>3, <1>4, <2>1, <3>1 DEF Asked, of
    <3>2. CASE r # of
      <4>1. request'[r] = request[r] /\ ~(render'.pc = "answer" /\ render'.of = r)
        BY <1>4, <3>2
      <4>. QED BY <2>1, <4>1, AskedFor
    <3>. QED BY <3>1, <3>2
  <2>2. \A r \in Readers : Instant(r)' = Instant(r)
    BY <1>1 DEF Instant
  <2>. QED BY <1>1, <2>1, <2>2 DEF Asking
<1>7. Queued'
  <2>1. ASSUME NEW r \in Readers, r \in ToSet(queue) \/ Drawing(r)'
        PROVE  reader[r].pc = "gone" \/ (reader[r].pc = "wait" /\ ~request'[r].done)
    <3>1. CASE r = of
      BY <1>2, <1>4, <2>1, <3>1 DEF RenderInv, Queued, Drawing, Asked, of
    <3>2. CASE r # of
      BY <1>4, <2>1, <3>2 DEF RenderInv, Queued, Drawing
    <3>. QED BY <3>1, <3>2
  <2>2. ASSUME NEW r \in Readers, Drawing(r)' PROVE r \notin ToSet(queue)
    BY <1>2, <1>4, <2>2 DEF Drawing
  <2>. QED BY <1>1, <2>1, <2>2 DEF RenderInv, Queued
<1>. QED BY <1>5, <1>6, <1>7 DEF RenderInv

\* A shutdown ends what waits, and asks for nothing.
LEMMA RenderShuts == RenderInv /\ Shutdown => RenderInv'
<1>. SUFFICES ASSUME RenderInv, Shutdown PROVE RenderInv'
  OBVIOUS
<1>1. CASE ShutBegin \/ ShutViewer
  <2>1. UNCHANGED <<now, lock, pool, samples, shows, queue, request, render, reader>>
    BY <1>1 DEF ShutBegin, ShutViewer, captureVars, renderVars
  <2>. QED BY <2>1 DEF RenderInv, RenderTypes, Still, Distinct, Asking, Queued, Reading, Drawing, Instant
<1>2. CASE ShutCapture
  BY <1>2, RenderCapture DEF ShutCapture, renderVars
<1>3. CASE ShutMark
  <2>1. queue' = Append(queue, EndMark)
        /\ UNCHANGED <<now, lock, pool, samples, shows, request, render, reader>>
    BY <1>3 DEF ShutMark, captureVars
  <2>2. /\ queue' \in Seq(Readers \cup {EndMark}) /\ ToSet(queue') \subseteq ToSet(queue) \cup {EndMark}
        /\ \A i, j \in DOMAIN queue' : queue'[i] = queue'[j] /\ queue'[i] \in Readers => i = j
    <3>. DEFINE S == Readers \cup {EndMark}
    <3>1. queue \in Seq(S) /\ EndMark \in S
      BY DEF RenderInv, RenderTypes
    <3>. HIDE DEF S
    <3>2. /\ queue' \in Seq(S) /\ Len(queue) \in Nat /\ DOMAIN queue = 1..Len(queue)
          /\ DOMAIN queue' = 1..(Len(queue) + 1) /\ queue'[Len(queue) + 1] = EndMark
          /\ \A i \in DOMAIN queue : queue'[i] = queue[i]
      BY <2>1, <3>1
    <3>3. ToSet(queue') \subseteq ToSet(queue) \cup {EndMark}
      BY <3>2 DEF ToSet
    <3>. QED BY <3>2, <3>3, DataAssumption DEF RenderInv, Queued, S
  <2>3. RenderTypes' /\ Still' /\ Distinct' /\ Asking'
    BY <2>1, <2>2 DEF RenderInv, RenderTypes, Still, Distinct, Asking, Reading, Instant
  <2>4. Queued'
    BY <2>1, <2>2, DataAssumption DEF RenderInv, Queued, Drawing
  <2>. QED BY <2>3, <2>4 DEF RenderInv
<1>. QED BY <1>1, <1>2, <1>3 DEF Shutdown

\* The recorder's thread is told of what failed.
LEMMA RenderTold ==
  ASSUME RenderInv, reader[Recorder].pc \in {"raised", "gone"},
         reader' = [reader EXCEPT ![Recorder].pc = IF @ = "raised" THEN "idle" ELSE @],
         UNCHANGED <<pool, samples>> \/ (pool' = {} /\ samples' = <<>>),
         UNCHANGED <<now, lock, shows, queue, request, render>>
  PROVE  RenderInv'
<1>. DEFINE x == [reader[Recorder] EXCEPT !.pc = IF @ = "raised" THEN "idle" ELSE @]
<1>1. Recorder \in Readers /\ reader[Recorder] \in ReaderRecord
  BY DEF RenderInv, RenderTypes, Readers
<1>2. /\ x \in ReaderRecord /\ x.pc \notin {"read", "wait"} /\ x.seen = reader[Recorder].seen
      /\ x.data = reader[Recorder].data
      /\ reader[Recorder].pc = "gone" => x.pc = "gone"
  BY <1>1 DEF ReaderRecord
<1>3. reader' = [reader EXCEPT ![Recorder] = x]
  BY <1>1
<1>4. x.seen = {} /\ x.data = Live
  BY <1>1, <1>2 DEF RenderInv, Still, Reading
<1>5. Recorder \in ToSet(queue) \/ Drawing(Recorder) => x.pc = "gone"
  BY <1>1, <1>2 DEF RenderInv, Queued
<1>. HIDE DEF x
<1>6. pool' \subseteq pool
  OBVIOUS
<1>. QED BY <1>1, <1>2, <1>3, <1>4, <1>5, <1>6, RenderRests

-----------------------------------------------------------------------------
(* The steps of the whole, as Rendering sees them.                         *)

RenderingUnchanged == UNCHANGED renderingVars

LEMMA RenderSame == RenderInv /\ RenderingUnchanged => RenderInv'
BY DEF RenderingUnchanged, renderingVars, captureVars, renderVars, shutVars, RenderInv, RenderTypes,
       Still, Distinct, Asking, Queued, Reading, Drawing, Instant

LEMMA RenderNext == RenderInv /\ Next => RenderInv'
<1>. SUFFICES ASSUME RenderInv, Next PROVE RenderInv'
  OBVIOUS
<1>. USE DEF Readers
<1>1. CASE RenderingAlone
  <2>1. CASE Render \/ ShutGoesOn \/ ShutBegin
    BY <2>1, RenderGets, RenderDraws, RenderShuts DEF Render, ShutGoesOn, Shutdown
  <2>2. CASE \E c \in Clients : Call(c) \/ Finish(c)
    BY <2>2, RenderCall, RenderEnds
  <2>3. CASE \E r \in Readers : TakeLock(r) \/ Ask(r) \/ Answered(r) \/ Failed(r) \/ GiveUp(r)
    BY <2>3, RenderTakes, RenderAsk, RenderAnswered, RenderEnds
  <2>. QED BY <1>1, <2>1, <2>2, <2>3 DEF RenderingAlone
<1>2. CASE WorldStep \/ Command \/ ReplaySend
  <2>1. CASE Step \/ Disturb
    BY <2>1, RenderMoves DEF Step, Disturb, captureVars, renderVars
  <2>2. CASE RenderingUnchanged
    BY <2>2, RenderSame
  <2>. QED BY <1>2, <2>1, <2>2 DEF WorldStep, Command, ReplaySend, RenderingUnchanged
<1>3. CASE EmitSample
  BY <1>3, RenderEmit DEF EmitSample
<1>4. CASE Restart
  BY <1>4, RenderNew DEF Restart
<1>5. CASE PlanReads \/ PlanRead \/ SampleDone
  BY <1>5, RenderCall, RenderEnds DEF PlanReads, PlanRead, SampleDone
<1>6. CASE PlanRaised \/ SampleRaised
  BY <1>6, RenderTold DEF PlanRaised, SampleRaised, captureVars, renderVars
<1>7. CASE Sampling
  BY <1>7, RenderCapture DEF Sampling, OpenCapture, renderVars
<1>8. CASE FetchSample
  BY <1>8, RenderFetch DEF FetchSample
<1>9. CASE EpisodeEnd
  <2>1. CASE CloseCapture
    BY <2>1, RenderCapture DEF CloseCapture, renderVars
  <2>2. CASE RenderingUnchanged
    BY <2>2, RenderSame
  <2>. QED BY <1>9, <2>1, <2>2 DEF EpisodeEnd, RenderingUnchanged
<1>10. CASE \/ OffersChange \/ EpisodeStart \/ PlanCommand \/ Plan \/ SampleState \/ SampleCommand
            \/ SampleSensors \/ EpisodeEnded \/ EpisodeReplay \/ LoadPolicy \/ Observe
  <2>1. RenderingUnchanged
    BY <1>10 DEF OffersChange, EpisodeStart, PlanCommand, Plan, SampleState, SampleCommand, SampleSensors,
                 EpisodeEnded, EpisodeReplay, LoadPolicy, Observe, Alone, RenderingUnchanged
  <2>. QED BY <2>1, RenderSame
<1>. QED BY <1>1, <1>2, <1>3, <1>4, <1>5, <1>6, <1>7, <1>8, <1>9, <1>10 DEF Next, Record

\* While a reader reads, what it reads stands still, and a request for an image is of what
\* its reader reads and is answered once: RenderInv is an invariant of all the threads that
\* read, render, fill and fetch.
THEOREM Renders == Spec => []RenderInv
<1>1. EpisodeInit => RenderInv
  BY RenderInit DEF EpisodeInit
<1>2. RenderInv /\ [Next]_episodeVars => RenderInv'
  BY RenderNext, RenderSame DEF episodeVars, RenderingUnchanged
<1>. QED BY <1>1, <1>2, PTL DEF Spec

\* Everything in a reading is of one instant, images included, although its caller and the
\* render thread put it together while the world waits to move on: with any number of
\* clients, cameras and buffers, failures, captures that end and a shutdown.
THEOREM ReadingsOfOneInstant == Spec => []OneInstant
<1>1. RenderInv => OneInstant
  <2>1. ASSUME RenderInv, NEW r \in Readers PROVE Cardinality(reader[r].seen) <= 1
    <3>1. reader[r].seen = {} \/ reader[r].seen = {Instant(r)}
      BY <2>1 DEF RenderInv, Still
    <3>2. Cardinality({}) = 0 /\ Cardinality({Instant(r)}) = 1
      BY FS_EmptySet, FS_Singleton
    <3>. QED BY <3>1, <3>2
  <2>. QED BY <2>1 DEF OneInstant
<1>. QED BY <1>1, Renders, PTL

-----------------------------------------------------------------------------
(* Nobody waits for nothing.                                               *)

\* Whoever keeps the lock across steps is reading.
Kept == \A r \in Readers : lock = r => Reading(r)

\* Whoever waits has its answer, or its request has not been answered yet.
Served == \A r \in Readers : reader[r].pc = "wait" =>
  request[r].done \/ r \in ToSet(queue) \/ Drawing(r)

\* The render thread ends because the backend stops, which whoever waits finds out.
Ending == shut # "no" \/ EndMark \in ToSet(queue) \/ render.pc = "ended" => stopping

WaitInv == Kept /\ Served /\ Ending

LEMMA WaitSame ==
  ASSUME WaitInv, UNCHANGED <<lock, queue, request, render, reader>>,
         stopping' \/ UNCHANGED shutVars
  PROVE  WaitInv'
BY DEF WaitInv, Kept, Served, Ending, Reading, Drawing, shutVars

\* A step of one reader: it waits only for what it has asked for, and takes the lock to read.
LEMMA WaitReader ==
  ASSUME WaitInv, NEW r \in Readers,
         \A q \in Readers : q # r => reader'[q] = reader[q] /\ request'[q] = request[q],
         reader'[r].pc = "wait" => r \in ToSet(queue'),
         ToSet(queue') = ToSet(queue) \/ ToSet(queue') = ToSet(queue) \cup {r},
         \/ lock' = lock /\ (Reading(r) => Reading(r)')
         \/ lock' # r /\ lock' \in {lock, NoOne}
         \/ lock' = r /\ Reading(r)',
         UNCHANGED <<render, shutVars>>
  PROVE  WaitInv'
<1>1. NoOne \notin Readers /\ EndMark \notin Readers
  BY NoOneAssumption, DataAssumption DEF Readers
<1>2. Kept'
  BY <1>1 DEF WaitInv, Kept, Reading
<1>3. Served'
  BY DEF WaitInv, Served, Drawing
<1>4. Ending'
  BY <1>1 DEF WaitInv, Ending, shutVars
<1>. QED BY <1>2, <1>3, <1>4 DEF WaitInv

LEMMA WaitReads ==
  ASSUME RenderInv, WaitInv, NEW r \in Readers,
         Call(r) \/ TakeLock(r) \/ Answered(r) \/ Failed(r) \/ GiveUp(r) \/ Finish(r)
  PROVE  WaitInv'
<1>1. /\ reader \in [Readers -> ReaderRecord] /\ request \in [Readers -> RequestRecord]
      /\ NoOne # r
  BY NoOneAssumption DEF RenderInv, RenderTypes, Readers
<1>2. UNCHANGED <<queue, render, shutVars>>
  BY DEF Call, TakeLock, Answered, Failed, GiveUp, Finish, renderVars
<1>3. \A q \in Readers : q # r => reader'[q] = reader[q] /\ request'[q] = request[q]
  <2>1. CASE Call(r)
    BY <1>1, <2>1 DEF Call, renderVars
  <2>2. CASE TakeLock(r)
    BY <1>1, <2>2 DEF TakeLock, renderVars
  <2>3. CASE Answered(r) \/ Failed(r) \/ GiveUp(r)
    BY <1>1, <2>3 DEF Answered, Failed, GiveUp
  <2>4. CASE Finish(r)
    BY <1>1, <2>4 DEF Finish, renderVars
  <2>. QED BY <2>1, <2>2, <2>3, <2>4
<1>4. reader'[r].pc # "wait"
  <2>1. CASE Call(r)
    BY <1>1, <2>1 DEF Call, Resting
  <2>2. CASE TakeLock(r) \/ Answered(r)
    BY <1>1, <2>2 DEF TakeLock, Answered, ReaderRecord
  <2>3. CASE Failed(r) \/ GiveUp(r)
    BY <1>1, <2>3 DEF Failed, GiveUp, Resting
  <2>4. CASE Finish(r)
    BY <1>1, <2>4 DEF Finish, Resting
  <2>. QED BY <2>1, <2>2, <2>3, <2>4
<1>5. \/ lock' = lock /\ (Reading(r) => Reading(r)')
      \/ lock' # r /\ lock' \in {lock, NoOne}
      \/ lock' = r /\ Reading(r)'
  <2>1. CASE Call(r)
    BY <2>1 DEF Call, Reading
  <2>2. CASE TakeLock(r) \/ Answered(r)
    BY <1>1, <2>2 DEF TakeLock, Answered, Reading, ReaderRecord
  <2>3. CASE Failed(r) \/ GiveUp(r) \/ Finish(r)
    BY <1>1, <2>3 DEF Failed, GiveUp, Finish, Release
  <2>. QED BY <2>1, <2>2, <2>3
<1>. QED BY <1>2, <1>3, <1>4, <1>5, WaitReader

LEMMA QueueGrows ==
  ASSUME RenderInv, NEW x \in Readers \cup {EndMark}
  PROVE  ToSet(Append(queue, x)) = ToSet(queue) \cup {x}
<1>. DEFINE S == Readers \cup {EndMark}
<1>1. queue \in Seq(S) /\ x \in S
  BY DEF RenderInv, RenderTypes
<1>. HIDE DEF S
<1>2. /\ Len(queue) \in Nat /\ DOMAIN queue = 1..Len(queue)
      /\ DOMAIN Append(queue, x) = 1..(Len(queue) + 1) /\ Append(queue, x)[Len(queue) + 1] = x
      /\ \A i \in DOMAIN queue : Append(queue, x)[i] = queue[i]
  BY <1>1
<1>3. 1..(Len(queue) + 1) = DOMAIN queue \cup {Len(queue) + 1}
  BY <1>2
<1>. QED BY <1>2, <1>3 DEF ToSet

LEMMA WaitAsk == ASSUME RenderInv, WaitInv, NEW r \in Readers, Ask(r) PROVE WaitInv'
<1>1. /\ reader \in [Readers -> ReaderRecord] /\ request \in [Readers -> RequestRecord]
  BY DEF RenderInv, RenderTypes
<1>2. /\ reader'[r].pc = "wait" /\ Reading(r) /\ lock' = lock /\ UNCHANGED <<render, shutVars>>
      /\ \A q \in Readers : q # r => reader'[q] = reader[q] /\ request'[q] = request[q]
  BY <1>1 DEF Ask, Reading, ReaderRecord
<1>3. ToSet(queue') = ToSet(queue) \cup {r}
  BY QueueGrows DEF Ask
<1>4. Reading(r)'
  BY <1>2 DEF Reading
<1>. QED BY <1>2, <1>3, <1>4, WaitReader

LEMMA WaitFetch == ASSUME RenderInv, WaitInv, Fetch PROVE WaitInv'
<1>1. reader \in [Readers -> ReaderRecord] /\ Recorder \in Readers
  BY DEF RenderInv, RenderTypes, Readers
<1>2. /\ reader'[Recorder].pc = "read" /\ UNCHANGED <<lock, queue, request, render, shutVars>>
      /\ \A q \in Readers : q # Recorder => reader'[q] = reader[q]
  BY <1>1 DEF Fetch, renderVars
<1>3. Reading(Recorder)'
  BY <1>2 DEF Reading
<1>. QED BY <1>1, <1>2, <1>3, WaitReader

LEMMA WaitTold ==
  ASSUME RenderInv, WaitInv, reader[Recorder].pc \in {"raised", "gone"},
         reader' = [reader EXCEPT ![Recorder].pc = IF @ = "raised" THEN "idle" ELSE @],
         UNCHANGED <<lock, queue, request, render, shutVars>>
  PROVE  WaitInv'
<1>1. reader \in [Readers -> ReaderRecord] /\ Recorder \in Readers
  BY DEF RenderInv, RenderTypes, Readers
<1>2. /\ reader'[Recorder].pc \in {"idle", "gone"}
      /\ \A q \in Readers : q # Recorder => reader'[q] = reader[q]
  BY <1>1 DEF ReaderRecord
<1>3. ~Reading(Recorder)
  BY DEF Reading
<1>. QED BY <1>1, <1>2, <1>3, WaitReader

\* The render thread leaves no request behind.
LEMMA WaitRender == RenderInv /\ WaitInv /\ Render => WaitInv'
<1>. SUFFICES ASSUME RenderInv, WaitInv, Render PROVE WaitInv'
  OBVIOUS
<1>1. /\ UNCHANGED <<lock, reader, shutVars>> /\ EndMark \notin Readers
      /\ request \in [Readers -> RequestRecord] /\ render.of \in Readers
  BY DataAssumption DEF Render, RenderGet, RenderDraw, RenderAnswer, RenderInv, RenderTypes
<1>2. Kept'
  BY <1>1 DEF WaitInv, Kept, Reading
<1>3. CASE RenderGet
  <2>1. /\ request' = request
        /\ render' = IF Head(queue) = EndMark THEN [render EXCEPT !.pc = "ended"]
                     ELSE [pc |-> "draw", of |-> Head(queue)]
        /\ render.pc = "get"
    BY <1>3 DEF RenderGet
  <2>2. ToSet(queue) = ToSet(queue') \cup {Head(queue)}
    <3>. DEFINE S == Readers \cup {EndMark}
    <3>1. queue \in Seq(S) /\ queue # <<>> /\ queue' = Tail(queue)
      BY <1>3 DEF RenderGet, RenderInv, RenderTypes
    <3>. HIDE DEF S
    <3>2. /\ Head(queue) = queue[1] /\ Len(queue) \in Nat \ {0} /\ DOMAIN queue = 1..Len(queue)
          /\ DOMAIN queue' = 1..(Len(queue) - 1)
          /\ \A i \in DOMAIN queue' : queue'[i] = queue[i + 1]
      BY <3>1
    <3>3. \A i \in DOMAIN queue : i = 1 \/ (i - 1 \in DOMAIN queue' /\ queue'[i - 1] = queue[i])
      BY <3>2
    <3>4. 1 \in DOMAIN queue /\ \A i \in DOMAIN queue' : i + 1 \in DOMAIN queue
      BY <3>2
    <3>. QED BY <3>2, <3>3, <3>4 DEF ToSet
  <2>3. render \in [pc : {"get", "draw", "answer", "ended"}, of : Readers]
    BY DEF RenderInv, RenderTypes
  <2>4. /\ Head(queue) = EndMark => render'.pc = "ended"
        /\ Head(queue) # EndMark => render'.pc = "draw" /\ render'.of = Head(queue)
    BY <2>1, <2>3
  <2>5. Served'
    <3>1. ASSUME NEW r \in Readers, reader[r].pc = "wait"
          PROVE  request[r].done \/ r \in ToSet(queue') \/ Drawing(r)'
      <4>1. request[r].done \/ r \in ToSet(queue)
        BY <2>1, <3>1 DEF WaitInv, Served, Drawing
      <4>2. r = Head(queue) => Drawing(r)'
        BY <1>1, <2>4 DEF Drawing
      <4>. QED BY <2>2, <4>1, <4>2
    <3>. QED BY <1>1, <2>1, <3>1 DEF Served
  <2>6. Ending'
    BY <1>1, <2>1, <2>2, <2>4 DEF WaitInv, Ending, shutVars
  <2>. QED BY <1>2, <2>5, <2>6 DEF WaitInv
<1>4. CASE RenderDraw
  <2>1. /\ queue' = queue /\ render.pc = "draw" /\ render' = [render EXCEPT !.pc = "answer"]
        /\ \A r \in Readers : request'[r].done = request[r].done
    BY <1>1, <1>4 DEF RenderDraw, RequestRecord
  <2>2. render'.pc = "answer" /\ render'.of = render.of
    BY <2>1 DEF RenderInv, RenderTypes
  <2>3. Served'
    BY <1>1, <2>1, <2>2 DEF WaitInv, Served, Drawing
  <2>4. Ending'
    BY <1>1, <2>1, <2>2 DEF WaitInv, Ending, shutVars
  <2>. QED BY <1>2, <2>3, <2>4 DEF WaitInv
<1>5. CASE RenderAnswer
  <2>1. /\ queue' = queue /\ render'.pc = "get"
        /\ \A r \in Readers : request[r].done => request'[r].done
        /\ reader[render.of].pc = "wait" => request'[render.of].done
    BY <1>1, <1>5 DEF RenderAnswer, RequestRecord, Asked
  <2>2. Served'
    BY <1>1, <2>1 DEF WaitInv, Served, Drawing
  <2>3. Ending'
    BY <1>1, <2>1 DEF WaitInv, Ending, shutVars
  <2>. QED BY <1>2, <2>2, <2>3 DEF WaitInv
<1>. QED BY <1>3, <1>4, <1>5 DEF Render

LEMMA WaitShuts == RenderInv /\ WaitInv /\ Shutdown => WaitInv'
<1>. SUFFICES ASSUME RenderInv, WaitInv, Shutdown PROVE WaitInv'
  OBVIOUS
<1>1. CASE ShutBegin \/ ShutCapture \/ ShutViewer
  <2>1. /\ UNCHANGED <<lock, queue, request, render, reader>> /\ shut' # "no"
        /\ stopping' \/ (shut # "no" /\ stopping' = stopping)
    BY <1>1 DEF ShutBegin, ShutCapture, ShutViewer, renderVars
  <2>2. stopping'
    BY <2>1 DEF WaitInv, Ending
  <2>. QED BY <2>1, <2>2, WaitSame
<1>2. CASE ShutMark
  <2>1. /\ shut = "mark" /\ shut' = "viewer" /\ stopping' = stopping
        /\ UNCHANGED <<lock, request, render, reader>>
        /\ ToSet(queue') = ToSet(queue) \cup {EndMark}
    BY <1>2, QueueGrows DEF ShutMark
  <2>2. stopping'
    BY <2>1 DEF WaitInv, Ending
  <2>. QED BY <2>1, <2>2 DEF WaitInv, Kept, Served, Ending, Reading, Drawing
<1>. QED BY <1>1, <1>2 DEF Shutdown

LEMMA WaitBegins == (EpisodeInit => WaitInv) /\ (NewProcess => WaitInv')
<1>1. NoOne \notin Readers /\ EndMark \notin ToSet(<<>>) /\ Resting.pc = "idle"
  BY NoOneAssumption, EmptyProper DEF Readers, Resting
<1>2. EpisodeInit => WaitInv
  BY <1>1 DEF EpisodeInit, RenderingInit, WaitInv, Kept, Served, Ending
<1>3. NewProcess => WaitInv'
  BY <1>1 DEF NewProcess, WaitInv, Kept, Served, Ending
<1>. QED BY <1>2, <1>3

LEMMA WaitNext == RenderInv /\ WaitInv /\ Next => WaitInv'
<1>. SUFFICES ASSUME RenderInv, WaitInv, Next PROVE WaitInv'
  OBVIOUS
<1>. USE DEF Readers
<1>1. CASE RenderingAlone
  <2>1. CASE Render \/ ShutGoesOn \/ ShutBegin
    BY <2>1, WaitRender, WaitShuts DEF ShutGoesOn, Shutdown
  <2>2. CASE \E c \in Clients : Call(c) \/ Finish(c)
    BY <2>2, WaitReads
  <2>3. CASE \E r \in Readers : TakeLock(r) \/ Ask(r) \/ Answered(r) \/ Failed(r) \/ GiveUp(r)
    BY <2>3, WaitReads, WaitAsk
  <2>. QED BY <1>1, <2>1, <2>2, <2>3 DEF RenderingAlone
<1>2. CASE WorldStep \/ Command \/ ReplaySend \/ EmitSample
  <2>1. CASE Step \/ Disturb \/ Emit
    BY <2>1, WaitSame DEF Step, Disturb, Emit, renderVars
  <2>2. CASE RenderingUnchanged
    BY <2>2, WaitSame DEF RenderingUnchanged, renderingVars, renderVars
  <2>. QED BY <1>2, <2>1, <2>2 DEF WorldStep, Command, ReplaySend, EmitSample, RenderingUnchanged
<1>3. CASE Restart
  BY <1>3, WaitBegins DEF Restart
<1>4. CASE PlanReads \/ PlanRead \/ SampleDone
  BY <1>4, WaitReads DEF PlanReads, PlanRead, SampleDone
<1>5. CASE PlanRaised \/ SampleRaised
  BY <1>5, WaitTold DEF PlanRaised, SampleRaised, renderVars
<1>6. CASE FetchSample
  BY <1>6, WaitFetch DEF FetchSample
<1>7. CASE Sampling \/ EpisodeEnd
  <2>1. CASE OpenCapture \/ CloseCapture
    BY <2>1, WaitSame DEF OpenCapture, CloseCapture, renderVars
  <2>2. CASE RenderingUnchanged
    BY <2>2, WaitSame DEF RenderingUnchanged, renderingVars, renderVars
  <2>. QED BY <1>7, <2>1, <2>2 DEF Sampling, EpisodeEnd, RenderingUnchanged
<1>8. CASE \/ OffersChange \/ EpisodeStart \/ PlanCommand \/ Plan \/ SampleState \/ SampleCommand
           \/ SampleSensors \/ EpisodeEnded \/ EpisodeReplay \/ LoadPolicy \/ Observe
  <2>1. RenderingUnchanged
    BY <1>8 DEF OffersChange, EpisodeStart, PlanCommand, Plan, SampleState, SampleCommand, SampleSensors,
                EpisodeEnded, EpisodeReplay, LoadPolicy, Observe, Alone, RenderingUnchanged
  <2>. QED BY <2>1, WaitSame DEF RenderingUnchanged, renderingVars, renderVars
<1>. QED BY <1>1, <1>2, <1>3, <1>4, <1>5, <1>6, <1>7, <1>8 DEF Next, Record

\* No reading waits for what will not come, as far as an invariant can say it: the state lock
\* is kept across steps only by a thread that reads; whoever waits for an image has its
\* answer, or its request is queued or drawn; and the render thread ends only when the
\* backend stops, which ends the wait.
THEOREM ReadingsAreServed == Spec => []WaitInv
<1>1. RenderInv /\ WaitInv /\ [Next]_episodeVars => WaitInv'
  BY WaitNext, WaitSame DEF episodeVars, renderingVars, renderVars
<1>. QED BY <1>1, WaitBegins, Renders, PTL DEF Spec

-----------------------------------------------------------------------------
(* What an episode holds.                                                  *)

Planning == rec.pc \in {"plan", "planned", "planning", "open"}

Shapes ==
  /\ robot \in Robots
  /\ DOMAIN rec = {"pc", "plan", "snap", "frames", "ending", "failed", "group"}
  /\ DOMAIN rec.plan = {"joints", "ees", "sensors", "first", "features"}
  /\ DOMAIN rec.snap = {"state", "cmds", "at", "cmdAt"}
  /\ DOMAIN dataset = {"features", "names", "episodes"}
  /\ DOMAIN policy = {"joints", "images", "group", "seen"}
  /\ rec.pc = "idle" \/ rec.pc = "replay" \/ Planning \/ Recording
  /\ Proper(rec.frames) /\ Proper(dataset.episodes) /\ Proper(sent)

\* What every joint was commanded to at every instant is known, and is that joint's.
Past ==
  /\ Proper(history) /\ Len(history) = now + 1 /\ history[now + 1] = targets
  /\ ~restarted => \A i \in DOMAIN history : \A j \in DOMAIN history[i] : history[i][j][1] = j

\* A filled buffer has the targets of its instant.
Together ==
  /\ DOMAIN with = Buffers
  /\ \A b \in ToSet(samples) : shows[b] \in 0..now /\ with[b] = history[shows[b] + 1]

\* A message is of this instant.
StateAt(s, t) ==
  t \in 0..now /\ (s = [j \in JointSet |-> <<j, "at", t>>] \/ (IsGazebo /\ s = <<>>))
CommandsAt(s, t) == t \in 0..now /\ s = CommandMessage(history[t + 1], t)

\* The snapshot a frame is made from, as far as it has got.
Snapshot ==
  /\ rec.pc \in {"plan", "planned", "planning", "command", "sensors", "sample"} =>
       StateAt(rec.snap.state, rec.snap.at)
  /\ rec.pc \in {"planned", "planning", "sensors", "sample"} =>
       CommandsAt(rec.snap.cmds, rec.snap.cmdAt)
  /\ rec.pc \in {"planning", "open", "sample"} => IsMujoco
  /\ rec.pc \in {"command", "sensors"} => ~IsMujoco
  /\ rec.pc = "sample" =>
       /\ rec.snap.at = rec.snap.cmdAt
       /\ reader[Recorder].pc \in {"read", "wait", "raised", "gone"}
       /\ Reading(Recorder) => rec.snap.at \in reader[Recorder].seen

\* The joints of a plan are different ones, that the state names.
GoodNames(names) == IsInjective(names) /\ (~IsGazebo => ToSet(names) \subseteq JointSet)

Planned ==
  /\ Planning \/ Recording => GoodNames(rec.plan.joints)
  /\ Planning => rec.frames = <<>>
  /\ rec.pc = "open" \/ Recording =>
       /\ rec.plan.features = BuildFeatures(rec.plan.joints, rec.plan.ees, rec.plan.first)
       /\ dataset.names = rec.plan.joints

FrameTrue(f) == LET names == rec.plan.joints IN
  /\ f.cmdAt \in 0..now
  /\ \A i \in DOMAIN names :
       /\ \/ \E t \in f.at : f.state[i] = <<names[i], "at", t>>
          \/ IsGazebo /\ f.state[i] = Zero
       /\ f.action[i] = ActionOf(names[i], f.cmdAt)
  /\ IsMujoco => f.at = {f.cmdAt}
  /\ f.shapes = rec.plan.features

Told == Recording => \A f \in ToSet(rec.frames) : FrameTrue(f)

\* The value for a joint is that joint's.
Named(action) == \A k \in DOMAIN dataset.names :
  action[k] = Zero \/ action[k][1] = dataset.names[k]

\* A dataset is of the joints its features name, and of no others.
Actions(features) == {f \in features : f[1] = <<"action">>}
ActionsOf(names) == IF names = <<>> THEN {} ELSE {<<<<"action">>, names>>}

Saved ==
  /\ IsInjective(dataset.names) /\ Actions(dataset.features) = ActionsOf(dataset.names)
  /\ \A e \in ToSet(dataset.episodes) : Proper(e) /\ \A f \in ToSet(e) : Named(f.action)

\* What is used of a dataset is used of it as it is.
Used ==
  /\ restarted => rec.pc \in {"idle", "replay"}
  /\ restarted \/ (policy = NoPolicy /\ rec.pc # "replay")
  /\ policy = NoPolicy \/ policy.joints = dataset.names
  /\ rec.pc = "replay" \/ rec.group = "none"
  /\ rec.pc = "replay" =>
       /\ rec.frames \in ToSet(dataset.episodes) /\ Len(sent) <= Len(rec.frames)
       /\ \A i \in DOMAIN sent : sent[i] = Replayed(rec.frames[i].action)
  /\ \A group \in {rec.group, policy.group} \ {"none"} :
       ToSet(dataset.names) \subseteq ToSet(Group(group).joints)
  /\ policy.seen # <<>> => \A k \in DOMAIN dataset.names :
       (dataset.names[k] \in JointSet /\ ~IsGazebo) \/ policy.seen[k] # Zero
         => policy.seen[k][1] = dataset.names[k]

EpisodeInv == Shapes /\ Past /\ Together /\ Snapshot /\ Planned /\ Told /\ Saved /\ Used

-----------------------------------------------------------------------------
(* The joints of a plan.                                                   *)

\* An item of every rank there is.
LEMMA Ranked ==
  ASSUME NEW P \in SUBSET (Nat \X Nat), IsFiniteSet(P)
  PROVE  /\ Cardinality(P) \in Nat
         /\ \A i \in 1..Cardinality(P) : \E p \in P : Cardinality({q \in P : Before(q, p)}) = i - 1
         /\ \A p, q \in P : Cardinality({x \in P : Before(x, p)}) = Cardinality({x \in P : Before(x, q)}) => p = q
<1>. DEFINE Below(p) == {q \in P : Before(q, p)}
            rank == [p \in P |-> Cardinality(Below(p))]
            n == Cardinality(P)
<1>1. /\ \A p \in P : ~Before(p, p)
      /\ \A p, q \in P : p # q => Before(p, q) \/ Before(q, p)
      /\ \A p, q, r \in P : Before(p, q) /\ Before(q, r) => Before(p, r)
  BY DEF Before
<1>2. n \in Nat
  BY FS_CardinalityType
<1>3. ASSUME NEW p \in P
      PROVE  Below(p) \in SUBSET P /\ p \notin Below(p) /\ IsFiniteSet(Below(p)) /\ rank[p] = Cardinality(Below(p))
             /\ Cardinality(Below(p)) \in Nat /\ Cardinality(Below(p)) < n
  <2>1. Below(p) \in SUBSET P /\ p \notin Below(p)
    BY <1>1
  <2>2. IsFiniteSet(Below(p)) /\ Cardinality(Below(p)) <= n /\ Cardinality(Below(p)) # n
    BY <2>1, FS_Subset
  <2>3. Cardinality(Below(p)) \in Nat
    BY <2>2, FS_CardinalityType
  <2>4. rank[p] = Cardinality(Below(p))
    OBVIOUS
  <2>. HIDE DEF Below, rank, n
  <2>. QED BY <1>2, <2>1, <2>2, <2>3, <2>4
<1>4. ASSUME NEW p \in P, NEW q \in P, Before(p, q) PROVE rank[p] < rank[q]
  <2>1. Below(p) \in SUBSET Below(q) /\ p \in Below(q)
    BY <1>1, <1>4
  <2>2. Cardinality(Below(p)) <= Cardinality(Below(q)) /\ Cardinality(Below(p)) # Cardinality(Below(q))
    BY <1>3, <2>1, FS_Subset
  <2>3. /\ Cardinality(Below(p)) \in Nat /\ rank[p] = Cardinality(Below(p))
        /\ Cardinality(Below(q)) \in Nat /\ rank[q] = Cardinality(Below(q))
    BY <1>3
  <2>. HIDE DEF Below, rank
  <2>. QED BY <2>2, <2>3
<1>5. rank \in [P -> 0..(n - 1)] /\ n = Cardinality(P)
  <2>1. rank \in [P -> Nat] /\ \A p \in P : rank[p] < n
    BY <1>3
  <2>. HIDE DEF rank, n
  <2>2. \A p \in P : rank[p] \in 0..(n - 1)
    BY <1>2, <2>1
  <2>. QED BY <2>1, <2>2 DEF n
<1>6. \A p \in P : rank[p] = Cardinality(Below(p))
  OBVIOUS
<1>. HIDE DEF rank, n, Below
<1>7. \A p, q \in P : rank[p] = rank[q] => p = q
  <2>1. \A p \in P : rank[p] \in Nat
    BY <1>2, <1>5
  <2>. QED BY <1>1, <1>4, <2>1
<1>8. rank \in Injection(P, 0..(n - 1))
  BY <1>5, <1>7 DEF Injection, IsInjective
<1>9. IsFiniteSet(0..(n - 1)) /\ Cardinality(0..(n - 1)) = n
  <2>1. n - 1 \in Int /\ (0 > n - 1 => n = 0) /\ (n - 1) - 0 + 1 = n
    BY <1>2
  <2>. QED BY <2>1, FS_Interval
<1>10. rank \in Surjection(P, 0..(n - 1))
  BY <1>5, <1>8, <1>9, FS_Injection
<1>11. \A i \in 1..n : \E p \in P : rank[p] = i - 1
  <2>1. \A i \in 1..n : i - 1 \in 0..(n - 1)
    BY <1>2
  <2>. QED BY <1>10, <2>1 DEF Surjection
<1>. QED BY <1>2, <1>5, <1>6, <1>7, <1>11 DEF Below

LEMMA FiniteValues == ASSUME NEW s, s \in Seq(ToSet(s)) PROVE IsFiniteSet(ToSet(s)) /\ IsFiniteSet(DOMAIN s)
<1>1. Len(s) \in Nat /\ DOMAIN s = 1..Len(s) /\ \A i \in DOMAIN s : s[i] \in ToSet(s)
  BY DEF ToSet
<1>2. IsFiniteSet(DOMAIN s)
  BY <1>1, FS_Interval
<1>3. [i \in DOMAIN s |-> s[i]] \in Surjection(DOMAIN s, ToSet(s))
  BY DEF Surjection, ToSet
<1>. QED BY <1>2, <1>3, FS_Surjection

\* What is put in order is all there, and no joint twice.
LEMMA OrderedJoints ==
  ASSUME NEW P \in SUBSET (Nat \X Nat), IsFiniteSet(P),
         \A p, q \in P : JointAt(p) = JointAt(q) => p = q
  PROVE  /\ IsInjective(InOrder(P))
         /\ \A i \in DOMAIN InOrder(P) : \E p \in P : InOrder(P)[i] = JointAt(p)
<1>. DEFINE at(i) == CHOOSE p \in P : Cardinality({q \in P : Before(q, p)}) = i - 1
<1>1. DOMAIN InOrder(P) = 1..Cardinality(P) /\ \A i \in 1..Cardinality(P) : InOrder(P)[i] = JointAt(at(i))
  BY DEF InOrder
<1>2. ASSUME NEW i \in 1..Cardinality(P)
      PROVE  at(i) \in P /\ Cardinality({q \in P : Before(q, at(i))}) = i - 1
  <2>1. \E p \in P : Cardinality({q \in P : Before(q, p)}) = i - 1
    BY Ranked
  <2>. QED BY <2>1
<1>. HIDE DEF at
<1>3. \A i, j \in 1..Cardinality(P) : JointAt(at(i)) = JointAt(at(j)) => i = j
  <2>1. SUFFICES ASSUME NEW i \in 1..Cardinality(P), NEW j \in 1..Cardinality(P),
                        JointAt(at(i)) = JointAt(at(j))
                 PROVE  i = j
    OBVIOUS
  <2>2. at(i) = at(j)
    BY <1>2, <2>1
  <2>3. i - 1 = j - 1
    BY <1>2, <2>2
  <2>4. Cardinality(P) \in Nat
    BY Ranked
  <2>. QED BY <2>3, <2>4
<1>. QED BY <1>1, <1>2, <1>3 DEF IsInjective

LEMMA FirstJoints ==
  ASSUME robot \in Robots, NEW o
  PROVE  /\ FirstPlaces(o) \in SUBSET (Nat \X Nat) /\ IsFiniteSet(FirstPlaces(o))
         /\ \A p, q \in FirstPlaces(o) : JointAt(p) = JointAt(q) => p = q
         /\ \A p \in FirstPlaces(o) : \E g \in ToSet(robot.groups) : JointAt(p) \in ToSet(g.joints)
<1>. DEFINE S == SelectedGroups(o)
            on(n) == {n} \X DOMAIN robot.groups[n].joints
            places == UNION {on(n) : n \in S}
<1>1. /\ robot.groups \in Seq(ToSet(robot.groups))
      /\ \A n \in DOMAIN robot.groups : /\ robot.groups[n] \in ToSet(robot.groups)
                                        /\ robot.groups[n].joints \in Seq(ToSet(robot.groups[n].joints))
  <2>1. robot.groups \in Seq(ToSet(robot.groups))
        /\ \A g \in ToSet(robot.groups) : g.joints \in Seq(ToSet(g.joints))
    BY RobotsAssumption
  <2>2. \A n \in DOMAIN robot.groups : robot.groups[n] \in ToSet(robot.groups)
    BY DEF ToSet
  <2>. QED BY <2>1, <2>2
<1>2. S \in SUBSET DOMAIN robot.groups /\ IsFiniteSet(S) /\ DOMAIN robot.groups \subseteq Nat
  <2>1. S \in SUBSET DOMAIN robot.groups /\ DOMAIN robot.groups = 1..Len(robot.groups) /\ Len(robot.groups) \in Nat
    BY <1>1 DEF SelectedGroups
  <2>. QED BY <1>1, <2>1, FiniteValues, FS_Subset
<1>3. ASSUME NEW n \in S PROVE IsFiniteSet(on(n)) /\ on(n) \in SUBSET (Nat \X Nat)
  <2>. DEFINE js == robot.groups[n].joints
  <2>1. js \in Seq(ToSet(js)) /\ n \in Nat
    BY <1>1, <1>2
  <2>2. Len(js) \in Nat /\ DOMAIN js = 1..Len(js)
    BY <2>1
  <2>3. IsFiniteSet(DOMAIN js) /\ IsFiniteSet({n})
    BY <2>1, FiniteValues, FS_Singleton
  <2>4. IsFiniteSet({n} \X DOMAIN js)
    BY <2>3, FS_Product
  <2>. QED BY <2>1, <2>2, <2>4
<1>. HIDE DEF S, on
<1>4. IsFiniteSet(places) /\ places \in SUBSET (Nat \X Nat)
  <2>1. [n \in S |-> on(n)] \in Surjection(S, {on(n) : n \in S})
    BY DEF Surjection
  <2>2. IsFiniteSet({on(n) : n \in S})
    BY <1>2, <2>1, FS_Surjection
  <2>. QED BY <1>3, <2>2, FS_UNION
<1>5. FirstPlaces(o) = {p \in places : \A q \in places : Before(q, p) => JointAt(q) # JointAt(p)}
  BY DEF FirstPlaces, S, on
<1>6. \A p \in places : p[1] \in S /\ p[2] \in DOMAIN robot.groups[p[1]].joints
  BY DEF on
<1>. HIDE DEF places
<1>7. IsFiniteSet(FirstPlaces(o)) /\ FirstPlaces(o) \in SUBSET places
  BY <1>4, <1>5, FS_Subset
<1>8. \A p, q \in FirstPlaces(o) : JointAt(p) = JointAt(q) => p = q
  <2>1. \A p, q \in places : p # q => Before(p, q) \/ Before(q, p)
    BY <1>4 DEF Before
  <2>. QED BY <1>5, <2>1
<1>9. ASSUME NEW p \in FirstPlaces(o) PROVE \E g \in ToSet(robot.groups) : JointAt(p) \in ToSet(g.joints)
  <2>1. p[1] \in DOMAIN robot.groups /\ p[2] \in DOMAIN robot.groups[p[1]].joints
    BY <1>2, <1>6, <1>7
  <2>. QED BY <1>1, <2>1 DEF JointAt, ToSet
<1>. QED BY <1>4, <1>7, <1>8, <1>9

LEMMA SelectedJoints == ASSUME robot \in Robots, NEW o PROVE GoodNames(SelectJoints(o))
<1>1. IsInjective(robot.joints) /\ ToSet(robot.joints) = JointSet
  BY RobotsAssumption DEF JointSet
<1>2. IsInjective(<<>>) /\ ToSet(<<>>) = {}
  BY EmptyProper DEF IsInjective
<1>3. CASE FiltersGroups(o)
  <2>. DEFINE P == FirstPlaces(o)
  <2>1. IsInjective(InOrder(P)) /\ \A i \in DOMAIN InOrder(P) : \E p \in P : InOrder(P)[i] = JointAt(p)
    BY FirstJoints, OrderedJoints
  <2>2. ~IsGazebo => \A p \in P : JointAt(p) \in JointSet
    BY FirstJoints, RobotsAssumption DEF IsGazebo, JointSet
  <2>3. ~IsGazebo => ToSet(InOrder(P)) \subseteq JointSet
    BY <2>1, <2>2 DEF ToSet
  <2>. QED BY <1>3, <2>1, <2>3 DEF GoodNames, SelectJoints
<1>4. CASE ~FiltersGroups(o)
  BY <1>1, <1>2, <1>4 DEF GoodNames, SelectJoints
<1>. QED BY <1>3, <1>4

-----------------------------------------------------------------------------
(* Features, frames and groups.                                            *)

\* A frame with the readings that the features were made from has these features.
LEMMA ShapesFit ==
  ASSUME NEW plan, NEW reading
  PROVE  FrameShapes(plan, reading) = BuildFeatures(plan.joints, plan.ees, reading)
<1>. DEFINE J == IF plan.joints = <<>> THEN {}
                 ELSE {<<"observation.state">>, <<"observation.velocity">>, <<"observation.effort">>,
                       <<"action">>} \X {plan.joints}
            K == IF plan.joints = <<>> THEN {}
                 ELSE {<<<<key>>, plan.joints>> : key \in {"observation.state", "observation.velocity",
                                                           "observation.effort", "action"}}
<1>. DEFINE Keys == {"observation.state", "observation.velocity", "observation.effort", "action"}
<1>1. {<<"observation.state">>, <<"observation.velocity">>, <<"observation.effort">>, <<"action">>}
        = {<<key>> : key \in Keys}
  BY Zenon
<1>2. \A js : {<<key>> : key \in Keys} \X {js} = {<<<<key>>, js>> : key \in Keys}
  <2>. HIDE DEF Keys
  <2>1. SUFFICES ASSUME NEW js
                 PROVE  {<<key>> : key \in Keys} \X {js} = {<<<<key>>, js>> : key \in Keys}
    OBVIOUS
  <2>2. {<<key>> : key \in Keys} \X {js} = {<<k, js>> : k \in {<<key>> : key \in Keys}}
    BY SMT
  <2>3. {<<k, js>> : k \in {<<key>> : key \in Keys}} = {<<<<key>>, js>> : key \in Keys}
    BY Zenon
  <2>. QED BY <2>2, <2>3
<1>3. J = K
  BY <1>1, <1>2, Zenon
<1>. QED BY <1>3 DEF FrameShapes, BuildFeatures, Intensities

\* Of the features, the action's names the joints.
LEMMA NamesInFeatures ==
  ASSUME NEW joints, NEW ees, NEW reading
  PROVE  Actions(BuildFeatures(joints, ees, reading)) = ActionsOf(joints)
<1>. DEFINE J == IF joints = <<>> THEN {}
                 ELSE {<<<<key>>, joints>> : key \in {"observation.state", "observation.velocity",
                                                      "observation.effort", "action"}}
            E == {<<<<"ee", g, part>>, part>> : g \in ees, part \in {"position", "orientation"}}
            I == {<<<<"images", s>>, reading[s].size>> : s \in Having("camera", reading)}
            R == {<<<<"lidar", s, "ranges">>, reading[s].size>> : s \in Having("lidar", reading)}
            T == {<<<<"lidar", s, "intensities">>, reading[s].extra>> :
                    s \in {l \in Having("lidar", reading) : reading[l].extra > 0}}
            V == {<<<<"vector", s>>, 3>> : s \in Having("vector", reading)}
<1>1. BuildFeatures(joints, ees, reading) = J \cup E \cup I \cup R \cup T \cup V
  BY DEF BuildFeatures
<1>2. \A x, y, z : <<x, y>> # <<"action">> /\ <<x, y, z>> # <<"action">>
  <2>1. Len(<<"action">>) = 1 /\ \A x, y, z : Len(<<x, y>>) = 2 /\ Len(<<x, y, z>>) = 3
    OBVIOUS
  <2>. QED BY <2>1
<1>3. Actions(E) = {} /\ Actions(I) = {} /\ Actions(R) = {} /\ Actions(T) = {} /\ Actions(V) = {}
  BY <1>2 DEF Actions
<1>4. Actions(J) = ActionsOf(joints)
  <2>1. <<"observation.state">> # <<"action">> /\ <<"observation.velocity">> # <<"action">>
        /\ <<"observation.effort">> # <<"action">>
    OBVIOUS
  <2>. QED BY <2>1 DEF Actions, ActionsOf
<1>. HIDE DEF J, E, I, R, T, V
<1>. QED BY <1>1, <1>3, <1>4 DEF Actions

\* Two lists of joints with the same features are the same.
LEMMA SameNames == ASSUME NEW a, NEW b, ActionsOf(a) = ActionsOf(b) PROVE a = b
<1>. DEFINE named(x) == <<<<"action">>, x>>
<1>1. named(a) = named(b) => a = b
  OBVIOUS
<1>. HIDE DEF named
<1>2. ActionsOf(a) = IF a = <<>> THEN {} ELSE {named(a)}
  BY DEF ActionsOf, named
<1>3. ActionsOf(b) = IF b = <<>> THEN {} ELSE {named(b)}
  BY DEF ActionsOf, named
<1>. QED BY <1>1, <1>2, <1>3

\* What a frame made from a snapshot says of joints that the state names.
LEMMA SnapshotTold ==
  ASSUME NEW names, ~IsGazebo => ToSet(names) \subseteq JointSet, NEW s, NEW t, StateAt(s, t),
         NEW i \in DOMAIN names
  PROVE  \/ JointVector(s, names)[i] = <<names[i], "at", t>>
         \/ IsGazebo /\ JointVector(s, names)[i] = Zero
<1>1. names[i] \in ToSet(names)
  BY DEF ToSet
<1>2. JointVector(s, names)[i] = IF names[i] \in DOMAIN s THEN s[names[i]] ELSE Zero
  BY DEF JointVector
<1>3. CASE s = [j \in JointSet |-> <<j, "at", t>>]
  BY <1>1, <1>2, <1>3
<1>4. CASE IsGazebo /\ s = <<>>
  <2>1. DOMAIN s = {}
    BY <1>4, EmptyProper
  <2>. QED BY <1>2, <1>4, <2>1
<1>. QED BY <1>3, <1>4 DEF StateAt

LEMMA SnapshotCommanded ==
  ASSUME NEW names, ~IsGazebo => ToSet(names) \subseteq JointSet, NEW c, NEW t, CommandsAt(c, t),
         NEW i \in DOMAIN names
  PROVE  JointVector(c, names)[i] = ActionOf(names[i], t)
<1>1. names[i] \in ToSet(names)
  BY DEF ToSet
<1>2. JointVector(c, names)[i] = IF names[i] \in DOMAIN c THEN c[names[i]] ELSE Zero
  BY DEF JointVector
<1>3. CASE IsGazebo
  BY <1>2, <1>3 DEF CommandsAt, CommandMessage, ActionOf
<1>4. CASE ~IsGazebo
  <2>1. c = [j \in JointSet |-> IF j \in DOMAIN history[t + 1] THEN history[t + 1][j]
                                ELSE <<j, "at", t>>]
    BY <1>4 DEF CommandsAt, CommandMessage
  <2>2. names[i] \in JointSet
    BY <1>1, <1>4
  <2>. QED BY <1>2, <1>4, <2>1, <2>2 DEF ActionOf
<1>. QED BY <1>3, <1>4

\* A value recorded for a joint is that joint's.
LEMMA ActionNamed ==
  ASSUME Past, ~restarted, NEW j, NEW t \in 0..now, now \in Nat
  PROVE  ActionOf(j, t) = Zero \/ ActionOf(j, t)[1] = j
<1>1. t + 1 \in DOMAIN history
  <2>1. DOMAIN history = 1..(now + 1)
    BY AppendFacts DEF Past
  <2>. QED BY <2>1
<1>. QED BY <1>1 DEF Past, ActionOf

\* A group is found by its name.
LEMMA GroupFound ==
  ASSUME robot \in Robots, NEW g \in ToSet(robot.groups) PROVE Group(g.name) = g
BY RobotsAssumption DEF Group

\* The group that a dataset's joints go through has them all.
LEMMA GroupHasThem ==
  ASSUME robot \in Robots, NEW names, ResolveGroup(names) \notin {"ambiguous", "none"}
  PROVE  ToSet(names) \subseteq ToSet(Group(ResolveGroup(names)).joints)
<1>. DEFINE groups == ToSet(robot.groups)
            exact == {g \in groups : g.joints = names}
            having == {g \in groups : ToSet(names) \subseteq ToSet(g.joints)}
            shortest == {g \in having : \A h \in having : Len(g.joints) <= Len(h.joints)}
            only(gs) == IF Cardinality(gs) = 1 THEN (CHOOSE g \in gs : TRUE).name ELSE "ambiguous"
<1>1. ResolveGroup(names) = IF exact # {} THEN only(exact) ELSE IF having = {} THEN "none" ELSE only(shortest)
  BY DEF ResolveGroup
<1>2. IsFiniteSet(groups)
  BY RobotsAssumption, FiniteValues
<1>3. exact \in SUBSET having /\ shortest \in SUBSET having /\ having \in SUBSET groups
  OBVIOUS
<1>. HIDE DEF exact, shortest
<1>4. PICK gs \in SUBSET having : ResolveGroup(names) = only(gs) /\ Cardinality(gs) = 1
  BY <1>1, <1>3
<1>5. IsFiniteSet(gs)
  BY <1>2, <1>3, FS_Subset
<1>6. PICK g : gs = {g}
  BY <1>4, <1>5, FS_Singleton
<1>7. ResolveGroup(names) = g.name /\ g \in having
  BY <1>4, <1>6
<1>8. Group(g.name) = g
  BY <1>7, GroupFound
<1>. QED BY <1>7, <1>8

\* Each joint is told its own value.
LEMMA ReplayedValue ==
  ASSUME IsInjective(dataset.names), NEW action, NEW k \in DOMAIN dataset.names
  PROVE  Replayed(action)[dataset.names[k]] = action[k]
<1>1. (CHOOSE i \in DOMAIN dataset.names : dataset.names[i] = dataset.names[k]) = k
  BY DEF IsInjective
<1>. QED BY <1>1 DEF Replayed, ToSet

-----------------------------------------------------------------------------
(* What episodes hold stays so.                                            *)

LEMMA EpisodeBegins == EpisodeInit => EpisodeInv
<1>. SUFFICES ASSUME EpisodeInit PROVE EpisodeInv
  OBVIOUS
<1>1. /\ robot \in Robots /\ targets = Begins(robot) /\ history = <<targets>> /\ now = 0
      /\ restarted = FALSE /\ samples = <<>> /\ with = [b \in Buffers |-> <<>>]
      /\ rec = AtRest /\ dataset = NoDataset /\ sent = <<>> /\ policy = NoPolicy
  BY DEF EpisodeInit, FramesInit, RenderingInit
<1>2. /\ AtRest.pc = "idle" /\ AtRest.frames = <<>> /\ AtRest.group = "none"
      /\ DOMAIN AtRest = {"pc", "plan", "snap", "frames", "ending", "failed", "group"}
      /\ DOMAIN AtRest.plan = {"joints", "ees", "sensors", "first", "features"}
      /\ DOMAIN AtRest.snap = {"state", "cmds", "at", "cmdAt"}
  BY DEF AtRest, NoPlan, NoSnap
<1>3. /\ NoDataset.features = {} /\ NoDataset.names = <<>> /\ NoDataset.episodes = <<>>
      /\ DOMAIN NoDataset = {"features", "names", "episodes"}
      /\ NoPolicy.group = "none" /\ NoPolicy.seen = <<>>
      /\ DOMAIN NoPolicy = {"joints", "images", "group", "seen"}
  BY DEF NoDataset, NoPolicy
<1>4. Shapes
  BY <1>1, <1>2, <1>3, EmptyProper DEF Shapes
<1>5. Past
  <2>1. Proper(history) /\ Len(history) = 1 /\ DOMAIN history = {1} /\ history[1] = targets
    BY <1>1, SingleProper
  <2>2. \A j \in DOMAIN targets : targets[j][1] = j
    <3>1. CASE robot.kind = "mujoco"
      BY <1>1, <3>1 DEF Begins
    <3>2. CASE robot.kind # "mujoco"
      BY <1>1, <3>2, EmptyProper DEF Begins
    <3>. QED BY <3>1, <3>2
  <2>. QED BY <1>1, <2>1, <2>2 DEF Past
<1>6. Together
  BY <1>1, EmptyProper DEF Together
<1>7. Snapshot /\ Planned /\ Told
  BY <1>1, <1>2 DEF Snapshot, Planned, Told, Planning, Recording
<1>8. Saved
  BY <1>1, <1>3, EmptyProper DEF Saved, Actions, ActionsOf, IsInjective
<1>9. Used
  BY <1>1, <1>2, <1>3 DEF Used
<1>. QED BY <1>4, <1>5, <1>6, <1>7, <1>8, <1>9 DEF EpisodeInv

\* The past is not changed by what comes.
Lasting ==
  /\ robot' = robot
  /\ \/ now' = now /\ history' = history
     \/ now' = now + 1 /\ \E c : history' = Append(history, c)

LEMMA PastLasts ==
  ASSUME Past, now \in Nat, Lasting
  PROVE  /\ now' \in Nat
         /\ \A t \in 0..now : t \in 0..now' /\ t + 1 \in DOMAIN history /\ history'[t + 1] = history[t + 1]
         /\ \A s, t : StateAt(s, t) => StateAt(s, t)'
         /\ \A c, t : CommandsAt(c, t) => CommandsAt(c, t)'
         /\ \A names : GoodNames(names)' <=> GoodNames(names)
         /\ \A j : \A t \in 0..now : ActionOf(j, t)' = ActionOf(j, t)
<1>1. /\ Len(history) = now + 1 /\ DOMAIN history = 1..(now + 1)
      /\ \A c : \A i \in DOMAIN history : Append(history, c)[i] = history[i]
  BY AppendFacts DEF Past
<1>2. /\ now' \in Nat
      /\ \A t \in 0..now : t \in 0..now' /\ t + 1 \in DOMAIN history /\ history'[t + 1] = history[t + 1]
  BY <1>1 DEF Lasting
<1>3. robot' = robot
  BY DEF Lasting
<1>4. \A s, t : StateAt(s, t) => StateAt(s, t)'
  BY <1>2, <1>3 DEF StateAt, JointSet, IsGazebo
<1>5. \A c, t : CommandsAt(c, t) => CommandsAt(c, t)'
  BY <1>2, <1>3 DEF CommandsAt, CommandMessage, JointSet, IsGazebo
<1>6. \A names : GoodNames(names)' <=> GoodNames(names)
  BY <1>3 DEF GoodNames, JointSet, IsGazebo
<1>7. \A j : \A t \in 0..now : ActionOf(j, t)' = ActionOf(j, t)
  BY <1>2, <1>3 DEF ActionOf, IsGazebo
<1>. QED BY <1>2, <1>4, <1>5, <1>6, <1>7

\* A frame stays true while its plan stays.
LEMMA FramesLast ==
  ASSUME Past, now \in Nat, Lasting, rec'.plan = rec.plan, NEW f, FrameTrue(f)
  PROVE  FrameTrue(f)'
<1>1. /\ f.cmdAt \in 0..now'
      /\ \A j : ActionOf(j, f.cmdAt)' = ActionOf(j, f.cmdAt)
  BY PastLasts DEF FrameTrue
<1>2. robot' = robot
  BY DEF Lasting
<1>. QED BY <1>1, <1>2 DEF FrameTrue, IsGazebo, IsMujoco

\* What was recorded is used as before.
LEMMA UsedLasts ==
  ASSUME Used, UNCHANGED <<robot, restarted, dataset, policy>>, rec'.group = rec.group,
         restarted => UNCHANGED <<rec, sent>>,
         rec.pc # "replay" => rec'.pc # "replay"
  PROVE  Used'
<1>1. JointSet' = JointSet /\ (IsGazebo' <=> IsGazebo)
  BY DEF JointSet, IsGazebo
<1>2. \A group : Group(group)' = Group(group)
  BY DEF Group
<1>3. \A action : Replayed(action)' = Replayed(action)
  BY DEF Replayed
<1>4. /\ restarted => rec.pc \in {"idle", "replay"}
      /\ restarted \/ (policy = NoPolicy /\ rec.pc # "replay")
      /\ policy = NoPolicy \/ policy.joints = dataset.names
      /\ rec.pc = "replay" \/ rec.group = "none"
  BY DEF Used
<1>5. /\ restarted' => rec'.pc \in {"idle", "replay"}
      /\ restarted' \/ (policy' = NoPolicy /\ rec'.pc # "replay")
      /\ policy' = NoPolicy \/ policy'.joints = dataset'.names
      /\ rec'.pc = "replay" \/ rec'.group = "none"
      /\ rec'.pc = "replay" => UNCHANGED <<rec, sent>>
  BY <1>4
<1>6. rec'.pc = "replay" =>
       /\ rec'.frames \in ToSet(dataset'.episodes) /\ Len(sent') <= Len(rec'.frames)
       /\ \A i \in DOMAIN sent' : sent'[i] = Replayed(rec.frames[i].action)'
  BY <1>3, <1>5 DEF Used
<1>7. \A group \in {rec'.group, policy'.group} \ {"none"} :
       ToSet(dataset'.names) \subseteq ToSet(Group(group)'.joints)
  BY <1>2 DEF Used
<1>8. policy'.seen # <<>> => \A k \in DOMAIN dataset'.names :
       (dataset'.names[k] \in JointSet' /\ ~IsGazebo') \/ policy'.seen[k] # Zero
         => policy'.seen[k][1] = dataset'.names[k]
  BY <1>1 DEF Used
<1>. QED BY <1>5, <1>6, <1>7, <1>8 DEF Used

\* Nothing is done with the episode.
LEMMA Untouched ==
  ASSUME EpisodeInv, now \in Nat, Lasting, UNCHANGED <<rec, dataset, sent, policy, restarted>>,
         rec.pc = "sample" =>
           /\ reader'[Recorder].pc \in {"read", "wait", "raised", "gone"}
           /\ Reading(Recorder)' => rec.snap.at \in reader'[Recorder].seen
  PROVE  (Shapes /\ Snapshot /\ Planned /\ Told /\ Saved /\ Used)'
<1>1. robot' = robot
  BY DEF Lasting
<1>2. Shapes'
  BY <1>1 DEF EpisodeInv, Shapes, Planning, Recording
<1>3. Snapshot'
  BY <1>1, PastLasts DEF EpisodeInv, Snapshot, IsMujoco
<1>4. Planned'
  BY <1>1, PastLasts DEF EpisodeInv, Planned, Planning, Recording
<1>5. Told'
  BY FramesLast DEF EpisodeInv, Told, Recording
<1>6. Saved'
  BY DEF EpisodeInv, Saved, Named
<1>7. Used'
  BY <1>1, UsedLasts DEF EpisodeInv
<1>. QED BY <1>2, <1>3, <1>4, <1>5, <1>6, <1>7

\* The world and its targets move on together.
LEMMA PastMoves ==
  ASSUME Past, now \in Nat, now' = now + 1, NEW c, targets' = c, history' = Append(history, c),
         restarted' = restarted, ~restarted => \A j \in DOMAIN c : c[j][1] = j
  PROVE  Past'
<1>1. /\ Proper(history') /\ Len(history') = now' + 1 /\ history'[now' + 1] = c
      /\ DOMAIN history = 1..(now + 1) /\ DOMAIN history' = 1..(now + 2)
      /\ \A i \in DOMAIN history : history'[i] = history[i]
  <2>1. Len(history) = now + 1 /\ now' + 1 = Len(history) + 1
    BY DEF Past
  <2>. QED BY <2>1, AppendFacts DEF Past
<1>2. ASSUME ~restarted, NEW i \in DOMAIN history' PROVE \A j \in DOMAIN history'[i] : history'[i][j][1] = j
  <2>1. CASE i = now + 2
    BY <1>1, <1>2, <2>1
  <2>2. CASE i \in DOMAIN history
    BY <1>1, <1>2, <2>2 DEF Past
  <2>. QED BY <1>1, <2>1, <2>2
<1>. QED BY <1>1, <1>2 DEF Past

LEMMA TogetherLasts ==
  ASSUME Past, now \in Nat, Lasting, Together, UNCHANGED <<shows, with>>,
         ToSet(samples') \subseteq ToSet(samples)
  PROVE  Together'
BY PastLasts DEF Together

\* A step or another change under the lock; a replay comes to its own.
LEMMA EpisodeMoves ==
  ASSUME RenderInv, EpisodeInv, NEW c, MovesOn(c), Step \/ Disturb,
         UNCHANGED <<settingVars, rec, dataset, sent, policy>>,
         ~restarted => \A j \in DOMAIN c : c[j][1] = j
  PROVE  EpisodeInv'
<1>1. /\ now \in Nat /\ now' = now + 1 /\ UNCHANGED <<shows, samples, reader, with, restarted, robot>>
      /\ targets' = c /\ history' = Append(history, c)
  BY DEF Step, Disturb, MovesOn, RenderInv, RenderTypes, captureVars, settingVars
<1>2. Lasting
  BY <1>1 DEF Lasting
<1>3. Past' /\ Together'
  BY <1>1, <1>2, PastMoves, TogetherLasts DEF EpisodeInv
<1>4. rec.pc = "sample" =>
           /\ reader'[Recorder].pc \in {"read", "wait", "raised", "gone"}
           /\ Reading(Recorder)' => rec.snap.at \in reader'[Recorder].seen
  BY <1>1 DEF EpisodeInv, Snapshot, Reading
<1>. QED BY <1>1, <1>2, <1>3, <1>4, Untouched DEF EpisodeInv

LEMMA EpisodeCommanded == RenderInv /\ EpisodeInv /\ (WorldStep \/ Command) => EpisodeInv'
<1>. SUFFICES ASSUME RenderInv, EpisodeInv, WorldStep \/ Command PROVE EpisodeInv'
  OBVIOUS
<1>1. ~restarted => \A j \in DOMAIN targets : targets[j][1] = j
  <2>1. now + 1 \in DOMAIN history /\ history[now + 1] = targets
    <3>1. now \in Nat /\ Len(history) = now + 1 /\ DOMAIN history = 1..Len(history)
      BY AppendFacts DEF RenderInv, RenderTypes, EpisodeInv, Past
    <3>. QED BY <3>1 DEF EpisodeInv, Past
  <2>. QED BY <2>1 DEF EpisodeInv, Past
<1>2. CASE WorldStep
  BY <1>1, <1>2, EpisodeMoves DEF WorldStep
<1>3. CASE Command
  <2>1. PICK g \in ToSet(robot.groups) :
          /\ Disturb /\ MovesOn(Commanded([j \in ToSet(g.joints) |-> <<j, "to", told + 1>>]))
          /\ UNCHANGED <<settingVars, rec, dataset, sent, policy>>
    BY <1>3 DEF Command
  <2>. DEFINE v == [j \in ToSet(g.joints) |-> <<j, "to", told + 1>>]
  <2>2. \A j \in DOMAIN v : v[j][1] = j
    OBVIOUS
  <2>. HIDE DEF v
  <2>3. ~restarted => \A j \in DOMAIN Commanded(v) : Commanded(v)[j][1] = j
    BY <1>1, <2>2 DEF Commanded
  <2>. QED BY <2>1, <2>3, EpisodeMoves DEF v
<1>. QED BY <1>2, <1>3

\* What Rendering does by itself only goes on with what is read of a sample.
LEMMA SampleGoesOn ==
  ASSUME RenderInv, RenderingAlone, reader[Recorder].pc \in {"read", "wait", "raised", "gone"}
  PROVE  /\ reader'[Recorder].pc \in {"read", "wait", "raised", "gone"}
         /\ Reading(Recorder)' => Reading(Recorder) /\ reader[Recorder].seen \subseteq reader'[Recorder].seen
<1>1. Recorder \in Readers /\ reader[Recorder] \in ReaderRecord /\ reader \in [Readers -> ReaderRecord]
  BY DEF RenderInv, RenderTypes, Readers
<1>2. CASE Render \/ ShutGoesOn \/ ShutBegin
  <2>1. reader' = reader
    BY <1>2 DEF Render, RenderGet, RenderDraw, RenderAnswer, ShutGoesOn, ShutCapture, ShutMark, ShutViewer,
                ShutBegin
  <2>. QED BY <2>1 DEF Reading
<1>3. CASE \E c \in Clients : Call(c) \/ Finish(c)
  <2>1. PICK c \in Clients : Call(c) \/ Finish(c)
    BY <1>3
  <2>2. c # Recorder /\ \E x : reader' = [reader EXCEPT ![c] = x]
    BY <2>1, RecorderAssumption DEF Call, Finish
  <2>3. reader'[Recorder] = reader[Recorder]
    BY <1>1, <2>2
  <2>. QED BY <2>3 DEF Reading
<1>4. ASSUME NEW r \in Readers, TakeLock(r) \/ Ask(r) \/ Answered(r) \/ Failed(r) \/ GiveUp(r), r # Recorder
      PROVE  reader'[Recorder] = reader[Recorder]
  BY <1>1, <1>4 DEF TakeLock, Ask, Answered, Failed, GiveUp
<1>5. ASSUME TakeLock(Recorder) \/ Ask(Recorder) \/ Answered(Recorder) \/ Failed(Recorder) \/ GiveUp(Recorder)
      PROVE  /\ reader'[Recorder].pc \in {"read", "wait", "raised", "gone"}
             /\ Reading(Recorder)' => Reading(Recorder) /\ reader[Recorder].seen \subseteq reader'[Recorder].seen
  <2>1. CASE Ask(Recorder)
    <3>1. reader'[Recorder] = [reader[Recorder] EXCEPT !.pc = "wait", !.left = @ - 1] /\ Reading(Recorder)
      BY <1>1, <2>1 DEF Ask, Reading
    <3>. QED BY <1>1, <3>1 DEF ReaderRecord
  <2>2. CASE Answered(Recorder)
    <3>1. /\ reader'[Recorder] = [reader[Recorder] EXCEPT !.pc = "read", !.seen = @ \cup {request[Recorder].pixels}]
          /\ Reading(Recorder)
      BY <1>1, <2>2 DEF Answered, Reading
    <3>. QED BY <1>1, <3>1 DEF ReaderRecord
  <2>3. CASE Failed(Recorder) \/ GiveUp(Recorder)
    <3>1. reader'[Recorder] = [Resting EXCEPT !.pc = "raised"] \/ reader'[Recorder] = [Resting EXCEPT !.pc = "gone"]
      BY <1>1, <2>3 DEF Failed, GiveUp
    <3>. QED BY <3>1 DEF Resting, Reading
  <2>. QED BY <1>5, <2>1, <2>2, <2>3 DEF TakeLock
<1>6. CASE reader'[Recorder] = reader[Recorder]
  BY <1>6 DEF Reading
<1>. QED BY <1>2, <1>3, <1>4, <1>5, <1>6 DEF RenderingAlone

LEMMA EpisodeBeside == RenderInv /\ EpisodeInv /\ (RenderingAlone \/ OffersChange) => EpisodeInv'
<1>. SUFFICES ASSUME RenderInv, EpisodeInv, RenderingAlone \/ OffersChange PROVE EpisodeInv'
  OBVIOUS
<1>0. /\ now \in Nat /\ UNCHANGED <<now, shows, history, targets, with, rec, dataset, sent, policy, robot, restarted>>
      /\ samples' = samples \/ samples' = <<>>
  <2>1. CASE RenderingAlone
    <3>1. UNCHANGED framesVars
      BY <2>1 DEF RenderingAlone
    <3>2. UNCHANGED <<now, shows>> /\ (samples' = samples \/ samples' = <<>>)
      BY <2>1 DEF RenderingAlone, Render, RenderGet, RenderDraw, RenderAnswer, ShutGoesOn, ShutCapture, ShutMark,
                  ShutViewer, ShutBegin, Call, Finish, TakeLock, Ask, Answered, Failed, GiveUp, captureVars,
                  renderVars
    <3>. QED BY <3>1, <3>2 DEF framesVars, settingVars, commandVars, RenderInv, RenderTypes
  <2>2. CASE OffersChange
    BY <2>2 DEF OffersChange, renderingVars, captureVars, commandVars, RenderInv, RenderTypes
  <2>. QED BY <2>1, <2>2
<1>1. Lasting /\ ToSet(samples') \subseteq ToSet(samples)
  BY <1>0, EmptyProper DEF Lasting
<1>2. Past' /\ Together'
  BY <1>0, <1>1, TogetherLasts DEF EpisodeInv, Past
<1>3. rec.pc = "sample" =>
           /\ reader'[Recorder].pc \in {"read", "wait", "raised", "gone"}
           /\ Reading(Recorder)' => rec.snap.at \in reader'[Recorder].seen
  <2>1. CASE RenderingAlone
    BY <2>1, SampleGoesOn DEF EpisodeInv, Snapshot
  <2>2. CASE OffersChange
    <3>1. reader' = reader
      BY <2>2 DEF OffersChange, renderingVars
    <3>. QED BY <3>1 DEF EpisodeInv, Snapshot, Reading
  <2>. QED BY <2>1, <2>2
<1>. QED BY <1>0, <1>1, <1>2, <1>3, Untouched DEF EpisodeInv

\* With a copy of the live data go the targets of its instant.
LEMMA EpisodeEmits == RenderInv /\ EpisodeInv /\ EmitSample => EpisodeInv'
<1>. SUFFICES ASSUME RenderInv, EpisodeInv, EmitSample PROVE EpisodeInv'
  OBVIOUS
<1>1. PICK b \in pool :
        /\ shows' = [shows EXCEPT ![b] = now] /\ samples' = Append(samples, b)
        /\ UNCHANGED <<now, reader>>
  BY DEF EmitSample, Emit
<1>2. /\ with' = [c \in Buffers |-> IF samples' = Append(samples, c) THEN targets ELSE with[c]]
      /\ UNCHANGED <<robot, restarted, targets, history, rec, dataset, sent, policy>>
  BY DEF EmitSample, settingVars
<1>3. now \in Nat /\ samples \in Seq(Buffers) /\ b \in Buffers /\ b \notin ToSet(samples)
      /\ shows \in [Buffers -> Nat]
  BY DEF RenderInv, RenderTypes, Distinct
<1>4. Lasting
  BY <1>1, <1>2 DEF Lasting
<1>5. /\ ToSet(samples') = ToSet(samples) \cup {b} /\ ToSet(samples) \subseteq Buffers
      /\ \A c \in Buffers : samples' = Append(samples, c) <=> c = b
  <2>1. /\ Len(samples) \in Nat /\ DOMAIN samples = 1..Len(samples)
        /\ \A c \in Buffers : /\ Append(samples, c)[Len(samples) + 1] = c
                              /\ DOMAIN Append(samples, c) = 1..(Len(samples) + 1)
                              /\ \A i \in 1..Len(samples) : Append(samples, c)[i] = samples[i]
        /\ \A i \in DOMAIN samples : samples[i] \in Buffers
    BY <1>3
  <2>2. ToSet(samples') = ToSet(samples) \cup {b}
    BY <1>1, <1>3, <2>1 DEF ToSet
  <2>. QED BY <1>1, <1>3, <2>1, <2>2 DEF ToSet
<1>6. Together'
  <2>1. DOMAIN with' = Buffers
    BY <1>2
  <2>2. ASSUME NEW c \in ToSet(samples') PROVE shows'[c] \in 0..now' /\ with'[c] = history'[shows'[c] + 1]
    <3>1. CASE c = b
      BY <1>1, <1>2, <1>3, <1>5, <3>1 DEF EpisodeInv, Past
    <3>2. CASE c # b
      <4>1. c \in ToSet(samples) /\ c \in Buffers /\ shows'[c] = shows[c] /\ with'[c] = with[c]
        BY <1>1, <1>2, <1>3, <1>5, <2>2, <3>2
      <4>. QED BY <1>1, <1>2, <4>1 DEF EpisodeInv, Together
    <3>. QED BY <3>1, <3>2
  <2>. QED BY <2>1, <2>2 DEF Together
<1>7. Past'
  BY <1>1, <1>2 DEF EpisodeInv, Past
<1>8. rec.pc = "sample" =>
           /\ reader'[Recorder].pc \in {"read", "wait", "raised", "gone"}
           /\ Reading(Recorder)' => rec.snap.at \in reader'[Recorder].seen
  BY <1>1 DEF EpisodeInv, Snapshot, Reading
<1>. QED BY <1>2, <1>3, <1>4, <1>6, <1>7, <1>8, Untouched DEF EpisodeInv

\* A server that is started again knows the dataset, and nothing else.
LEMMA EpisodeRestarts == RenderInv /\ EpisodeInv /\ Restart => EpisodeInv'
<1>. SUFFICES ASSUME RenderInv, EpisodeInv, Restart PROVE EpisodeInv'
  OBVIOUS
<1>1. PICK r \in Robots :
        /\ ~restarted /\ rec.pc = "idle" /\ restarted' = TRUE /\ robot' = r
        /\ targets' = Begins(r) /\ history' = <<Begins(r)>> /\ with' = [b \in Buffers |-> <<>>]
        /\ NewProcess /\ UNCHANGED <<rec, dataset, sent, policy>>
  BY DEF Restart
<1>2. now' = 0 /\ samples' = <<>>
  BY <1>1 DEF NewProcess
<1>3. Past'
  <2>1. Proper(history') /\ Len(history') = 1 /\ history'[1] = targets'
    BY <1>1, SingleProper
  <2>. QED BY <1>1, <1>2, <2>1 DEF Past
<1>4. Together'
  BY <1>1, <1>2, EmptyProper DEF Together
<1>5. Shapes' /\ Snapshot' /\ Planned' /\ Told' /\ Saved'
  BY <1>1 DEF EpisodeInv, Shapes, Snapshot, Planned, Told, Saved, Named, Planning, Recording
<1>6. policy = NoPolicy /\ rec.group = "none" /\ policy.group = "none" /\ policy.seen = <<>>
  BY <1>1 DEF EpisodeInv, Used, NoPolicy
<1>7. Used'
  BY <1>1, <1>6 DEF Used
<1>. QED BY <1>3, <1>4, <1>5, <1>7 DEF EpisodeInv

-----------------------------------------------------------------------------
(* The recorder.                                                           *)

\* A step that makes no frame, within an episode.
LEMMA EpisodeGoesOn ==
  ASSUME RenderInv, EpisodeInv, Planning \/ Recording,
         UNCHANGED <<robot, restarted, now, targets, history, dataset, sent, policy>>,
         rec'.plan = rec.plan, rec'.frames = rec.frames, rec'.group = rec.group,
         DOMAIN rec' = DOMAIN rec, DOMAIN rec'.snap = DOMAIN rec.snap,
         Planning' \/ Recording', Planning' => Planning,
         rec'.pc = "open" \/ Recording' => rec.pc = "open" \/ Recording,
         Snapshot', Together'
  PROVE  EpisodeInv'
<1>1. now \in Nat /\ Lasting
  BY DEF RenderInv, RenderTypes, Lasting
<1>2. Shapes'
  BY DEF EpisodeInv, Shapes
<1>3. Past'
  BY DEF EpisodeInv, Past
<1>4. Planned'
  <2>1. GoodNames(rec.plan.joints)' <=> GoodNames(rec.plan.joints)
    BY DEF GoodNames, JointSet, IsGazebo
  <2>. QED BY <2>1 DEF EpisodeInv, Planned
<1>5. Told'
  <2>1. rec.pc = "open" => ToSet(rec'.frames) = {}
    BY EmptyProper DEF EpisodeInv, Planned, Planning
  <2>2. Recording => \A f \in ToSet(rec'.frames) : FrameTrue(f)'
    BY <1>1, FramesLast DEF EpisodeInv, Told
  <2>. QED BY <2>1, <2>2 DEF Told
<1>6. Saved'
  BY DEF EpisodeInv, Saved, Named
<1>7. ~restarted /\ rec.pc # "replay" /\ rec'.pc # "replay"
  BY DEF EpisodeInv, Used, Planning, Recording
<1>8. Used'
  BY <1>7, UsedLasts DEF EpisodeInv
<1>. QED BY <1>2, <1>3, <1>4, <1>5, <1>6, <1>8 DEF EpisodeInv

\* The recorder comes to rest, and the dataset is as sound as it was.
LEMMA EpisodeRests ==
  ASSUME RenderInv, EpisodeInv, rec' = AtRest,
         UNCHANGED <<robot, restarted, now, targets, history, sent, policy>>,
         DOMAIN dataset' = {"features", "names", "episodes"}, Proper(dataset'.episodes),
         Saved', Together', dataset' = dataset \/ ~restarted
  PROVE  EpisodeInv'
<1>1. /\ AtRest.pc = "idle" /\ AtRest.frames = <<>> /\ AtRest.group = "none"
      /\ DOMAIN AtRest = {"pc", "plan", "snap", "frames", "ending", "failed", "group"}
      /\ DOMAIN AtRest.plan = {"joints", "ees", "sensors", "first", "features"}
      /\ DOMAIN AtRest.snap = {"state", "cmds", "at", "cmdAt"}
  BY DEF AtRest, NoPlan, NoSnap
<1>2. Shapes' /\ Past' /\ Snapshot' /\ Planned' /\ Told'
  BY <1>1, EmptyProper DEF EpisodeInv, Shapes, Past, Snapshot, Planned, Told, Planning, Recording
<1>3. Used'
  <2>1. CASE ~restarted
    <3>1. policy = NoPolicy
      BY <2>1 DEF EpisodeInv, Used
    <3>2. policy.group = "none" /\ policy.seen = <<>>
      BY <3>1 DEF NoPolicy
    <3>. QED BY <1>1, <2>1, <3>1, <3>2 DEF Used
  <2>2. CASE restarted
    <3>1. dataset' = dataset
      BY <2>2
    <3>2. JointSet' = JointSet /\ (IsGazebo' <=> IsGazebo) /\ \A group : Group(group)' = Group(group)
      BY DEF JointSet, IsGazebo, Group
    <3>3. \A group \in {rec'.group, policy'.group} \ {"none"} :
            ToSet(dataset'.names) \subseteq ToSet(Group(group)'.joints)
      BY <1>1, <3>1, <3>2 DEF EpisodeInv, Used
    <3>. QED BY <1>1, <2>2, <3>1, <3>2, <3>3 DEF EpisodeInv, Used
  <2>. QED BY <2>1, <2>2
<1>. QED BY <1>2, <1>3 DEF EpisodeInv

\* A state, or a command, that is asked for now is of now.
LEMMA StateNow == now \in Nat => StateAt(StateMessage, now)
BY DEF StateAt, StateMessage

LEMMA CommandsNow == Past /\ now \in Nat => CommandsAt(CommandMessage(targets, now), now)
BY DEF Past, CommandsAt

LEMMA EpisodeStarts == RenderInv /\ EpisodeInv /\ EpisodeStart => EpisodeInv'
<1>. SUFFICES ASSUME RenderInv, EpisodeInv, EpisodeStart PROVE EpisodeInv'
  OBVIOUS
<1>1. PICK o \in Requests :
        /\ rec.pc = "idle" /\ ~restarted
        /\ rec' = [AtRest EXCEPT !.pc = "plan",
             !.plan = [NoPlan EXCEPT !.joints = SelectJoints(o), !.ees = SelectEndEffectors(o),
                                     !.sensors = SelectSensors(o)],
             !.snap = [NoSnap EXCEPT !.state = StateMessage, !.at = now]]
        /\ UNCHANGED <<dataset, sent, policy, robot, restarted, now, shows, samples, targets, history, with>>
  BY DEF EpisodeStart, Alone, renderingVars, captureVars, settingVars, commandVars
<1>2. /\ rec'.pc = "plan" /\ rec'.frames = <<>> /\ rec'.group = "none"
      /\ rec'.plan.joints = SelectJoints(o) /\ rec'.snap.state = StateMessage /\ rec'.snap.at = now
      /\ DOMAIN rec' = {"pc", "plan", "snap", "frames", "ending", "failed", "group"}
      /\ DOMAIN rec'.plan = {"joints", "ees", "sensors", "first", "features"}
      /\ DOMAIN rec'.snap = {"state", "cmds", "at", "cmdAt"}
  BY <1>1 DEF AtRest, NoPlan, NoSnap
<1>3. now \in Nat /\ Lasting
  BY <1>1 DEF RenderInv, RenderTypes, Lasting
<1>4. Shapes' /\ Past' /\ Together' /\ Told' /\ Saved'
  BY <1>1, <1>2, EmptyProper DEF EpisodeInv, Shapes, Past, Together, Told, Saved, Named, Planning, Recording
<1>5. Snapshot'
  <2>1. StateAt(rec'.snap.state, rec'.snap.at)
    BY <1>2, <1>3, StateNow
  <2>2. StateAt(rec.snap.state, rec.snap.at)'
    BY <1>1, <2>1 DEF StateAt, JointSet, IsGazebo
  <2>. QED BY <1>2, <2>2 DEF Snapshot
<1>6. Planned'
  <2>1. GoodNames(rec'.plan.joints)
    BY <1>2, SelectedJoints DEF EpisodeInv, Shapes
  <2>2. GoodNames(rec.plan.joints)'
    BY <1>1, <2>1 DEF GoodNames, JointSet, IsGazebo
  <2>. QED BY <1>2, <2>2 DEF Planned, Recording
<1>7. Used'
  BY <1>1, <1>2, UsedLasts DEF EpisodeInv, Used
<1>. QED BY <1>4, <1>5, <1>6, <1>7 DEF EpisodeInv

\* The commands are asked for after the state; what is filled in is of then.
LEMMA EpisodePlanned == RenderInv /\ EpisodeInv /\ (PlanCommand \/ SampleCommand) => EpisodeInv'
<1>. SUFFICES ASSUME RenderInv, EpisodeInv, PlanCommand \/ SampleCommand PROVE EpisodeInv'
  OBVIOUS
<1>. DEFINE c == CommandMessage(targets, now)
<1>1. PICK pc \in {"planned", "sensors"} :
        /\ rec' = [rec EXCEPT !.pc = pc, !.snap.cmds = c, !.snap.cmdAt = now]
        /\ rec.pc = IF pc = "planned" THEN "plan" ELSE "command"
        /\ UNCHANGED <<dataset, sent, policy, robot, restarted, now, shows, samples, targets, history, with>>
  BY DEF PlanCommand, SampleCommand, Alone, renderingVars, captureVars, settingVars, commandVars
<1>2. now \in Nat /\ CommandsAt(c, now)
  BY CommandsNow DEF RenderInv, RenderTypes, EpisodeInv
<1>. HIDE DEF c
<1>3. /\ rec'.pc = pc /\ rec'.plan = rec.plan /\ rec'.frames = rec.frames /\ rec'.group = rec.group
      /\ rec'.snap.state = rec.snap.state /\ rec'.snap.at = rec.snap.at
      /\ rec'.snap.cmds = c /\ rec'.snap.cmdAt = now
      /\ DOMAIN rec' = DOMAIN rec /\ DOMAIN rec'.snap = DOMAIN rec.snap
  BY <1>1 DEF EpisodeInv, Shapes
<1>4. StateAt(rec.snap.state, rec.snap.at)'
  <2>1. StateAt(rec.snap.state, rec.snap.at)
    BY <1>1 DEF EpisodeInv, Snapshot
  <2>. QED BY <1>1, <1>3, <2>1 DEF StateAt, JointSet, IsGazebo
<1>5. CommandsAt(rec.snap.cmds, rec.snap.cmdAt)'
  BY <1>1, <1>2, <1>3 DEF CommandsAt, CommandMessage, JointSet, IsGazebo
<1>6. Snapshot'
  BY <1>1, <1>3, <1>4, <1>5 DEF EpisodeInv, Snapshot, IsMujoco
<1>7. Together'
  BY <1>1 DEF EpisodeInv, Together
<1>8. /\ Planning \/ Recording
      /\ Planning' \/ Recording'
      /\ Planning' => Planning
      /\ rec'.pc = "open" \/ Recording' => rec.pc = "open" \/ Recording
  BY <1>1, <1>3 DEF Planning, Recording
<1>. QED BY <1>1, <1>3, <1>6, <1>7, <1>8, EpisodeGoesOn

LEMMA EpisodeReads ==
  RenderInv /\ EpisodeInv /\ (PlanReads \/ Sampling \/ SampleState \/ EpisodeEnd) => EpisodeInv'
<1>. SUFFICES ASSUME RenderInv, EpisodeInv, PlanReads \/ Sampling \/ SampleState \/ EpisodeEnd PROVE EpisodeInv'
  OBVIOUS
<1>1. /\ UNCHANGED <<dataset, sent, policy, robot, restarted, now, shows, targets, history, with>>
      /\ samples' = samples \/ samples' = <<>>
  BY DEF PlanReads, Sampling, SampleState, EpisodeEnd, Alone, Beside, Call, OpenCapture, CloseCapture,
         renderingVars, captureVars, settingVars, commandVars
<1>2. now \in Nat /\ Lasting
  BY <1>1 DEF RenderInv, RenderTypes, Lasting
<1>3. Together'
  <2>1. ToSet(samples') \subseteq ToSet(samples)
    BY <1>1, EmptyProper
  <2>. QED BY <1>1, <1>2, <2>1, TogetherLasts DEF EpisodeInv
<1>4. CASE PlanReads
  <2>1. rec' = [rec EXCEPT !.pc = "planning"] /\ rec.pc = "planned" /\ IsMujoco
    BY <1>4 DEF PlanReads
  <2>2. /\ rec'.pc = "planning" /\ rec'.plan = rec.plan /\ rec'.frames = rec.frames /\ rec'.group = rec.group
        /\ rec'.snap = rec.snap /\ DOMAIN rec' = DOMAIN rec /\ DOMAIN rec'.snap = DOMAIN rec.snap
    BY <2>1 DEF EpisodeInv, Shapes
  <2>3. StateAt(rec.snap.state, rec.snap.at) /\ CommandsAt(rec.snap.cmds, rec.snap.cmdAt)
    BY <2>1 DEF EpisodeInv, Snapshot
  <2>4. StateAt(rec.snap.state, rec.snap.at)' /\ CommandsAt(rec.snap.cmds, rec.snap.cmdAt)'
    BY <1>1, <2>2, <2>3 DEF StateAt, CommandsAt, CommandMessage, JointSet, IsGazebo
  <2>5. Snapshot'
    BY <1>1, <2>1, <2>2, <2>4 DEF Snapshot, IsMujoco
  <2>. QED BY <1>1, <1>3, <2>1, <2>2, <2>5, EpisodeGoesOn DEF Planning, Recording
<1>5. CASE Sampling
  <2>1. rec' = [rec EXCEPT !.pc = "loop", !.snap = NoSnap] /\ rec.pc = "open"
    BY <1>5 DEF Sampling
  <2>2. /\ rec'.pc = "loop" /\ rec'.plan = rec.plan /\ rec'.frames = rec.frames /\ rec'.group = rec.group
        /\ DOMAIN rec' = DOMAIN rec /\ DOMAIN rec'.snap = DOMAIN rec.snap
    BY <2>1 DEF EpisodeInv, Shapes, NoSnap
  <2>3. Snapshot'
    BY <2>2 DEF Snapshot
  <2>. QED BY <1>1, <1>3, <2>1, <2>2, <2>3, EpisodeGoesOn DEF Planning, Recording
<1>6. CASE SampleState
  <2>1. /\ rec' = [rec EXCEPT !.pc = "command", !.snap.state = StateMessage, !.snap.at = now]
        /\ rec.pc = "loop" /\ ~IsMujoco
    BY <1>6 DEF SampleState
  <2>2. /\ rec'.pc = "command" /\ rec'.plan = rec.plan /\ rec'.frames = rec.frames /\ rec'.group = rec.group
        /\ rec'.snap.state = StateMessage /\ rec'.snap.at = now
        /\ DOMAIN rec' = DOMAIN rec /\ DOMAIN rec'.snap = DOMAIN rec.snap
    BY <2>1 DEF EpisodeInv, Shapes
  <2>3. StateAt(rec.snap.state, rec.snap.at)'
    <3>1. StateAt(rec'.snap.state, rec'.snap.at)
      BY <1>2, <2>2, StateNow
    <3>. QED BY <1>1, <3>1 DEF StateAt, JointSet, IsGazebo
  <2>4. Snapshot'
    BY <1>1, <2>1, <2>2, <2>3 DEF Snapshot, IsMujoco
  <2>. QED BY <1>1, <1>3, <2>1, <2>2, <2>4, EpisodeGoesOn DEF Planning, Recording
<1>7. CASE EpisodeEnd
  <2>1. /\ \E how : rec' = [rec EXCEPT !.ending = how] /\ Recording /\ reader' = reader
    BY <1>7 DEF EpisodeEnd, Recording, CloseCapture, renderingVars
  <2>2. /\ rec'.pc = rec.pc /\ rec'.plan = rec.plan /\ rec'.frames = rec.frames /\ rec'.group = rec.group
        /\ rec'.snap = rec.snap /\ DOMAIN rec' = DOMAIN rec /\ DOMAIN rec'.snap = DOMAIN rec.snap
    BY <2>1 DEF EpisodeInv, Shapes
  <2>3. Snapshot'
    BY <1>1, <1>2, <2>1, <2>2, PastLasts DEF EpisodeInv, Snapshot, IsMujoco, Reading
  <2>. QED BY <1>1, <1>3, <2>1, <2>2, <2>3, EpisodeGoesOn DEF Planning, Recording
<1>. QED BY <1>4, <1>5, <1>6, <1>7

\* A sample is of the instant it shows, and its targets are of that instant.
LEMMA EpisodeFetches == RenderInv /\ EpisodeInv /\ FetchSample => EpisodeInv'
<1>. SUFFICES ASSUME RenderInv, EpisodeInv, FetchSample PROVE EpisodeInv'
  OBVIOUS
<1>. DEFINE b == Head(samples)
            state == [j \in JointSet |-> <<j, "at", shows[b]>>]
            cmds == CommandMessage(with[b], shows[b])
            snap == [state |-> state, cmds |-> cmds, at |-> shows[b], cmdAt |-> shows[b]]
<1>1. /\ rec.pc = "loop" /\ IsMujoco /\ samples # <<>> /\ samples' = Tail(samples)
      /\ rec' = [rec EXCEPT !.pc = "sample", !.snap = snap]
      /\ with' = [with EXCEPT ![b] = <<>>]
      /\ \E n : reader' = [reader EXCEPT ![Recorder] =
                             [pc |-> "read", data |-> b, left |-> n, seen |-> {shows[b]}]]
      /\ UNCHANGED <<dataset, sent, policy, robot, restarted, now, shows, targets, history>>
  BY DEF FetchSample, Fetch, settingVars
<1>2. /\ b \in ToSet(samples) /\ b \notin ToSet(Tail(samples)) /\ ToSet(Tail(samples)) \subseteq ToSet(samples)
  <2>1. /\ samples \in Seq(Buffers) /\ samples # <<>> /\ \A i, j \in DOMAIN samples : samples[i] = samples[j] => i = j
    BY <1>1 DEF RenderInv, RenderTypes, Distinct
  <2>2. /\ Len(samples) \in Nat \ {0} /\ DOMAIN samples = 1..Len(samples) /\ b = samples[1]
        /\ DOMAIN Tail(samples) = 1..(Len(samples) - 1)
        /\ \A i \in DOMAIN Tail(samples) : Tail(samples)[i] = samples[i + 1]
    BY <2>1
  <2>. HIDE DEF b
  <2>. QED BY <2>1, <2>2 DEF ToSet
<1>3. now \in Nat /\ shows[b] \in 0..now /\ with[b] = history[shows[b] + 1] /\ DOMAIN with = Buffers
  BY <1>2 DEF RenderInv, RenderTypes, EpisodeInv, Together
<1>4. StateAt(state, shows[b]) /\ CommandsAt(cmds, shows[b])
  BY <1>3 DEF StateAt, CommandsAt
<1>5. snap.state = state /\ snap.cmds = cmds /\ snap.at = shows[b] /\ snap.cmdAt = shows[b]
      /\ DOMAIN snap = {"state", "cmds", "at", "cmdAt"}
  OBVIOUS
<1>6. Recorder \in Readers /\ reader \in [Readers -> ReaderRecord]
  BY DEF RenderInv, RenderTypes, Readers
<1>7. reader'[Recorder].pc = "read" /\ reader'[Recorder].seen = {shows[b]}
  BY <1>1, <1>6
<1>. HIDE DEF snap, state, cmds, b
<1>8. /\ rec'.pc = "sample" /\ rec'.plan = rec.plan /\ rec'.frames = rec.frames /\ rec'.group = rec.group
      /\ rec'.snap = snap /\ DOMAIN rec' = DOMAIN rec /\ DOMAIN rec'.snap = DOMAIN rec.snap
  BY <1>1, <1>5 DEF EpisodeInv, Shapes
<1>9. Together'
  <2>1. DOMAIN with' = Buffers /\ \A c \in ToSet(samples') : with'[c] = with[c] /\ c \in ToSet(samples)
    BY <1>1, <1>2, <1>3
  <2>. QED BY <1>1, <2>1 DEF EpisodeInv, Together
<1>10. StateAt(rec.snap.state, rec.snap.at)' /\ CommandsAt(rec.snap.cmds, rec.snap.cmdAt)'
  BY <1>1, <1>4, <1>5, <1>8 DEF StateAt, CommandsAt, CommandMessage, JointSet, IsGazebo
<1>11. Snapshot'
  BY <1>1, <1>5, <1>7, <1>8, <1>10 DEF Snapshot, IsMujoco
<1>. QED BY <1>1, <1>8, <1>9, <1>11, EpisodeGoesOn DEF Planning, Recording

\* A frame is added, or the thread ends.
LEMMA EpisodeAdds ==
  ASSUME RenderInv, EpisodeInv, Recording,
         UNCHANGED <<robot, restarted, now, targets, history, dataset, sent, policy>>, Together',
         \/ rec' = [rec EXCEPT !.pc = "ended", !.failed = TRUE]
         \/ \E f : rec' = Added(f) /\ (f.shapes = rec.plan.features => FrameTrue(f))
  PROVE  EpisodeInv'
<1>1. CASE rec' = [rec EXCEPT !.pc = "ended", !.failed = TRUE]
  <2>1. /\ rec'.pc = "ended" /\ rec'.plan = rec.plan /\ rec'.frames = rec.frames /\ rec'.group = rec.group
        /\ DOMAIN rec' = DOMAIN rec /\ DOMAIN rec'.snap = DOMAIN rec.snap
    BY <1>1 DEF EpisodeInv, Shapes
  <2>2. Snapshot'
    BY <2>1 DEF Snapshot
  <2>. QED BY <2>1, <2>2, EpisodeGoesOn DEF Planning, Recording
<1>2. ASSUME NEW f, FrameTrue(f), rec' = [rec EXCEPT !.pc = "loop", !.snap = NoSnap, !.frames = Append(@, f)]
      PROVE  EpisodeInv'
  <2>0. DOMAIN NoSnap = {"state", "cmds", "at", "cmdAt"}
    BY DEF NoSnap
  <2>1. /\ rec'.pc = "loop" /\ rec'.plan = rec.plan /\ rec'.frames = Append(rec.frames, f)
        /\ rec'.group = rec.group /\ DOMAIN rec' = DOMAIN rec /\ DOMAIN rec'.snap = DOMAIN rec.snap
    BY <1>2, <2>0 DEF EpisodeInv, Shapes
  <2>2. Proper(rec'.frames) /\ ToSet(rec'.frames) = ToSet(rec.frames) \cup {f}
    BY <2>1, AppendFacts DEF EpisodeInv, Shapes
  <2>3. Shapes' /\ Past' /\ Snapshot'
    BY <2>1, <2>2 DEF EpisodeInv, Shapes, Past, Snapshot, Planning, Recording
  <2>4. Planned'
    <3>1. GoodNames(rec.plan.joints)' <=> GoodNames(rec.plan.joints)
      BY <2>1 DEF GoodNames, JointSet, IsGazebo
    <3>. QED BY <2>1, <3>1 DEF EpisodeInv, Planned, Planning, Recording
  <2>5. Told'
    <3>1. now \in Nat /\ Lasting
      BY DEF RenderInv, RenderTypes, Lasting
    <3>2. \A g \in ToSet(rec'.frames) : FrameTrue(g)'
      BY <1>2, <2>1, <2>2, <3>1, FramesLast DEF EpisodeInv, Told
    <3>. QED BY <3>2 DEF Told
  <2>6. Saved'
    BY DEF EpisodeInv, Saved, Named
  <2>7. Used'
    BY <2>1, UsedLasts DEF EpisodeInv, Used, Recording
  <2>. QED BY <2>3, <2>4, <2>5, <2>6, <2>7 DEF EpisodeInv
<1>. QED BY <1>1, <1>2 DEF Added

\* A frame made from a snapshot says what the snapshot says.
LEMMA FrameMade ==
  ASSUME NEW plan, NEW snap, NEW reading, NEW drawn, GoodNames(plan.joints),
         StateAt(snap.state, snap.at), CommandsAt(snap.cmds, snap.cmdAt)
  PROVE  LET f == Frame(plan, snap, reading, drawn) IN
         /\ f.cmdAt = snap.cmdAt /\ f.cmdAt \in 0..now /\ f.at = {snap.at} \cup drawn
         /\ f.shapes = FrameShapes(plan, reading)
         /\ \A i \in DOMAIN plan.joints :
              /\ \/ \E t \in f.at : f.state[i] = <<plan.joints[i], "at", t>>
                 \/ IsGazebo /\ f.state[i] = Zero
              /\ f.action[i] = ActionOf(plan.joints[i], f.cmdAt)
<1>. DEFINE f == Frame(plan, snap, reading, drawn)
<1>1. /\ f.cmdAt = snap.cmdAt /\ f.at = {snap.at} \cup drawn /\ f.shapes = FrameShapes(plan, reading)
      /\ f.state = JointVector(snap.state, plan.joints) /\ f.action = JointVector(snap.cmds, plan.joints)
  BY DEF Frame
<1>. HIDE DEF f
<1>2. ~IsGazebo => ToSet(plan.joints) \subseteq JointSet
  BY DEF GoodNames
<1>3. snap.cmdAt \in 0..now
  BY DEF CommandsAt
<1>4. ASSUME NEW i \in DOMAIN plan.joints
      PROVE  /\ \/ \E t \in f.at : f.state[i] = <<plan.joints[i], "at", t>>
                \/ IsGazebo /\ f.state[i] = Zero
             /\ f.action[i] = ActionOf(plan.joints[i], f.cmdAt)
  <2>1. \/ f.state[i] = <<plan.joints[i], "at", snap.at>>
        \/ IsGazebo /\ f.state[i] = Zero
    BY <1>1, <1>2, SnapshotTold
  <2>2. f.action[i] = ActionOf(plan.joints[i], f.cmdAt)
    BY <1>1, <1>2, SnapshotCommanded
  <2>. QED BY <1>1, <2>1, <2>2
<1>. QED BY <1>1, <1>3, <1>4 DEF f

\* The plan is made, with the dataset's joints, and its first frame if there is one.
LEMMA EpisodePlanMade ==
  ASSUME RenderInv, EpisodeInv, rec.pc \in {"planned", "planning"}, NEW reading, PlanMade(reading),
         UNCHANGED <<robot, restarted, now, targets, history, sent, policy>>, Together'
  PROVE  EpisodeInv'
<1>. DEFINE features == BuildFeatures(rec.plan.joints, rec.plan.ees, reading)
            plan == [rec.plan EXCEPT !.first = reading, !.features = features]
            made == ~Unreadable(reading) /\ SameFeatures(plan.features)
            f == Frame(plan, rec.snap, reading, {})
<1>1. /\ rec' = IF ~made THEN AtRest
                ELSE IF IsMujoco THEN [rec EXCEPT !.pc = "open", !.plan = plan]
                ELSE [rec EXCEPT !.pc = "loop", !.snap = NoSnap, !.plan = plan, !.frames = <<f>>]
      /\ dataset' = IF made /\ dataset = NoDataset
                    THEN [features |-> plan.features, names |-> plan.joints, episodes |-> <<>>]
                    ELSE dataset
  BY DEF PlanMade
<1>2. /\ plan.joints = rec.plan.joints /\ plan.ees = rec.plan.ees /\ plan.first = reading
      /\ plan.features = features /\ DOMAIN plan = {"joints", "ees", "sensors", "first", "features"}
  <2>. HIDE DEF features
  <2>. QED BY DEF EpisodeInv, Shapes
<1>3. features = BuildFeatures(plan.joints, plan.ees, plan.first)
  BY <1>2
<1>4. Actions(features) = ActionsOf(plan.joints)
  BY <1>3, NamesInFeatures
<1>5. /\ GoodNames(plan.joints) /\ StateAt(rec.snap.state, rec.snap.at)
      /\ CommandsAt(rec.snap.cmds, rec.snap.cmdAt) /\ rec.frames = <<>>
      /\ ~restarted /\ policy = NoPolicy /\ rec.group = "none"
  BY <1>2 DEF EpisodeInv, Planned, Snapshot, Used, Planning
<1>6. CASE ~made
  <2>1. rec' = AtRest /\ dataset' = dataset
    BY <1>1, <1>6
  <2>2. Saved' /\ DOMAIN dataset' = {"features", "names", "episodes"} /\ Proper(dataset'.episodes)
    BY <2>1 DEF EpisodeInv, Saved, Named, Shapes
  <2>. QED BY <2>1, <2>2, EpisodeRests
<1>7. CASE made
  <2>1. /\ dataset'.names = plan.joints /\ DOMAIN dataset' = {"features", "names", "episodes"}
        /\ Proper(dataset'.episodes) /\ Saved'
    <3>1. CASE dataset = NoDataset
      <4>1. dataset' = [features |-> features, names |-> plan.joints, episodes |-> <<>>]
        BY <1>1, <1>2, <1>7, <3>1
      <4>. HIDE DEF features, plan
      <4>2. /\ dataset'.names = plan.joints /\ DOMAIN dataset' = {"features", "names", "episodes"}
            /\ dataset'.episodes = <<>> /\ dataset'.features = features
        BY <4>1
      <4>. QED BY <1>4, <1>5, <4>2, EmptyProper DEF Saved, GoodNames
    <3>2. CASE dataset # NoDataset
      <4>1. dataset' = dataset /\ dataset.features = features
        BY <1>1, <1>2, <1>7, <3>2 DEF SameFeatures
      <4>2. dataset.names = plan.joints
        BY <1>4, <4>1, SameNames DEF EpisodeInv, Saved
      <4>. QED BY <4>1, <4>2 DEF EpisodeInv, Saved, Named, Shapes
    <3>. QED BY <3>1, <3>2
  <2>2. GoodNames(plan.joints) /\ Past'
    BY <1>5 DEF EpisodeInv, Past
  <2>3. CASE IsMujoco
    <3>1. rec' = [rec EXCEPT !.pc = "open", !.plan = plan]
      BY <1>1, <1>7, <2>3
    <3>. HIDE DEF plan, features
    <3>2. /\ rec'.pc = "open" /\ rec'.plan = plan /\ rec'.frames = <<>> /\ rec'.group = "none"
          /\ DOMAIN rec' = DOMAIN rec /\ rec'.snap = rec.snap
      BY <1>5, <3>1 DEF EpisodeInv, Shapes
    <3>3. Shapes' /\ Snapshot' /\ Told' /\ Used'
      <4>1. policy.group = "none" /\ policy.seen = <<>>
        BY <1>5 DEF NoPolicy
      <4>2. Shapes' /\ Snapshot' /\ Told'
        BY <1>2, <2>1, <2>3, <3>2, EmptyProper
           DEF EpisodeInv, Shapes, Snapshot, Told, Planning, Recording, IsMujoco
      <4>. QED BY <1>5, <3>2, <4>1, <4>2 DEF Used
    <3>4. Planned'
      <4>1. GoodNames(rec.plan.joints)'
        BY <2>2, <3>2 DEF GoodNames, JointSet, IsGazebo
      <4>. QED BY <1>2, <1>3, <2>1, <3>2, <4>1 DEF Planned, Recording
    <3>. QED BY <2>1, <2>2, <3>3, <3>4 DEF EpisodeInv
  <2>4. CASE ~IsMujoco
    <3>1. rec' = [rec EXCEPT !.pc = "loop", !.snap = NoSnap, !.plan = plan, !.frames = <<f>>]
      BY <1>1, <1>7, <2>4
    <3>2. FrameShapes(plan, reading) = features
      <4>. HIDE DEF plan
      <4>. QED BY <1>2, ShapesFit
    <3>3. /\ f.cmdAt \in 0..now /\ f.shapes = features
          /\ \A i \in DOMAIN plan.joints :
              /\ \/ \E t \in f.at : f.state[i] = <<plan.joints[i], "at", t>>
                 \/ IsGazebo /\ f.state[i] = Zero
              /\ f.action[i] = ActionOf(plan.joints[i], f.cmdAt)
      <4>. HIDE DEF plan, features
      <4>. QED BY <1>5, <3>2, FrameMade
    <3>. HIDE DEF plan, features, f
    <3>8. PICK g : g = f
      OBVIOUS
    <3>4. /\ rec'.pc = "loop" /\ rec'.plan = plan /\ rec'.frames = <<g>> /\ rec'.group = "none"
          /\ DOMAIN rec' = DOMAIN rec /\ DOMAIN rec'.snap = DOMAIN rec.snap
      BY <1>5, <3>1, <3>8 DEF EpisodeInv, Shapes, NoSnap
    <3>5. Shapes' /\ Snapshot' /\ Used'
      <4>1. policy.group = "none" /\ policy.seen = <<>>
        BY <1>5 DEF NoPolicy
      <4>2. Shapes' /\ Snapshot'
        BY <1>2, <2>1, <3>4, SingleProper DEF EpisodeInv, Shapes, Snapshot, Planning, Recording
      <4>. QED BY <1>5, <3>4, <4>1, <4>2 DEF Used
    <3>6. Planned'
      <4>1. GoodNames(rec.plan.joints)'
        BY <2>2, <3>4 DEF GoodNames, JointSet, IsGazebo
      <4>. QED BY <1>2, <1>3, <2>1, <3>4, <4>1 DEF Planned, Planning
    <3>7. Told'
      <4>1. ToSet(rec'.frames) = {g}
        BY <3>4, SingleProper
      <4>2. \A j : ActionOf(j, g.cmdAt)' = ActionOf(j, g.cmdAt)
        BY DEF ActionOf, IsGazebo
      <4>3. FrameTrue(g)'
        BY <1>2, <2>4, <3>3, <3>4, <3>8, <4>2 DEF FrameTrue, IsGazebo, IsMujoco
      <4>. QED BY <4>1, <4>3 DEF Told
    <3>. QED BY <2>1, <2>2, <3>5, <3>6, <3>7 DEF EpisodeInv
  <2>. QED BY <2>3, <2>4
<1>. QED BY <1>6, <1>7

LEMMA EpisodePlans == RenderInv /\ EpisodeInv /\ (Plan \/ PlanRead \/ PlanRaised) => EpisodeInv'
<1>. SUFFICES ASSUME RenderInv, EpisodeInv, Plan \/ PlanRead \/ PlanRaised PROVE EpisodeInv'
  OBVIOUS
<1>1. UNCHANGED <<sent, policy, robot, restarted, now, shows, samples, targets, history, with>>
  BY DEF Plan, PlanRead, PlanRaised, Alone, Beside, Finish, renderingVars, captureVars, settingVars, commandVars
<1>2. Together'
  BY <1>1 DEF EpisodeInv, Together
<1>3. CASE Plan \/ PlanRead
  BY <1>1, <1>2, <1>3, EpisodePlanMade DEF Plan, PlanRead
<1>4. CASE PlanRaised
  <2>1. rec' = AtRest /\ dataset' = dataset
    BY <1>4 DEF PlanRaised
  <2>2. Saved' /\ DOMAIN dataset' = {"features", "names", "episodes"} /\ Proper(dataset'.episodes)
    BY <2>1 DEF EpisodeInv, Saved, Named, Shapes
  <2>. QED BY <1>1, <1>2, <2>1, <2>2, EpisodeRests
<1>. QED BY <1>3, <1>4

\* All of a frame is of one instant, with MuJoCo.
LEMMA EpisodeSamples == RenderInv /\ EpisodeInv /\ (SampleDone \/ SampleRaised \/ SampleSensors) => EpisodeInv'
<1>. SUFFICES ASSUME RenderInv, EpisodeInv, SampleDone \/ SampleRaised \/ SampleSensors PROVE EpisodeInv'
  OBVIOUS
<1>. DEFINE reading == SensorReading(rec.plan.sensors)
<1>1. /\ UNCHANGED <<dataset, sent, policy, robot, restarted, now, shows, targets, history, with>>
      /\ samples' = samples \/ samples' = <<>>
  BY DEF SampleDone, SampleRaised, SampleSensors, Alone, Beside, Finish, renderingVars, captureVars, settingVars,
         commandVars
<1>2. Together'
  <2>1. ToSet(samples') \subseteq ToSet(samples)
    BY <1>1, EmptyProper
  <2>. QED BY <1>1, <2>1 DEF EpisodeInv, Together
<1>3. Recording
  BY DEF SampleDone, SampleRaised, SampleSensors, Recording
<1>4. CASE SampleDone
  <2>. DEFINE f == Frame(rec.plan, rec.snap, reading, reader[Recorder].seen)
  <2>1. rec.pc = "sample" /\ Reading(Recorder) /\ rec' = Added(f)
    BY <1>4 DEF SampleDone, Finish, Reading
  <2>2. /\ IsMujoco /\ rec.snap.at = rec.snap.cmdAt /\ rec.snap.at \in reader[Recorder].seen
        /\ GoodNames(rec.plan.joints) /\ StateAt(rec.snap.state, rec.snap.at)
        /\ CommandsAt(rec.snap.cmds, rec.snap.cmdAt)
    BY <1>3, <2>1 DEF EpisodeInv, Snapshot, Planned
  <2>3. reader[Recorder].seen = {rec.snap.cmdAt}
    <3>1. reader[Recorder].seen = {Instant(Recorder)}
      BY <2>1 DEF RenderInv, Still, Readers
    <3>. QED BY <2>2, <3>1
  <2>. HIDE DEF reading
  <2>5. /\ f.cmdAt = rec.snap.cmdAt /\ f.cmdAt \in 0..now
        /\ f.at = {rec.snap.at} \cup reader[Recorder].seen
        /\ \A i \in DOMAIN rec.plan.joints :
             /\ \/ \E t \in f.at : f.state[i] = <<rec.plan.joints[i], "at", t>>
                \/ IsGazebo /\ f.state[i] = Zero
             /\ f.action[i] = ActionOf(rec.plan.joints[i], f.cmdAt)
    BY <2>2, FrameMade
  <2>6. f.at = {f.cmdAt}
    BY <2>2, <2>3, <2>5
  <2>. HIDE DEF f
  <2>4. f.shapes = rec.plan.features => FrameTrue(f)
    BY <2>5, <2>6 DEF FrameTrue
  <2>. HIDE DEF f
  <2>. QED BY <1>1, <1>2, <1>3, <2>1, <2>4, EpisodeAdds
<1>5. CASE SampleRaised
  BY <1>1, <1>2, <1>3, <1>5, EpisodeAdds DEF SampleRaised
<1>6. CASE SampleSensors
  <2>. DEFINE f == Frame(rec.plan, rec.snap, reading, {})
  <2>1. /\ rec.pc = "sensors"
        /\ rec' = [rec EXCEPT !.pc = "ended", !.failed = TRUE] \/ rec' = Added(f)
    BY <1>6 DEF SampleSensors
  <2>2. /\ ~IsMujoco /\ GoodNames(rec.plan.joints) /\ StateAt(rec.snap.state, rec.snap.at)
        /\ CommandsAt(rec.snap.cmds, rec.snap.cmdAt)
    BY <1>3, <2>1 DEF EpisodeInv, Snapshot, Planned
  <2>. HIDE DEF reading
  <2>3. f.shapes = rec.plan.features => FrameTrue(f)
    BY <2>2, FrameMade DEF FrameTrue
  <2>. HIDE DEF f
  <2>. QED BY <1>1, <1>2, <1>3, <2>1, <2>3, EpisodeAdds
<1>. QED BY <1>4, <1>5, <1>6

\* What is saved names every value's joint.
LEMMA EpisodeSaved == RenderInv /\ EpisodeInv /\ EpisodeEnded => EpisodeInv'
<1>. SUFFICES ASSUME RenderInv, EpisodeInv, EpisodeEnded PROVE EpisodeInv'
  OBVIOUS
<1>1. /\ rec.pc \in {"loop", "ended"} /\ rec' = AtRest
      /\ \/ dataset' = NoDataset \/ dataset' = dataset
         \/ dataset' = [dataset EXCEPT !.episodes = Append(@, rec.frames)]
      /\ UNCHANGED <<sent, policy, robot, restarted, now, shows, samples, targets, history, with>>
  BY DEF EpisodeEnded, Alone, renderingVars, captureVars, settingVars, commandVars
<1>2. Together'
  BY <1>1 DEF EpisodeInv, Together
<1>3. ~restarted /\ Recording /\ dataset.names = rec.plan.joints /\ now \in Nat
  BY <1>1 DEF EpisodeInv, Used, Planned, Recording, RenderInv, RenderTypes
<1>4. CASE dataset' = NoDataset
  <2>1. /\ dataset'.features = {} /\ dataset'.names = <<>> /\ dataset'.episodes = <<>>
        /\ DOMAIN dataset' = {"features", "names", "episodes"}
    BY <1>4 DEF NoDataset
  <2>2. Saved' /\ Proper(dataset'.episodes)
    BY <2>1, EmptyProper DEF Saved, Actions, ActionsOf, IsInjective
  <2>. QED BY <1>1, <1>2, <1>3, <2>1, <2>2, EpisodeRests
<1>5. CASE dataset' = dataset
  <2>1. Saved' /\ DOMAIN dataset' = {"features", "names", "episodes"} /\ Proper(dataset'.episodes)
    BY <1>5 DEF EpisodeInv, Saved, Named, Shapes
  <2>. QED BY <1>1, <1>2, <1>3, <2>1, EpisodeRests
<1>6. CASE dataset' = [dataset EXCEPT !.episodes = Append(@, rec.frames)]
  <2>1. /\ dataset'.features = dataset.features /\ dataset'.names = dataset.names
        /\ dataset'.episodes = Append(dataset.episodes, rec.frames)
        /\ DOMAIN dataset' = {"features", "names", "episodes"}
    BY <1>6 DEF EpisodeInv, Shapes
  <2>2. /\ Proper(dataset'.episodes) /\ Proper(rec.frames)
        /\ ToSet(dataset'.episodes) = ToSet(dataset.episodes) \cup {rec.frames}
    BY <2>1, AppendFacts DEF EpisodeInv, Shapes
  <2>3. ASSUME NEW f \in ToSet(rec.frames) PROVE Named(f.action)
    <3>1. FrameTrue(f)
      BY <1>3 DEF EpisodeInv, Told
    <3>2. f.cmdAt \in 0..now /\ \A i \in DOMAIN dataset.names : f.action[i] = ActionOf(dataset.names[i], f.cmdAt)
      BY <1>3, <3>1 DEF FrameTrue
    <3>3. \A i \in DOMAIN dataset.names :
            ActionOf(dataset.names[i], f.cmdAt) = Zero
              \/ ActionOf(dataset.names[i], f.cmdAt)[1] = dataset.names[i]
      BY <1>3, <3>2, ActionNamed DEF EpisodeInv
    <3>. QED BY <3>2, <3>3 DEF Named
  <2>4. Saved'
    <3>1. \A a : Named(a)' <=> Named(a)
      BY <2>1 DEF Named
    <3>. QED BY <2>1, <2>2, <2>3, <3>1 DEF EpisodeInv, Saved
  <2>. QED BY <1>1, <1>2, <1>3, <2>1, <2>2, <2>4, EpisodeRests
<1>. QED BY <1>1, <1>4, <1>5, <1>6

LEMMA EpisodeReplays == RenderInv /\ EpisodeInv /\ EpisodeReplay => EpisodeInv'
<1>. SUFFICES ASSUME RenderInv, EpisodeInv, EpisodeReplay PROVE EpisodeInv'
  OBVIOUS
<1>. DEFINE group == ResolveGroup(dataset.names)
<1>1. PICK e \in DOMAIN dataset.episodes :
        /\ rec.pc = "idle" /\ group # "ambiguous" /\ restarted /\ sent = <<>> /\ policy = NoPolicy
        /\ rec' = [AtRest EXCEPT !.pc = "replay", !.frames = dataset.episodes[e], !.group = group]
        /\ UNCHANGED <<dataset, sent, policy, robot, restarted, now, shows, samples, targets, history, with>>
  BY DEF EpisodeReplay, Alone, renderingVars, captureVars, settingVars, commandVars
<1>2. group # "none" => ToSet(dataset.names) \subseteq ToSet(Group(group).joints)
  BY <1>1, GroupHasThem DEF EpisodeInv, Shapes
<1>. DEFINE frames == dataset.episodes[e]
<1>3. frames \in ToSet(dataset.episodes) /\ Proper(frames)
  BY DEF EpisodeInv, Saved, ToSet
<1>. HIDE DEF group, frames
<1>4. /\ rec'.pc = "replay" /\ rec'.frames = frames /\ rec'.group = group
      /\ DOMAIN rec' = {"pc", "plan", "snap", "frames", "ending", "failed", "group"}
      /\ DOMAIN rec'.plan = {"joints", "ees", "sensors", "first", "features"}
      /\ DOMAIN rec'.snap = {"state", "cmds", "at", "cmdAt"}
  BY <1>1 DEF AtRest, NoPlan, NoSnap, frames
<1>5. Shapes' /\ Past' /\ Together' /\ Snapshot' /\ Planned' /\ Told' /\ Saved'
  BY <1>1, <1>3, <1>4
     DEF EpisodeInv, Shapes, Past, Together, Snapshot, Planned, Told, Saved, Named, Planning, Recording
<1>6. Used'
  <2>1. policy.group = "none" /\ policy.seen = <<>>
    BY <1>1 DEF NoPolicy
  <2>2. Len(sent) <= Len(rec'.frames) /\ DOMAIN sent = {}
    <3>1. Len(frames) \in Nat
      BY <1>3, AppendFacts
    <3>. QED BY <1>1, <1>4, <3>1, EmptyProper
  <2>3. Group(rec.group)' = Group(group)
    BY <1>1, <1>4 DEF Group
  <2>4. \A g \in {rec'.group, policy'.group} \ {"none"} :
          ToSet(dataset'.names) \subseteq ToSet(Group(g)'.joints)
    <3>1. \A g : Group(g)' = Group(g)
      BY <1>1 DEF Group
    <3>. QED BY <1>1, <1>2, <1>4, <2>1, <3>1
  <2>. QED BY <1>1, <1>3, <1>4, <2>1, <2>2, <2>4 DEF Used
<1>. QED BY <1>5, <1>6 DEF EpisodeInv

\* A replay sends what its episode says, a frame after the other, or is refused.
LEMMA EpisodeSends == RenderInv /\ EpisodeInv /\ ReplaySend => EpisodeInv'
<1>. SUFFICES ASSUME RenderInv, EpisodeInv, ReplaySend PROVE EpisodeInv'
  OBVIOUS
<1>. DEFINE i == Len(sent) + 1
            told1 == Replayed(rec.frames[i].action)
<1>1. /\ rec.pc = "replay" /\ i <= Len(rec.frames) /\ UNCHANGED <<robot, restarted, dataset, policy>>
      /\ \/ /\ Disturb /\ MovesOn(Commanded(told1))
            /\ sent' = Append(sent, told1) /\ UNCHANGED rec
         \/ rec' = AtRest /\ UNCHANGED <<renderingVars, targets, history, with, sent>>
  BY DEF ReplaySend, settingVars
<1>2. restarted /\ now \in Nat
  BY <1>1 DEF EpisodeInv, Used, RenderInv, RenderTypes
<1>3. CASE rec' = AtRest /\ UNCHANGED <<renderingVars, targets, history, with, sent>>
  <2>1. Together' /\ Saved' /\ DOMAIN dataset' = {"features", "names", "episodes"} /\ Proper(dataset'.episodes)
    BY <1>1, <1>3 DEF EpisodeInv, Together, Saved, Named, Shapes, renderingVars, captureVars
  <2>. QED BY <1>1, <1>3, <2>1, EpisodeRests DEF renderingVars
<1>4. CASE Disturb /\ MovesOn(Commanded(told1)) /\ sent' = Append(sent, told1) /\ UNCHANGED rec
  <2>1. PICK c : targets' = c /\ history' = Append(history, c)
    BY <1>4 DEF MovesOn
  <2>2. now' = now + 1 /\ UNCHANGED <<with, shows, samples>>
    BY <1>4 DEF MovesOn, Disturb, captureVars
  <2>3. Past' /\ Together'
    <3>1. Lasting
      BY <1>1, <2>1, <2>2 DEF Lasting
    <3>2. Past'
      BY <1>1, <1>2, <2>1, <2>2, PastMoves DEF EpisodeInv
    <3>3. Together'
      BY <1>2, <2>2, <3>1, TogetherLasts DEF EpisodeInv
    <3>. QED BY <3>2, <3>3
  <2>4. /\ Proper(sent') /\ Len(sent') = Len(sent) + 1 /\ Len(sent) \in Nat
        /\ DOMAIN sent = 1..Len(sent) /\ DOMAIN sent' = 1..(Len(sent) + 1)
        /\ sent'[Len(sent) + 1] = told1 /\ \A n \in DOMAIN sent : sent'[n] = sent[n]
    BY <1>4, AppendFacts DEF EpisodeInv, Shapes
  <2>5. Shapes' /\ Snapshot' /\ Planned' /\ Told' /\ Saved'
    BY <1>1, <1>4, <2>4 DEF EpisodeInv, Shapes, Snapshot, Planned, Told, Saved, Named, Planning, Recording
  <2>6. \A a : Replayed(a)' = Replayed(a)
    BY <1>1 DEF Replayed
  <2>7. /\ rec.frames \in ToSet(dataset.episodes) /\ Len(sent') <= Len(rec.frames)
        /\ \A n \in DOMAIN sent' : sent'[n] = Replayed(rec.frames[n].action)
    <3>1. \A n \in DOMAIN sent' : n \in DOMAIN sent \/ n = Len(sent) + 1
      BY <2>4
    <3>. QED BY <1>1, <2>4, <3>1 DEF EpisodeInv, Used
  <2>. HIDE DEF told1, i
  <2>8. JointSet' = JointSet /\ (IsGazebo' <=> IsGazebo) /\ \A group : Group(group)' = Group(group)
    BY <1>1 DEF JointSet, IsGazebo, Group
  <2>9. Used'
    <3>1. /\ \A group \in {rec'.group, policy'.group} \ {"none"} :
               ToSet(dataset'.names) \subseteq ToSet(Group(group)'.joints)
          /\ policy'.seen # <<>> => \A k \in DOMAIN dataset'.names :
               (dataset'.names[k] \in JointSet' /\ ~IsGazebo') \/ policy'.seen[k] # Zero
                 => policy'.seen[k][1] = dataset'.names[k]
          /\ policy' = NoPolicy \/ policy'.joints = dataset'.names
      BY <1>1, <1>4, <2>8 DEF EpisodeInv, Used
    <3>2. \A n \in DOMAIN sent' : sent'[n] = Replayed(rec.frames[n].action)'
      BY <1>4, <2>6, <2>7
    <3>. QED BY <1>1, <1>2, <1>4, <2>7, <3>1, <3>2 DEF Used
  <2>. QED BY <2>3, <2>5, <2>9 DEF EpisodeInv
<1>. QED BY <1>1, <1>3, <1>4

\* A policy is shown its joints in the order it has learned them.
LEMMA EpisodeShows == RenderInv /\ EpisodeInv /\ (LoadPolicy \/ Observe) => EpisodeInv'
<1>. SUFFICES ASSUME RenderInv, EpisodeInv, LoadPolicy \/ Observe PROVE EpisodeInv'
  OBVIOUS
<1>1. UNCHANGED <<rec, dataset, sent, robot, restarted, now, shows, samples, reader, targets, history, with>>
  BY DEF LoadPolicy, Observe, renderingVars, captureVars, settingVars, commandVars
<1>2. restarted /\ rec.pc \in {"idle", "replay"}
  BY DEF LoadPolicy, Observe, EpisodeInv, Used
<1>3. Past' /\ Together' /\ Snapshot' /\ Planned' /\ Told' /\ Saved'
  BY <1>1, <1>2 DEF EpisodeInv, Past, Together, Snapshot, Planned, Told, Saved, Named, Planning, Recording
<1>4. \A group : Group(group)' = Group(group)
  BY <1>1 DEF Group
<1>5. /\ rec.pc = "replay" \/ rec.group = "none"
      /\ rec.pc = "replay" =>
           /\ rec.frames \in ToSet(dataset.episodes) /\ Len(sent) <= Len(rec.frames)
           /\ \A i \in DOMAIN sent : sent[i] = Replayed(rec.frames[i].action)'
      /\ rec.group # "none" => ToSet(dataset.names) \subseteq ToSet(Group(rec.group).joints)
  <2>1. \A a : Replayed(a)' = Replayed(a)
    BY <1>1 DEF Replayed
  <2>. QED BY <1>1, <2>1 DEF EpisodeInv, Used
<1>6. SUFFICES /\ DOMAIN policy' = {"joints", "images", "group", "seen"}
               /\ policy'.joints = dataset.names
               /\ policy'.group # "none" => ToSet(dataset.names) \subseteq ToSet(Group(policy'.group).joints)
               /\ policy'.seen # <<>> => \A k \in DOMAIN dataset.names :
                    (dataset.names[k] \in JointSet /\ ~IsGazebo) \/ policy'.seen[k] # Zero
                      => policy'.seen[k][1] = dataset.names[k]
  <2>1. Shapes'
    BY <1>1, <1>6 DEF EpisodeInv, Shapes, Planning, Recording
  <2>2. JointSet' = JointSet /\ (IsGazebo' <=> IsGazebo)
    BY <1>1 DEF JointSet, IsGazebo
  <2>3. \A group \in {rec'.group, policy'.group} \ {"none"} :
          ToSet(dataset'.names) \subseteq ToSet(Group(group)'.joints)
    BY <1>1, <1>4, <1>5, <1>6
  <2>4. policy'.seen # <<>> => \A k \in DOMAIN dataset'.names :
          (dataset'.names[k] \in JointSet' /\ ~IsGazebo') \/ policy'.seen[k] # Zero
            => policy'.seen[k][1] = dataset'.names[k]
    BY <1>1, <1>6, <2>2
  <2>5. Used'
    BY <1>1, <1>2, <1>5, <1>6, <2>3, <2>4 DEF Used
  <2>. QED BY <1>3, <2>1, <2>5 DEF EpisodeInv
<1>7. CASE LoadPolicy
  <2>1. PICK asked \in ToSet(GroupNames) \cup {"none"} : \E images :
          /\ ResolveGroup(dataset.names) # "ambiguous"
          /\ asked # "none" => Group(asked).joints = dataset.names
          /\ policy' = [joints |-> dataset.names, images |-> images, seen |-> <<>>,
                        group |-> IF asked = "none" THEN ResolveGroup(dataset.names) ELSE asked]
    BY <1>7 DEF LoadPolicy
  <2>. DEFINE g == IF asked = "none" THEN ResolveGroup(dataset.names) ELSE asked
  <2>2. g # "none" => ToSet(dataset.names) \subseteq ToSet(Group(g).joints)
    <3>1. CASE asked = "none"
      BY <2>1, <3>1, GroupHasThem DEF EpisodeInv, Shapes
    <3>2. CASE asked # "none"
      BY <2>1, <3>2
    <3>. QED BY <3>1, <3>2
  <2>. HIDE DEF g
  <2>3. /\ policy'.joints = dataset.names /\ policy'.group = g /\ policy'.seen = <<>>
        /\ DOMAIN policy' = {"joints", "images", "group", "seen"}
    BY <2>1 DEF g
  <2>. QED BY <2>2, <2>3
<1>8. CASE Observe
  <2>. DEFINE seen == JointVector(StateMessage, policy.joints)
  <2>1. policy # NoPolicy /\ policy' = [policy EXCEPT !.seen = seen]
    BY <1>8 DEF Observe
  <2>2. policy.joints = dataset.names
    BY <2>1 DEF EpisodeInv, Used
  <2>3. ASSUME NEW k \in DOMAIN dataset.names
        PROVE  (dataset.names[k] \in JointSet /\ ~IsGazebo) \/ seen[k] # Zero => seen[k][1] = dataset.names[k]
    <3>1. seen[k] = IF dataset.names[k] \in DOMAIN StateMessage THEN StateMessage[dataset.names[k]] ELSE Zero
      BY <2>2 DEF JointVector
    <3>2. CASE StateMessage = [j \in JointSet |-> <<j, "at", now>>]
      BY <3>1, <3>2
    <3>3. CASE IsGazebo /\ StateMessage = <<>>
      BY <3>1, <3>3, EmptyProper
    <3>. QED BY <3>2, <3>3 DEF StateMessage
  <2>. HIDE DEF seen
  <2>4. /\ policy'.joints = policy.joints /\ policy'.group = policy.group /\ policy'.seen = seen
        /\ DOMAIN policy' = {"joints", "images", "group", "seen"}
    BY <2>1 DEF EpisodeInv, Shapes
  <2>5. policy.group # "none" => ToSet(dataset.names) \subseteq ToSet(Group(policy.group).joints)
    BY DEF EpisodeInv, Used
  <2>. QED BY <2>2, <2>3, <2>4, <2>5
<1>. QED BY <1>7, <1>8

-----------------------------------------------------------------------------

LEMMA EpisodeSame == RenderInv /\ EpisodeInv /\ UNCHANGED episodeVars => EpisodeInv'
<1>. SUFFICES ASSUME RenderInv, EpisodeInv, UNCHANGED episodeVars PROVE EpisodeInv'
  OBVIOUS
<1>1. UNCHANGED <<rec, dataset, sent, policy, robot, restarted, now, shows, samples, reader, targets, history, with>>
  BY DEF episodeVars, framesVars, renderingVars, captureVars, settingVars, commandVars
<1>2. Lasting /\ now \in Nat
  BY <1>1 DEF Lasting, RenderInv, RenderTypes
<1>3. Past' /\ Together'
  BY <1>1 DEF EpisodeInv, Past, Together
<1>4. rec.pc = "sample" =>
           /\ reader'[Recorder].pc \in {"read", "wait", "raised", "gone"}
           /\ Reading(Recorder)' => rec.snap.at \in reader'[Recorder].seen
  BY <1>1 DEF EpisodeInv, Snapshot, Reading
<1>. QED BY <1>1, <1>2, <1>3, <1>4, Untouched DEF EpisodeInv

\* What the recorder, a dataset, a replay and a policy hold agrees at every step: snapshots
\* are of an instant, frames are true, and their values are of the joints the dataset names.
THEOREM Episodes == Spec => []EpisodeInv
<1>1. EpisodeInit => EpisodeInv
  BY EpisodeBegins
<1>2. RenderInv /\ EpisodeInv /\ [Next]_episodeVars => EpisodeInv'
  BY EpisodeSame, EpisodeBeside, EpisodeCommanded, EpisodeEmits, EpisodeRestarts, EpisodeStarts,
     EpisodePlanned, EpisodeReads, EpisodeFetches, EpisodePlans, EpisodeSamples, EpisodeSaved,
     EpisodeReplays, EpisodeSends, EpisodeShows
     DEF Next, Record
<1>. QED BY <1>1, <1>2, Renders, PTL DEF Spec

\* A frame says of each joint where it was and what it was commanded to, in the dataset's
\* order; with MuJoCo all of it is of one instant, and what comes next fits the features:
\* for any robot, any request, any cameras and buffers, whatever moves, fails or ends
\* between the steps of the recorder.
THEOREM FramesAreTrue == Spec => []FramesTrue
<1>1. EpisodeInv => FramesTrue
  <2>. SUFFICES ASSUME EpisodeInv, Recording PROVE FramesTrue
    BY DEF FramesTrue
  <2>1. FeaturesFit
    BY ShapesFit DEF EpisodeInv, Planned, FeaturesFit
  <2>2. \A f \in ToSet(rec.frames) : FrameTrue(f)
    BY DEF EpisodeInv, Told
  <2>. QED BY <2>1, <2>2 DEF FramesTrue, FrameTrue
<1>. QED BY <1>1, Episodes, PTL

\* Values reach the joints they were recorded from, on a robot of any kind and through
\* whatever group: a replay's and a policy's.
THEOREM ValuesByName == Spec => []ByName
<1>1. EpisodeInv => ByName
  <2>. SUFFICES ASSUME EpisodeInv PROVE ByName
    OBVIOUS
  <2>1. ASSUME rec.pc = "replay", NEW i \in DOMAIN sent, NEW k \in DOMAIN dataset.names
        PROVE  /\ sent[i][dataset.names[k]] = rec.frames[i].action[k]
               /\ \/ rec.frames[i].action[k] = Zero
                  \/ rec.frames[i].action[k][1] = dataset.names[k]
    <3>1. /\ sent[i] = Replayed(rec.frames[i].action) /\ rec.frames \in ToSet(dataset.episodes)
          /\ Len(sent) <= Len(rec.frames)
      BY <2>1 DEF EpisodeInv, Used
    <3>2. rec.frames[i] \in ToSet(rec.frames)
      <4>1. /\ DOMAIN sent = 1..Len(sent) /\ Len(sent) \in Nat
            /\ DOMAIN rec.frames = 1..Len(rec.frames) /\ Len(rec.frames) \in Nat
        BY AppendFacts DEF EpisodeInv, Shapes
      <4>. QED BY <3>1, <4>1 DEF ToSet
    <3>3. Named(rec.frames[i].action) /\ IsInjective(dataset.names)
      BY <3>1, <3>2 DEF EpisodeInv, Saved
    <3>. QED BY <3>1, <3>3, ReplayedValue DEF Named
  <2>2. policy.seen # <<>> => \A k \in DOMAIN dataset.names :
          (dataset.names[k] \in JointSet /\ ~IsGazebo) \/ policy.seen[k] # Zero
            => policy.seen[k][1] = dataset.names[k]
    BY DEF EpisodeInv, Used
  <2>3. \A group \in {rec.group, policy.group} \ {"none"} :
          ToSet(dataset.names) \subseteq ToSet(Group(group).joints)
    BY DEF EpisodeInv, Used
  <2>. QED BY <2>1, <2>2, <2>3 DEF ByName
<1>. QED BY <1>1, Episodes, PTL

=============================================================================
