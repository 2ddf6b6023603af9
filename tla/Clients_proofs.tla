---------------------------- MODULE Clients_proofs ----------------------------
(***************************************************************************)
(* Proofs about the programs that are clients of the server: the agent,    *)
(* for any number of requests, rounds, calls and retries, and any length   *)
(* of the history that is kept; and teleoperation (at the end).            *)
(***************************************************************************)
EXTENDS Agent, Teleop, SequenceTheorems, FiniteSetTheorems, TLAPS

-----------------------------------------------------------------------------
(* The inductive invariant.                                                *)

\* A back-off is followed by an attempt that there is.
Retrying == \A c \in Callers : caller[c].pc = "sleep" => caller[c].attempt < MaxRetries - 1

\* Who is past the lock holds it.
Holding == \A c \in Callers : caller[c].pc \in {"connect", "execute", "sleep"} => holder = c

\* While somebody connects there is nothing to offer.
ConnectingIsUnlisted == \A c \in Callers : caller[c].pc = "connect" => ~listed

Connected == Holding /\ ListedIsServed /\ SessionStays /\ ConnectingIsUnlisted

\* What a request has in hand is its own, or was finished when it was loaded.
Finished ==
  /\ NothingUnfinished
  /\ \A r \in Runs : \A i \in 1..Len(run[r].context) :
       LET q == run[r].context[i].run IN q = r \/ run[q].pc = "done"

\* s ends with an answer of r that asks for n tools; whatever came before is answered.
Pending(s, r, n) ==
  /\ s # <<>> /\ s[Len(s)] = Say(r, "ask", n)
  /\ \A i \in 1..(Len(s) - 1) : s[i].kind = "ask" =>
       \A k \in 1..s[i].n : i + k <= Len(s) /\ s[i + k] = Say(s[i].run, "result", k)

\* The calls of r that are under way are those its last answer asks for.
Conversing(r) ==
  /\ run[r].pc \in {"new", "done", "failed"} => run[r].context = <<>>
  /\ run[r].pc # "tools" => Calls(r) = {}
  /\ run[r].pc \in {"think", "save"} => Answered(run[r].context)
  /\ run[r].pc = "tools" =>
       \E n \in 1..MaxCalls : Calls(r) = {r} \X (1..n) /\ Pending(run[r].context, r, n)

Conversations == Answered(store) /\ \A r \in Runs : Conversing(r)

\* Only a request that is about to be saved ends with an answer that was cut.
Concluding(r) ==
  /\ CutsConclude(run[r].context)
  /\ run[r].pc \in {"think", "tools"} =>
       /\ run[r].context # <<>>
       /\ run[r].context[Len(run[r].context)].kind # "cut"

Conclusions == CutsConclude(store) /\ \A r \in Runs : Concluding(r)

AgentInv == TypeOK /\ Retrying /\ Connected /\ Finished /\ Conversations /\ Conclusions

-----------------------------------------------------------------------------
(* What a history keeps of its answers.                                    *)

\* A message that asks for nothing, at the end.
LEMMA AnsweredAppend ==
  ASSUME NEW s \in Seq(Message), Answered(s), NEW m \in Message, m.kind # "ask"
  PROVE  Answered(Append(s, m))
<1>. DEFINE t == Append(s, m)
<1>1. /\ Len(s) \in Nat /\ Len(t) = Len(s) + 1 /\ t[Len(s) + 1] = m
      /\ \A i \in 1..Len(s) : t[i] = s[i] /\ s[i] \in Message
  OBVIOUS
<1>. HIDE DEF t
<1>2. SUFFICES ASSUME NEW i \in 1..Len(t), t[i].kind = "ask", NEW k \in 1..t[i].n
               PROVE  i + k <= Len(t) /\ t[i + k] = Say(t[i].run, "result", k)
  BY DEF Answered, t
<1>3. i \in 1..Len(s) /\ t[i] = s[i]
  BY <1>1, <1>2
<1>4. i + k <= Len(s) /\ s[i + k] = Say(s[i].run, "result", k)
  BY <1>2, <1>3 DEF Answered
<1>5. s[i].n \in Nat /\ i + k \in 1..Len(s)
  BY <1>1, <1>3, <1>4 DEF Message
<1>. QED BY <1>1, <1>3, <1>4, <1>5

\* The answer that asks.
LEMMA PendingAppend ==
  ASSUME NEW s \in Seq(Message), Answered(s), NEW r \in Runs, NEW n \in 1..MaxCalls
  PROVE  Pending(Append(s, Say(r, "ask", n)), r, n)
<1>. DEFINE m == Say(r, "ask", n)
            t == Append(s, m)
<1>1. m \in Message
  BY LimitsAssumption DEF Message, Say
<1>2. /\ Len(s) \in Nat /\ Len(t) = Len(s) + 1 /\ t[Len(s) + 1] = m /\ t # <<>>
      /\ \A i \in 1..Len(s) : t[i] = s[i] /\ s[i] \in Message
  BY <1>1
<1>. HIDE DEF t, m
<1>3. ASSUME NEW i \in 1..(Len(t) - 1), t[i].kind = "ask", NEW k \in 1..t[i].n
      PROVE  i + k <= Len(t) /\ t[i + k] = Say(t[i].run, "result", k)
  <2>1. i \in 1..Len(s) /\ t[i] = s[i]
    BY <1>2, <1>3
  <2>2. i + k <= Len(s) /\ s[i + k] = Say(s[i].run, "result", k)
    BY <1>3, <2>1 DEF Answered
  <2>3. s[i].n \in Nat /\ i + k \in 1..Len(s)
    BY <1>2, <2>1, <2>2 DEF Message
  <2>. QED BY <1>2, <2>1, <2>2, <2>3
<1>. QED BY <1>2, <1>3 DEF Pending, t, m

\* The results, all of them, in order.
LEMMA AnsweredResults ==
  ASSUME NEW s \in Seq(Message), NEW r \in Runs, NEW n \in 1..MaxCalls, Pending(s, r, n)
  PROVE  /\ [k \in 1..n |-> Say(r, "result", k)] \in Seq(Message)
         /\ Answered(s \o [k \in 1..n |-> Say(r, "result", k)])
<1>. DEFINE results == [k \in 1..n |-> Say(r, "result", k)]
            t == s \o results
<1>1. \A k \in 1..n : Say(r, "result", k) \in Message
  BY LimitsAssumption DEF Say, Message
<1>2. /\ results \in Seq(Message) /\ Len(results) = n
      /\ \A k \in 1..n : results[k] = Say(r, "result", k)
  BY <1>1, LimitsAssumption
<1>. HIDE DEF results
<1>3. /\ Len(s) \in Nat \ {0} /\ n \in Nat /\ Len(t) = Len(s) + n
      /\ \A i \in 1..Len(s) : t[i] = s[i] /\ s[i] \in Message
      /\ \A k \in 1..n : t[Len(s) + k] = results[k]
  <2>1. s # <<>> /\ n \in Nat
    BY DEF Pending
  <2>2. /\ Len(t) = Len(s) + Len(results)
        /\ \A i \in 1..(Len(s) + Len(results)) :
             t[i] = IF i <= Len(s) THEN s[i] ELSE results[i - Len(s)]
    BY <1>2, ConcatProperties
  <2>3. Len(s) \in Nat \ {0} /\ \A i \in 1..Len(s) : s[i] \in Message
    BY <2>1
  <2>4. ASSUME NEW k \in 1..n PROVE t[Len(s) + k] = results[k]
    <3>1. /\ Len(s) + k \in 1..(Len(s) + Len(results)) /\ ~(Len(s) + k <= Len(s))
          /\ (Len(s) + k) - Len(s) = k
      BY <1>2, <2>1, <2>3
    <3>. QED BY <2>2, <3>1
  <2>5. ASSUME NEW i \in 1..Len(s) PROVE t[i] = s[i]
    <3>1. i \in 1..(Len(s) + Len(results)) /\ i <= Len(s)
      BY <1>2, <2>1, <2>3
    <3>. QED BY <2>2, <3>1
  <2>. QED BY <1>2, <2>1, <2>2, <2>3, <2>4, <2>5
<1>4. /\ s[Len(s)] = Say(r, "ask", n)
      /\ \A i \in 1..(Len(s) - 1) : s[i].kind = "ask" =>
           \A k \in 1..s[i].n : i + k <= Len(s) /\ s[i + k] = Say(s[i].run, "result", k)
  BY DEF Pending
<1>. HIDE DEF t
<1>5. SUFFICES ASSUME NEW i \in 1..Len(t), t[i].kind = "ask", NEW k \in 1..t[i].n
               PROVE  i + k <= Len(t) /\ t[i + k] = Say(t[i].run, "result", k)
  BY <1>2 DEF Answered, t, results
<1>6. CASE i \in 1..(Len(s) - 1)
  <2>1. t[i] = s[i] /\ s[i].n \in Nat /\ i \in 1..Len(s)
    BY <1>3, <1>6 DEF Message
  <2>2. i + k <= Len(s) /\ s[i + k] = Say(s[i].run, "result", k)
    BY <1>4, <1>5, <1>6, <2>1
  <2>3. i + k \in 1..Len(s)
    BY <1>3, <2>1, <2>2
  <2>. QED BY <1>3, <2>1, <2>2, <2>3
<1>7. CASE i = Len(s)
  <2>1. t[i] = Say(r, "ask", n)
    BY <1>3, <1>4, <1>7
  <2>2. t[i].n = n /\ t[i].run = r
    BY <2>1 DEF Say
  <2>. QED BY <1>2, <1>3, <1>7, <2>2
<1>8. CASE i \in (Len(s) + 1)..Len(t)
  <2>1. i - Len(s) \in 1..n /\ i = Len(s) + (i - Len(s))
    BY <1>3, <1>8
  <2>2. t[i] = Say(r, "result", i - Len(s))
    BY <1>2, <1>3, <2>1
  <2>. QED BY <1>5, <2>2 DEF Say
<1>. QED BY <1>3, <1>6, <1>7, <1>8

\* What is trimmed away is the beginning.
LEMMA TrimmedFacts ==
  ASSUME NEW s \in Seq(Message)
  PROVE  /\ Trimmed(s) \in Seq(Message) /\ Len(Trimmed(s)) <= MaxHistory
         /\ \E d \in Nat : /\ Len(Trimmed(s)) = Len(s) - d
                           /\ \A i \in 1..Len(Trimmed(s)) :
                                i + d \in 1..Len(s) /\ Trimmed(s)[i] = s[i + d]
<1>1. Len(s) \in Nat /\ MaxHistory \in Nat \ {0}
  BY LimitsAssumption
<1>. DEFINE d == IF Len(s) > MaxHistory THEN Len(s) - MaxHistory ELSE 0
            t == SubSeq(s, d + 1, Len(s))
<1>2. d \in Nat /\ d <= Len(s) /\ Len(s) - d <= MaxHistory /\ Trimmed(s) = t
  BY <1>1 DEF Trimmed
<1>. HIDE DEF d
<1>3. /\ t \in Seq(Message) /\ Len(t) = Len(s) - d
      /\ \A i \in 1..(Len(s) - d) : t[i] = s[d + i]
  <2>1. /\ \A i \in (d + 1)..Len(s) : s[i] \in Message
        /\ d + 1 \in Int /\ Len(s) \in Int
    BY <1>1, <1>2
  <2>2. /\ t \in Seq(Message) /\ Len(t) = IF d + 1 <= Len(s) THEN Len(s) - (d + 1) + 1 ELSE 0
        /\ \A i \in 1..(Len(s) - (d + 1) + 1) : t[i] = s[(d + 1) + i - 1]
    BY <2>1, SubSeqProperties
  <2>. QED BY <1>1, <1>2, <2>2
<1>4. ASSUME NEW i \in 1..Len(t) PROVE i + d \in 1..Len(s) /\ t[i] = s[i + d]
  <2>1. i \in 1..(Len(s) - d) /\ i + d = d + i /\ i + d \in 1..Len(s)
    BY <1>1, <1>2, <1>3
  <2>. QED BY <1>3, <2>1
<1>. HIDE DEF t
<1>. QED BY <1>2, <1>3, <1>4

\* A message after one that was not cut, or the first of a request.
LEMMA CutsAppend ==
  ASSUME NEW s \in Seq(Message), CutsConclude(s), NEW m \in Message,
         s = <<>> \/ s[Len(s)].kind # "cut" \/ m.kind = "user"
  PROVE  /\ CutsConclude(Append(s, m))
         /\ Append(s, m) # <<>> /\ Append(s, m)[Len(Append(s, m))] = m
<1>. DEFINE t == Append(s, m)
<1>1. /\ Len(s) \in Nat /\ Len(t) = Len(s) + 1 /\ t[Len(s) + 1] = m /\ t # <<>>
      /\ \A i \in 1..Len(s) : t[i] = s[i]
      /\ s = <<>> => Len(s) = 0
  OBVIOUS
<1>. HIDE DEF t
<1>2. ASSUME NEW i \in 1..(Len(t) - 1), t[i].kind = "cut" PROVE t[i + 1].kind = "user"
  <2>1. i \in 1..Len(s) /\ t[i] = s[i]
    BY <1>1
  <2>2. CASE i \in 1..(Len(s) - 1)
    <3>1. i + 1 \in 1..Len(s)
      BY <1>1, <2>2
    <3>. QED BY <1>1, <1>2, <2>1, <2>2, <3>1 DEF CutsConclude
  <2>3. CASE i = Len(s)
    <3>1. s # <<>>
      BY <1>1, <2>1
    <3>. QED BY <1>1, <1>2, <2>1, <2>3, <3>1
  <2>. QED BY <1>1, <2>1, <2>2, <2>3
<1>. QED BY <1>1, <1>2 DEF CutsConclude, t

\* The results of calls that were executed.
LEMMA CutsResults ==
  ASSUME NEW s \in Seq(Message), CutsConclude(s), s # <<>>, s[Len(s)].kind # "cut",
         NEW r \in Runs, NEW n \in 1..MaxCalls
  PROVE  LET t == s \o [k \in 1..n |-> Say(r, "result", k)]
         IN  CutsConclude(t) /\ t # <<>> /\ t[Len(t)].kind # "cut"
<1>. DEFINE results == [k \in 1..n |-> Say(r, "result", k)]
            t == s \o results
<1>1. \A k \in 1..n : Say(r, "result", k) \in Message
  BY LimitsAssumption DEF Say, Message
<1>2. results \in Seq(Message) /\ Len(results) = n /\ n \in Nat \ {0}
  BY <1>1, LimitsAssumption
<1>3. \A k \in 1..n : results[k].kind = "result"
  BY DEF Say
<1>. HIDE DEF results
<1>4. /\ Len(t) = Len(s) + n /\ Len(s) \in Nat \ {0}
      /\ \A i \in 1..(Len(s) + n) : t[i] = IF i <= Len(s) THEN s[i] ELSE results[i - Len(s)]
  BY <1>2, ConcatProperties
<1>5. \A i \in 1..Len(s) : t[i] = s[i]
  BY <1>2, <1>4
<1>6. \A i \in (Len(s) + 1)..Len(t) : t[i].kind = "result"
  <2>. SUFFICES ASSUME NEW i \in (Len(s) + 1)..Len(t) PROVE t[i].kind = "result"
    OBVIOUS
  <2>1. i - Len(s) \in 1..n /\ i \in 1..(Len(s) + n) /\ ~(i <= Len(s))
    BY <1>2, <1>4
  <2>. QED BY <1>3, <1>4, <2>1
<1>7. t # <<>>
  BY <1>2, <1>4
<1>. HIDE DEF t
<1>8. ASSUME NEW i \in 1..(Len(t) - 1), t[i].kind = "cut" PROVE t[i + 1].kind = "user"
  <2>0. i \notin (Len(s) + 1)..Len(t)
    BY <1>6, <1>8
  <2>1. i \in 1..Len(s) /\ t[i] = s[i]
    BY <1>2, <1>4, <1>5, <2>0
  <2>2. i # Len(s)
    BY <1>8, <2>1
  <2>3. i \in 1..(Len(s) - 1) /\ i + 1 \in 1..Len(s)
    BY <1>4, <2>1, <2>2
  <2>. QED BY <1>5, <1>8, <2>1, <2>3 DEF CutsConclude
<1>9. t[Len(t)].kind # "cut"
  BY <1>2, <1>4, <1>6
<1>. QED BY <1>7, <1>8, <1>9 DEF CutsConclude, t, results

LEMMA CutsTrimmed ==
  ASSUME NEW s \in Seq(Message), CutsConclude(s)
  PROVE  CutsConclude(Trimmed(s))
<1>. DEFINE t == Trimmed(s)
<1>1. t \in Seq(Message) /\ \E d \in Nat : Len(t) = Len(s) - d
                        /\ \A i \in 1..Len(t) : i + d \in 1..Len(s) /\ t[i] = s[i + d]
  BY TrimmedFacts
<1>. HIDE DEF t
<1>2. PICK d \in Nat : Len(t) = Len(s) - d
                       /\ \A i \in 1..Len(t) : i + d \in 1..Len(s) /\ t[i] = s[i + d]
  BY <1>1
<1>3. ASSUME NEW i \in 1..(Len(t) - 1), t[i].kind = "cut" PROVE t[i + 1].kind = "user"
  <2>1. /\ Len(t) \in Nat /\ Len(s) \in Nat /\ i \in 1..Len(t) /\ i + 1 \in 1..Len(t)
        /\ (i + 1) + d = (i + d) + 1
    BY <1>1
  <2>2. t[i] = s[i + d] /\ t[i + 1] = s[(i + d) + 1] /\ i + d \in 1..(Len(s) - 1)
    BY <1>2, <2>1
  <2>. QED BY <1>3, <2>2 DEF CutsConclude
<1>. QED BY <1>3 DEF CutsConclude, t

LEMMA AnsweredTrimmed ==
  ASSUME NEW s \in Seq(Message), Answered(s)
  PROVE  Answered(Trimmed(s))
<1>. DEFINE t == Trimmed(s)
<1>1. /\ t \in Seq(Message)
      /\ \E d \in Nat : Len(t) = Len(s) - d
                        /\ \A i \in 1..Len(t) : i + d \in 1..Len(s) /\ t[i] = s[i + d]
  BY TrimmedFacts
<1>. HIDE DEF t
<1>2. PICK d \in Nat : Len(t) = Len(s) - d
                       /\ \A i \in 1..Len(t) : i + d \in 1..Len(s) /\ t[i] = s[i + d]
  BY <1>1
<1>3. SUFFICES ASSUME NEW i \in 1..Len(t), t[i].kind = "ask", NEW k \in 1..t[i].n
               PROVE  i + k <= Len(t) /\ t[i + k] = Say(t[i].run, "result", k)
  BY DEF Answered, t
<1>4. t[i] = s[i + d] /\ i + d \in 1..Len(s) /\ t[i] \in Message /\ Len(s) \in Nat /\ Len(t) \in Nat
  BY <1>1, <1>2
<1>5. (i + d) + k <= Len(s) /\ s[(i + d) + k] = Say(t[i].run, "result", k)
  BY <1>3, <1>4 DEF Answered
<1>6. k \in Nat \ {0} /\ i + k \in 1..Len(t) /\ (i + k) + d = (i + d) + k
  <2>1. t[i].n \in Nat
    BY <1>4, LimitsAssumption DEF Message
  <2>2. k \in Nat \ {0} /\ i \in Nat \ {0} /\ d \in Nat /\ Len(t) = Len(s) - d
    BY <1>2, <2>1
  <2>. QED BY <1>4, <1>5, <2>2
<1>7. t[i + k] = s[(i + k) + d]
  BY <1>2, <1>6
<1>. QED BY <1>5, <1>6, <1>7

-----------------------------------------------------------------------------
(* What a step of a tool call, and one of a request, may change.           *)

CallRecord == [pc : {"idle", "route", "over"} \cup Working,
               attempt : 0..(MaxRetries - 1), result : {"none", "ok", "error"}]
RunRecord == [pc : {"new", "think", "tools", "save", "done", "failed"},
              context : Seq(Message), iter : 0..MaxIterations]

CallStep(c) == \/ Enter(c) \/ GiveUp(c) \/ CallGoesOn(c)
               \/ Reconnect(c) \/ ReconnectFails(c)

LEMMA NoCallFacts == NoCall \in CallRecord /\ NoCall.pc = "idle"
BY LimitsAssumption DEF NoCall, CallRecord

\* A call under way stays under way, until its request collects or drops it.
LEMMA CallMoves ==
  ASSUME TypeOK, Retrying, NEW c \in Callers, CallStep(c)
  PROVE  /\ UNCHANGED <<store, run>>
         /\ caller[c].pc # "idle" /\ caller'[c].pc # "idle" /\ caller'[c] \in CallRecord
         /\ caller'[c].pc = "sleep" => caller'[c].attempt < MaxRetries - 1
         /\ caller' \in [Callers -> CallRecord]
         /\ \A d \in Callers : d # c => caller'[d] = caller[d]
<1>. USE DEF CallRecord, Working
<1>1. /\ caller \in [Callers -> CallRecord] /\ MaxRetries \in Nat \ {0}
      /\ caller[c] \in CallRecord
  BY LimitsAssumption DEF TypeOK
<1>2. ASSUME NEW at \in {"lock", "connect", "execute"}, Step(c, at)
      PROVE  /\ caller'[c].pc = at /\ caller'[c] \in CallRecord
             /\ caller' \in [Callers -> CallRecord]
             /\ \A d \in Callers : d # c => caller'[d] = caller[d]
  <2>1. caller' = [caller EXCEPT ![c] = [caller[c] EXCEPT !.pc = at]]
    BY <1>1, <1>2 DEF Step
  <2>2. [caller[c] EXCEPT !.pc = at] \in CallRecord
    BY <1>1
  <2>. QED BY <1>1, <2>1, <2>2
<1>3. ASSUME NEW result \in {"ok", "error"}, Returns(c, result)
      PROVE  /\ caller'[c].pc = "over" /\ caller'[c] \in CallRecord
             /\ caller' \in [Callers -> CallRecord]
             /\ \A d \in Callers : d # c => caller'[d] = caller[d]
  BY <1>1, <1>3 DEF Returns
<1>4. CASE Route(c) \/ Enter(c) \/ GiveUp(c) \/ Reconnect(c) \/ ReconnectFails(c) \/ Executed(c)
  <2>1. /\ UNCHANGED <<store, run>> /\ caller[c].pc # "idle"
        /\ \/ \E at \in {"lock", "connect", "execute"} : Step(c, at)
           \/ \E result \in {"ok", "error"} : Returns(c, result)
    BY <1>4 DEF Route, Enter, GiveUp, Reconnect, ReconnectFails, Executed
  <2>. QED BY <1>2, <1>3, <2>1
<1>5. CASE ExecuteRaises(c)
  <2>1. CASE caller[c].attempt < MaxRetries - 1
    <3>1. caller' = [caller EXCEPT ![c] = [caller[c] EXCEPT !.pc = "sleep"]]
      BY <1>1, <1>5, <2>1 DEF ExecuteRaises, Step
    <3>2. [caller[c] EXCEPT !.pc = "sleep"] \in CallRecord
      BY <1>1
    <3>. QED BY <1>1, <1>5, <2>1, <3>1, <3>2 DEF ExecuteRaises
  <2>2. CASE ~(caller[c].attempt < MaxRetries - 1)
    BY <1>3, <1>5, <2>2 DEF ExecuteRaises
  <2>. QED BY <2>1, <2>2
<1>6. CASE Retry(c)
  <2>. DEFINE x == [caller[c] EXCEPT !.pc = "lock", !.attempt = @ + 1]
  <2>1. caller' = [caller EXCEPT ![c] = x]
    BY <1>1, <1>6 DEF Retry
  <2>2. caller[c].attempt + 1 \in 0..(MaxRetries - 1)
    BY <1>1, <1>6 DEF Retry, Retrying
  <2>3. x \in CallRecord /\ x.pc = "lock"
    BY <1>1, <2>2
  <2>. HIDE DEF x
  <2>. QED BY <1>1, <1>6, <2>1, <2>3 DEF Retry
<1>. QED BY <1>4, <1>5, <1>6 DEF CallStep, CallGoesOn

\* As many elements as the second set has.
LEMMA ProductOfOne ==
  ASSUME NEW S, NEW T, IsFiniteSet(S), Cardinality(S) = 1, IsFiniteSet(T), Cardinality(T) \in Nat
  PROVE  IsFiniteSet(S \X T) /\ Cardinality(S \X T) = Cardinality(T)
<1>1. IsFiniteSet(S \X T) /\ Cardinality(S \X T) = Cardinality(S) * Cardinality(T)
  BY FS_Product, Zenon
<1>2. 1 * Cardinality(T) = Cardinality(T)
  OBVIOUS
<1>. QED BY <1>1, <1>2

\* The first n calls of an answer are n.
LEMMA RowOfCalls ==
  ASSUME NEW r, NEW n \in Nat \ {0}
  PROVE  IsFiniteSet({r} \X (1..n)) /\ Cardinality({r} \X (1..n)) = n
<1>1. IsFiniteSet({r}) /\ Cardinality({r}) = 1
  BY FS_Singleton, Zenon
<1>2. IsFiniteSet(1..n) /\ Cardinality(1..n) = n
  <2>1. 1 \in Int /\ n \in Int /\ 1 <= n /\ n - 1 + 1 = n
    OBVIOUS
  <2>. QED BY <2>1, FS_Interval
<1>. QED BY <1>1, <1>2, ProductOfOne

\* The results of the calls under way.
LEMMA ResultsFacts ==
  ASSUME NEW r \in Runs
  PROVE  LET n == Cardinality(Calls(r))
             results == [k \in 1..n |-> Say(r, "result", k)]
         IN  /\ n \in 0..MaxCalls /\ results \in Seq(Message) /\ Len(results) = n
             /\ \A k \in 1..n : results[k] = Say(r, "result", k)
<1>. DEFINE n == Cardinality(Calls(r))
            results == [k \in 1..n |-> Say(r, "result", k)]
<1>1. MaxCalls \in Nat \ {0}
  BY LimitsAssumption
<1>2. n \in 0..MaxCalls
  <2>1. Calls(r) \in SUBSET ({r} \X (1..MaxCalls))
    BY DEF Calls, Callers
  <2>4. /\ IsFiniteSet({r} \X (1..MaxCalls))
        /\ Cardinality({r} \X (1..MaxCalls)) = MaxCalls
    BY <1>1, RowOfCalls
  <2>5. IsFiniteSet(Calls(r)) /\ Cardinality(Calls(r)) <= Cardinality({r} \X (1..MaxCalls))
    BY <2>1, <2>4, FS_Subset
  <2>6. Cardinality(Calls(r)) \in Nat
    BY <2>5, FS_CardinalityType
  <2>. QED BY <1>1, <2>4, <2>5, <2>6
<1>. HIDE DEF n
<1>3. \A k \in 1..n : Say(r, "result", k) \in Message
  BY <1>1, <1>2 DEF Say, Message
<1>. QED BY <1>2, <1>3 DEF n

\* A step of r: the calls of the others go on as they were.
RunStep(r) == Load(r) \/ RunGoesOn(r) \/ Cancel(r)

LEMMA RunMoves ==
  ASSUME TypeOK, NEW r \in Runs, RunStep(r)
  PROVE  /\ run' \in [Runs -> RunRecord]
         /\ \A q \in Runs : q # r => run'[q] = run[q]
         /\ run[r].pc \in {"new", "think", "tools", "save"}
         /\ caller' \in [Callers -> CallRecord]
         /\ \A c \in Callers : c[1] # r => caller'[c] = caller[c]
         /\ \A c \in Callers : caller'[c] = caller[c] \/ caller'[c].pc \in {"idle", "route"}
<1>. USE DEF RunRecord
<1>1. /\ run \in [Runs -> RunRecord] /\ run[r] \in RunRecord /\ caller \in [Callers -> CallRecord]
      /\ MaxIterations \in Nat \ {0} /\ MaxCalls \in Nat \ {0} /\ store \in Seq(Message)
      /\ NoCall \in CallRecord /\ NoCall.pc = "idle"
  BY LimitsAssumption, NoCallFacts DEF TypeOK, CallRecord
<1>2. ASSUME NEW x \in RunRecord, run' = [run EXCEPT ![r] = x]
      PROVE  run' \in [Runs -> RunRecord] /\ \A q \in Runs : q # r => run'[q] = run[q]
  BY <1>1, <1>2
<1>3. ASSUME NEW at \in {"done", "failed"}, Ends(r, at)
      PROVE  run' \in [Runs -> RunRecord] /\ \A q \in Runs : q # r => run'[q] = run[q]
  BY <1>1, <1>3 DEF Ends
<1>4. ASSUME NEW at \in {"tools", "save"}, NEW m \in Message, Thinks(r), Answers(r, at, m)
      PROVE  run' \in [Runs -> RunRecord] /\ \A q \in Runs : q # r => run'[q] = run[q]
  <2>. DEFINE x == [pc |-> at, context |-> Append(run[r].context, m), iter |-> run[r].iter + 1]
  <2>1. x \in RunRecord
    BY <1>1, <1>4 DEF Thinks
  <2>2. run' = [run EXCEPT ![r] = x]
    BY <1>1, <1>4 DEF Answers
  <2>. HIDE DEF x
  <2>. QED BY <1>2, <2>1, <2>2
<1>5. CASE Load(r)
  <2>. DEFINE y == Append(store, Say(r, "user", 0))
              x == [run[r] EXCEPT !.pc = "think", !.context = y]
  <2>1. Say(r, "user", 0) \in Message
    BY <1>1 DEF Say, Message
  <2>2. x \in RunRecord
    <3>1. y \in Seq(Message)
      BY <1>1, <2>1
    <3>. HIDE DEF y
    <3>. QED BY <1>1, <3>1
  <2>3. run' = [run EXCEPT ![r] = x]
    BY <1>5 DEF Load
  <2>. HIDE DEF x
  <2>. QED BY <1>1, <1>2, <1>5, <2>2, <2>3 DEF Load
<1>6. CASE Ask(r)
  <2>1. PICK n \in 1..MaxCalls :
          /\ Answers(r, "tools", Say(r, "ask", n))
          /\ caller' = [c \in Callers |->
               IF c[1] = r /\ c[2] <= n THEN [NoCall EXCEPT !.pc = "route"] ELSE caller[c]]
    BY <1>6 DEF Ask
  <2>2. Say(r, "ask", n) \in Message
    BY <1>1 DEF Say, Message
  <2>3. [NoCall EXCEPT !.pc = "route"] \in CallRecord /\ [NoCall EXCEPT !.pc = "route"].pc = "route"
    BY LimitsAssumption DEF CallRecord, NoCall
  <2>4. /\ caller' \in [Callers -> CallRecord]
        /\ \A c \in Callers : c[1] # r => caller'[c] = caller[c]
        /\ \A c \in Callers : caller'[c] = caller[c] \/ caller'[c].pc = "route"
    BY <1>1, <2>1, <2>3
  <2>. QED BY <1>4, <1>6, <2>1, <2>2, <2>4 DEF Ask, Thinks
<1>7. CASE Answer(r)
  <2>1. PICK kind \in {"reply", "cut"} : Answers(r, "save", Say(r, kind, 0))
    BY <1>7 DEF Answer
  <2>2. Say(r, kind, 0) \in Message
    BY <1>1 DEF Say, Message
  <2>. QED BY <1>1, <1>4, <1>7, <2>1, <2>2 DEF Answer, Thinks
<1>8. CASE StreamEnds(r)
  <2>1. run' = [run EXCEPT ![r] = [run[r] EXCEPT !.pc = "save"]]
    BY <1>1, <1>8 DEF StreamEnds, Becomes
  <2>2. [run[r] EXCEPT !.pc = "save"] \in RunRecord
    BY <1>1
  <2>. QED BY <1>1, <1>2, <1>8, <2>1, <2>2 DEF StreamEnds, Thinks
<1>9. CASE Raise(r)
  BY <1>1, <1>3, <1>9 DEF Raise
<1>10. CASE Save(r)
  BY <1>1, <1>3, <1>10 DEF Save
<1>11. CASE Cancel(r)
  <2>1. /\ caller' \in [Callers -> CallRecord]
        /\ \A c \in Callers : c[1] # r => caller'[c] = caller[c]
        /\ \A c \in Callers : caller'[c] = caller[c] \/ caller'[c].pc = "idle"
    BY <1>1, <1>11 DEF Cancel
  <2>. QED BY <1>3, <1>11, <2>1 DEF Cancel
<1>12. CASE Collect(r)
  <2>. DEFINE results == [k \in 1..Cardinality(Calls(r)) |-> Say(r, "result", k)]
              y == run[r].context \o results
              x == [run[r] EXCEPT !.pc = "think", !.context = y]
  <2>1. results \in Seq(Message)
    BY ResultsFacts
  <2>2. run' = [run EXCEPT ![r] = x]
    BY <1>1, <1>12 DEF Collect
  <2>. HIDE DEF results
  <2>4. x \in RunRecord
    <3>1. y \in Seq(Message)
      BY <1>1, <2>1
    <3>. HIDE DEF y
    <3>. QED BY <1>1, <3>1
  <2>. HIDE DEF x
  <2>5. /\ caller' \in [Callers -> CallRecord]
        /\ \A c \in Callers : c[1] # r => caller'[c] = caller[c]
        /\ \A c \in Callers : caller'[c] = caller[c] \/ caller'[c].pc = "idle"
    BY <1>1, <1>12 DEF Collect
  <2>. QED BY <1>2, <1>12, <2>2, <2>4, <2>5 DEF Collect
<1>. QED BY <1>5, <1>6, <1>7, <1>8, <1>9, <1>10, <1>11, <1>12 DEF RunStep, RunGoesOn

\* Every step is one of a request, one of a call, or leaves both alone.
LEMMA Cases ==
  ASSUME Next \/ UNCHANGED vars
  PROVE  \/ \E r \in Runs : RunStep(r)
         \/ \E c \in Callers : CallStep(c)
         \/ store' \in {<<>>, store} /\ UNCHANGED <<run, caller, connection>>
BY DEF Next, RunStep, CallStep, Clear, vars, connection

LEMMA TypesInit == Init => TypeOK /\ Retrying
BY LimitsAssumption, NoCallFacts DEF Init, TypeOK, Retrying, CallRecord, Message

LEMMA TypesStep == TypeOK /\ Retrying /\ (Next \/ UNCHANGED vars) => TypeOK' /\ Retrying'
<1>. SUFFICES ASSUME TypeOK, Retrying, Next \/ UNCHANGED vars PROVE TypeOK' /\ Retrying'
  OBVIOUS
<1>1. ASSUME NEW r \in Runs, RunStep(r) PROVE TypeOK' /\ Retrying'
  <2>1. run' \in [Runs -> RunRecord] /\ caller' \in [Callers -> CallRecord]
    BY <1>1, RunMoves
  <2>2. store' \in Seq(Message) /\ Len(store') <= MaxHistory
    <3>1. CASE Save(r)
      <4>1. run[r].context \in Seq(Message)
        BY DEF TypeOK
      <4>. QED BY <3>1, <4>1, TrimmedFacts DEF Save
    <3>2. CASE ~Save(r)
      <4>1. store' = store
        BY <1>1, <3>2 DEF RunStep, RunGoesOn, Load, Ask, Answer, StreamEnds, Raise, Collect, Cancel
      <4>. QED BY <4>1 DEF TypeOK
    <3>. QED BY <3>1, <3>2
  <2>3. session' \in {"none", "half", "up"} /\ listed' \in BOOLEAN /\ holder' \in Callers \cup {None}
    BY <1>1 DEF TypeOK, RunStep, RunGoesOn, Load, Ask, Answer, StreamEnds, Raise, Collect, Save,
       Cancel, connection
  <2>4. Retrying'
    BY <1>1, RunMoves DEF Retrying
  <2>. QED BY <2>1, <2>2, <2>3, <2>4 DEF TypeOK, RunRecord, CallRecord
<1>2. ASSUME NEW c \in Callers, CallStep(c) PROVE TypeOK' /\ Retrying'
  <2>1. UNCHANGED <<store, run>> /\ caller' \in [Callers -> CallRecord]
    BY <1>2, CallMoves
  <2>2. session' \in {"none", "half", "up"}
    BY <1>2 DEF TypeOK, CallStep, CallGoesOn, Route, Enter, GiveUp, Reconnect, ReconnectFails,
       Executed, ExecuteRaises, Retry, connection
  <2>3. listed' \in BOOLEAN
    BY <1>2 DEF TypeOK, CallStep, CallGoesOn, Route, Enter, GiveUp, Reconnect, ReconnectFails,
       Executed, ExecuteRaises, Retry, connection
  <2>4. holder' \in Callers \cup {None}
    BY <1>2 DEF TypeOK, CallStep, CallGoesOn, Route, Enter, GiveUp, Reconnect, ReconnectFails,
       Executed, ExecuteRaises, Retry, connection
  <2>5. Retrying'
    BY <1>2, CallMoves DEF Retrying
  <2>. QED BY <2>1, <2>2, <2>3, <2>4, <2>5 DEF TypeOK, CallRecord
<1>3. CASE store' \in {<<>>, store} /\ UNCHANGED <<run, caller, connection>>
  <2>1. store' \in Seq(Message) /\ Len(store') <= MaxHistory
    <3>1. <<>> \in Seq(Message) /\ Len(<<>>) <= MaxHistory
      BY LimitsAssumption
    <3>. QED BY <1>3, <3>1 DEF TypeOK
  <2>. QED BY <1>3, <2>1 DEF TypeOK, Retrying, connection
<1>. QED BY <1>1, <1>2, <1>3, Cases

-----------------------------------------------------------------------------
(* The connection.                                                         *)

\* One at a time is past the lock, and only it connects, closes and lists.
LEMMA ConnectedStep ==
  TypeOK /\ Retrying /\ Connected /\ (Next \/ UNCHANGED vars) => Connected'
<1>. SUFFICES ASSUME TypeOK, Retrying, Connected, Next \/ UNCHANGED vars PROVE Connected'
  OBVIOUS
<1>. USE DEF Connected, Holding, ListedIsServed, SessionStays, ConnectingIsUnlisted
<1>1. ASSUME NEW r \in Runs, RunStep(r) PROVE Connected'
  <2>0. /\ \A c \in Callers : c[1] # r => caller'[c] = caller[c]
        /\ \A c \in Callers : caller'[c] = caller[c] \/ caller'[c].pc \in {"idle", "route"}
    BY <1>1, RunMoves
  <2>1. CASE Cancel(r)
    <3>1. \A c \in Callers : c[1] = r => caller'[c].pc = "idle"
      BY <2>1, NoCallFacts DEF Cancel
    <3>2. listed' = listed /\ (session' = session \/ (session' = "half" /\ ~listed))
      BY <2>1 DEF Cancel, Calls
    <3>3. holder' = holder \/ (holder' = None /\ \A c \in Callers : holder = c => c[1] = r)
      BY <2>1 DEF Cancel, Calls
    <3>4. Holding'
      BY <2>0, <3>1, <3>3
    <3>5. SessionStays' /\ ConnectingIsUnlisted' /\ ListedIsServed'
      BY <2>0, <3>2
    <3>. QED BY <3>4, <3>5
  <2>2. CASE ~Cancel(r)
    <3>1. UNCHANGED connection
      BY <1>1, <2>2 DEF RunStep, RunGoesOn, Load, Ask, Answer, StreamEnds, Raise, Collect, Save
    <3>. QED BY <2>0, <3>1 DEF connection
  <2>. QED BY <2>1, <2>2
<1>2. ASSUME NEW c \in Callers, CallStep(c) PROVE Connected'
  <2>0. /\ \A d \in Callers : d # c => caller'[d] = caller[d]
        /\ None \notin Callers /\ caller \in [Callers -> CallRecord]
    BY <1>2, CallMoves, NobodyAssumption DEF TypeOK, CallRecord
  <2>1. CASE Enter(c)
    <3>1. /\ holder = None /\ holder' = c /\ UNCHANGED <<session, listed>>
          /\ \/ session # "none" /\ caller'[c].pc = "execute"
             \/ session = "none" /\ caller'[c].pc = "connect"
      BY <2>0, <2>1 DEF Enter, Step, CallRecord
    <3>. QED BY <2>0, <3>1
  <2>2. CASE Route(c) \/ GiveUp(c)
    <3>1. UNCHANGED <<session, listed, holder>> /\ caller'[c].pc \in {"lock", "over"}
      BY <2>0, <2>2 DEF Route, GiveUp, Step, Returns, connection, CallRecord
    <3>. QED BY <2>0, <3>1
  <2>3. CASE Reconnect(c)
    <3>1. /\ caller[c].pc = "connect" /\ caller'[c].pc = "execute"
          /\ session' = "up" /\ listed' = TRUE /\ holder' = holder
      BY <2>0, <2>3 DEF Reconnect, Step, CallRecord
    <3>. QED BY <2>0, <3>1
  <2>4. CASE ReconnectFails(c)
    <3>1. /\ caller[c].pc = "connect" /\ caller'[c].pc = "over"
          /\ listed' = FALSE /\ holder' = None
      BY <2>0, <2>4 DEF ReconnectFails, Returns
    <3>. QED BY <2>0, <3>1
  <2>5. CASE Executed(c) \/ Retry(c)
    <3>1. /\ caller[c].pc \in {"execute", "sleep"} /\ caller'[c].pc \in {"over", "lock"}
          /\ UNCHANGED <<session, listed>> /\ holder' = None
      BY <2>0, <2>5 DEF Executed, Retry, Returns, CallRecord
    <3>. QED BY <2>0, <3>1
  <2>6. CASE ExecuteRaises(c)
    <3>1. /\ caller[c].pc = "execute" /\ session' = "none" /\ listed' = FALSE
          /\ \/ caller'[c].pc = "sleep" /\ holder' = holder
             \/ caller'[c].pc = "over" /\ holder' = None
      BY <2>0, <2>6 DEF ExecuteRaises, Step, Returns, CallRecord
    <3>. QED BY <2>0, <3>1
  <2>. QED BY <1>2, <2>1, <2>2, <2>3, <2>4, <2>5, <2>6 DEF CallStep, CallGoesOn
<1>3. CASE UNCHANGED <<caller, connection>>
  BY <1>3 DEF connection
<1>. QED BY <1>1, <1>2, <1>3, Cases

-----------------------------------------------------------------------------
(* What is stored was finished.                                            *)

\* The messages of s are of finished requests, or of r.
Owned(s, r) == \A i \in 1..Len(s) : s[i].run = r \/ run[s[i].run].pc = "done"

LEMMA OwnedAppend ==
  ASSUME NEW r \in Runs, NEW s \in Seq(Message), Owned(s, r), NEW m \in Message, m.run = r
  PROVE  Owned(Append(s, m), r)
<1>1. /\ Len(Append(s, m)) = Len(s) + 1 /\ Append(s, m)[Len(s) + 1] = m /\ Len(s) \in Nat
      /\ \A i \in 1..Len(s) : Append(s, m)[i] = s[i]
  OBVIOUS
<1>2. ASSUME NEW i \in 1..(Len(s) + 1)
      PROVE  Append(s, m)[i].run = r \/ run[Append(s, m)[i].run].pc = "done"
  <2>1. i = Len(s) + 1 \/ i \in 1..Len(s)
    BY <1>1
  <2>. QED BY <1>1, <2>1 DEF Owned
<1>. QED BY <1>1, <1>2 DEF Owned

LEMMA OwnedConcat ==
  ASSUME NEW r \in Runs, NEW s \in Seq(Message), Owned(s, r), NEW t \in Seq(Message),
         \A k \in 1..Len(t) : t[k].run = r
  PROVE  Owned(s \o t, r)
<1>1. /\ Len(s) \in Nat /\ Len(t) \in Nat /\ Len(s \o t) = Len(s) + Len(t)
      /\ \A i \in 1..(Len(s) + Len(t)) : (s \o t)[i] = IF i <= Len(s) THEN s[i] ELSE t[i - Len(s)]
  BY ConcatProperties
<1>2. ASSUME NEW i \in 1..(Len(s) + Len(t))
      PROVE  (s \o t)[i].run = r \/ run[(s \o t)[i].run].pc = "done"
  <2>1. CASE i <= Len(s)
    <3>1. i \in 1..Len(s) /\ (s \o t)[i] = s[i]
      BY <1>1, <2>1
    <3>. QED BY <3>1 DEF Owned
  <2>2. CASE ~(i <= Len(s))
    <3>1. i - Len(s) \in 1..Len(t) /\ (s \o t)[i] = t[i - Len(s)]
      BY <1>1, <2>2
    <3>. QED BY <3>1
  <2>. QED BY <2>1, <2>2
<1>. QED BY <1>1, <1>2 DEF Owned

\* A request adds to what it has in hand only what is its own.
LEMMA OwnContext ==
  ASSUME TypeOK, Finished, NEW r \in Runs, RunStep(r)
  PROVE  Owned(run'[r].context, r)
<1>1. /\ run \in [Runs -> RunRecord] /\ store \in Seq(Message) /\ run[r].context \in Seq(Message)
      /\ Owned(run[r].context, r) /\ Owned(store, r) /\ MaxCalls \in Nat \ {0}
  BY LimitsAssumption DEF TypeOK, RunRecord, Finished, NothingUnfinished, Owned
<1>2. CASE Load(r)
  <2>1. Say(r, "user", 0) \in Message /\ Say(r, "user", 0).run = r
    BY <1>1 DEF Say, Message
  <2>2. run'[r].context = Append(store, Say(r, "user", 0))
    BY <1>1, <1>2 DEF Load, RunRecord
  <2>. QED BY <1>1, <2>1, <2>2, OwnedAppend
<1>3. ASSUME NEW at \in {"tools", "save"}, NEW kind \in {"ask", "reply", "cut"}, NEW n \in 0..MaxCalls,
             Answers(r, at, Say(r, kind, n))
      PROVE  Owned(run'[r].context, r)
  <2>1. Say(r, kind, n) \in Message /\ Say(r, kind, n).run = r
    BY <1>1 DEF Say, Message
  <2>2. run'[r].context = Append(run[r].context, Say(r, kind, n))
    BY <1>1, <1>3 DEF Answers
  <2>. QED BY <1>1, <2>1, <2>2, OwnedAppend
<1>4. CASE Ask(r) \/ Answer(r)
  <2>1. 0 \in 0..MaxCalls /\ 1..MaxCalls \subseteq 0..MaxCalls
    BY <1>1
  <2>2. \E at \in {"tools", "save"}, kind \in {"ask", "reply", "cut"}, n \in 0..MaxCalls :
          Answers(r, at, Say(r, kind, n))
    BY <1>4, <2>1, Zenon DEF Ask, Answer
  <2>. QED BY <1>3, <2>2
<1>5. CASE StreamEnds(r)
  <2>1. run'[r].context = run[r].context
    BY <1>1, <1>5 DEF StreamEnds, Becomes, RunRecord
  <2>. QED BY <1>1, <2>1
<1>6. CASE Raise(r) \/ Save(r) \/ Cancel(r)
  <2>1. run'[r].context = <<>>
    BY <1>1, <1>6 DEF Raise, Save, Cancel, Ends
  <2>. QED BY <2>1 DEF Owned
<1>7. CASE Collect(r)
  <2>. DEFINE results == [k \in 1..Cardinality(Calls(r)) |-> Say(r, "result", k)]
  <2>1. run'[r].context = run[r].context \o results
    BY <1>1, <1>7 DEF Collect, RunRecord
  <2>2. results \in Seq(Message) /\ \A k \in 1..Len(results) : results[k].run = r
    BY ResultsFacts DEF Say
  <2>. HIDE DEF results
  <2>. QED BY <1>1, <2>1, <2>2, OwnedConcat
<1>. QED BY <1>2, <1>4, <1>5, <1>6, <1>7 DEF RunStep, RunGoesOn

\* A request that is done stays so.
LEMMA DoneStays ==
  ASSUME TypeOK, NEW r \in Runs, RunStep(r), NEW q \in Runs, run[q].pc = "done"
  PROVE  run'[q].pc = "done"
BY RunMoves

LEMMA FinishedStep == TypeOK /\ Retrying /\ Finished /\ (Next \/ UNCHANGED vars) => Finished'
<1>. SUFFICES ASSUME TypeOK, Retrying, Finished, Next \/ UNCHANGED vars PROVE Finished'
  OBVIOUS
<1>0. store \in Seq(Message) /\ run \in [Runs -> RunRecord]
  BY DEF TypeOK, RunRecord
<1>1. ASSUME NEW r \in Runs, RunStep(r) PROVE Finished'
  <2>1. ASSUME NEW q \in Runs, NEW i \in 1..Len(run'[q].context),
               run'[q].context[i].run # q
        PROVE  run'[run'[q].context[i].run].pc = "done"
    <3>0. run' \in [Runs -> RunRecord]
      BY <1>1, RunMoves
    <3>1. run'[q].context[i] \in Message
      BY <3>0 DEF RunRecord
    <3>2. run[run'[q].context[i].run].pc = "done"
      <4>1. CASE q = r
        BY <1>1, <2>1, <4>1, OwnContext DEF Owned
      <4>2. CASE q # r
        <5>1. run'[q] = run[q]
          BY <1>1, <4>2, RunMoves
        <5>. QED BY <2>1, <5>1 DEF Finished
      <4>. QED BY <4>1, <4>2
    <3>. QED BY <1>1, <3>1, <3>2, DoneStays DEF Message
  <2>2. NothingUnfinished'
    <3>1. CASE Save(r)
      <4>. DEFINE s == run[r].context
      <4>1. s \in Seq(Message) /\ Owned(s, r) /\ store' = Trimmed(s)
        BY <1>0, <3>1 DEF RunRecord, Save, Finished, Owned
      <4>2. run'[r].pc = "done"
        BY <1>0, <3>1 DEF Save, Ends
      <4>. HIDE DEF s
      <4>3. PICK d \in Nat : \A i \in 1..Len(store') : i + d \in 1..Len(s) /\ store'[i] = s[i + d]
        BY <4>1, TrimmedFacts
      <4>4. ASSUME NEW i \in 1..Len(store') PROVE run'[store'[i].run].pc = "done"
        <5>1. store'[i] \in Message /\ (store'[i].run = r \/ run[store'[i].run].pc = "done")
          BY <4>1, <4>3 DEF Owned
        <5>. QED BY <1>1, <4>2, <5>1, DoneStays DEF Message
      <4>. QED BY <4>4 DEF NothingUnfinished
    <3>2. CASE ~Save(r)
      <4>1. store' = store
        BY <1>1, <3>2 DEF RunStep, RunGoesOn, Load, Ask, Answer, StreamEnds, Raise, Collect, Cancel
      <4>2. \A i \in 1..Len(store) : store[i].run \in Runs /\ run[store[i].run].pc = "done"
        <5>1. \A i \in 1..Len(store) : store[i] \in Message
          BY <1>0
        <5>. QED BY <5>1 DEF Message, Finished, NothingUnfinished
      <4>. QED BY <1>1, <4>1, <4>2, DoneStays DEF NothingUnfinished
    <3>. QED BY <3>1, <3>2
  <2>. QED BY <2>1, <2>2 DEF Finished
<1>2. ASSUME NEW c \in Callers, CallStep(c) PROVE Finished'
  BY <1>2, CallMoves DEF Finished, NothingUnfinished
<1>3. CASE store' \in {<<>>, store} /\ UNCHANGED <<run, caller, connection>>
  BY <1>3 DEF Finished, NothingUnfinished
<1>. QED BY <1>1, <1>2, <1>3, Cases

-----------------------------------------------------------------------------
(* Every tool call of an answer has its result.                            *)

\* A request that nobody touches, or whose calls only move on.
LEMMA ConversingQuiet ==
  ASSUME NEW r \in Runs, Conversing(r), run'[r] = run[r],
         \A c \in Callers : c[1] = r => (caller'[c].pc = "idle" <=> caller[c].pc = "idle")
  PROVE  Conversing(r)'
<1>1. Calls(r)' = Calls(r)
  BY DEF Calls
<1>. QED BY <1>1 DEF Conversing

\* A request that ends.
LEMMA ConversingEnds ==
  ASSUME TypeOK, NEW r \in Runs, NEW at \in {"done", "failed"}, Ends(r, at), Calls(r)' = {}
  PROVE  Conversing(r)'
BY DEF Conversing, Ends, TypeOK

LEMMA ConversingStep ==
  ASSUME TypeOK, Conversations, NEW r \in Runs, RunStep(r)
  PROVE  Conversing(r)'
<1>1. /\ run \in [Runs -> RunRecord] /\ store \in Seq(Message) /\ run[r].context \in Seq(Message)
      /\ caller \in [Callers -> CallRecord]
      /\ Answered(store) /\ Conversing(r) /\ MaxCalls \in Nat \ {0}
  BY LimitsAssumption DEF TypeOK, RunRecord, CallRecord, Conversations
<1>2. ASSUME caller' = caller PROVE Calls(r)' = Calls(r)
  BY <1>2 DEF Calls
<1>3. ASSUME caller' = [c \in Callers |-> IF c[1] = r THEN NoCall ELSE caller[c]]
      PROVE  Calls(r)' = {}
  BY <1>3, NoCallFacts DEF Calls
<1>4. CASE Load(r)
  <2>1. /\ run'[r].pc = "think" /\ run'[r].context = Append(store, Say(r, "user", 0))
        /\ Calls(r)' = {}
    BY <1>1, <1>2, <1>4 DEF Load, RunRecord, Conversing
  <2>2. Say(r, "user", 0) \in Message /\ Say(r, "user", 0).kind # "ask"
    BY <1>1 DEF Say, Message
  <2>3. Answered(run'[r].context)
    BY <1>1, <2>1, <2>2, AnsweredAppend
  <2>. QED BY <2>1, <2>3 DEF Conversing
<1>5. CASE Ask(r)
  <2>1. PICK n \in 1..MaxCalls :
          /\ Answers(r, "tools", Say(r, "ask", n))
          /\ caller' = [c \in Callers |->
               IF c[1] = r /\ c[2] <= n THEN [NoCall EXCEPT !.pc = "route"] ELSE caller[c]]
    BY <1>5 DEF Ask
  <2>2. run'[r].pc = "tools" /\ run'[r].context = Append(run[r].context, Say(r, "ask", n))
    BY <1>1, <2>1 DEF Answers
  <2>3. Answered(run[r].context) /\ \A c \in Callers : c[1] = r => caller[c].pc = "idle"
    BY <1>1, <1>5 DEF Ask, Thinks, Conversing, Calls
  <2>4. Calls(r)' = {r} \X (1..n)
    <3>1. [NoCall EXCEPT !.pc = "route"].pc # "idle"
      BY DEF NoCall
    <3>2. \A c \in Callers : c \in Calls(r)' <=> c[1] = r /\ c[2] <= n
      BY <2>1, <2>3, <3>1 DEF Calls
    <3>3. \A c \in Callers : c[1] = r /\ c[2] <= n <=> c \in {r} \X (1..n)
      BY <1>1 DEF Callers
    <3>4. {r} \X (1..n) \subseteq Callers /\ Calls(r)' \subseteq Callers
      BY <1>1 DEF Calls, Callers
    <3>. QED BY <3>2, <3>3, <3>4
  <2>5. Pending(run'[r].context, r, n)
    BY <1>1, <2>2, <2>3, PendingAppend
  <2>. QED BY <2>2, <2>4, <2>5 DEF Conversing
<1>6. CASE Answer(r)
  <2>1. PICK kind \in {"reply", "cut"} : Answers(r, "save", Say(r, kind, 0))
    BY <1>6 DEF Answer
  <2>2. Say(r, kind, 0) \in Message /\ Say(r, kind, 0).kind # "ask"
    BY <1>1 DEF Say, Message
  <2>3. /\ run'[r].pc = "save" /\ run'[r].context = Append(run[r].context, Say(r, kind, 0))
        /\ Calls(r)' = {}
    BY <1>1, <1>2, <1>6, <2>1 DEF Answer, Answers, Thinks, Conversing
  <2>4. Answered(run'[r].context)
    BY <1>1, <1>6, <2>2, <2>3, AnsweredAppend DEF Answer, Thinks, Conversing
  <2>. QED BY <2>3, <2>4 DEF Conversing
<1>7. CASE StreamEnds(r)
  <2>1. run'[r].pc = "save" /\ run'[r].context = run[r].context /\ Calls(r)' = Calls(r)
    BY <1>1, <1>2, <1>7 DEF StreamEnds, Becomes, RunRecord
  <2>. QED BY <1>1, <1>7, <2>1 DEF StreamEnds, Thinks, Conversing
<1>8. CASE Collect(r)
  <2>. DEFINE results == [k \in 1..Cardinality(Calls(r)) |-> Say(r, "result", k)]
  <2>1. /\ run'[r].pc = "think" /\ run'[r].context = run[r].context \o results
        /\ Calls(r)' = {}
    BY <1>1, <1>3, <1>8 DEF Collect, RunRecord
  <2>2. PICK n \in 1..MaxCalls : Calls(r) = {r} \X (1..n) /\ Pending(run[r].context, r, n)
    BY <1>1, <1>8 DEF Collect, Conversing
  <2>3. Cardinality(Calls(r)) = n
    <3>1. n \in Nat \ {0}
      BY <1>1
    <3>. QED BY <2>2, <3>1, RowOfCalls
  <2>4. run'[r].context = run[r].context \o [k \in 1..n |-> Say(r, "result", k)]
    BY <2>1, <2>3
  <2>5. Answered(run'[r].context)
    BY <1>1, <2>2, <2>4, AnsweredResults
  <2>. QED BY <2>1, <2>5 DEF Conversing
<1>9. CASE Raise(r) \/ Save(r)
  <2>1. Calls(r)' = {}
    BY <1>1, <1>2, <1>9 DEF Raise, Save, Conversing
  <2>. QED BY <1>9, <2>1, ConversingEnds DEF Raise, Save
<1>10. CASE Cancel(r)
  BY <1>3, <1>10, ConversingEnds DEF Cancel
<1>. QED BY <1>4, <1>5, <1>6, <1>7, <1>8, <1>9, <1>10 DEF RunStep, RunGoesOn

LEMMA ConversationsStep ==
  TypeOK /\ Retrying /\ Conversations /\ (Next \/ UNCHANGED vars) => Conversations'
<1>. SUFFICES ASSUME TypeOK, Retrying, Conversations, Next \/ UNCHANGED vars
              PROVE  Conversations'
  OBVIOUS
<1>1. ASSUME NEW r \in Runs, RunStep(r) PROVE Conversations'
  <2>1. ASSUME NEW q \in Runs PROVE Conversing(q)'
    <3>1. CASE q = r
      BY <1>1, <3>1, ConversingStep
    <3>2. CASE q # r
      <4>1. run'[q] = run[q] /\ \A c \in Callers : c[1] = q => caller'[c] = caller[c]
        BY <1>1, <3>2, RunMoves
      <4>. QED BY <4>1, ConversingQuiet DEF Conversations
    <3>. QED BY <3>1, <3>2
  <2>2. Answered(store)'
    <3>1. CASE Save(r)
      <4>1. /\ run[r].context \in Seq(Message) /\ Answered(run[r].context)
            /\ store' = Trimmed(run[r].context)
        BY <3>1 DEF Save, TypeOK, Conversations, Conversing
      <4>2. Answered(Trimmed(run[r].context))
        BY <4>1, AnsweredTrimmed
      <4>. QED BY <4>1, <4>2 DEF Answered
    <3>2. CASE ~Save(r)
      <4>1. store' = store
        BY <1>1, <3>2 DEF RunStep, RunGoesOn, Load, Ask, Answer, StreamEnds, Raise, Collect, Cancel
      <4>. QED BY <4>1 DEF Answered, Conversations
    <3>. QED BY <3>1, <3>2
  <2>. QED BY <2>1, <2>2 DEF Conversations
<1>2. ASSUME NEW c \in Callers, CallStep(c) PROVE Conversations'
  <2>1. /\ UNCHANGED <<store, run>> /\ caller[c].pc # "idle" /\ caller'[c].pc # "idle"
        /\ \A d \in Callers : d # c => caller'[d] = caller[d]
    BY <1>2, CallMoves
  <2>2. \A d \in Callers : caller'[d].pc = "idle" <=> caller[d].pc = "idle"
    BY <2>1
  <2>. QED BY <2>1, <2>2, ConversingQuiet DEF Conversations, Answered
<1>3. CASE store' \in {<<>>, store} /\ UNCHANGED <<run, caller, connection>>
  <2>1. Answered(store)'
    BY <1>3 DEF Answered, Conversations
  <2>. QED BY <1>3, <2>1, ConversingQuiet DEF Conversations
<1>. QED BY <1>1, <1>2, <1>3, Cases

\* A request ends with a cut answer only when it goes to be saved.
LEMMA ConcludingStep ==
  ASSUME TypeOK, Conversations, Conclusions, NEW r \in Runs, RunStep(r)
  PROVE  Concluding(r)'
<1>1. /\ run \in [Runs -> RunRecord] /\ store \in Seq(Message) /\ run[r].context \in Seq(Message)
      /\ CutsConclude(store) /\ Concluding(r) /\ MaxCalls \in Nat \ {0}
  BY LimitsAssumption DEF TypeOK, RunRecord, Conclusions
<1>2. CASE Load(r)
  <2>1. Say(r, "user", 0) \in Message /\ Say(r, "user", 0).kind = "user"
    BY <1>1 DEF Say, Message
  <2>2. run'[r].context = Append(store, Say(r, "user", 0))
    BY <1>1, <1>2 DEF Load, RunRecord
  <2>. QED BY <1>1, <2>1, <2>2, CutsAppend DEF Concluding
<1>3. CASE Ask(r)
  <2>1. PICK n \in 1..MaxCalls : Answers(r, "tools", Say(r, "ask", n))
    BY <1>3 DEF Ask
  <2>2. Say(r, "ask", n) \in Message /\ Say(r, "ask", n).kind = "ask"
    BY <1>1 DEF Say, Message
  <2>3. run'[r].context = Append(run[r].context, Say(r, "ask", n)) /\ run[r].pc = "think"
    BY <1>1, <1>3, <2>1 DEF Ask, Thinks, Answers
  <2>. QED BY <1>1, <2>2, <2>3, CutsAppend DEF Concluding
<1>4. CASE Answer(r)
  <2>1. PICK kind \in {"reply", "cut"} : Answers(r, "save", Say(r, kind, 0))
    BY <1>4 DEF Answer
  <2>2. Say(r, kind, 0) \in Message
    BY <1>1 DEF Say, Message
  <2>3. /\ run'[r].pc = "save" /\ run'[r].context = Append(run[r].context, Say(r, kind, 0))
        /\ run[r].pc = "think"
    BY <1>1, <1>4, <2>1 DEF Answer, Thinks, Answers
  <2>4. CutsConclude(run'[r].context)
    BY <1>1, <2>2, <2>3, CutsAppend DEF Concluding
  <2>. QED BY <2>3, <2>4 DEF Concluding
<1>5. CASE StreamEnds(r)
  <2>1. run'[r].pc = "save" /\ run'[r].context = run[r].context
    BY <1>1, <1>5 DEF StreamEnds, Becomes, RunRecord
  <2>. QED BY <1>1, <2>1 DEF Concluding
<1>6. CASE Collect(r)
  <2>1. PICK n \in 1..MaxCalls : Calls(r) = {r} \X (1..n)
    BY <1>6 DEF Collect, Conversations, Conversing
  <2>2. Cardinality(Calls(r)) = n
    <3>1. n \in Nat \ {0}
      BY <1>1
    <3>. QED BY <2>1, <3>1, RowOfCalls
  <2>3. /\ run'[r].context = run[r].context \o [k \in 1..n |-> Say(r, "result", k)]
        /\ run[r].pc = "tools"
    BY <1>1, <1>6, <2>2 DEF Collect, RunRecord
  <2>. QED BY <1>1, <2>3, CutsResults DEF Concluding
<1>7. CASE Raise(r) \/ Save(r) \/ Cancel(r)
  <2>1. run'[r].pc \in {"done", "failed"} /\ run'[r].context = <<>>
    BY <1>1, <1>7 DEF Raise, Save, Cancel, Ends
  <2>. QED BY <2>1 DEF Concluding, CutsConclude
<1>. QED BY <1>2, <1>3, <1>4, <1>5, <1>6, <1>7 DEF RunStep, RunGoesOn

LEMMA ConclusionsStep ==
  TypeOK /\ Retrying /\ Conversations /\ Conclusions /\ (Next \/ UNCHANGED vars) => Conclusions'
<1>. SUFFICES ASSUME TypeOK, Retrying, Conversations, Conclusions, Next \/ UNCHANGED vars
              PROVE  Conclusions'
  OBVIOUS
<1>1. ASSUME NEW r \in Runs, RunStep(r) PROVE Conclusions'
  <2>1. ASSUME NEW q \in Runs PROVE Concluding(q)'
    <3>1. CASE q = r
      BY <1>1, <3>1, ConcludingStep
    <3>2. CASE q # r
      BY <1>1, <3>2, RunMoves DEF Conclusions, Concluding
    <3>. QED BY <3>1, <3>2
  <2>2. CutsConclude(store')
    <3>1. CASE Save(r)
      <4>1. run[r].context \in Seq(Message) /\ CutsConclude(run[r].context)
        BY DEF TypeOK, Conclusions, Concluding
      <4>. QED BY <3>1, <4>1, CutsTrimmed DEF Save
    <3>2. CASE ~Save(r)
      <4>1. store' = store
        BY <1>1, <3>2 DEF RunStep, RunGoesOn, Load, Ask, Answer, StreamEnds, Raise, Collect, Cancel
      <4>. QED BY <4>1 DEF Conclusions
    <3>. QED BY <3>1, <3>2
  <2>. QED BY <2>1, <2>2 DEF Conclusions, CutsConclude
<1>2. ASSUME NEW c \in Callers, CallStep(c) PROVE Conclusions'
  BY <1>2, CallMoves DEF Conclusions, Concluding, CutsConclude
<1>3. CASE store' \in {<<>>, store} /\ UNCHANGED <<run, caller, connection>>
  BY <1>3 DEF Conclusions, Concluding, CutsConclude
<1>. QED BY <1>1, <1>2, <1>3, Cases

-----------------------------------------------------------------------------
(* The theorems.                                                           *)

LEMMA AgentInvariant == Spec => []AgentInv
<1>1. Init => AgentInv
  <2>1. Init => Connected
    BY NobodyAssumption, NoCallFacts
    DEF Init, Connected, Holding, ListedIsServed, SessionStays, ConnectingIsUnlisted
  <2>2. Init => Finished
    BY DEF Init, Finished, NothingUnfinished
  <2>3. Init => Conversations
    BY NoCallFacts DEF Init, Conversations, Conversing, Answered, Calls
  <2>4. Init => Conclusions
    BY DEF Init, Conclusions, Concluding, CutsConclude
  <2>. QED BY <2>1, <2>2, <2>3, <2>4, TypesInit DEF AgentInv
<1>2. AgentInv /\ [Next]_vars => AgentInv'
  BY TypesStep, ConnectedStep, FinishedStep, ConversationsStep, ConclusionsStep DEF AgentInv
<1>. QED BY <1>1, <1>2, PTL DEF Spec

\* Types: the history is never longer than what is kept of it, a call never tries more
\* often than it may, and a request never asks the model more often than it may.
THEOREM AgentTypes == Spec => []TypeOK
BY AgentInvariant, PTL DEF AgentInv

\* What is stored, and what the model is sent, has the results of the calls that were
\* executed right after the answer that asked for them, whatever became of the calls
\* and however requests interleave; an answer whose calls were not executed, its finish
\* reason being another, is the last message of its request.
THEOREM AgentCallsAnswered == Spec => []CallsAnswered
<1>1. AgentInv => CallsAnswered
  BY DEF AgentInv, Conversations, Conversing, Conclusions, Concluding, CallsAnswered
<1>. QED BY <1>1, AgentInvariant, PTL

\* A request that fails leaves no trace in the history, nor does one still under way.
THEOREM AgentNothingUnfinished == Spec => []NothingUnfinished
<1>1. AgentInv => NothingUnfinished
  BY DEF AgentInv, Finished
<1>. QED BY <1>1, AgentInvariant, PTL

\* What calls are routed by is what the session that is held listed, and nobody closes
\* the session under a call: all of connecting, executing and backing off is under the
\* connection's lock, also when requests are cancelled.
THEOREM AgentConnection == Spec => [](ListedIsServed /\ SessionStays)
<1>1. AgentInv => ListedIsServed /\ SessionStays
  BY DEF AgentInv, Connected
<1>. QED BY <1>1, AgentInvariant, PTL

-----------------------------------------------------------------------------
(* Nobody goes away with the connection's lock.                            *)

AtWork == {"connect", "execute", "sleep"}

\* Who holds the lock is at work under it, for a request that waits for its calls.
HeldAtWork == holder # None => caller[holder].pc \in AtWork /\ run[holder[1]].pc = "tools"

\* A call that is under way is of a request that waits for its calls.
LEMMA CalledFor ==
  ASSUME AgentInv, NEW c \in Callers, caller[c].pc # "idle"
  PROVE  c[1] \in Runs /\ run[c[1]].pc = "tools"
<1>1. c[1] \in Runs /\ c \in Calls(c[1])
  BY DEF Callers, Calls
<1>. QED BY <1>1 DEF AgentInv, Conversations, Conversing

LEMMA HeldStep == AgentInv /\ HeldAtWork /\ (Next \/ UNCHANGED vars) => HeldAtWork'
<1>. SUFFICES ASSUME AgentInv, HeldAtWork, Next \/ UNCHANGED vars, holder' # None
              PROVE  caller'[holder'].pc \in AtWork /\ run'[holder'[1]].pc = "tools"
  BY DEF HeldAtWork
<1>. USE DEF AtWork
<1>0. /\ holder \in Callers \cup {None} /\ None \notin Callers
      /\ caller \in [Callers -> CallRecord] /\ TypeOK /\ Retrying
      /\ \A c \in Callers : caller[c].pc \in AtWork => holder = c
  BY NobodyAssumption DEF AgentInv, TypeOK, CallRecord, Connected, Holding
\* What a request does leaves the call that holds the lock alone, or gives the lock back.
<1>1. ASSUME NEW r \in Runs, RunStep(r)
      PROVE  caller'[holder'].pc \in AtWork /\ run'[holder'[1]].pc = "tools"
  <2>1. holder' = holder /\ holder \in Callers
    BY <1>0, <1>1 DEF RunStep, RunGoesOn, Load, Ask, Answer, StreamEnds, Raise, Collect, Save,
                      Cancel, connection
  <2>2. /\ caller[holder].pc \in AtWork /\ run[holder[1]].pc = "tools" /\ holder[1] \in Runs
        /\ holder \in Calls(holder[1])
    BY <1>0, <2>1 DEF HeldAtWork, Callers, Calls
  <2>3. holder[1] # r
    <3>1. CASE Collect(r)
      BY <2>2, <3>1 DEF Collect
    <3>2. CASE Cancel(r)
      BY <1>0, <2>1, <2>2, <3>2 DEF Cancel
    <3>3. CASE ~Collect(r) /\ ~Cancel(r)
      <4>1. run[r].pc \in {"new", "think", "save"}
        BY <1>1, <3>3 DEF RunStep, RunGoesOn, Load, Ask, Answer, StreamEnds, Raise, Save, Thinks
      <4>. QED BY <2>2, <4>1
    <3>. QED BY <3>1, <3>2, <3>3
  <2>4. caller'[holder] = caller[holder] /\ run'[holder[1]] = run[holder[1]]
    BY <1>0, <1>1, <2>1, <2>2, <2>3, RunMoves
  <2>. QED BY <2>1, <2>2, <2>4
\* A call keeps the lock while it goes on, gives it back, or waits for it.
<1>2. ASSUME NEW c \in Callers, CallStep(c)
      PROVE  caller'[holder'].pc \in AtWork /\ run'[holder'[1]].pc = "tools"
  <2>0. /\ \A d \in Callers : d # c => caller'[d] = caller[d]
        /\ run' = run
    BY <1>0, <1>2, CallMoves
  <2>1. caller[c].pc # "idle" /\ run[c[1]].pc = "tools"
    <3>1. caller[c].pc # "idle"
      BY <1>2 DEF CallStep, CallGoesOn, Enter, GiveUp, Route, Executed, ExecuteRaises, Retry,
                  Reconnect, ReconnectFails
    <3>. QED BY <3>1, CalledFor
  <2>2. CASE Enter(c)
    <3>1. holder' = c /\ caller'[c].pc \in {"execute", "connect"}
      BY <1>0, <2>2 DEF Enter, Step, CallRecord
    <3>. QED BY <2>0, <2>1, <3>1
  <2>3. CASE Route(c) \/ GiveUp(c)
    <3>1. holder' = holder /\ caller[c].pc \in {"route", "lock"}
      BY <2>3 DEF Route, GiveUp, connection
    <3>2. holder \in Callers /\ holder # c
      BY <1>0, <3>1 DEF HeldAtWork
    <3>. QED BY <2>0, <3>1, <3>2 DEF HeldAtWork
  <2>4. CASE Reconnect(c)
    <3>1. caller[c].pc = "connect" /\ holder' = holder /\ caller'[c].pc = "execute"
      BY <1>0, <2>4 DEF Reconnect, Step, CallRecord
    <3>2. holder = c
      BY <1>0, <3>1
    <3>. QED BY <2>0, <2>1, <3>1, <3>2
  <2>5. CASE ReconnectFails(c) \/ Executed(c) \/ Retry(c)
    BY <2>5 DEF ReconnectFails, Executed, Retry
  <2>6. CASE ExecuteRaises(c)
    <3>1. caller[c].pc = "execute" /\ (holder' = None \/ (holder' = holder /\ caller'[c].pc = "sleep"))
      BY <1>0, <2>6 DEF ExecuteRaises, Step, CallRecord
    <3>2. holder = c
      BY <1>0, <3>1
    <3>. QED BY <2>0, <2>1, <3>1, <3>2
  <2>. QED BY <1>2, <2>2, <2>3, <2>4, <2>5, <2>6 DEF CallStep, CallGoesOn
<1>3. CASE UNCHANGED <<run, caller, connection>>
  BY <1>3 DEF connection, HeldAtWork
<1>. QED BY <1>1, <1>2, <1>3, Cases

\* The connection's lock is never left behind: while somebody holds it, that call is
\* connecting, executing or backing off for a request that waits for it, whatever failed,
\* was given up or was cancelled meanwhile; and no second call is past the lock.
THEOREM AgentLockGivenBack == Spec => [](HeldAtWork /\ Holding)
<1>1. Init => HeldAtWork
  BY DEF Init, HeldAtWork
<1>2. AgentInv /\ HeldAtWork /\ [Next]_vars => HeldAtWork'
  BY HeldStep
<1>3. AgentInv => Holding
  BY DEF AgentInv, Connected
<1>. QED BY <1>1, <1>2, <1>3, AgentInvariant, PTL DEF Spec

-----------------------------------------------------------------------------
(* The agent implements AgentSession.                                      *)

LEMMA FrontAppend ==
  ASSUME NEW s \in Seq(Message), NEW m \in Message
  PROVE  Front(Append(s, m)) = s
<1>. DEFINE t == Append(s, m)
<1>1. /\ Len(s) \in Nat /\ Len(t) = Len(s) + 1
      /\ \A i \in 1..Len(s) : t[i] = s[i] /\ s[i] \in Message
  OBVIOUS
<1>2. Front(t) = SubSeq(t, 1, Len(s))
  BY <1>1 DEF Front
<1>. HIDE DEF t
<1>3. /\ SubSeq(t, 1, Len(s)) \in Seq(Message) /\ Len(SubSeq(t, 1, Len(s))) = Len(s)
      /\ \A i \in 1..Len(s) : SubSeq(t, 1, Len(s))[i] = s[i]
  <2>1. /\ \A i \in 1..Len(s) : t[i] \in Message
        /\ 1 \in Int /\ Len(s) \in Int
    BY <1>1
  <2>2. /\ SubSeq(t, 1, Len(s)) \in Seq(Message)
        /\ Len(SubSeq(t, 1, Len(s))) = IF 1 <= Len(s) THEN Len(s) - 1 + 1 ELSE 0
        /\ \A i \in 1..(Len(s) - 1 + 1) : SubSeq(t, 1, Len(s))[i] = t[1 + i - 1]
    BY <2>1, SubSeqProperties
  <2>. QED BY <1>1, <2>2
<1>4. SubSeq(t, 1, Len(s)) = s
  BY <1>3, SeqEqual
<1>. QED BY <1>2, <1>4 DEF t

\* The results complete the exchange that the last answer began.
LEMMA ExchangeWhole ==
  ASSUME NEW s \in Seq(Message), NEW r \in Runs, NEW n \in 1..MaxCalls, Pending(s, r, n)
  PROVE  s \o [k \in 1..n |-> Say(r, "result", k)] = Front(s) \o Session!Exchange(r, n)
<1>. DEFINE results == [k \in 1..n |-> Say(r, "result", k)]
            whole == Session!Exchange(r, n)
            f == Front(s)
<1>1. /\ s # <<>> /\ s[Len(s)] = Say(r, "ask", n) /\ Len(s) \in Nat \ {0} /\ n \in Nat \ {0}
      /\ \A i \in 1..Len(s) : s[i] \in Message
      /\ \A k \in 1..n : Say(r, "result", k) \in Message
      /\ Say(r, "ask", n) \in Message
  <2>1. s # <<>> /\ s[Len(s)] = Say(r, "ask", n)
    BY DEF Pending
  <2>2. Len(s) \in Nat \ {0} /\ \A i \in 1..Len(s) : s[i] \in Message
    BY <2>1
  <2>3. n \in Nat \ {0} /\ n \in 0..MaxCalls /\ \A k \in 1..n : k \in 0..MaxCalls
    BY LimitsAssumption
  <2>4. \A k \in 0..MaxCalls : Say(r, "result", k) \in Message /\ Say(r, "ask", k) \in Message
    BY DEF Say, Message
  <2>. QED BY <2>1, <2>2, <2>3, <2>4
<1>2. /\ results \in Seq(Message) /\ Len(results) = n
      /\ \A k \in 1..n : results[k] = Say(r, "result", k)
  BY <1>1
<1>3. /\ whole \in Seq(Message) /\ Len(whole) = n + 1 /\ whole[1] = Say(r, "ask", n)
      /\ \A k \in 2..(n + 1) : whole[k] = Say(r, "result", k - 1)
  <2>1. \A k \in 1..(n + 1) : whole[k] = IF k = 1 THEN Say(r, "ask", n) ELSE Say(r, "result", k - 1)
    BY DEF Session!Exchange, Session!Message, Say
  <2>2. /\ Say(r, "ask", n) \in Message
        /\ \A k \in 2..(n + 1) : k # 1 /\ k - 1 \in 1..n
        /\ \A k \in 1..(n + 1) : k = 1 \/ k \in 2..(n + 1)
    BY <1>1
  <2>3. \A k \in 1..(n + 1) : whole[k] \in Message
    BY <1>1, <2>1, <2>2
  <2>4. whole = [k \in 1..(n + 1) |-> whole[k]] /\ n + 1 \in Nat
    BY <1>1 DEF Session!Exchange
  <2>. HIDE DEF whole
  <2>5. whole \in Seq(Message) /\ Len(whole) = n + 1
    BY <2>3, <2>4
  <2>6. 1 \in 1..(n + 1)
    BY <1>1
  <2>. QED BY <2>1, <2>2, <2>5, <2>6
<1>4. /\ f \in Seq(Message) /\ Len(f) = Len(s) - 1
      /\ \A i \in 1..(Len(s) - 1) : f[i] = s[i]
  <2>1. /\ \A i \in 1..(Len(s) - 1) : s[i] \in Message
        /\ 1 \in Int /\ Len(s) - 1 \in Int
    BY <1>1
  <2>2. /\ SubSeq(s, 1, Len(s) - 1) \in Seq(Message)
        /\ Len(SubSeq(s, 1, Len(s) - 1)) = IF 1 <= Len(s) - 1 THEN (Len(s) - 1) - 1 + 1 ELSE 0
        /\ \A i \in 1..((Len(s) - 1) - 1 + 1) : SubSeq(s, 1, Len(s) - 1)[i] = s[1 + i - 1]
    BY <2>1, SubSeqProperties
  <2>3. f = SubSeq(s, 1, Len(s) - 1)
    BY DEF Front
  <2>. HIDE DEF f
  <2>4. Len(f) = Len(s) - 1
    <3>1. \A m \in Nat \ {0} : (IF 1 <= m - 1 THEN (m - 1) - 1 + 1 ELSE 0) = m - 1
      OBVIOUS
    <3>2. Len(f) = IF 1 <= Len(s) - 1 THEN (Len(s) - 1) - 1 + 1 ELSE 0
      BY <2>2, <2>3, Zenon
    <3>. QED BY <1>1, <3>1, <3>2, Zenon
  <2>5. ASSUME NEW i \in 1..(Len(s) - 1) PROVE f[i] = s[i]
    <3>1. i \in 1..((Len(s) - 1) - 1 + 1) /\ 1 + i - 1 = i
      BY <1>1
    <3>. QED BY <2>2, <2>3, <3>1
  <2>. QED BY <2>2, <2>3, <2>4, <2>5
<1>. HIDE DEF results, whole, f
<1>5. /\ s \o results \in Seq(Message) /\ Len(s \o results) = Len(s) + n
      /\ \A i \in 1..(Len(s) + n) :
           (s \o results)[i] = IF i <= Len(s) THEN s[i] ELSE results[i - Len(s)]
  BY <1>2, ConcatProperties
<1>6. /\ f \o whole \in Seq(Message) /\ Len(f \o whole) = (Len(s) - 1) + (n + 1)
      /\ \A i \in 1..((Len(s) - 1) + (n + 1)) :
           (f \o whole)[i] = IF i <= Len(s) - 1 THEN f[i] ELSE whole[i - (Len(s) - 1)]
  <2>1. /\ f \o whole \in Seq(Message) /\ Len(f \o whole) = Len(f) + Len(whole)
        /\ \A i \in 1..(Len(f) + Len(whole)) :
             (f \o whole)[i] = IF i <= Len(f) THEN f[i] ELSE whole[i - Len(f)]
    BY <1>3, <1>4, ConcatProperties
  <2>. QED BY <1>3, <1>4, <2>1
<1>7. ASSUME NEW i \in 1..(Len(s) + n) PROVE (s \o results)[i] = (f \o whole)[i]
  <2>0. i \in 1..((Len(s) - 1) + (n + 1))
    BY <1>1
  <2>1. CASE i <= Len(s) - 1
    <3>1. i <= Len(s) /\ i \in 1..(Len(s) - 1)
      BY <1>1, <2>1
    <3>. QED BY <1>4, <1>5, <1>6, <2>0, <2>1, <3>1
  <2>2. CASE i = Len(s)
    <3>1. i - (Len(s) - 1) = 1 /\ ~(i <= Len(s) - 1) /\ i <= Len(s)
      BY <1>1, <2>2
    <3>. QED BY <1>1, <1>3, <1>5, <1>6, <2>0, <2>2, <3>1
  <2>3. CASE i > Len(s)
    <3>1. /\ i - Len(s) \in 1..n /\ ~(i <= Len(s)) /\ ~(i <= Len(s) - 1)
          /\ i - (Len(s) - 1) \in 2..(n + 1) /\ (i - (Len(s) - 1)) - 1 = i - Len(s)
      BY <1>1, <2>3
    <3>. QED BY <1>2, <1>3, <1>5, <1>6, <2>0, <3>1
  <2>4. i <= Len(s) - 1 \/ i = Len(s) \/ i > Len(s)
    BY <1>1
  <2>. QED BY <2>1, <2>2, <2>3, <2>4
<1>8. Len(s \o results) = Len(f \o whole)
  BY <1>1, <1>5, <1>6
<1>9. s \o results = f \o whole
  BY <1>5, <1>6, <1>7, <1>8, SeqEqual
<1>. QED BY <1>9 DEF results, whole, f

LEMMA TalkMoves ==
  ASSUME TypeOK, NEW r \in Runs, RunStep(r), NEW at, NEW said,
         Seen(run'[r]) = [pc |-> at, said |-> said]
  PROVE  Session!Moves(r, Seen(run[r]).pc, at, said)
<1>1. \A q \in Runs : q # r => run'[q] = run[q]
  BY RunMoves
<1>2. Talk = [q \in Runs |-> Seen(run[q])] /\ Talk' = [q \in Runs |-> Seen(run'[q])]
  BY DEF Talk, Seen
<1>3. Talk' = [Talk EXCEPT ![r] = [pc |-> at, said |-> said]]
  BY <1>1, <1>2
<1>. QED BY <1>2, <1>3 DEF Session!Moves

LEMMA TalkStays ==
  ASSUME TypeOK, NEW r \in Runs, RunStep(r), Seen(run'[r]) = Seen(run[r])
  PROVE  Talk' = Talk
<1>1. \A q \in Runs : q # r => run'[q] = run[q]
  BY RunMoves
<1>2. \A q \in Runs : Seen(run'[q]) = Seen(run[q])
  BY <1>1
<1>. QED BY <1>2 DEF Talk, Seen

LEMMA SessionStep ==
  ASSUME TypeOK, Conversations, NEW r \in Runs, RunStep(r)
  PROVE  Session!SessionNext \/ UNCHANGED Session!sessionVars
<1>1. /\ run \in [Runs -> RunRecord] /\ run[r] \in RunRecord /\ run[r].context \in Seq(Message)
      /\ Talk[r] = Seen(run[r]) /\ Conversing(r) /\ MaxCalls \in Nat \ {0}
  BY LimitsAssumption DEF TypeOK, RunRecord, Talk, Conversations
<1>2. ASSUME Session!Begin(r) \/ Session!Exchanges(r) \/ Session!Concludes(r)
               \/ Session!Commits(r) \/ Session!Fails(r)
      PROVE  Session!SessionNext
  BY <1>2 DEF Session!SessionNext
<1>3. ASSUME UNCHANGED store, NEW at \in {"think", "tools", "save"}, run[r].pc = at, Ends(r, "failed")
      PROVE  Session!Fails(r)
  <2>1. Seen(run'[r]) = [pc |-> "failed", said |-> <<>>]
    BY <1>1, <1>3 DEF Ends, Seen
  <2>2. Session!Moves(r, Seen(run[r]).pc, "failed", <<>>)
    BY <2>1, TalkMoves
  <2>3. Seen(run[r]).pc \in {"open", "save"}
    BY <1>3 DEF Seen
  <2>. QED BY <1>3, <2>2, <2>3 DEF Session!Fails
<1>4. CASE Load(r)
  <2>. DEFINE y == Append(store, Say(r, "user", 0))
  <2>1. run'[r].pc = "think" /\ run'[r].context = y /\ store' = store /\ run[r].pc = "new"
    BY <1>1, <1>4 DEF Load, RunRecord
  <2>2. Seen(run'[r]) = [pc |-> "open", said |-> y] /\ Seen(run[r]).pc = "new"
    BY <2>1 DEF Seen
  <2>3. Session!Moves(r, "new", "open", y)
    BY <2>2, TalkMoves
  <2>. QED BY <1>2, <2>1, <2>3 DEF Session!Begin, Session!Message, Say
\* The calls are not seen until they are over.
<1>5. CASE Ask(r)
  <2>1. PICK n \in 1..MaxCalls : Answers(r, "tools", Say(r, "ask", n))
    BY <1>5 DEF Ask
  <2>2. /\ run'[r].pc = "tools" /\ run'[r].context = Append(run[r].context, Say(r, "ask", n))
        /\ run[r].pc = "think" /\ store' = store
    BY <1>1, <1>5, <2>1 DEF Ask, Answers, Thinks
  <2>3. Say(r, "ask", n) \in Message
    BY <1>1 DEF Say, Message
  <2>4. Front(run'[r].context) = run[r].context
    BY <1>1, <2>2, <2>3, FrontAppend
  <2>5. Seen(run'[r]) = Seen(run[r])
    BY <2>2, <2>4 DEF Seen
  <2>. QED BY <2>2, <2>5, TalkStays DEF Session!sessionVars
<1>6. CASE Answer(r)
  <2>1. PICK kind \in {"reply", "cut"} : Answers(r, "save", Say(r, kind, 0))
    BY <1>6 DEF Answer
  <2>. DEFINE y == Append(run[r].context, Say(r, kind, 0))
  <2>2. /\ run'[r].pc = "save" /\ run'[r].context = y
        /\ run[r].pc = "think" /\ store' = store
    BY <1>1, <1>6, <2>1 DEF Answer, Answers, Thinks
  <2>3. /\ Seen(run'[r]) = [pc |-> "save", said |-> y]
        /\ Seen(run[r]).pc = "open" /\ Talk[r].said = run[r].context
    BY <1>1, <2>2 DEF Seen
  <2>4. Session!Moves(r, "open", "save", y)
    BY <2>3, TalkMoves
  <2>5. y = Append(Talk[r].said, Session!Message(r, kind, 0))
    BY <2>3 DEF Session!Message, Say
  <2>6. Session!Concludes(r)
    BY <2>2, <2>4, <2>5 DEF Session!Concludes
  <2>. QED BY <1>2, <2>6
<1>7. CASE StreamEnds(r)
  <2>1. /\ run'[r].pc = "save" /\ run'[r].context = run[r].context
        /\ run[r].pc = "think" /\ store' = store
    BY <1>1, <1>7 DEF StreamEnds, Becomes, Thinks, RunRecord
  <2>2. /\ Seen(run'[r]) = [pc |-> "save", said |-> Talk[r].said] /\ Seen(run[r]).pc = "open"
    BY <1>1, <2>1 DEF Seen
  <2>3. Session!Moves(r, "open", "save", Talk[r].said)
    BY <2>2, TalkMoves
  <2>. QED BY <1>2, <2>1, <2>3 DEF Session!Concludes
<1>8. CASE Collect(r)
  <2>. DEFINE results == [k \in 1..Cardinality(Calls(r)) |-> Say(r, "result", k)]
  <2>1. /\ run'[r].pc = "think" /\ run'[r].context = run[r].context \o results
        /\ run[r].pc = "tools" /\ store' = store
    BY <1>1, <1>8 DEF Collect, RunRecord
  <2>2. PICK n \in 1..MaxCalls : Calls(r) = {r} \X (1..n) /\ Pending(run[r].context, r, n)
    BY <1>1, <2>1 DEF Conversing
  <2>3. Cardinality(Calls(r)) = n
    <3>1. n \in Nat \ {0}
      BY <1>1
    <3>. QED BY <2>2, <3>1, RowOfCalls
  <2>4. run'[r].context = run[r].context \o [k \in 1..n |-> Say(r, "result", k)]
    BY <2>1, <2>3
  <2>5. run'[r].context = Front(run[r].context) \o Session!Exchange(r, n)
    BY <1>1, <2>2, <2>4, ExchangeWhole
  <2>6. /\ Talk[r].said = Front(run[r].context) /\ Seen(run[r]).pc = "open"
        /\ Seen(run'[r]) = [pc |-> "open", said |-> run'[r].context]
    BY <1>1, <2>1 DEF Seen
  <2>7. Session!Moves(r, "open", "open", Talk[r].said \o Session!Exchange(r, n))
    BY <2>5, <2>6, TalkMoves
  <2>8. Session!Exchanges(r)
    BY <2>1, <2>7 DEF Session!Exchanges
  <2>. QED BY <1>2, <2>8
<1>9. CASE Save(r)
  <2>1. store' = Trimmed(run[r].context) /\ Ends(r, "done") /\ run[r].pc = "save"
    BY <1>9 DEF Save
  <2>2. Seen(run'[r]) = [pc |-> "done", said |-> <<>>]
    BY <1>1, <2>1 DEF Ends, Seen
  <2>3. Seen(run[r]).pc = "save" /\ Talk[r].said = run[r].context
    BY <1>1, <2>1 DEF Seen
  <2>4. Session!Moves(r, "save", "done", <<>>)
    BY <2>2, <2>3, TalkMoves
  <2>5. store' = Session!Latest(Talk[r].said)
    BY <2>1, <2>3 DEF Session!Latest, Trimmed
  <2>. QED BY <1>2, <2>4, <2>5 DEF Session!Commits
<1>10. CASE Raise(r)
  BY <1>2, <1>3, <1>10 DEF Raise
<1>11. CASE Cancel(r)
  BY <1>2, <1>3, <1>11 DEF Cancel
<1>. QED BY <1>4, <1>5, <1>6, <1>7, <1>8, <1>9, <1>10, <1>11 DEF RunStep, RunGoesOn

LEMMA SessionSteps == AgentInv /\ [Next]_vars => [Session!SessionNext]_(Session!sessionVars)
<1>. SUFFICES ASSUME AgentInv, Next \/ UNCHANGED vars
              PROVE  Session!SessionNext \/ UNCHANGED Session!sessionVars
  OBVIOUS
<1>1. TypeOK /\ Retrying /\ Conversations
  BY DEF AgentInv
<1>2. ASSUME NEW c \in Callers, CallStep(c) PROVE UNCHANGED Session!sessionVars
  <2>1. UNCHANGED <<store, run>>
    BY <1>1, <1>2, CallMoves
  <2>. QED BY <2>1 DEF Session!sessionVars, Talk, Seen
<1>3. CASE store' \in {<<>>, store} /\ UNCHANGED <<run, caller, connection>>
  <2>1. Talk' = Talk
    BY <1>3 DEF Talk, Seen
  <2>. QED BY <1>3, <2>1 DEF Session!sessionVars, Session!SessionNext, Session!Forget
<1>. QED BY <1>1, <1>2, <1>3, Cases, SessionStep

LEMMA SessionBegins == Init => Session!SessionInit
BY DEF Init, Session!SessionInit, Talk, Seen

\* The agent keeps a session as AgentSession says, for any number of requests, rounds, calls
\* and retries: in spite of the awaits in between, an answer and what its calls gave enter a
\* conversation together, and a conversation enters the history whole or not at all.
THEOREM AgentKeepsSession == Spec => KeepsSession
<1>1. Spec => []AgentInv
  BY AgentInvariant
<1>2. Init => Session!SessionInit
  BY SessionBegins
<1>3. AgentInv /\ [Next]_vars => [Session!SessionNext]_(Session!sessionVars)
  BY SessionSteps
<1>. QED BY <1>1, <1>2, <1>3, PTL DEF Spec, KeepsSession, Session!SessionSpec

-----------------------------------------------------------------------------
(* Teleoperation: episodes. For any groups, targets, speeds and queue.      *)

\* The server records only an episode that the tool knows of, unless an answer was lost,
\* and the tool knows of none where it starts one or has dropped it.
EpisodeKnown ==
  /\ lost \in BOOLEAN /\ recording \in BOOLEAN /\ episode \in BOOLEAN
  /\ ~lost => (recording => episode)
  /\ pc \in {"start", "reset", "close", "closed"} => ~episode

LEMMA ToolInit == TeleopInit => EpisodeKnown
BY DEF TeleopInit, EpisodeKnown

LEMMA ToolStep == EpisodeKnown /\ [TeleopNext]_teleopVars => EpisodeKnown'
<1>. SUFFICES ASSUME EpisodeKnown, [TeleopNext]_teleopVars PROVE EpisodeKnown'
  OBVIOUS
<1>. USE DEF EpisodeKnown
\* Steps that neither call nor end anything.
<1>1. CASE \/ KeyMotion \/ KeyStill \/ \E kind \in Kinds : KeySwitch(kind)
           \/ (\E kind \in Kinds : JoySwitch(kind)) \/ JoyKeep \/ Apply \/ Fail
  <2>1. UNCHANGED <<pc, episode, recording, lost>>
    <3>1. CASE KeyMotion  BY <3>1 DEF KeyMotion, server
    <3>2. CASE KeyStill  BY <3>2 DEF KeyStill, server
    <3>3. CASE \E kind \in Kinds : KeySwitch(kind)  BY <3>3 DEF KeySwitch, server
    <3>4. CASE (\E kind \in Kinds : JoySwitch(kind)) \/ JoyKeep
      BY <3>4 DEF JoySwitch, JoyKeep, server
    <3>5. CASE Apply  BY <3>5 DEF Apply
    <3>6. CASE Fail  BY <3>6 DEF Fail
    <3>. QED BY <1>1, <3>1, <3>2, <3>3, <3>4, <3>5, <3>6
  <2>. QED BY <2>1
<1>2. CASE \E call \in {"end", "cancel"} : KeyEpisode(call)
  BY <1>2 DEF KeyEpisode, server
<1>3. CASE JoyRead \/ JoyMove \/ JoyEvent
  <2>1. /\ UNCHANGED <<episode, recording, lost>>
        /\ pc' \in {"apply", "events"} \/ (pc = "events" /\ pc' \in {"end", "cancel"})
    <3>1. CASE JoyRead  BY <3>1 DEF JoyRead, server
    <3>2. CASE JoyMove  BY <3>2 DEF JoyMove, server
    <3>3. CASE JoyEvent  BY <3>3 DEF JoyEvent, server
    <3>. QED BY <1>3, <3>1, <3>2, <3>3
  <2>. QED BY <2>1
<1>4. CASE CallAnswered
  BY <1>4 DEF CallAnswered, Served, AfterCall, EpisodeCalls
<1>5. CASE CallRefused
  BY <1>5 DEF CallRefused, Refused, Raised, EpisodeCalls
<1>6. CASE CallLost
  <2>1. /\ lost' = (lost \/ pc = "start") /\ pc' = "finish" /\ episode' = episode
        /\ Served(pc) \/ recording' = recording
    BY <1>6 DEF CallLost, Raised
  <2>2. recording' \in BOOLEAN /\ (pc # "start" /\ recording' => recording)
    <3>1. CASE recording' = recording
      BY <3>1
    <3>2. CASE Served(pc)
      <4>1. CASE pc = "start"
        BY <3>2, <4>1 DEF Served
      <4>2. CASE pc = "reset"
        BY <3>2, <4>2 DEF Served
      <4>3. CASE pc \notin {"start", "reset"}
        BY <3>2, <4>3 DEF Served
      <4>. QED BY <4>1, <4>2, <4>3
    <3>. QED BY <2>1, <3>1, <3>2
  <2>. QED BY <2>1, <2>2
<1>7. CASE Quit \/ Finish
  <2>1. CASE Quit  BY <2>1 DEF Quit, server
  <2>2. CASE Finish
    <3>1. UNCHANGED <<episode, recording, lost>> /\ pc' = IF episode THEN "drop" ELSE "close"
      BY <2>2 DEF Finish, server
    <3>. QED BY <3>1
  <2>. QED BY <1>7, <2>1, <2>2
<1>8. CASE Drop
  BY <1>8 DEF Drop, Served, Refused
<1>9. CASE Close
  BY <1>9 DEF Close
<1>10. CASE UNCHANGED teleopVars
  BY <1>10 DEF teleopVars
<1>. QED
  BY <1>1, <1>2, <1>3, <1>4, <1>5, <1>6, <1>7, <1>8, <1>9, <1>10 DEF TeleopNext

\* Once the tool is over no episode of it is being recorded, whichever calls were refused,
\* raised or lost their answer, but for the answers of a start and of the last cancel.
THEOREM TeleopNoEpisodeLeft == TeleopSpec => []NoEpisodeLeft
<1>1. EpisodeKnown => NoEpisodeLeft
  BY DEF EpisodeKnown, NoEpisodeLeft
<1>2. TeleopSpec => []EpisodeKnown
  BY ToolInit, ToolStep, PTL DEF TeleopSpec
<1>. QED BY <1>1, <1>2, PTL

-----------------------------------------------------------------------------
(* Where the queue of commands leaves a target.                            *)

\* A sequence, of whatever.
Proper(s) == s \in Seq(ToSet(s))

\* Once all of w is applied to targets that move as vel says, t moves at v.
Final(w, vel, t, v) ==
  \/ \E i \in 1..Len(w) : /\ w[i].to = t /\ w[i].speed = v
                          /\ \A j \in (i + 1)..Len(w) : w[j].to # t
  \/ (\A j \in 1..Len(w) : w[j].to # t) /\ vel[t] = v

LEMMA OneMore ==
  ASSUME NEW w, Proper(w), NEW c
  PROVE  /\ Proper(Append(w, c)) /\ w \o <<c>> = Append(w, c) /\ Len(w) \in Nat
         /\ Len(Append(w, c)) = Len(w) + 1 /\ Append(w, c)[Len(w) + 1] = c
         /\ \A i \in 1..Len(w) : Append(w, c)[i] = w[i]
<1>. DEFINE S == ToSet(w) \cup {c}
<1>1. w \in Seq(ToSet(w)) /\ ToSet(w) \subseteq S /\ c \in S
  BY DEF Proper
<1>2. Len(w) \in Nat /\ w \in Seq(S)
  <2>. HIDE DEF S
  <2>. QED BY <1>1
<1>. DEFINE t == Append(w, c)
<1>3. /\ t \in Seq(S) /\ Len(t) = Len(w) + 1 /\ DOMAIN t = 1..(Len(w) + 1)
      /\ t[Len(w) + 1] = c /\ (\A i \in 1..Len(w) : t[i] = w[i]) /\ w \o <<c>> = t
  <2>. HIDE DEF S
  <2>. QED BY <1>1, <1>2
<1>4. t \in Seq(ToSet(t))
  <2>1. \A i \in 1..Len(t) : t[i] \in ToSet(t)
    BY <1>3 DEF ToSet
  <2>. HIDE DEF t, S
  <2>. QED BY <1>3, <2>1
<1>. QED BY <1>2, <1>3, <1>4 DEF Proper

LEMMA TailProper ==
  ASSUME NEW w, Proper(w), w # <<>>
  PROVE  Proper(Tail(w))
<1>. DEFINE x == Tail(w)
<1>1. x \in Seq(ToSet(w)) /\ Len(x) \in Nat /\ DOMAIN x = 1..Len(x)
  <2>1. w \in Seq(ToSet(w))
    BY DEF Proper
  <2>. HIDE DEF Proper
  <2>. QED BY <2>1
<1>2. \A i \in 1..Len(x) : x[i] \in ToSet(x)
  BY <1>1 DEF ToSet
<1>. HIDE DEF x
<1>3. x \in Seq(ToSet(x))
  BY <1>1, <1>2
<1>. QED BY <1>3 DEF Proper, x

\* A command at the end settles its target and no other.
LEMMA FinalAppend ==
  ASSUME NEW w, Proper(w), NEW vel, NEW c, NEW t, NEW v, Final(w, vel, t, v)
  PROVE  Final(Append(w, c), vel, t, IF t = c.to THEN c.speed ELSE v)
<1>. DEFINE x == Append(w, c)
<1>1. /\ Len(w) \in Nat /\ Len(x) = Len(w) + 1 /\ x[Len(w) + 1] = c
      /\ \A i \in 1..Len(w) : x[i] = w[i]
  BY OneMore
<1>. HIDE DEF x
<1>2. CASE t = c.to
  <2>1. Len(x) \in 1..Len(x) /\ x[Len(x)] = c /\ (Len(x) + 1)..Len(x) = {}
    BY <1>1
  <2>. QED BY <1>2, <2>1 DEF Final, x
<1>3. CASE t # c.to
  <2>1. CASE \E i \in 1..Len(w) : /\ w[i].to = t /\ w[i].speed = v
                                  /\ \A j \in (i + 1)..Len(w) : w[j].to # t
    <3>1. PICK i \in 1..Len(w) : /\ w[i].to = t /\ w[i].speed = v
                                 /\ \A j \in (i + 1)..Len(w) : w[j].to # t
      BY <2>1
    <3>2. i \in 1..Len(x) /\ x[i] = w[i]
      BY <1>1
    <3>3. ASSUME NEW j \in (i + 1)..Len(x) PROVE x[j].to # t
      <4>1. j = Len(w) + 1 \/ (j \in (i + 1)..Len(w) /\ j \in 1..Len(w))
        BY <1>1
      <4>. QED BY <1>1, <1>3, <3>1, <4>1
    <3>. QED BY <1>3, <3>1, <3>2, <3>3 DEF Final, x
  <2>2. CASE (\A j \in 1..Len(w) : w[j].to # t) /\ vel[t] = v
    <3>1. ASSUME NEW j \in 1..Len(x) PROVE x[j].to # t
      <4>1. j = Len(w) + 1 \/ j \in 1..Len(w)
        BY <1>1
      <4>. QED BY <1>1, <1>3, <2>2, <4>1
    <3>. QED BY <1>3, <2>2, <3>1 DEF Final, x
  <2>. QED BY <2>1, <2>2 DEF Final
<1>. QED BY <1>2, <1>3

\* Applying the first one changes nothing of where it all ends.
LEMMA FinalApply ==
  ASSUME NEW w, Proper(w), w # <<>>, NEW vel, NEW T, vel = [t \in T |-> vel[t]],
         NEW t \in T, NEW v, Final(w, vel, t, v)
  PROVE  Final(Tail(w), [vel EXCEPT ![Head(w).to] = Head(w).speed], t, v)
<1>. DEFINE x == Tail(w)
            moved == [vel EXCEPT ![Head(w).to] = Head(w).speed]
<1>1. /\ Len(w) \in Nat \ {0} /\ Len(x) = Len(w) - 1 /\ Head(w) = w[1]
      /\ \A i \in 1..Len(x) : x[i] = w[i + 1]
  BY DEF Proper
<1>2. moved[t] = IF t = w[1].to THEN w[1].speed ELSE vel[t]
  BY <1>1
<1>. HIDE DEF x, moved
<1>3. CASE \E i \in 1..Len(w) : /\ w[i].to = t /\ w[i].speed = v
                                /\ \A j \in (i + 1)..Len(w) : w[j].to # t
  <2>1. PICK i \in 1..Len(w) : /\ w[i].to = t /\ w[i].speed = v
                               /\ \A j \in (i + 1)..Len(w) : w[j].to # t
    BY <1>3
  <2>2. ASSUME NEW j \in i..Len(x) PROVE x[j].to # t
    <3>1. j \in 1..Len(x) /\ j + 1 \in (i + 1)..Len(w)
      BY <1>1
    <3>. QED BY <1>1, <2>1, <3>1
  <2>3. CASE i = 1
    BY <1>2, <2>1, <2>2, <2>3 DEF Final, x, moved
  <2>4. CASE i # 1
    <3>1. i - 1 \in 1..Len(x) /\ (i - 1) + 1 = i
      BY <1>1, <2>4
    <3>2. x[i - 1] = w[i]
      BY <1>1, <3>1
    <3>. QED BY <2>1, <2>2, <3>1, <3>2 DEF Final, x
  <2>. QED BY <2>3, <2>4
<1>4. CASE (\A j \in 1..Len(w) : w[j].to # t) /\ vel[t] = v
  <2>1. ASSUME NEW j \in 1..Len(x) PROVE x[j].to # t
    <3>1. j + 1 \in 1..Len(w)
      BY <1>1
    <3>. QED BY <1>1, <1>4, <3>1
  <2>2. moved[t] = v
    BY <1>1, <1>2, <1>4
  <2>. QED BY <2>1, <2>2 DEF Final, x, moved
<1>. QED BY <1>3, <1>4 DEF Final

\* A command for the active target of a kind, or none.
LEMMA OneOrNone ==
  ASSUME NEW w, Proper(w), NEW kind, NEW speed, NEW sent \in BOOLEAN, NEW s,
         s = IF sent THEN <<Command(kind, active, speed)>> ELSE <<>>
  PROVE  /\ Proper(w \o s)
         /\ w \o s = IF sent THEN Append(w, Command(kind, active, speed)) ELSE w
<1>1. Proper(Append(w, Command(kind, active, speed)))
      /\ w \o <<Command(kind, active, speed)>> = Append(w, Command(kind, active, speed))
  BY OneMore
<1>2. w \o <<>> = w
  BY DEF Proper
<1>. QED BY <1>1, <1>2

LEMMA FinalCommand ==
  ASSUME NEW w, Proper(w), NEW vel, NEW t, NEW v, Final(w, vel, t, v),
         NEW kind, NEW speed, NEW sent \in BOOLEAN, NEW s,
         s = IF sent THEN <<Command(kind, active, speed)>> ELSE <<>>
  PROVE  Final(w \o s, vel, t, IF sent /\ t = Target(kind, active) THEN speed ELSE v)
<1>. DEFINE c == Command(kind, active, speed)
<1>1. w \o s = IF sent THEN Append(w, c) ELSE w
  BY OneOrNone
<1>2. Final(Append(w, c), vel, t, IF t = c.to THEN c.speed ELSE v)
  BY FinalAppend
<1>3. c.to = Target(kind, active) /\ c.speed = speed
  BY DEF Command
<1>. HIDE DEF c
<1>. QED BY <1>1, <1>2, <1>3 DEF c

\* What was asked of a target last.
Wanted(t) == IF t = Target(t[1], active) THEN last[t[1]] ELSE 0

ToolTypes ==
  /\ last \in Motions /\ held \in Motions /\ left \in BOOLEAN
  /\ active = [kind \in Kinds |-> active[kind]]
  /\ velocity = [t \in AllTargets |-> velocity[t]] /\ Proper(wire)

\* Every target ends at what was asked of it last; the tool ends by asking rest of all,
\* and waits until that is applied.
ToolRests ==
  /\ ToolTypes
  /\ \A kind \in Kinds : ~Present(kind) => last[kind] = 0
  /\ stream = "open" /\ ~left => \A t \in AllTargets : Final(wire, velocity, t, Wanted(t))
  /\ pc \in {"drop", "close", "closed"} => last = Rest
  /\ pc = "closed" /\ stream = "open" => wire = <<>>

LEMMA TargetFacts ==
  /\ \A t \in AllTargets : t[1] \in Kinds
  /\ \A i, j : \A k, l \in Kinds : Target(k, i) = Target(l, j) => k = l
  /\ \A i : \A k \in Kinds : Target(k, i)[1] = k
BY DEF AllTargets, Target

LEMMA SpeedFacts ==
  /\ 0 \in Speeds /\ Rest \in Motions
  /\ \A motion \in Motions, kind \in Kinds : motion[kind] \in Speeds /\ Rest[kind] = 0
  /\ \A motion \in Motions, kind \in Kinds, speed \in Speeds :
       [motion EXCEPT ![kind] = speed] \in Motions
BY TeleopAssumption DEF Speeds, Motions, Rest

LEMMA RestsInit == TeleopInit => ToolRests
<1>. SUFFICES ASSUME TeleopInit PROVE ToolRests
  OBVIOUS
<1>1. ToolTypes
  <2>1. Proper(<<>>)
    BY DEF Proper, ToSet
  <2>. QED BY <2>1, SpeedFacts DEF TeleopInit, ToolTypes
<1>2. ASSUME NEW t \in AllTargets PROVE Final(wire, velocity, t, Wanted(t))
  <2>1. Wanted(t) = 0
    BY TargetFacts, SpeedFacts DEF TeleopInit, Wanted
  <2>2. Len(wire) = 0 /\ 1..Len(wire) = {} /\ velocity[t] = 0
    BY DEF TeleopInit
  <2>. QED BY <2>1, <2>2 DEF Final
<1>3. pc \notin {"drop", "close", "closed"} /\ \A kind \in Kinds : last[kind] = 0
  BY SpeedFacts DEF TeleopInit
<1>. QED BY <1>1, <1>2, <1>3 DEF ToolRests

\* A command for each kind, zero or what differs from what was asked last.
LEMMA EmitRests ==
  ASSUME ToolRests, NEW motion \in Motions, Emit(motion), UNCHANGED <<active, velocity>>
  PROVE  /\ last' \in Motions /\ Proper(wire)' /\ (motion = Rest => last' = Rest)
         /\ \A kind \in Kinds : ~Present(kind) => last'[kind] = 0
         /\ stream = "open" /\ ~left =>
              \A t \in AllTargets : Final(wire', velocity, t, Wanted(t)')
<1>. DEFINE sent(kind) == Present(kind) /\ motion[kind] # last[kind]
            w1 == wire \o Changes("twist", motion)
            w2 == w1 \o Changes("joint", motion)
<1>1. wire' = w2 /\ last' = [kind \in Kinds |-> IF Present(kind) THEN motion[kind] ELSE 0]
  BY DEF Emit, Known
<1>2. /\ last' \in Motions /\ (motion = Rest => last' = Rest)
      /\ \A kind \in Kinds : ~Present(kind) => last'[kind] = 0
  BY <1>1, SpeedFacts DEF Motions, Rest
<1>3. /\ \A kind \in Kinds :
           Changes(kind, motion) = IF sent(kind) THEN <<Command(kind, active, motion[kind])>>
                                   ELSE <<>>
      /\ \A kind \in Kinds : sent(kind) \in BOOLEAN
      /\ "twist" \in Kinds /\ "joint" \in Kinds /\ Proper(wire)
  BY DEF Changes, ToolRests, ToolTypes, Kinds, Present
<1>. HIDE DEF sent
<1>4. Proper(w1) /\ Proper(w2)
  <2>1. Proper(w1)
    BY <1>3, OneOrNone
  <2>. HIDE DEF w1
  <2>. QED BY <1>3, <2>1, OneOrNone
<1>5. ASSUME NEW t \in AllTargets, NEW v, Final(wire, velocity, t, v)
      PROVE  LET v1 == IF sent("twist") /\ t = Target("twist", active)
                         THEN motion["twist"] ELSE v
             IN  Final(w2, velocity, t, IF sent("joint") /\ t = Target("joint", active)
                                          THEN motion["joint"] ELSE v1)
  <2>. DEFINE v1 == IF sent("twist") /\ t = Target("twist", active) THEN motion["twist"] ELSE v
  <2>1. Final(w1, velocity, t, v1)
    BY <1>3, <1>5, FinalCommand
  <2>. HIDE DEF w1, v1
  <2>2. Final(w2, velocity, t, IF sent("joint") /\ t = Target("joint", active)
                                 THEN motion["joint"] ELSE v1)
    BY <1>3, <1>4, <2>1, FinalCommand
  <2>. QED BY <2>2 DEF v1
<1>6. ASSUME stream = "open", ~left, NEW t \in AllTargets
      PROVE  Final(wire', velocity, t, Wanted(t)')
  <2>1. t[1] \in Kinds /\ Final(wire, velocity, t, Wanted(t))
    BY <1>6, TargetFacts DEF ToolRests
  <2>. DEFINE v1 == IF sent("twist") /\ t = Target("twist", active)
                      THEN motion["twist"] ELSE Wanted(t)
              v2 == IF sent("joint") /\ t = Target("joint", active) THEN motion["joint"] ELSE v1
  <2>2. Final(w2, velocity, t, v2)
    BY <1>5, <2>1
  <2>3. Wanted(t)' = v2
    <3>1. Wanted(t)' = IF t = Target(t[1], active) THEN last'[t[1]] ELSE 0
      BY DEF Wanted, Target
    <3>2. CASE t # Target(t[1], active)
      <4>1. t # Target("twist", active) /\ t # Target("joint", active)
        BY <1>3, <3>2, TargetFacts
      <4>. QED BY <3>1, <3>2, <4>1 DEF Wanted
    <3>3. CASE t = Target(t[1], active)
      <4>1. last'[t[1]] = IF sent(t[1]) THEN motion[t[1]] ELSE last[t[1]]
        BY <1>1, <2>1 DEF sent, ToolRests
      <4>2. CASE t[1] = "twist"
        <5>1. t # Target("joint", active)
          BY <1>3, <3>3, <4>2, TargetFacts
        <5>. QED BY <3>1, <3>3, <4>1, <4>2, <5>1 DEF Wanted
      <4>3. CASE t[1] = "joint"
        <5>1. t # Target("twist", active)
          BY <1>3, <3>3, <4>3, TargetFacts
        <5>. QED BY <3>1, <3>3, <4>1, <4>3, <5>1 DEF Wanted
      <4>. QED BY <2>1, <4>2, <4>3 DEF Kinds
    <3>. QED BY <3>2, <3>3
  <2>. HIDE DEF v2, w2
  <2>. QED BY <1>1, <2>2, <2>3
<1>. HIDE DEF w2
<1>. QED BY <1>1, <1>2, <1>4, <1>6

\* Zero for the active target of a kind: then all targets of that kind end at rest.
LEMMA StopOne ==
  ASSUME ToolRests, NEW kind \in Kinds,
         NEW t \in AllTargets, NEW v,
         Final(wire, velocity, t, v), v = Wanted(t) \/ t[1] # kind
  PROVE  Final(Append(wire, Command(kind, active, 0)), velocity, t,
               IF t[1] = kind THEN 0 ELSE v)
<1>. DEFINE c == Command(kind, active, 0)
<1>1. Final(Append(wire, c), velocity, t, IF t = c.to THEN c.speed ELSE v)
  BY FinalAppend DEF ToolRests, ToolTypes
<1>2. c.to = Target(kind, active) /\ c.speed = 0 /\ c.to[1] = kind
  BY TargetFacts DEF Command
<1>. HIDE DEF c
<1>3. t[1] = kind /\ t # c.to => Wanted(t) = 0
  BY <1>2 DEF Wanted
<1>. QED BY <1>1, <1>2, <1>3 DEF c

\* A switch: what it leaves is sent zero, what it comes to was at rest.
LEMMA SwitchRests ==
  ASSUME ToolRests, NEW kind \in Kinds,
         wire' = Append(wire, Command(kind, active, 0)),
         active' = Following(kind, active), UNCHANGED <<velocity, stream, pc>>,
         held' \in Motions, pc \in {"events", "apply"}, left' \in BOOLEAN,
         last' \in Motions, last'[kind] = 0,
         \A other \in Kinds : ~Present(other) => last'[other] = 0,
         stream = "open" /\ ~left' =>
           ~left /\ \A other \in Kinds : other # kind => last'[other] = last[other]
  PROVE  ToolRests'
<1>1. /\ Proper(wire') /\ active' = [k \in Kinds |-> active'[k]]
      /\ \A other \in Kinds : other # kind => active'[other] = active[other]
  BY OneMore DEF ToolRests, ToolTypes, Following
<1>2. ASSUME stream = "open", ~left', NEW t \in AllTargets
      PROVE  Final(wire', velocity', t, Wanted(t)')
  <2>1. /\ t[1] \in Kinds /\ Final(wire, velocity, t, Wanted(t))
        /\ Wanted(t)' = IF t = Target(t[1], active') THEN last'[t[1]] ELSE 0
    BY <1>2, TargetFacts DEF ToolRests, Wanted, Target
  <2>2. Final(wire', velocity', t, IF t[1] = kind THEN 0 ELSE Wanted(t))
    BY <1>2, <2>1, StopOne
  <2>3. Wanted(t)' = IF t[1] = kind THEN 0 ELSE Wanted(t)
    <3>1. CASE t[1] = kind
      BY <2>1, <3>1
    <3>2. CASE t[1] # kind
      <4>1. last'[t[1]] = last[t[1]] /\ Target(t[1], active') = Target(t[1], active)
        BY <1>1, <1>2, <2>1, <3>2 DEF Target
      <4>. QED BY <2>1, <3>2, <4>1 DEF Wanted
    <3>. QED BY <3>1, <3>2
  <2>. QED BY <2>2, <2>3
<1>. QED BY <1>1, <1>2 DEF ToolRests, ToolTypes, Present

\* The Joy-Con's end: zero for the active target of each kind.
LEMMA StopsRest ==
  ASSUME ToolRests, wire' = wire \o Stops("twist") \o Stops("joint"), last' = Rest,
         UNCHANGED <<active, velocity>>
  PROVE  /\ Proper(wire)'
         /\ stream = "open" /\ ~left =>
              \A t \in AllTargets : Final(wire', velocity, t, Wanted(t)')
<1>. DEFINE w1 == wire \o Stops("twist")
            w2 == w1 \o Stops("joint")
<1>1. /\ \A kind \in Kinds :
           Stops(kind) = IF Present(kind) THEN <<Command(kind, active, 0)>> ELSE <<>>
      /\ \A kind \in Kinds : Present(kind) \in BOOLEAN
      /\ "twist" \in Kinds /\ "joint" \in Kinds /\ Proper(wire)
  BY DEF Stops, ToolRests, ToolTypes, Kinds, Present
<1>2. Proper(w1) /\ Proper(w2)
  <2>1. Proper(w1)
    BY <1>1, OneOrNone
  <2>2. Proper(w2)
    <3>1. Stops("joint") = IF Present("joint") THEN <<Command("joint", active, 0)>> ELSE <<>>
      BY <1>1
    <3>. HIDE DEF w1
    <3>. QED BY <1>1, <2>1, <3>1, OneOrNone
  <2>. QED BY <2>1, <2>2
<1>3. ASSUME stream = "open", ~left, NEW t \in AllTargets
      PROVE  Final(w2, velocity, t, 0) /\ Wanted(t)' = 0
  <2>. DEFINE v1 == IF Present("twist") /\ t = Target("twist", active) THEN 0 ELSE Wanted(t)
              v2 == IF Present("joint") /\ t = Target("joint", active) THEN 0 ELSE v1
  <2>1. Final(w1, velocity, t, v1)
    BY <1>1, <1>3, FinalCommand DEF ToolRests
  <2>2. Final(w2, velocity, t, v2)
    <3>. HIDE DEF w1, v1
    <3>. QED BY <1>1, <1>2, <2>1, FinalCommand
  <2>3. t[1] \in Kinds /\ last'[t[1]] = 0
    BY TargetFacts, SpeedFacts
  <2>4. v2 = 0
    <3>1. Wanted(t) = 0 \/ (t = Target(t[1], active) /\ Present(t[1]))
      BY <2>3 DEF Wanted, ToolRests
    <3>. QED BY <2>3, <3>1 DEF Kinds
  <2>5. Wanted(t)' = 0
    BY <2>3 DEF Wanted
  <2>. HIDE DEF v2, w2
  <2>. QED BY <2>2, <2>4, <2>5
<1>. HIDE DEF w2, w1
<1>4. wire' = w2
  BY DEF w1, w2
<1>. QED BY <1>2, <1>3, <1>4

LEMMA RestsStep == ToolRests /\ [TeleopNext]_teleopVars => ToolRests'
<1>. SUFFICES ASSUME ToolRests, [TeleopNext]_teleopVars PROVE ToolRests'
  OBVIOUS
\* Motions: the commands of one, and what is kept of it.
<1>1. ASSUME NEW motion \in Motions, Emit(motion), held' \in Motions,
             UNCHANGED <<active, velocity, stream, left>>, pc \in {"events", "apply", "finish"},
             pc' \notin {"drop", "close", "closed"} \/ (motion = Rest /\ pc' # "closed")
      PROVE  ToolRests'
  <2>1. /\ last' \in Motions /\ Proper(wire)' /\ (motion = Rest => last' = Rest)
        /\ \A kind \in Kinds : ~Present(kind) => last'[kind] = 0
        /\ stream = "open" /\ ~left =>
             \A t \in AllTargets : Final(wire', velocity, t, Wanted(t)')
    BY <1>1, EmitRests
  <2>2. ToolTypes'
    BY <1>1, <2>1 DEF ToolRests, ToolTypes
  <2>. QED BY <1>1, <2>1, <2>2 DEF ToolRests, Present
\* Steps that leave the commands, the targets and what was asked alone.
<1>2. ASSUME UNCHANGED <<active, last, held, wire, velocity, left>>,
              stream' = stream \/ (stream' # "open" /\ pc # "closed"),
              pc' \in {"drop", "close", "closed"} => pc \in {"drop", "close", "closed"},
              pc' = "closed" => pc = "closed"
       PROVE  ToolRests'
  <2>1. \A t : Wanted(t)' = Wanted(t)
    BY <1>2 DEF Wanted, Target
  <2>2. ToolTypes'
    BY <1>2 DEF ToolRests, ToolTypes
  <2>. QED BY <1>2, <2>1, <2>2 DEF ToolRests
<1>3. CASE KeyMotion
  <2>1. /\ Emit(held') /\ pc = "events" /\ UNCHANGED <<active, velocity, stream, left, pc>>
    BY <1>3 DEF KeyMotion, KeyLoop, server
  <2>2. PICK kind \in Kinds, speed \in Speeds : held' = [held EXCEPT ![kind] = speed]
    BY <1>3 DEF KeyMotion
  <2>3. held' \in Motions
    BY <2>2, SpeedFacts DEF ToolRests, ToolTypes
  <2>. QED BY <1>1, <2>1, <2>3
<1>4. CASE KeyStill \/ \E call \in {"end", "cancel"} : KeyEpisode(call)
  <2>1. /\ held' = Rest /\ Emit(Rest) /\ pc = "events" /\ pc' \in {"events", "end", "cancel"}
        /\ UNCHANGED <<active, velocity, stream, left>>
    BY <1>4 DEF KeyStill, KeyEpisode, KeyLoop, server
  <2>. QED BY <1>1, <2>1, SpeedFacts
<1>5. CASE \E kind \in Kinds : KeySwitch(kind)
  <2>1. PICK kind \in Kinds : KeySwitch(kind)
    BY <1>5
  <2>2. /\ wire' = Append(wire, Command(kind, active, 0)) /\ active' = Following(kind, active)
        /\ held' = Rest /\ last' = Rest /\ pc = "events"
        /\ UNCHANGED <<velocity, stream, pc>>
        /\ left' = (left \/ \E other \in Kinds \ {kind} : last[other] # 0)
    BY <2>1 DEF KeySwitch, KeyLoop, server
  <2>3. left' \in BOOLEAN
    BY <2>2 DEF ToolRests, ToolTypes
  <2>4. held' \in Motions /\ last' \in Motions /\ \A other \in Kinds : last'[other] = 0
    BY <2>2, SpeedFacts
  <2>5. ~left' => ~left /\ \A other \in Kinds : other # kind => last'[other] = last[other]
    BY <2>2, <2>4
  <2>. QED BY <2>2, <2>3, <2>4, <2>5, SwitchRests
<1>6. CASE \E kind \in Kinds : JoySwitch(kind)
  <2>1. PICK kind \in Kinds : JoySwitch(kind)
    BY <1>6
  <2>2. pc = "apply" /\ UNCHANGED <<velocity, stream, pc, held, left>>
    BY <2>1 DEF JoySwitch, server
  <2>3. CASE Cycles(kind)
    <3>1. /\ wire' = Append(wire, Command(kind, active, 0)) /\ active' = Following(kind, active)
          /\ last' = [last EXCEPT ![kind] = 0]
      BY <2>1, <2>3 DEF JoySwitch
    <3>2. /\ last' \in Motions /\ last'[kind] = 0
          /\ \A other \in Kinds : other # kind => last'[other] = last[other]
      BY <3>1, SpeedFacts DEF ToolRests, ToolTypes, Motions
    <3>. QED BY <2>2, <3>1, <3>2, SwitchRests DEF ToolRests, ToolTypes
  <2>4. CASE ~Cycles(kind)
    <3>1. UNCHANGED <<wire, active, last>>
      BY <2>1, <2>4 DEF JoySwitch
    <3>. QED BY <1>2, <2>2, <3>1
  <2>. QED BY <2>3, <2>4
<1>7. CASE JoyMove
  <2>1. PICK motion \in Motions : Emit(IF events = <<>> THEN motion ELSE Rest)
    BY <1>7 DEF JoyMove
  <2>2. /\ pc = "apply" /\ pc' = "events"
        /\ UNCHANGED <<active, velocity, stream, left, held>>
    BY <1>7 DEF JoyMove, server
  <2>3. held' \in Motions /\ (IF events = <<>> THEN motion ELSE Rest) \in Motions
    BY <2>2, SpeedFacts DEF ToolRests, ToolTypes
  <2>. QED BY <1>1, <2>1, <2>2, <2>3
<1>8. CASE Finish
  <2>1. /\ pc = "finish" /\ pc' \in {"drop", "close"} /\ held' = Rest
        /\ UNCHANGED <<active, velocity, stream, left>>
    BY <1>8 DEF Finish, server
  <2>2. CASE device = "keyboard"
    BY <1>1, <1>8, <2>1, <2>2, SpeedFacts DEF Finish
  <2>3. CASE device # "keyboard"
    <3>1. wire' = wire \o Stops("twist") \o Stops("joint") /\ last' = Rest
      BY <1>8, <2>3 DEF Finish
    <3>2. /\ Proper(wire)'
          /\ stream = "open" /\ ~left =>
               \A t \in AllTargets : Final(wire', velocity, t, Wanted(t)')
      BY <2>1, <3>1, StopsRest
    <3>3. ToolTypes'
      BY <2>1, <3>1, <3>2, SpeedFacts DEF ToolRests, ToolTypes
    <3>. QED BY <2>1, <3>1, <3>2, <3>3, SpeedFacts DEF ToolRests
  <2>. QED BY <2>2, <2>3
\* The queue gets shorter, or is given up.
<1>9. CASE Close
  <2>1. /\ pc = "close" /\ pc' = "closed" /\ wire' = <<>>
        /\ UNCHANGED <<active, last, held, velocity, left>>
        /\ stream' = "open" => stream = "open" /\ wire = <<>>
    BY <1>9 DEF Close
  <2>2. Proper(<<>>)
    BY DEF Proper, ToSet
  <2>3. \A t : Wanted(t)' = Wanted(t)
    BY <2>1 DEF Wanted, Target
  <2>. QED BY <2>1, <2>2, <2>3 DEF ToolRests, ToolTypes
<1>10. CASE Apply
  <2>1. /\ stream = "open" /\ wire # <<>> /\ wire' = Tail(wire)
        /\ velocity' = [velocity EXCEPT ![Head(wire).to] = Head(wire).speed]
        /\ UNCHANGED <<active, last, held, stream, left, pc>>
    BY <1>10 DEF Apply
  <2>2. Proper(wire') /\ velocity' = [t \in AllTargets |-> velocity'[t]]
    <3>1. Proper(Tail(wire))
      BY <2>1, TailProper DEF ToolRests, ToolTypes
    <3>. QED BY <2>1, <3>1 DEF ToolRests, ToolTypes
  <2>3. ASSUME ~left, NEW t \in AllTargets PROVE Final(wire', velocity', t, Wanted(t)')
    <3>1. Final(wire, velocity, t, Wanted(t)) /\ Wanted(t)' = Wanted(t)
      BY <2>1, <2>3 DEF ToolRests, Wanted, Target
    <3>. QED BY <2>1, <3>1, FinalApply DEF ToolRests, ToolTypes
  <2>4. ToolTypes'
    BY <2>1, <2>2 DEF ToolRests, ToolTypes
  <2>. QED BY <2>1, <2>3, <2>4 DEF ToolRests
<1>11. CASE JoyRead \/ JoyKeep \/ JoyEvent \/ Quit \/ Fail \/ Drop \/ UNCHANGED teleopVars
  <2>1. CASE JoyRead
    BY <1>2, <2>1 DEF JoyRead, server
  <2>2. CASE JoyKeep
    BY <1>2, <2>2 DEF JoyKeep, server
  <2>3. CASE JoyEvent
    <3>1. pc' \in {"events", "end", "cancel"}
      BY <2>3 DEF JoyEvent
    <3>. QED BY <1>2, <2>3, <3>1 DEF JoyEvent, server
  <2>4. CASE Quit
    BY <1>2, <2>4 DEF Quit, server
  <2>5. CASE Fail
    BY <1>2, <2>5 DEF Fail
  <2>6. CASE Drop
    BY <1>2, <2>6 DEF Drop
  <2>7. CASE UNCHANGED teleopVars
    BY <1>2, <2>7 DEF teleopVars
  <2>. QED BY <1>11, <2>1, <2>2, <2>3, <2>4, <2>5, <2>6, <2>7
<1>12. CASE CallAnswered \/ CallRefused \/ CallLost
  <2>1. pc' \in {"events", "start", "reset", "finish"}
    BY <1>12 DEF CallAnswered, CallRefused, CallLost, AfterCall, Raised
  <2>2. UNCHANGED <<active, last, held, wire, velocity, left, stream>>
    BY <1>12 DEF CallAnswered, CallRefused, CallLost
  <2>. QED BY <1>2, <2>1, <2>2
<1>. QED
  BY <1>3, <1>4, <1>5, <1>6, <1>7, <1>8, <1>9, <1>10, <1>11, <1>12 DEF TeleopNext

\* Once the tool is over and the server has applied everything, all targets are at rest,
\* for any catalogue of targets, speeds, lengths of the queue and of a reading.
THEOREM TeleopRestsAtEnd == TeleopSpec => []RestsAtEnd
<1>1. ToolRests => RestsAtEnd
  <2>. SUFFICES ASSUME ToolRests, pc = "closed", stream = "open", ~left, NEW t \in AllTargets
                PROVE  velocity[t] = 0
    BY DEF RestsAtEnd
  <2>1. wire = <<>> /\ Wanted(t) = 0 /\ Final(wire, velocity, t, Wanted(t))
    BY TargetFacts, SpeedFacts DEF ToolRests, Wanted
  <2>. QED BY <2>1 DEF Final
<1>2. TeleopSpec => []ToolRests
  BY RestsInit, RestsStep, PTL DEF TeleopSpec
<1>. QED BY <1>1, <1>2, PTL
=============================================================================
