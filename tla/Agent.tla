-------------------------------- MODULE Agent --------------------------------
(***************************************************************************)
(* The agent (agent/src): requests of one conversation session that run at *)
(* the same time (Agent.run and run_stream), the session's history in      *)
(* memory, and the tools, local ones and those of one MCP server behind a  *)
(* connection that all calls share.                                        *)
(*                                                                         *)
(* Everything runs on one event loop: a step is what a task does between   *)
(* two awaits that matter to the others. The memory's lock is held over a  *)
(* whole load or save, each of which is thus one step. What the language   *)
(* model answers and what a tool does are outside this repository: any     *)
(* answer, and any outcome of a call, an error and a timeout included.     *)
(***************************************************************************)
EXTENDS Integers, Sequences, FiniteSets, SequencesExt

CONSTANTS Runs,           \* requests of the session
          MaxIterations,  \* AgentConfig.max_iterations
          MaxHistory,     \* MemoryConfig.max_history
          MaxRetries,     \* MCPConnection._max_retries
          MaxCalls,       \* bound: tool calls in one answer of the model
          None            \* nobody holds the connection's lock

ASSUME LimitsAssumption ==
  {MaxIterations, MaxHistory, MaxRetries, MaxCalls} \subseteq Nat \ {0}

Callers == Runs \X (1..MaxCalls)  \* the k-th tool call of a run's last answer
ASSUME NobodyAssumption == None \notin Callers

VARIABLES
  store,    \* the session's messages in the database
  run,      \* run[r]: [pc, context, iter]; the context without the system message
  caller,   \* caller[r, k]: [pc, attempt, result]
  session,  \* MCPConnection.session: "none", "half" connected or "up"
  listed,   \* MCPConnection._tools holds the server's tools
  holder    \* who is inside MCPConnection._lock

vars == <<store, run, caller, session, listed, holder>>
connection == <<session, listed, holder>>

\* An "ask" is an answer with n tool calls that are executed; a "cut" has some
\* that are not, its finish reason being another than "tool_calls": it is taken
\* for the final answer, and kept, with calls that nobody answers.
Message == [run : Runs, kind : {"user", "reply", "cut", "ask", "result"}, n : 0..MaxCalls]
Say(r, kind, n) == [run |-> r, kind |-> kind, n |-> n]
NoCall == [pc |-> "idle", attempt |-> 0, result |-> "none"]

Working == {"lock", "connect", "execute", "sleep"}

TypeOK ==
  /\ store \in Seq(Message) /\ Len(store) <= MaxHistory
  /\ run \in [Runs -> [pc : {"new", "think", "tools", "save", "done", "failed"},
                       context : Seq(Message), iter : 0..MaxIterations]]
  /\ caller \in [Callers -> [pc : {"idle", "route", "over"} \cup Working,
                             attempt : 0..(MaxRetries - 1), result : {"none", "ok", "error"}]]
  /\ session \in {"none", "half", "up"} /\ listed \in BOOLEAN
  /\ holder \in Callers \cup {None}

\* MCPManager.start: a server that could not be reached is never asked again.
Init ==
  /\ store = <<>>
  /\ run = [r \in Runs |-> [pc |-> "new", context |-> <<>>, iter |-> 0]]
  /\ caller = [c \in Callers |-> NoCall]
  /\ listed \in BOOLEAN /\ session = IF listed THEN "up" ELSE "none"
  /\ holder = None

-----------------------------------------------------------------------------
(* Agent.run and run_stream.                                               *)

Becomes(r, pc) == run' = [run EXCEPT ![r].pc = pc]
Ends(r, pc) == run' = [run EXCEPT ![r] = [pc |-> pc, context |-> <<>>, iter |-> 0]]
Thinks(r) == run[r].pc = "think" /\ run[r].iter < MaxIterations
Answers(r, pc, message) ==
  run' = [run EXCEPT ![r] = [pc |-> pc, context |-> Append(@.context, message),
                             iter |-> @.iter + 1]]

Load(r) ==
  /\ run[r].pc = "new"
  /\ run' = [run EXCEPT ![r] = [@ EXCEPT !.pc = "think",
                                          !.context = Append(store, Say(r, "user", 0))]]
  /\ UNCHANGED <<store, caller, connection>>

\* The model asks for tools: all the calls are begun at once.
Ask(r) ==
  /\ Thinks(r)
  /\ \E n \in 1..MaxCalls :
       /\ Answers(r, "tools", Say(r, "ask", n))
       /\ caller' = [c \in Callers |->
            IF c[1] = r /\ c[2] <= n THEN [NoCall EXCEPT !.pc = "route"] ELSE caller[c]]
  /\ UNCHANGED <<store, connection>>

\* The final answer, or one with tool calls and another finish reason.
Answer(r) ==
  /\ Thinks(r)
  /\ \E kind \in {"reply", "cut"} : Answers(r, "save", Say(r, kind, 0))
  /\ UNCHANGED <<store, caller, connection>>

\* A stream that ends without a finish reason: no answer, and the context is saved.
StreamEnds(r) ==
  /\ Thinks(r)
  /\ Becomes(r, "save")
  /\ UNCHANGED <<store, caller, connection>>

\* Memory.save trims to the last MaxHistory messages.
Trimmed(s) == SubSeq(s, IF Len(s) > MaxHistory THEN Len(s) - MaxHistory + 1 ELSE 1, Len(s))

MutantRaise(r) ==  \* mutant: saves what there is on the way out
  /\ run[r].pc = "think"
  /\ Ends(r, "failed")
  /\ store' = Trimmed(run[r].context)
  /\ UNCHANGED <<caller, connection>>

\* The model's service raises, or the iterations are used up: nothing is saved.
Raise(r) ==
  /\ run[r].pc = "think"
  /\ Ends(r, "failed")
  /\ UNCHANGED <<store, caller, connection>>

Calls(r) == {c \in Callers : c[1] = r /\ caller[c].pc # "idle"}

MutantCollect(r) ==  \* mutant: leaves out the calls that failed
  /\ run[r].pc = "tools"
  /\ \A c \in Calls(r) : caller[c].pc = "over"
  /\ LET answered == {c \in Calls(r) : caller[c].result = "ok"}
         results == [k \in 1..Cardinality(answered) |-> Say(r, "result", k)]
     IN run' = [run EXCEPT ![r].pc = "think", ![r].context = @ \o results]
  /\ caller' = [c \in Callers |-> IF c[1] = r THEN NoCall ELSE caller[c]]
  /\ UNCHANGED <<store, connection>>

\* call_all gathers the results in the order of the calls.
Collect(r) ==
  /\ run[r].pc = "tools"
  /\ \A c \in Calls(r) : caller[c].pc = "over"
  /\ LET results == [k \in 1..Cardinality(Calls(r)) |-> Say(r, "result", k)]
     IN run' = [run EXCEPT ![r].pc = "think", ![r].context = @ \o results]
  /\ caller' = [c \in Callers |-> IF c[1] = r THEN NoCall ELSE caller[c]]
  /\ UNCHANGED <<store, connection>>

Save(r) ==
  /\ run[r].pc = "save"
  /\ store' = Trimmed(run[r].context)
  /\ Ends(r, "done")
  /\ UNCHANGED <<caller, connection>>

\* The client of a stream goes away: its tasks are cancelled wherever they wait,
\* which gives the connection's lock back. Connecting may have got half way.
Cancel(r) ==
  /\ run[r].pc \in {"think", "tools", "save"}
  /\ Ends(r, "failed")
  /\ caller' = [c \in Callers |-> IF c[1] = r THEN NoCall ELSE caller[c]]
  /\ holder' = IF \E c \in Calls(r) : c = holder THEN None ELSE holder
  /\ \/ UNCHANGED session
     \/ session' = "half" /\ \E c \in Calls(r) : caller[c].pc = "connect"
  /\ UNCHANGED <<store, listed>>

\* DELETE /v1/sessions/{id}, and /clear of the command line.
Clear ==
  /\ store # <<>> /\ store' = <<>>
  /\ UNCHANGED <<run, caller, connection>>

-----------------------------------------------------------------------------
(* A tool call.                                                            *)

Step(c, pc) == caller' = [caller EXCEPT ![c].pc = pc]
Returns(c, result) ==
  caller' = [caller EXCEPT ![c] = [pc |-> "over", attempt |-> 0, result |-> result]]

\* ToolRegistry.call: only a tool the server lists is the server's. Any other is a
\* local one, or unknown; arguments that do not parse are answered at once.
Route(c) ==
  /\ caller[c].pc = "route"
  /\ \/ listed /\ Step(c, "lock")
     \/ Returns(c, "ok") \/ Returns(c, "error")
  /\ UNCHANGED <<store, run, connection>>

\* MCPConnection.call_tool, an attempt up to its first await: with no session the
\* first attempt reconnects.
Enter(c) ==
  /\ caller[c].pc = "lock" /\ holder = None
  /\ holder' = c
  /\ \/ session # "none" /\ Step(c, "execute")
     \/ session = "none" /\ caller[c].attempt = 0 /\ Step(c, "connect")
  /\ UNCHANGED <<store, run, session, listed>>

\* Any later one returns an error, without giving the lock away in between.
GiveUp(c) ==
  /\ caller[c].pc = "lock" /\ holder = None
  /\ session = "none" /\ caller[c].attempt > 0
  /\ Returns(c, "error")
  /\ UNCHANGED <<store, run, connection>>

\* _reconnect succeeds.
Reconnect(c) ==
  /\ caller[c].pc = "connect"
  /\ session' = "up" /\ listed' = TRUE
  /\ Step(c, "execute")
  /\ UNCHANGED <<store, run, holder>>

MutantReconnectFails(c) ==  \* mutant: returns without giving the lock back
  /\ caller[c].pc = "connect"
  /\ session' \in {"none", "half"} /\ listed' = FALSE
  /\ Returns(c, "error")
  /\ UNCHANGED <<store, run, holder>>

\* It raises, before or after connect has assigned the session.
ReconnectFails(c) ==
  /\ caller[c].pc = "connect"
  /\ session' \in {"none", "half"} /\ listed' = FALSE
  /\ Returns(c, "error") /\ holder' = None
  /\ UNCHANGED <<store, run>>

\* _execute: the server answers, be it with an error.
Executed(c) ==
  /\ caller[c].pc = "execute"
  /\ Returns(c, "ok") /\ holder' = None
  /\ UNCHANGED <<store, run, session, listed>>

MutantExecuteRaises(c) ==  \* mutant: the tool list outlives the session
  /\ caller[c].pc = "execute"
  /\ session' = "none" /\ UNCHANGED listed
  /\ IF caller[c].attempt < MaxRetries - 1
     THEN Step(c, "sleep") /\ UNCHANGED holder
     ELSE Returns(c, "error") /\ holder' = None
  /\ UNCHANGED <<store, run>>

\* It raises or times out: _safe_close; the back-off keeps the lock.
ExecuteRaises(c) ==
  /\ caller[c].pc = "execute"
  /\ session' = "none" /\ listed' = FALSE
  /\ IF caller[c].attempt < MaxRetries - 1
     THEN Step(c, "sleep") /\ UNCHANGED holder
     ELSE Returns(c, "error") /\ holder' = None
  /\ UNCHANGED <<store, run>>

\* The back-off is over; the lock goes to whoever waits for it.
Retry(c) ==
  /\ caller[c].pc = "sleep"
  /\ caller' = [caller EXCEPT ![c].pc = "lock", ![c].attempt = @ + 1]
  /\ holder' = None
  /\ UNCHANGED <<store, run, session, listed>>

-----------------------------------------------------------------------------
RunGoesOn(r) == Ask(r) \/ Answer(r) \/ StreamEnds(r) \/ Raise(r) \/ Collect(r) \/ Save(r)
CallGoesOn(c) == Route(c) \/ Executed(c) \/ ExecuteRaises(c) \/ Retry(c)

Next ==
  \/ \E r \in Runs : Load(r) \/ RunGoesOn(r) \/ Cancel(r)
  \/ \E c \in Callers : \/ Enter(c) \/ GiveUp(c) \/ CallGoesOn(c)
                         \/ Reconnect(c) \/ ReconnectFails(c)
  \/ Clear

Spec == Init /\ [][Next]_vars

\* The model answers or its client times out, a local tool returns, the server answers
\* or the call times out, and the connection's lock, an asyncio.Lock, is handed out in
\* the order it was asked for. Nothing bounds the time that connecting takes.
FairSpec ==
  /\ Spec
  /\ \A r \in Runs : WF_vars(RunGoesOn(r))
  /\ \A c \in Callers : WF_vars(CallGoesOn(c)) /\ SF_vars(Enter(c) \/ GiveUp(c))

-----------------------------------------------------------------------------
(* Properties.                                                             *)

\* The results of the calls that are executed, right after them, one for each and
\* in their order.
Answered(s) == \A i \in 1..Len(s) : s[i].kind = "ask" =>
  \A k \in 1..s[i].n : i + k <= Len(s) /\ s[i + k] = Say(s[i].run, "result", k)

\* Calls that are not executed conclude their request: nothing but the next one follows.
CutsConclude(s) == \A i \in 1..(Len(s) - 1) : s[i].kind = "cut" => s[i + 1].kind = "user"

\* What the model is sent, and what is stored, has the results of the tool calls that
\* were executed right after the answer that asked for them, whatever became of the
\* calls and in whatever order they ended (agent.py:103-113, registry.py:140-142). The
\* model's service refuses anything else. The one exception the code makes, an answer
\* with calls and another finish reason, is the last message of its request.
CallsAnswered ==
  /\ Answered(store) /\ CutsConclude(store)
  /\ \A r \in Runs : run[r].pc \in {"think", "save"} =>
       Answered(run[r].context) /\ CutsConclude(run[r].context)

\* Memory holds nothing of a request that was never finished: one that failed
\* leaves the history as it was, also through what others loaded and saved.
NothingUnfinished == \A i \in 1..Len(store) : run[store[i].run].pc = "done"

\* The session as its users see it: tool calls that are under way are not part of it yet.
Seen(x) == [pc |-> IF x.pc \in {"think", "tools"} THEN "open" ELSE x.pc,
            said |-> IF x.pc = "tools" THEN Front(x.context) ELSE x.context]
Talk == [r \in Runs |-> Seen(run[r])]

Session == INSTANCE AgentSession WITH Requests <- Runs, history <- store, talk <- Talk

\* Whatever requests and tool calls interleave, fail, are retried and are cancelled, each
\* request adds whole exchanges to the history it found, and memory takes all of them or
\* none. What requests of the same time saved meanwhile is replaced.
KeepsSession == Session!SessionSpec

\* A tool call works on the session it found: no other call closes it meanwhile.
SessionStays == \A c \in Callers : caller[c].pc = "execute" => session # "none"

\* What the model is offered, and calls are routed by, is what the session that is held
\* listed: a connection that is closed, or half open, offers nothing.
ListedIsServed == listed => session = "up"

\* Every request ends, if every attempt to reconnect does: the lock is given back on
\* every path of a call, and retries and rounds are limited.
RunsEnd ==
  ([]<>(\A c \in Callers : caller[c].pc # "connect"))
    => \A r \in Runs : run[r].pc = "think" ~> run[r].pc \in {"done", "failed"}

\* "Mark session as dead; reconnect on next attempt": a call that failed for want of
\* a working session, and tries again, connects before it does.
RetryReconnects ==
  [][\A c \in Callers :
       caller[c].pc = "lock" /\ caller[c].attempt > 0 /\ session = "none"
         => caller'[c].pc \in {"lock", "connect", "idle"}]_vars
=============================================================================
