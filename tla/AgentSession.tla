---------------------------- MODULE AgentSession ----------------------------
(***************************************************************************)
(* What the agent promises of a conversation session, without tools that   *)
(* are being called, connections, rounds and retries: a request is about   *)
(* the history it found; what it adds to it are whole exchanges, the calls *)
(* an answer asks for together with what they gave, and a last answer,     *)
(* which may ask in vain; and the history takes all of that, up to its     *)
(* length, when the request succeeds, or nothing.                          *)
(***************************************************************************)
EXTENDS Naturals, Sequences

CONSTANTS Requests,
          MaxHistory,  \* messages kept
          MaxCalls     \* calls one answer asks for, at most

VARIABLES history,     \* what is kept
          talk         \* talk[r]: [pc, said]

sessionVars == <<history, talk>>

Message(r, kind, n) == [run |-> r, kind |-> kind, n |-> n]

\* An answer that asks for n calls, and what they gave, in their order.
Exchange(r, n) ==
  [k \in 1..(n + 1) |-> IF k = 1 THEN Message(r, "ask", n) ELSE Message(r, "result", k - 1)]

Latest(s) == SubSeq(s, IF Len(s) > MaxHistory THEN Len(s) - MaxHistory + 1 ELSE 1, Len(s))

SessionInit ==
  /\ history = <<>>
  /\ talk = [r \in Requests |-> [pc |-> "new", said |-> <<>>]]

Moves(r, from, to, said) ==
  /\ talk[r].pc = from
  /\ talk' = [talk EXCEPT ![r] = [pc |-> to, said |-> said]]

Begin(r) ==
  /\ Moves(r, "new", "open", Append(history, Message(r, "user", 0)))
  /\ UNCHANGED history

\* The calls of an answer and all they gave, at once.
Exchanges(r) ==
  /\ \E n \in 1..MaxCalls : Moves(r, "open", "open", talk[r].said \o Exchange(r, n))
  /\ UNCHANGED history

\* The last answer, which may be missing, or ask for calls that nobody makes ("cut").
Concludes(r) ==
  /\ \/ Moves(r, "open", "save", talk[r].said)
     \/ \E kind \in {"reply", "cut"} :
          Moves(r, "open", "save", Append(talk[r].said, Message(r, kind, 0)))
  /\ UNCHANGED history

Commits(r) ==
  /\ Moves(r, "save", "done", <<>>)
  /\ history' = Latest(talk[r].said)

\* Whatever it was about, nothing of it is kept.
Fails(r) ==
  /\ \E pc \in {"open", "save"} : Moves(r, pc, "failed", <<>>)
  /\ UNCHANGED history

Forget == history' = <<>> /\ UNCHANGED talk

SessionNext ==
  \/ \E r \in Requests : Begin(r) \/ Exchanges(r) \/ Concludes(r) \/ Commits(r) \/ Fails(r)
  \/ Forget

SessionSpec == SessionInit /\ [][SessionNext]_sessionVars
=============================================================================
