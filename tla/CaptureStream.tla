--------------------------- MODULE CaptureStream ---------------------------
(***************************************************************************)
(* What the backend promises to a consumer of sim capture, without         *)
(* threads, buffers or simulated time: a capture is a stream of samples    *)
(* numbered 0, 1, 2, ...; at most one stream is open; samples are          *)
(* published only on the open stream, handed over in the order they were   *)
(* published with none left out, and at most Capacity of them are          *)
(* published and not yet handed back.  A closed stream is never reopened.  *)
(***************************************************************************)
EXTENDS Naturals, Sequences

CONSTANTS Captures,   \* identities of the captures
          Capacity    \* samples published and not handed back, at most

VARIABLES phase,      \* phase[c]   : "new", "open" or "closed"
          sent,       \* sent[c]    : number of samples published on c
          chan,       \* chan[c]    : numbers of the samples not handed over
          reading     \* reading[c] : samples handed over and not given back

vars == <<phase, sent, chan, reading>>

Init ==
  /\ phase = [c \in Captures |-> "new"]
  /\ sent = [c \in Captures |-> 0]
  /\ chan = [c \in Captures |-> <<>>]
  /\ reading = [c \in Captures |-> 0]

Open(c) ==
  /\ \A d \in Captures : phase[d] # "open"
  /\ phase[c] = "new"
  /\ phase' = [phase EXCEPT ![c] = "open"]
  /\ UNCHANGED <<sent, chan, reading>>

Publish(c) ==
  /\ phase[c] = "open"
  /\ Len(chan[c]) + reading[c] < Capacity
  /\ chan' = [chan EXCEPT ![c] = Append(@, sent[c])]
  /\ sent' = [sent EXCEPT ![c] = @ + 1]
  /\ UNCHANGED <<phase, reading>>

HandOver(c) ==
  /\ chan[c] # <<>>
  /\ chan' = [chan EXCEPT ![c] = Tail(@)]
  /\ reading' = [reading EXCEPT ![c] = @ + 1]
  /\ UNCHANGED <<phase, sent>>

GiveBack(c) ==
  /\ reading[c] > 0
  /\ reading' = [reading EXCEPT ![c] = @ - 1]
  /\ UNCHANGED <<phase, sent, chan>>

Close(c) ==
  /\ phase[c] = "open"
  /\ phase' = [phase EXCEPT ![c] = "closed"]
  /\ UNCHANGED <<sent, chan, reading>>

Next == \E c \in Captures :
  Open(c) \/ Publish(c) \/ HandOver(c) \/ GiveBack(c) \/ Close(c)

Spec == Init /\ [][Next]_vars
=============================================================================
