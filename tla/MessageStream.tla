---------------------------- MODULE MessageStream ----------------------------
(***************************************************************************)
(* What a framed stream promises its consumers (spec 4.1, wire codec): each*)
(* consumer receives the envelopes in the order they were sent, none twice *)
(* and none made up, until the stream is closed by an error; a stream is   *)
(* closed only while an envelope is still undelivered (the one it could    *)
(* not decode), and an open stream with undelivered envelopes eventually   *)
(* delivers or closes.  A consumer may take several envelopes at once.     *)
(*                                                                         *)
(* FrameCodec implements this specification (FrameCodec!Refinement).      *)
(***************************************************************************)
EXTENDS Integers, Sequences

CONSTANTS
    Msg,          \* envelopes
    Consumers,    \* consumers of the stream
    MaxSent       \* bound on envelopes sent

VARIABLES
    sent,         \* envelopes sent, in order
    received,     \* received[c]: envelopes consumer c has taken, in order
    failed        \* failed[c]: "closed" once c's stream is closed, else "none"

vars == <<sent, received, failed>>

Pending(c) == Len(sent) - Len(received[c])

Init ==
    /\ sent = <<>>
    /\ received = [c \in Consumers |-> <<>>]
    /\ failed = [c \in Consumers |-> "none"]

Send(m) ==
    /\ Len(sent) < MaxSent
    /\ sent' = Append(sent, m)
    /\ UNCHANGED <<received, failed>>

\* Consumer c takes the next n envelopes.
Deliver(c) ==
    /\ failed[c] = "none"
    /\ \E n \in 1..Pending(c) :
          received' = [received EXCEPT ![c] = SubSeq(sent, 1, Len(@) + n)]
    /\ UNCHANGED <<sent, failed>>

\* c's stream is closed while an envelope is undelivered.
Close(c) ==
    /\ failed[c] = "none"
    /\ Pending(c) > 0
    /\ failed' = [failed EXCEPT ![c] = "closed"]
    /\ UNCHANGED <<sent, received>>

Next ==
    \/ \E m \in Msg : Send(m)
    \/ \E c \in Consumers : Deliver(c) \/ Close(c)

Spec == Init /\ [][Next]_vars /\ \A c \in Consumers : WF_vars(Deliver(c) \/ Close(c))

====
