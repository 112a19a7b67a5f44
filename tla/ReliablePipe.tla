---------------------------- MODULE ReliablePipe ----------------------------
(***************************************************************************)
(* What BcastBus::send and BcastBus::recv promise the two applications of  *)
(* a pipe, with nothing said of datagrams: the messages handed out are a   *)
(* prefix of the messages sent, until an end of the pipe throws            *)
(* ChannelPoisonedError, after which that end does nothing more.           *)
(***************************************************************************)
EXTENDS Naturals

CONSTANTS
  NumStreams,  \* number of messages the sender will send
  Message,     \* Message[m]: the m-th message
  Blank        \* the empty messages: recv(0) does not wait for them

VARIABLES
  sent,    \* messages given to send()
  out,     \* messages handed out by recv(), as a function on 0 .. n - 1
  sendUp,  \* send() has not thrown
  recvUp   \* recv() has not thrown

vars == <<sent, out, sendUp, recvUp>>

Init == sent = 0 /\ out = [m \in {} |-> 0] /\ sendUp = TRUE /\ recvUp = TRUE

Send ==
  /\ sendUp
  /\ sent < NumStreams
  /\ sent' = sent + 1
  /\ UNCHANGED <<out, sendUp, recvUp>>

\* Hand out the next message, once it was sent (an empty one even before).
Recv ==
  /\ recvUp
  /\ \E m \in 0 .. (NumStreams - 1) :
       /\ DOMAIN out = 0 .. (m - 1)
       /\ m < sent \/ m \in Blank
       /\ out' = [k \in 0 .. m |-> IF k = m THEN Message[m] ELSE out[k]]
  /\ UNCHANGED <<sent, sendUp, recvUp>>

SendBreak == sendUp /\ sendUp' = FALSE /\ UNCHANGED <<sent, out, recvUp>>
RecvBreak == recvUp /\ recvUp' = FALSE /\ UNCHANGED <<sent, out, sendUp>>

Next == Send \/ Recv \/ SendBreak \/ RecvBreak

Spec == Init /\ [][Next]_vars
=============================================================================
