------------------------------- MODULE BusPipe -------------------------------
(***************************************************************************)
(* One (sender -> receiver) pipe of io::BcastBus (src/code/src/io).        *)
(*                                                                         *)
(* Four threads share the pipe: at the sender the application thread in    *)
(* send() and the pump in handle_nack_(); at the receiver the application  *)
(* thread in recv() and the pump in handle_data_(), handle_poison_() and,  *)
(* when recvfrom times out, drain_nack_state_().  Between them is a UDP    *)
(* broadcast wire that may lose, duplicate, delay and reorder datagrams.   *)
(*                                                                         *)
(* An action is one critical section (one hold of TxState::mu or           *)
(* RxState::mu) with what the thread does before it next touches shared    *)
(* state.  A datagram that a pump sends after releasing the lock is put on *)
(* the wire in the same action: the wire may hold it for as long as it     *)
(* likes, so this loses no behaviour.                                      *)
(*                                                                         *)
(* An operator named Bad... is a faulty variant of the definition after    *)
(* it: a run is shown to notice the fault when it takes that one's place.  *)
(***************************************************************************)
EXTENDS Integers, Sequences, FiniteSets

CONSTANTS
  NumStreams,  \* number of send() calls the sending application makes
  Units,       \* Units[s]: payload of the s-th send, in MAX_PAYLOAD chunks
  IdxSpan,     \* 2^16: the range of the uint16 idx and frag_total fields
  TxBufCap,    \* TX_BUF_CAP_STREAMS
  KSend,       \* retx_k_send_
  KRecv,       \* retx_k_recv_
  Faults,      \* what may go wrong: a subset of FaultKinds
  MaxFaults    \* bound on their number in one behaviour

\* Losses and failures, which MaxFaults bounds, and a sender that exits.
FaultKinds == {"lose", "dup", "again", "die", "leave"}

Streams == 0 .. (NumStreams - 1)

ASSUME PipeAssumption ==
  /\ NumStreams \in Nat \ {0}
  /\ Units \in [Streams -> Nat]
  /\ IdxSpan \in Nat \ {0}
  /\ TxBufCap \in Nat \ {0}
  /\ KSend \in Nat
  /\ KRecv \in Nat
  /\ Faults \subseteq FaultKinds
  /\ MaxFaults \in Nat

VARIABLES
  \* ---- sender, application thread: send() ----
  spc,         \* where send() is: see SenderPc
  frag,        \* the loop counter i of send()
  \* ---- sender, TxState ----
  localSeq,    \* local_seq
  txBuf,       \* tx_buf: <<seq, idx>> -> [total, bytes, nacks]
  txOrder,     \* tx_buf_order
  inFlight,    \* streams_in_flight
  txPoisoned,  \* TxState::poisoned
  \* ---- the wire ----
  dataWire,    \* DATA datagrams in flight, kernel receive buffer included
  nackWire,    \* NACK datagrams in flight: <<missing_seq, missing_idx>>
  poisonWire,  \* is a POISON datagram in flight?
  faults,      \* number of faults so far
  \* ---- receiver, RxState ----
  nextRx,      \* next_rx_seq
  maxSeen,     \* max_seen_seq
  anySeen,     \* any_seen
  pending,     \* pending: seq -> Partial
  chunks,      \* chunks[n]: what was queued on rx when next_rx_seq left n
  nackState,   \* nack_state: <<seq, idx>> -> attempts
  rxPoisoned,  \* RxState::poisoned
  \* ---- receiver, application thread: recv() ----
  rpc,         \* "run" or "threw"
  taken,       \* messages handed to the application
  \* ---- history ----
  arrived      \* <<seq, idx>> of every DATA datagram handle_data_ has seen

senderVars == <<spc, frag, localSeq, txBuf, txOrder, inFlight, txPoisoned>>
wireVars   == <<dataWire, nackWire, poisonWire, faults>>
rxVars     == <<nextRx, maxSeen, anySeen, pending, chunks, nackState, arrived>>
appVars    == <<rpc, taken>>
vars       == <<senderVars, wireVars, rxVars, rxPoisoned, appVars>>

SenderPc == {"idle", "insert", "sendto", "finish", "threw", "dead", "left"}

-----------------------------------------------------------------------------
(* The data.  A payload chunk is the set of application units it carries:  *)
(* {} is an empty vector, {<<s, i>>} the i-th chunk of the s-th message.   *)

\* Number of fragments of stream s: a zero-length message still has one.
Total(s) == IF Units[s] = 0 THEN 1 ELSE Units[s]

Bytes(s, i) == IF Units[s] = 0 THEN {} ELSE {<<s, i>>}

\* What the receiving application must get for the s-th message.
Payload(s) == [i \in 0 .. (Total(s) - 1) |-> Bytes(s, i)]

\* The uint16 casts of the header fields.
Idx16(i)   == i % IdxSpan
Total16(s) == Total(s) % IdxSpan

\* Every message is short enough for the 16-bit fragment fields.
FragsFit == \A s \in Streams : Total(s) < IdxSpan

Datagram(s, i, total, bytes) ==
  [seq |-> s, idx |-> i, total |-> total, bytes |-> bytes]

Fault(kind) ==
  /\ kind \in Faults
  /\ faults < MaxFaults
  /\ faults' = faults + 1

-----------------------------------------------------------------------------
(* Sender, application thread.                                             *)

Cur == localSeq - 1        \* the stream the running send() emits

\* Entry of send(): take a sequence number and mark it in flight.
SendBegin ==
  /\ spc = "idle"
  /\ localSeq < NumStreams
  /\ ~txPoisoned
  /\ localSeq' = localSeq + 1
  /\ inFlight' = inFlight \cup {localSeq}
  /\ spc' = "insert"
  /\ frag' = 0
  /\ UNCHANGED <<txBuf, txOrder, txPoisoned, wireVars, rxVars, rxPoisoned, appVars>>

\* throw_if_send_poisoned_ at the entry of send().
SendThrow ==
  /\ spc = "idle"
  /\ localSeq < NumStreams
  /\ txPoisoned
  /\ spc' = "threw"
  /\ UNCHANGED <<frag, localSeq, txBuf, txOrder, inFlight, txPoisoned,
                 wireVars, rxVars, rxPoisoned, appVars>>

\* The FIFO of buffered streams, and how many must leave it.
OrderWith(s, i) == IF i = 0 THEN Append(txOrder, s) ELSE txOrder
BadOverflow(order) == IF Len(order) >= TxBufCap THEN Len(order) - TxBufCap + 1 ELSE 0
Overflow(order) == IF Len(order) > TxBufCap THEN Len(order) - TxBufCap ELSE 0
Evicted(order)  == {order[j] : j \in 1 .. Overflow(order)}

\* Buffer the fragment, evicting the oldest streams, before it is sent.
SendInsert ==
  /\ spc = "insert"
  /\ LET key   == <<Cur, Idx16(frag)>>
         rec   == [total |-> Total16(Cur), bytes |-> Bytes(Cur, frag), nacks |-> 0]
         order == OrderWith(Cur, frag)
         kept  == {k \in DOMAIN txBuf \cup {key} : k[1] \notin Evicted(order)}
     IN  /\ txBuf' = [k \in kept |-> IF k = key THEN rec ELSE txBuf[k]]
         /\ txOrder' = SubSeq(order, Overflow(order) + 1, Len(order))
  /\ spc' = "sendto"
  /\ UNCHANGED <<frag, localSeq, inFlight, txPoisoned,
                 wireVars, rxVars, rxPoisoned, appVars>>

\* sendto() of the fragment, then on to the next one.
SendTo ==
  /\ spc = "sendto"
  /\ dataWire' = dataWire \cup
       {Datagram(Cur, Idx16(frag), Total16(Cur), Bytes(Cur, frag))}
  /\ frag' = frag + 1
  /\ spc' = IF frag + 1 < Total(Cur) THEN "insert" ELSE "finish"
  /\ UNCHANGED <<localSeq, txBuf, txOrder, inFlight, txPoisoned,
                 nackWire, poisonWire, faults, rxVars, rxPoisoned, appVars>>

BadSendAgain ==
  /\ spc = "sendto"
  /\ Fault("again")
  /\ spc' = "insert"
  /\ frag' = frag + 1
  /\ UNCHANGED <<localSeq, txBuf, txOrder, inFlight, txPoisoned,
                 dataWire, nackWire, poisonWire, rxVars, rxPoisoned, appVars>>

\* sendto() said EAGAIN: the whole loop body runs again for the same i.
SendAgain ==
  /\ spc = "sendto"
  /\ Fault("again")
  /\ spc' = "insert"
  /\ UNCHANGED <<frag, localSeq, txBuf, txOrder, inFlight, txPoisoned,
                 dataWire, nackWire, poisonWire, rxVars, rxPoisoned, appVars>>

\* sendto() failed for good: die() throws with the stream still in flight.
SendDie ==
  /\ spc = "sendto"
  /\ Fault("die")
  /\ spc' = "dead"
  /\ UNCHANGED <<frag, localSeq, txBuf, txOrder, inFlight, txPoisoned,
                 dataWire, nackWire, poisonWire, rxVars, rxPoisoned, appVars>>

\* The last critical section of send().
SendFinish ==
  /\ spc = "finish"
  /\ inFlight' = inFlight \ {Cur}
  /\ spc' = "idle"
  /\ UNCHANGED <<frag, localSeq, txBuf, txOrder, txPoisoned,
                 wireVars, rxVars, rxPoisoned, appVars>>

\* ~BcastBus: the process has sent what it had to send, or unwinds from an
\* error, and stops its pump; nobody answers a NACK any more.
Leave ==
  /\ "leave" \in Faults
  /\ \/ spc = "idle" /\ localSeq = NumStreams
     \/ spc \in {"threw", "dead"}
  /\ spc' = "left"
  /\ UNCHANGED <<frag, localSeq, txBuf, txOrder, inFlight, txPoisoned,
                 wireVars, rxVars, rxPoisoned, appVars>>

-----------------------------------------------------------------------------
(* Sender, pump thread: handle_nack_.                                      *)

\* A NACK leaves the wire, or is duplicated by it.
TakeNack(n) ==
  /\ n \in nackWire
  /\ \/ nackWire' = nackWire \ {n} /\ faults' = faults
     \/ nackWire' = nackWire /\ Fault("dup")

BadNotYet(n) == n[1] >= localSeq

\* A fragment that is not buffered may not have been buffered yet.
NotYet(n) == n[1] >= localSeq \/ n[1] \in inFlight

\* The send-side budget for this fragment is used up by this NACK.
OverCap(n) == txBuf[n].nacks + 1 > KSend

\* send_poison_to_target_: one unacknowledged datagram, then the flag.
PoisonTarget ==
  /\ poisonWire' = TRUE
  /\ txPoisoned' = TRUE

CountNack(n) == txBuf' = [txBuf EXCEPT ![n].nacks = @ + 1]

NackIgnored(n) ==
  /\ \/ txPoisoned
     \/ n \notin DOMAIN txBuf /\ NotYet(n)
  /\ UNCHANGED <<txBuf, dataWire, poisonWire, txPoisoned>>

NackAnswered(n) ==
  /\ ~txPoisoned
  /\ n \in DOMAIN txBuf
  /\ ~OverCap(n)
  /\ CountNack(n)
  /\ dataWire' = dataWire \cup
       {Datagram(n[1], n[2], txBuf[n].total, txBuf[n].bytes)}
  /\ UNCHANGED <<poisonWire, txPoisoned>>

NackOverCap(n) ==
  /\ ~txPoisoned
  /\ n \in DOMAIN txBuf
  /\ OverCap(n)
  /\ CountNack(n)
  /\ PoisonTarget
  /\ UNCHANGED dataWire

NackEvicted(n) ==
  /\ ~txPoisoned
  /\ n \notin DOMAIN txBuf
  /\ ~NotYet(n)
  /\ PoisonTarget
  /\ UNCHANGED <<txBuf, dataWire>>

HandleNack(n) ==
  /\ spc # "left"
  /\ TakeNack(n)
  /\ NackIgnored(n) \/ NackAnswered(n) \/ NackOverCap(n) \/ NackEvicted(n)
  /\ UNCHANGED <<spc, frag, localSeq, txOrder, inFlight, rxVars, rxPoisoned, appVars>>

-----------------------------------------------------------------------------
(* Receiver, pump thread: handle_data_ and drain_pending_locked_.          *)

TakeData(d) ==
  /\ d \in dataWire
  /\ \/ dataWire' = dataWire \ {d} /\ faults' = faults
     \/ dataWire' = dataWire /\ Fault("dup")

BadPartialFor(d) ==
  [total |-> d.total, received |-> 0, frags |-> [i \in 0 .. (d.total - 1) |-> {}]]

\* The Partial of a stream, created on first use and sized once.
PartialFor(d) ==
  IF d.seq \in DOMAIN pending /\ pending[d.seq].total # 0
  THEN pending[d.seq]
  ELSE [total    |-> d.total,
        received |-> IF d.seq \in DOMAIN pending THEN pending[d.seq].received ELSE 0,
        frags    |-> [i \in 0 .. (d.total - 1) |-> {}]]

BadFilled(p, d) ==
  IF d.idx < p.total
  THEN [p EXCEPT !.frags = [@ EXCEPT ![d.idx] = d.bytes], !.received = @ + 1]
  ELSE p

\* Store a fragment.  A slot counts as free while its vector is empty.
Filled(p, d) ==
  IF d.idx < p.total /\ p.frags[d.idx] = {}
  THEN [p EXCEPT !.frags = [@ EXCEPT ![d.idx] = d.bytes], !.received = @ + 1]
  ELSE p

Stored(d) ==
  [s \in DOMAIN pending \cup {d.seq} |->
     IF s = d.seq THEN Filled(PartialFor(d), d) ELSE pending[s]]

Complete(pend, s) == s \in DOMAIN pend /\ pend[s].received = pend[s].total

BadDrainPending(next, pend, queued) ==
  LET n == IF Complete(pend, next) THEN next + 1 ELSE next
  IN  /\ nextRx' = n
      /\ chunks' = [m \in 0 .. (n - 1) |-> IF m < next THEN queued[m] ELSE pend[m].frags]
      /\ pending' = [m \in DOMAIN pend \ (next .. (n - 1)) |-> pend[m]]

\* drain_pending_locked_: queue every complete stream from next on, in order.
DrainPending(next, pend, queued) ==
  \E n \in next .. NumStreams :
    /\ \A m \in next .. (n - 1) : Complete(pend, m)
    /\ ~Complete(pend, n)
    /\ nextRx' = n
    /\ chunks' = [m \in 0 .. (n - 1) |-> IF m < next THEN queued[m] ELSE pend[m].frags]
    /\ pending' = [m \in DOMAIN pend \ (next .. (n - 1)) |-> pend[m]]

\* A single-fragment stream that is next goes straight to the queue.
Queued(d) ==
  [m \in 0 .. nextRx |-> IF m = nextRx THEN [i \in 0 .. 0 |-> d.bytes] ELSE chunks[m]]

IsNextWhole(d) == d.total = 1 /\ d.seq = nextRx

HandleData(d) ==
  /\ TakeData(d)
  /\ maxSeen' = IF ~anySeen \/ d.seq > maxSeen THEN d.seq ELSE maxSeen
  /\ anySeen' = TRUE
  /\ nackState' = [e \in DOMAIN nackState \ {<<d.seq, d.idx>>} |-> nackState[e]]
  /\ arrived' = arrived \cup {<<d.seq, d.idx>>}
  /\ \/ /\ d.seq < nextRx
        /\ UNCHANGED <<nextRx, pending, chunks>>
     \/ /\ d.seq >= nextRx /\ IsNextWhole(d)
        /\ DrainPending(nextRx + 1, pending, Queued(d))
     \/ /\ d.seq >= nextRx /\ ~IsNextWhole(d)
        /\ DrainPending(nextRx, Stored(d), chunks)
  /\ UNCHANGED <<senderVars, nackWire, poisonWire, rxPoisoned, appVars>>

-----------------------------------------------------------------------------
(* Receiver, pump thread: handle_poison_ and drain_nack_state_.            *)

HandlePoison ==
  /\ poisonWire
  /\ rxPoisoned' = TRUE
  /\ \/ poisonWire' = FALSE /\ faults' = faults
     \/ poisonWire' = TRUE /\ Fault("dup")
  /\ UNCHANGED <<senderVars, dataWire, nackWire, rxVars, appVars>>

\* compute_missing_locked_: fragment 0 of a stream nothing is known of, every
\* empty fragment of a stream that has begun to arrive.
Holes(s) ==
  IF s \in DOMAIN pending
  THEN {i \in 0 .. (pending[s].total - 1) : pending[s].frags[i] = {}}
  ELSE {0}

BadMissing ==
  IF anySeen
  THEN UNION {{<<s, i>> : i \in Holes(s)} : s \in (nextRx + 1) .. maxSeen}
  ELSE {}

BadWideMissing ==
  IF anySeen
  THEN UNION {{<<s, i>> : i \in Holes(s)} : s \in nextRx .. (maxSeen + 1)}
  ELSE {}

Missing ==
  IF anySeen
  THEN UNION {{<<s, i>> : i \in Holes(s)} : s \in nextRx .. maxSeen}
  ELSE {}

Satisfied(e) ==
  \/ e[1] < nextRx
  \/ /\ e[1] \in DOMAIN pending
     /\ e[2] < pending[e[1]].total
     /\ pending[e[1]].frags[e[2]] # {}

\* The order of the map: by seq, then by idx.
Before(e, f) == e[1] < f[1] \/ (e[1] = f[1] /\ e[2] < f[2])

Attempts(e) == IF e \in DOMAIN nackState THEN nackState[e] ELSE 0

BadSpent(e) == Attempts(e) > KRecv

\* The receive-side budget for this entry is used up.
Spent(e) == Attempts(e) >= KRecv

\* No due entry has used up its attempts: NACK the due ones.
NackDue(open, due) ==
  /\ nackState' = [e \in open |-> IF e \in due THEN Attempts(e) + 1 ELSE Attempts(e)]
  /\ nackWire' = nackWire \cup due
  /\ rxPoisoned' = FALSE

\* The first due entry without attempts left stops the walk of the map; what
\* came before it is NACKed, what comes after it is not looked at.
NackGiveUp(open, due) ==
  \E first \in {e \in due : Spent(e)} :
    LET sent == {e \in due : Before(e, first)}
        kept == {e \in DOMAIN nackState \cup Missing : e \in open \/ ~Before(e, first)}
    IN  /\ \A e \in sent : ~Spent(e)
        /\ nackState' = [e \in kept |-> IF e \in sent THEN Attempts(e) + 1 ELSE Attempts(e)]
        /\ nackWire' = nackWire \cup sent
        /\ rxPoisoned' = TRUE

\* One drain.  elapsed holds the entries whose last_nack_ns is at least
\* cycle_ns_ ago; an entry this very drain adds cannot be one of them.
DrainNackState(elapsed) ==
  /\ elapsed \subseteq DOMAIN nackState
  /\ ~rxPoisoned
  /\ LET open == {e \in DOMAIN nackState \cup Missing : ~Satisfied(e)}
         due  == open \cap elapsed
     IN  IF \A e \in due : ~Spent(e)
         THEN NackDue(open, due)
         ELSE NackGiveUp(open, due)
  /\ UNCHANGED <<senderVars, dataWire, poisonWire, faults,
                 nextRx, maxSeen, anySeen, pending, chunks, arrived, appVars>>

-----------------------------------------------------------------------------
(* Receiver, application thread: recv() of the next message.               *)

BadAvailable(m)     == Units[m] = 0 \/ m <= nextRx
BadLateAvailable(m) == \E n \in (m + 1) .. (nextRx - 1) : Units[n] > 0

\* rx_bytes >= len: at once for an empty message, else when it is queued.
Available(m) == Units[m] = 0 \/ m < nextRx

Recv ==
  /\ rpc = "run"
  /\ taken < NumStreams
  /\ ~rxPoisoned
  /\ Available(taken)
  /\ taken' = taken + 1
  /\ UNCHANGED <<rpc, senderVars, wireVars, rxVars, rxPoisoned>>

RecvThrow ==
  /\ rpc = "run"
  /\ taken < NumStreams
  /\ rxPoisoned
  /\ rpc' = "threw"
  /\ UNCHANGED <<taken, senderVars, wireVars, rxVars, rxPoisoned>>

-----------------------------------------------------------------------------
(* The wire drops a datagram.                                              *)
Lose ==
  /\ Fault("lose")
  /\ \/ \E d \in dataWire : dataWire' = dataWire \ {d} /\ UNCHANGED <<nackWire, poisonWire>>
     \/ \E n \in nackWire : nackWire' = nackWire \ {n} /\ UNCHANGED <<dataWire, poisonWire>>
     \/ poisonWire /\ poisonWire' = FALSE /\ UNCHANGED <<dataWire, nackWire>>
  /\ UNCHANGED <<senderVars, rxVars, rxPoisoned, appVars>>

-----------------------------------------------------------------------------
Init ==
  /\ spc = "idle" /\ frag = 0
  /\ localSeq = 0
  /\ txBuf = [k \in {} |-> 0]
  /\ txOrder = <<>>
  /\ inFlight = {}
  /\ txPoisoned = FALSE
  /\ dataWire = {} /\ nackWire = {} /\ poisonWire = FALSE
  /\ faults = 0
  /\ nextRx = 0 /\ maxSeen = 0 /\ anySeen = FALSE
  /\ pending = [s \in {} |-> 0]
  /\ chunks = [n \in {} |-> 0]
  /\ nackState = [e \in {} |-> 0]
  /\ rxPoisoned = FALSE
  /\ rpc = "run" /\ taken = 0
  /\ arrived = {}

Send == SendBegin \/ SendThrow \/ SendInsert \/ SendTo \/ SendFinish

SenderPump   == \E n \in nackWire : HandleNack(n)
ReceiverPump ==
  \/ \E d \in dataWire : HandleData(d)
  \/ HandlePoison
  \/ \E elapsed \in SUBSET DOMAIN nackState : DrainNackState(elapsed)

Next ==
  \/ Send \/ SendAgain \/ SendDie \/ Leave
  \/ SenderPump
  \/ ReceiverPump
  \/ Recv \/ RecvThrow
  \/ Lose

Spec == Init /\ [][Next]_vars

(* The threads keep running, a datagram that stays on the wire is received *)
(* in the end, and with the wire silent the receiver's pump gets its       *)
(* timeouts, cycle after cycle.                                            *)
Fairness ==
  /\ WF_vars(Send)
  /\ \A s \in Streams, i \in 0 .. (IdxSpan - 1) : WF_vars(\E n \in nackWire : n = <<s, i>> /\ HandleNack(n))
  /\ \A s \in Streams, i \in 0 .. (IdxSpan - 1) :
       WF_vars(\E d \in dataWire : d.seq = s /\ d.idx = i /\ HandleData(d))
  /\ WF_vars(HandlePoison)
  /\ WF_vars(DrainNackState(DOMAIN nackState))
  /\ WF_vars(Recv \/ RecvThrow)

FairSpec == Spec /\ Fairness

-----------------------------------------------------------------------------
(* Properties.                                                             *)

Keys == Streams \X (0 .. (IdxSpan - 1))

Chunks(s)  == {Bytes(s, i) : i \in 0 .. (Total(s) - 1)}
ChunkBytes == {{}} \cup UNION {Chunks(s) : s \in Streams}

DataType == [seq : Streams, idx : 0 .. (IdxSpan - 1),
             total : 0 .. (IdxSpan - 1), bytes : ChunkBytes]

TxRecordType == [total : 0 .. (IdxSpan - 1), bytes : ChunkBytes, nacks : Nat]

PartialOf(t) == [total : {t}, received : Nat, frags : [0 .. (t - 1) -> ChunkBytes]]
IsPartial(p) == \E t \in 0 .. (IdxSpan - 1) : p \in PartialOf(t)

SenderTypes ==
  /\ spc \in SenderPc
  /\ frag \in Nat
  /\ localSeq \in 0 .. NumStreams
  /\ spc \in {"insert", "sendto", "finish", "dead"} => localSeq > 0
  /\ DOMAIN txBuf \subseteq Keys
  /\ txBuf \in [DOMAIN txBuf -> TxRecordType]
  /\ txOrder \in Seq(Streams)
  /\ inFlight \subseteq Streams
  /\ txPoisoned \in BOOLEAN

WireTypes ==
  /\ dataWire \subseteq DataType
  /\ nackWire \subseteq Keys
  /\ poisonWire \in BOOLEAN
  /\ faults \in 0 .. MaxFaults

RxTypes ==
  /\ nextRx \in 0 .. NumStreams
  /\ maxSeen \in Streams
  /\ anySeen \in BOOLEAN
  /\ DOMAIN pending \subseteq Streams
  /\ \A s \in DOMAIN pending : IsPartial(pending[s])
  /\ DOMAIN chunks = 0 .. (nextRx - 1)
  /\ DOMAIN nackState \subseteq Keys
  /\ nackState \in [DOMAIN nackState -> 0 .. KRecv]
  /\ arrived \subseteq Keys

AppTypes ==
  /\ rxPoisoned \in BOOLEAN
  /\ rpc \in {"run", "threw"}
  /\ taken \in 0 .. NumStreams

(* The types of the pipe's state: sequence numbers and indices stay in     *)
(* range, counters within the bounds the code enforces.                    *)
TypeOK == SenderTypes /\ WireTypes /\ RxTypes /\ AppTypes

(* Whatever the wire does, the messages queued for the application are     *)
(* exactly the messages sent, in the order sent, each once and each whole: *)
(* reassembly in handle_data_ and drain_pending_locked_ mixes no streams,  *)
(* skips none and swaps no fragments, retransmissions included.            *)
DeliveredIntact == \A m \in 0 .. (nextRx - 1) : chunks[m] = Payload(m)

(* Why DeliveredIntact holds.  Everything that carries a fragment from      *)
(* send() to the receive queue carries the right one under the right name, *)
(* and a Partial counts each of its fragments once.                        *)
LoopSound == spc \in {"insert", "sendto"} => frag < Total(Cur)

IsFragment(s, i, total, bytes) ==
  i < Total(s) /\ total = Total(s) /\ bytes = Bytes(s, i)

WireSound   == \A d \in dataWire : IsFragment(d.seq, d.idx, d.total, d.bytes)
BufferSound == \A k \in DOMAIN txBuf : IsFragment(k[1], k[2], txBuf[k].total, txBuf[k].bytes)

Present(p) == {i \in 0 .. (p.total - 1) : p.frags[i] # {}}

IsSoundPartial(s, p) ==
  /\ p.total = Total(s)
  /\ \A i \in 0 .. (Total(s) - 1) : p.frags[i] = {} \/ p.frags[i] = Bytes(s, i)
  /\ Units[s] # 0 => p.received = Cardinality(Present(p))

PartialsSound == \A s \in DOMAIN pending : IsSoundPartial(s, pending[s])

(* The inductive invariant behind DeliveredIntact (for FragsFit).          *)
PipeSound == LoopSound /\ WireSound /\ BufferSound /\ PartialsSound /\ DeliveredIntact

(* A stream whose send() has returned can be retransmitted, byte for byte, *)
(* until TX_BUF_CAP_STREAMS newer streams have started: tx_buf_order and   *)
(* tx_buf agree and eviction takes the oldest stream, never a newer one.   *)
RetransmitWindow ==
  \A s \in 0 .. (localSeq - 1) :
    s \notin inFlight /\ s + TxBufCap >= localSeq =>
      \A i \in 0 .. (Total(s) - 1) :
        /\ <<s, Idx16(i)>> \in DOMAIN txBuf
        /\ txBuf[<<s, Idx16(i)>>].bytes = Bytes(s, i)

(* The sender gives the pipe up only over a fragment NACKed more often     *)
(* than the budget allows or one of a stream that the window has left      *)
(* behind; a NACK that outruns send() (streams_in_flight) never does it.   *)
PoisonJustified ==
  [][~txPoisoned /\ txPoisoned' =>
       \E n \in nackWire :
         \/ n \in DOMAIN txBuf /\ txBuf[n].nacks >= KSend
         \/ n[1] + TxBufCap < localSeq]_vars

\* An empty message that has come while an earlier one was missing: its slot
\* looks like a free one.
HeldBlank(s) == s >= nextRx /\ Units[s] = 0 /\ s \in DOMAIN pending

(* A NACK asks only for a fragment that has not arrived, "the sender we    *)
(* lost frames from", or for an empty message that is held back behind a   *)
(* gap, and for nothing else that has arrived.                             *)
NackOnlyForLost ==
  [][\A n \in nackWire' \ nackWire : n \notin arrived \/ HeldBlank(n[1])]_vars

(* When every fragment of the next message has arrived, the message has    *)
(* been queued: no order of arrival leaves a whole message stuck in        *)
(* pending, but for an empty one of which a second copy came, for a NACK   *)
(* or by duplication, before the gap in front of it was filled.            *)
NoStall ==
  nextRx \in Streams =>
    \/ \E i \in 0 .. (Total(nextRx) - 1) : <<nextRx, i>> \notin arrived
    \/ HeldBlank(nextRx) /\ pending[nextRx].received > 1

(* The receiver knows of nothing the sender has not started to send.       *)
Causality ==
  /\ \A s \in DOMAIN pending : s < localSeq
  /\ \A e \in DOMAIN nackState \cup nackWire : e[1] < localSeq
  /\ nextRx <= localSeq
  /\ anySeen => maxSeen < localSeq

(* A gap the receiver can see (a later stream has arrived) does not stay   *)
(* open for ever: it is filled by retransmission or the pipe is poisoned,  *)
(* even when NACKs, retransmissions and the POISON datagram are lost, and  *)
(* when the sender's process has gone.                                     *)
GapResolved ==
  \A s \in Streams :
    (anySeen /\ s <= maxSeen) ~> (nextRx > s \/ rxPoisoned)

(* The receiving application gets every message or is told that the peer   *)
(* stopped responding.                                                     *)
Settled == <>(taken = NumStreams \/ rpc = "threw")

(* As long as nothing is lost and send() does not fail, it does, also when *)
(* the sender's process exits before its last datagrams have arrived.      *)
SettledWithoutFault == <>(faults > 0 \/ taken = NumStreams \/ rpc = "threw")

(* The pipe as its users see it.                                           *)
Handed(m) == IF m < nextRx THEN chunks[m] ELSE [i \in 0 .. 0 |-> {}]

Pipe == INSTANCE ReliablePipe WITH
  Message <- [s \in Streams |-> Payload(s)],
  Blank   <- {s \in Streams : Units[s] = 0},
  sent    <- localSeq,
  out     <- [m \in 0 .. (taken - 1) |-> Handed(m)],
  sendUp  <- spc \notin {"threw", "left"},
  recvUp  <- rpc = "run"

(* BusPipe implements ReliablePipe: an ordered, exactly-once message pipe  *)
(* that may break at either end.                                           *)
ImplementsPipe == Pipe!Spec
=============================================================================
