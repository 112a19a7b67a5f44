---------------------------- MODULE BusPipeProofs ----------------------------
(***************************************************************************)
(* Proofs about BusPipe, for every number of streams, every message        *)
(* length, every cap and budget, and any number of faults: types, intact   *)
(* delivery, causality, the retransmit window, when a NACK is sent and     *)
(* when a pipe is poisoned, that no message is stuck, the refinement of    *)
(* ReliablePipe, and the record of a witness (BusWitness).                 *)
(***************************************************************************)
EXTENDS BusWitness, FiniteSetTheorems, WellFoundedInduction, TLAPS

-----------------------------------------------------------------------------
(* The operators on data.                                                  *)

LEMMA Idx16Range == ASSUME NEW i \in Nat PROVE Idx16(i) \in 0 .. (IdxSpan - 1)
BY PipeAssumption DEF Idx16

LEMMA TotalNat == ASSUME NEW s \in Streams PROVE Total(s) \in Nat \ {0}
BY PipeAssumption DEF Total

LEMMA Total16Range == ASSUME NEW s \in Streams PROVE Total16(s) \in 0 .. (IdxSpan - 1)
BY TotalNat, PipeAssumption DEF Total16

LEMMA BytesType == ASSUME NEW s \in Streams, NEW i \in Nat, i < Total(s)
                   PROVE Bytes(s, i) \in ChunkBytes
BY TotalNat DEF ChunkBytes, Chunks

LEMMA CurStream == ASSUME SenderTypes, localSeq > 0 PROVE Cur \in Streams
BY PipeAssumption DEF SenderTypes, Cur, Streams

TypeInv == TypeOK /\ LoopSound

-----------------------------------------------------------------------------
(* What a step leaves alone keeps its type.                                *)

LEMMA RxFrame == ASSUME RxTypes, UNCHANGED rxVars PROVE RxTypes'
BY DEF RxTypes, rxVars

LEMMA AppFrame == ASSUME AppTypes, UNCHANGED <<rxPoisoned, appVars>> PROVE AppTypes'
BY DEF AppTypes, appVars

LEMMA WireFrame == ASSUME WireTypes, UNCHANGED wireVars PROVE WireTypes'
BY DEF WireTypes, wireVars

LEMMA SenderFrame == ASSUME SenderTypes, LoopSound, UNCHANGED senderVars
                     PROVE  SenderTypes' /\ LoopSound'
BY DEF SenderTypes, LoopSound, senderVars, Cur

LEMMA FaultRange == ASSUME WireTypes, NEW k, Fault(k) PROVE faults' \in 0 .. MaxFaults
BY PipeAssumption DEF WireTypes, Fault

-----------------------------------------------------------------------------
(* Type correctness: the sending application's thread.                     *)

LEMMA InsertTypes == ASSUME TypeInv, SendInsert PROVE SenderTypes' /\ LoopSound'
<1> USE DEF TypeInv, TypeOK
<1>1. Cur \in Streams /\ frag \in Nat /\ frag < Total(Cur) /\ Cur' = Cur
  BY CurStream DEF SenderTypes, LoopSound, SendInsert, Cur
<1> DEFINE key   == <<Cur, Idx16(frag)>>
           rec   == [total |-> Total16(Cur), bytes |-> Bytes(Cur, frag), nacks |-> 0]
           order == OrderWith(Cur, frag)
<1>2. key \in Keys /\ rec \in TxRecordType
  BY <1>1, Idx16Range, Total16Range, BytesType DEF Keys, TxRecordType
<1>3. order \in Seq(Streams)
  BY <1>1 DEF OrderWith, SenderTypes
<1>4. Overflow(order) \in Nat
  BY <1>3, PipeAssumption DEF Overflow
<1>5. txOrder' \in Seq(Streams)
  <2>1. txOrder' = SubSeq(order, Overflow(order) + 1, Len(order))
    BY DEF SendInsert
  <2> QED BY <2>1, <1>3, <1>4
<1>6. DOMAIN txBuf' \subseteq Keys /\ txBuf' \in [DOMAIN txBuf' -> TxRecordType]
  BY <1>2 DEF SendInsert, SenderTypes
<1> QED
  BY <1>1, <1>5, <1>6 DEF SendInsert, SenderTypes, SenderPc, LoopSound

LEMMA SendTypes == ASSUME TypeInv, Send \/ SendAgain \/ SendDie \/ Leave PROVE TypeInv'
<1> USE DEF TypeInv, TypeOK
<1>1. CASE SendBegin
  <2>1. localSeq \in Streams /\ localSeq' \in 0 .. NumStreams /\ localSeq' > 0
    BY <1>1, PipeAssumption DEF SendBegin, SenderTypes, Streams
  <2>2. Total(localSeq) > 0 /\ Cur' = localSeq
    BY <1>1, <2>1, TotalNat DEF SendBegin, Cur, SenderTypes
  <2>3. inFlight' \subseteq Streams
    BY <1>1, <2>1 DEF SendBegin, SenderTypes
  <2>4. SenderTypes'
    BY <1>1, <2>1, <2>3 DEF SendBegin, SenderTypes, SenderPc
  <2>5. LoopSound'
    BY <1>1, <2>2 DEF SendBegin, LoopSound, Total
  <2> QED BY <1>1, <2>4, <2>5, RxFrame, AppFrame, WireFrame DEF SendBegin
<1>2. CASE SendThrow
  <2>1. SenderTypes' /\ LoopSound'
    BY <1>2 DEF SendThrow, SenderTypes, LoopSound, SenderPc, Cur
  <2> QED BY <1>2, <2>1, RxFrame, AppFrame, WireFrame DEF SendThrow
<1>3. CASE SendFinish
  <2>1. SenderTypes' /\ LoopSound'
    BY <1>3 DEF SendFinish, SenderTypes, LoopSound, SenderPc, Cur
  <2> QED BY <1>3, <2>1, RxFrame, AppFrame, WireFrame DEF SendFinish
<1>4. CASE SendAgain
  <2>1. SenderTypes' /\ LoopSound'
    BY <1>4 DEF SendAgain, SenderTypes, LoopSound, SenderPc, Cur
  <2>2. WireTypes'
    BY <1>4, FaultRange DEF SendAgain, WireTypes
  <2> QED BY <1>4, <2>1, <2>2, RxFrame, AppFrame DEF SendAgain
<1>5. CASE SendDie
  <2>1. SenderTypes' /\ LoopSound'
    BY <1>5 DEF SendDie, SenderTypes, LoopSound, SenderPc, Cur
  <2>2. WireTypes'
    BY <1>5, FaultRange DEF SendDie, WireTypes
  <2> QED BY <1>5, <2>1, <2>2, RxFrame, AppFrame DEF SendDie
<1>6. CASE SendTo
  <2>1. Cur \in Streams /\ frag < Total(Cur) /\ frag \in Nat
    BY <1>6, CurStream DEF SendTo, SenderTypes, LoopSound
  <2>2. Datagram(Cur, Idx16(frag), Total16(Cur), Bytes(Cur, frag)) \in DataType
    BY <2>1, Idx16Range, Total16Range, BytesType DEF Datagram, DataType
  <2>3. WireTypes'
    BY <1>6, <2>2 DEF SendTo, WireTypes
  <2>4. SenderTypes' /\ LoopSound'
    BY <1>6, <2>1 DEF SendTo, SenderTypes, LoopSound, SenderPc, Cur
  <2> QED BY <1>6, <2>3, <2>4, RxFrame, AppFrame DEF SendTo
<1>7. CASE SendInsert
  BY <1>7, InsertTypes, RxFrame, AppFrame, WireFrame DEF SendInsert
<1>8. CASE Leave
  <2>1. SenderTypes' /\ LoopSound'
    BY <1>8 DEF Leave, SenderTypes, LoopSound, SenderPc, Cur
  <2> QED BY <1>8, <2>1, RxFrame, AppFrame, WireFrame DEF Leave
<1> QED BY <1>1, <1>2, <1>3, <1>4, <1>5, <1>6, <1>7, <1>8 DEF Send

-----------------------------------------------------------------------------
(* Type correctness: the two pumps, the reader, the wire.                  *)

LEMMA NackTypes == ASSUME TypeInv, NEW n, HandleNack(n) PROVE TypeInv'
<1> USE DEF TypeInv, TypeOK
<1>1. n \in Keys /\ nackWire' \subseteq Keys /\ faults' \in 0 .. MaxFaults
  BY FaultRange DEF HandleNack, TakeNack, WireTypes
<1>2. UNCHANGED <<spc, frag, localSeq, txOrder, inFlight>>
  BY DEF HandleNack
<1>3. ASSUME n \in DOMAIN txBuf, CountNack(n)
      PROVE  DOMAIN txBuf' = DOMAIN txBuf /\ txBuf' \in [DOMAIN txBuf -> TxRecordType]
  <2> DEFINE r == [txBuf[n] EXCEPT !.nacks = txBuf[n].nacks + 1]
  <2>1. txBuf[n] \in TxRecordType
    BY <1>3 DEF SenderTypes
  <2>2. r \in TxRecordType
    BY <2>1 DEF TxRecordType
  <2>3. txBuf' = [txBuf EXCEPT ![n] = r] /\ txBuf \in [DOMAIN txBuf -> TxRecordType]
    BY <1>3 DEF CountNack, SenderTypes
  <2> HIDE DEF r
  <2> QED BY <2>2, <2>3
<1>4. SenderTypes' /\ dataWire' \subseteq DataType /\ poisonWire' \in BOOLEAN
  <2>1. CASE NackIgnored(n)
    BY <1>2, <2>1 DEF NackIgnored, SenderTypes, WireTypes
  <2>2. CASE NackAnswered(n)
    <3>1. Datagram(n[1], n[2], txBuf[n].total, txBuf[n].bytes) \in DataType
      BY <1>1, <2>2 DEF NackAnswered, SenderTypes, TxRecordType, Keys, Datagram, DataType
    <3> QED BY <1>2, <1>3, <2>2, <3>1 DEF NackAnswered, SenderTypes, WireTypes
  <2>3. CASE NackOverCap(n)
    BY <1>2, <1>3, <2>3 DEF NackOverCap, PoisonTarget, SenderTypes, WireTypes
  <2>4. CASE NackEvicted(n)
    BY <1>2, <2>4 DEF NackEvicted, PoisonTarget, SenderTypes, WireTypes
  <2> QED BY <2>1, <2>2, <2>3, <2>4 DEF HandleNack
<1>5. LoopSound'
  BY <1>2 DEF LoopSound, Cur
<1> QED BY <1>1, <1>4, <1>5, RxFrame, AppFrame DEF HandleNack, WireTypes

LEMMA StoredTypes ==
  ASSUME RxTypes, NEW d \in DataType
  PROVE  /\ DOMAIN Stored(d) \subseteq Streams
         /\ \A s \in DOMAIN Stored(d) : IsPartial(Stored(d)[s])
<1>1. IsPartial(PartialFor(d))
  <2>1. CASE d.seq \in DOMAIN pending /\ pending[d.seq].total # 0
    BY <2>1 DEF PartialFor, RxTypes
  <2>2. CASE ~(d.seq \in DOMAIN pending /\ pending[d.seq].total # 0)
    <3>1. (IF d.seq \in DOMAIN pending THEN pending[d.seq].received ELSE 0) \in Nat
      BY DEF RxTypes, IsPartial, PartialOf
    <3>2. [i \in 0 .. (d.total - 1) |-> {}] \in [0 .. (d.total - 1) -> ChunkBytes]
      BY DEF ChunkBytes
    <3>3. PartialFor(d) \in PartialOf(d.total)
      BY <2>2, <3>1, <3>2 DEF PartialFor, PartialOf
    <3> QED BY <3>3 DEF IsPartial, DataType
  <2> QED BY <2>1, <2>2
<1>2. IsPartial(Filled(PartialFor(d), d))
  <2> DEFINE p == PartialFor(d)
  <2>1. PICK t \in 0 .. (IdxSpan - 1) : p \in PartialOf(t)
    BY <1>1 DEF IsPartial
  <2>2. d.bytes \in ChunkBytes /\ d.idx \in Nat
    BY PipeAssumption DEF DataType
  <2>3. Filled(p, d) \in PartialOf(t)
    <3>1. CASE d.idx < p.total /\ p.frags[d.idx] = {}
      <4>1. [p.frags EXCEPT ![d.idx] = d.bytes] \in [0 .. (t - 1) -> ChunkBytes]
        BY <2>1, <2>2 DEF PartialOf
      <4>2. p.received + 1 \in Nat
        BY <2>1 DEF PartialOf
      <4> QED BY <2>1, <3>1, <4>1, <4>2 DEF Filled, PartialOf
    <3> QED BY <2>1, <3>1 DEF Filled
  <2> QED BY <2>3 DEF IsPartial
<1> QED BY <1>2 DEF Stored, RxTypes, DataType

LEMMA DrainTypes ==
  ASSUME NEW next \in 0 .. NumStreams, NEW pend, NEW queued,
         DOMAIN pend \subseteq Streams, \A s \in DOMAIN pend : IsPartial(pend[s]),
         DrainPending(next, pend, queued)
  PROVE  /\ nextRx' \in next .. NumStreams
         /\ DOMAIN pending' \subseteq Streams
         /\ \A s \in DOMAIN pending' : IsPartial(pending'[s])
         /\ DOMAIN chunks' = 0 .. (nextRx' - 1)
BY PipeAssumption DEF DrainPending

LEMMA DataTypes == ASSUME TypeInv, NEW d, HandleData(d) PROVE TypeInv'
<1> USE DEF TypeInv, TypeOK
<1>1. d \in DataType /\ dataWire' \subseteq DataType /\ faults' \in 0 .. MaxFaults
  BY FaultRange DEF HandleData, TakeData, WireTypes
<1>2. WireTypes'
  BY <1>1 DEF HandleData, WireTypes
<1>3. /\ maxSeen' \in Streams /\ anySeen' = TRUE /\ arrived' \subseteq Keys
      /\ DOMAIN nackState' \subseteq Keys
      /\ nackState' \in [DOMAIN nackState' -> 0 .. KRecv]
  BY <1>1 DEF HandleData, RxTypes, DataType, Keys
<1>4. /\ nextRx' \in 0 .. NumStreams
      /\ DOMAIN pending' \subseteq Streams
      /\ \A s \in DOMAIN pending' : IsPartial(pending'[s])
      /\ DOMAIN chunks' = 0 .. (nextRx' - 1)
  <2>1. CASE UNCHANGED <<nextRx, pending, chunks>>
    BY <2>1 DEF RxTypes
  <2>2. CASE /\ d.seq >= nextRx /\ IsNextWhole(d)
             /\ DrainPending(nextRx + 1, pending, Queued(d))
    <3>1. d.seq = nextRx
      BY <2>2 DEF IsNextWhole
    <3>2. d.seq \in Streams
      BY <1>1 DEF DataType
    <3>3. nextRx \in 0 .. (NumStreams - 1)
      BY <3>1, <3>2 DEF Streams
    <3>4. nextRx + 1 \in 0 .. NumStreams
      BY <3>3, PipeAssumption
    <3> QED BY <2>2, <3>4, DrainTypes DEF RxTypes
  <2>3. CASE DrainPending(nextRx, Stored(d), chunks)
    BY <1>1, <2>3, StoredTypes, DrainTypes DEF RxTypes
  <2> QED BY <2>1, <2>2, <2>3 DEF HandleData
<1>5. RxTypes'
  BY <1>3, <1>4 DEF RxTypes
<1> QED BY <1>2, <1>5, SenderFrame, AppFrame DEF HandleData

LEMMA MissingKeys == ASSUME RxTypes PROVE Missing \subseteq Keys
<1>1. \A s \in Streams : Holes(s) \subseteq 0 .. (IdxSpan - 1)
  BY PipeAssumption DEF Holes, RxTypes, IsPartial, PartialOf
<1>2. nextRx .. maxSeen \subseteq Streams
  BY PipeAssumption DEF RxTypes, Streams
<1> QED BY <1>1, <1>2 DEF Missing, Keys

LEMMA AttemptsRange == ASSUME RxTypes, NEW e PROVE Attempts(e) \in 0 .. KRecv
BY PipeAssumption DEF RxTypes, Attempts

LEMMA DrainNackTypes ==
  ASSUME TypeInv, NEW elapsed, DrainNackState(elapsed) PROVE TypeInv'
<1> USE DEF TypeInv, TypeOK
<1> DEFINE open == {e \in DOMAIN nackState \cup Missing : ~Satisfied(e)}
           due  == open \cap elapsed
<1>1. DOMAIN nackState \cup Missing \subseteq Keys
  BY MissingKeys DEF RxTypes
<1>2. /\ DOMAIN nackState' \subseteq Keys
      /\ nackState' \in [DOMAIN nackState' -> 0 .. KRecv]
      /\ nackWire' \subseteq Keys
      /\ rxPoisoned' \in BOOLEAN
  <2>1. CASE (\A e \in due : ~Spent(e)) /\ NackDue(open, due)
    <3>1. \A e \in due : Attempts(e) + 1 \in 0 .. KRecv
      BY <2>1, AttemptsRange, PipeAssumption DEF Spent
    <3>2. nackState' \in [open -> 0 .. KRecv] /\ nackWire' = nackWire \cup due /\ rxPoisoned' = FALSE
      BY <2>1, <3>1, AttemptsRange DEF NackDue
    <3> QED BY <1>1, <3>2 DEF WireTypes
  <2>2. CASE NackGiveUp(open, due)
    <3>1. PICK first \in due :
            LET sent == {e \in due : Before(e, first)}
                kept == {e \in DOMAIN nackState \cup Missing : e \in open \/ ~Before(e, first)}
            IN  /\ \A e \in sent : ~Spent(e)
                /\ nackState' = [e \in kept |-> IF e \in sent THEN Attempts(e) + 1 ELSE Attempts(e)]
                /\ nackWire' = nackWire \cup sent
                /\ rxPoisoned' = TRUE
      BY <2>2 DEF NackGiveUp
    <3>2. \A e : Attempts(e) \in 0 .. KRecv /\ (~Spent(e) => Attempts(e) + 1 \in 0 .. KRecv)
      BY AttemptsRange, PipeAssumption DEF Spent
    <3> QED BY <1>1, <3>1, <3>2 DEF WireTypes
  <2> QED BY <2>1, <2>2 DEF DrainNackState
<1>3. UNCHANGED <<senderVars, dataWire, poisonWire, faults,
                  nextRx, maxSeen, anySeen, pending, chunks, arrived, appVars>>
  BY DEF DrainNackState
<1> QED BY <1>2, <1>3, SenderFrame DEF WireTypes, RxTypes, AppTypes, appVars

LEMMA OtherTypes ==
  ASSUME TypeInv, HandlePoison \/ Recv \/ RecvThrow \/ Lose PROVE TypeInv'
<1> USE DEF TypeInv, TypeOK
<1>1. CASE HandlePoison
  BY <1>1, FaultRange, SenderFrame, RxFrame DEF HandlePoison, WireTypes, AppTypes, appVars
<1>2. CASE Recv
  BY <1>2, SenderFrame, RxFrame, WireFrame, PipeAssumption DEF Recv, AppTypes
<1>3. CASE RecvThrow
  BY <1>3, SenderFrame, RxFrame, WireFrame DEF RecvThrow, AppTypes
<1>4. CASE Lose
  <2>1. WireTypes'
    BY <1>4, FaultRange DEF Lose, WireTypes
  <2> QED BY <1>4, <2>1, SenderFrame, RxFrame, AppFrame DEF Lose
<1> QED BY <1>1, <1>2, <1>3, <1>4

(* Every reachable state of the pipe is well typed, and the fragment loop  *)
(* of send() stays in range.                                               *)
THEOREM TypeInvariance == Spec => []TypeInv
<1>1. Init => TypeInv
  <2> SUFFICES ASSUME Init PROVE TypeInv
    OBVIOUS
  <2>0. txPoisoned \in BOOLEAN /\ poisonWire \in BOOLEAN /\ anySeen \in BOOLEAN /\ rxPoisoned \in BOOLEAN
    BY Zenon DEF Init
  <2>1. /\ spc = "idle" /\ frag = 0 /\ localSeq = 0 /\ DOMAIN txBuf = {} /\ txOrder = <<>>
        /\ txBuf \in [DOMAIN txBuf -> TxRecordType] /\ inFlight = {}
    BY DEF Init
  <2>2. dataWire = {} /\ nackWire = {} /\ faults = 0
    BY Zenon DEF Init
  <2>3. /\ nextRx = 0 /\ maxSeen = 0 /\ DOMAIN pending = {} /\ DOMAIN chunks = {}
        /\ DOMAIN nackState = {} /\ nackState \in [DOMAIN nackState -> 0 .. KRecv] /\ arrived = {}
    BY DEF Init
  <2>4. rpc = "run" /\ taken = 0
    BY Zenon DEF Init
  <2>5. SenderTypes /\ LoopSound
    BY <2>0, <2>1, PipeAssumption DEF SenderTypes, SenderPc, LoopSound
  <2>6. WireTypes
    BY <2>0, <2>2, PipeAssumption DEF WireTypes
  <2>7. RxTypes
    BY <2>0, <2>3, PipeAssumption DEF RxTypes, Streams
  <2>8. AppTypes
    BY <2>0, <2>4, PipeAssumption DEF AppTypes
  <2> QED BY <2>5, <2>6, <2>7, <2>8 DEF TypeInv, TypeOK
<1>2. TypeInv /\ [Next]_vars => TypeInv'
  <2> SUFFICES ASSUME TypeInv, [Next]_vars PROVE TypeInv'
    OBVIOUS
  <2>1. CASE UNCHANGED vars
    BY <2>1, SenderFrame, RxFrame, AppFrame, WireFrame DEF vars, TypeInv, TypeOK
  <2> QED
    BY <2>1, SendTypes, NackTypes, DataTypes, DrainNackTypes, OtherTypes
    DEF Next, SenderPump, ReceiverPump
<1> QED BY <1>1, <1>2, PTL DEF Spec

(* Sequence numbers and fragment indices stay in range, and the receiver   *)
(* never NACKs one fragment more than retx_k_recv_ times between two of    *)
(* its arrivals (drain_nack_state_).                                       *)
THEOREM TypeCorrect == Spec => []TypeOK
<1>1. TypeInv => TypeOK
  BY DEF TypeInv
<1> QED BY <1>1, TypeInvariance, PTL

-----------------------------------------------------------------------------
(* Intact delivery, for messages that fit the 16-bit fragment fields.      *)

LEMMA FragmentFits ==
  ASSUME FragsFit, NEW s \in Streams, NEW i \in Nat, i < Total(s)
  PROVE  Idx16(i) = i /\ Total16(s) = Total(s)
BY TotalNat, PipeAssumption DEF FragsFit, Idx16, Total16

\* A complete stream holds exactly the message that was sent.
LEMMA CompleteWhole ==
  ASSUME NEW s \in Streams, NEW p, IsPartial(p), IsSoundPartial(s, p), p.received = p.total
  PROVE  p.frags = Payload(s)
<1>1. Total(s) \in Nat \ {0} /\ p.frags \in [0 .. (Total(s) - 1) -> ChunkBytes]
  BY TotalNat DEF IsPartial, PartialOf, IsSoundPartial
<1>2. CASE Units[s] = 0
  BY <1>1, <1>2 DEF IsSoundPartial, Payload, Bytes
<1>3. CASE Units[s] # 0
  <2>1. IsFiniteSet(0 .. (Total(s) - 1)) /\ Cardinality(0 .. (Total(s) - 1)) = Total(s)
    BY <1>1, FS_Interval
  <2>2. Present(p) \subseteq 0 .. (Total(s) - 1) /\ Cardinality(Present(p)) = Total(s)
    BY <1>3 DEF IsSoundPartial, Present
  <2>3. Present(p) = 0 .. (Total(s) - 1)
    BY <2>1, <2>2, FS_Subset
  <2>4. \A i \in 0 .. (Total(s) - 1) : p.frags[i] = Bytes(s, i)
    BY <2>3 DEF IsSoundPartial, Present
  <2> QED BY <1>1, <2>4 DEF Payload
<1> QED BY <1>2, <1>3

LEMMA FilledSound ==
  ASSUME NEW d \in DataType, IsFragment(d.seq, d.idx, d.total, d.bytes),
         NEW p, IsPartial(p), IsSoundPartial(d.seq, p)
  PROVE  IsSoundPartial(d.seq, Filled(p, d))
<1> DEFINE s == d.seq
           q == Filled(p, d)
<1>1. s \in Streams /\ d.idx \in Nat /\ d.idx < Total(s) /\ Total(s) \in Nat \ {0}
  BY TotalNat, PipeAssumption DEF DataType, IsFragment
<1>2. p.frags \in [0 .. (Total(s) - 1) -> ChunkBytes] /\ p.received \in Nat /\ p.total = Total(s)
  BY DEF IsPartial, PartialOf, IsSoundPartial
<1>3. CASE p.frags[d.idx] # {}
  BY <1>3 DEF Filled
<1>4. CASE p.frags[d.idx] = {}
  <2>1. p = [total |-> p.total, received |-> p.received, frags |-> p.frags]
    BY DEF IsPartial, PartialOf
  <2>2. /\ q.total = Total(s) /\ q.received = p.received + 1
        /\ q.frags = [p.frags EXCEPT ![d.idx] = Bytes(s, d.idx)]
    BY <1>1, <1>2, <1>4, <2>1 DEF Filled, IsFragment
  <2>3. \A i \in 0 .. (Total(s) - 1) : q.frags[i] = {} \/ q.frags[i] = Bytes(s, i)
    BY <1>1, <1>2, <2>2 DEF IsSoundPartial
  <2>4. ASSUME Units[s] # 0 PROVE q.received = Cardinality(Present(q))
    <3>1. Present(q) = Present(p) \cup {d.idx} /\ d.idx \notin Present(p)
      <4>1. Bytes(s, d.idx) # {}
        BY <2>4 DEF Bytes
      <4>2. /\ q.frags[d.idx] # {}
            /\ \A i \in 0 .. (Total(s) - 1) : i # d.idx => q.frags[i] = p.frags[i]
        BY <1>1, <1>2, <2>2, <4>1
      <4>3. /\ Present(q) = {i \in 0 .. (Total(s) - 1) : q.frags[i] # {}}
            /\ Present(p) = {i \in 0 .. (Total(s) - 1) : p.frags[i] # {}}
        BY <1>2, <2>2 DEF Present
      <4> HIDE DEF q, s
      <4> QED BY <1>1, <1>4, <4>2, <4>3
    <3>2. IsFiniteSet(Present(p))
      <4>1. IsFiniteSet(0 .. (Total(s) - 1))
        BY <1>1, FS_Interval
      <4>2. Present(p) \subseteq 0 .. (Total(s) - 1)
        BY <1>2 DEF Present
      <4> QED BY <4>1, <4>2, FS_Subset
    <3>3. Cardinality(Present(q)) = Cardinality(Present(p)) + 1
      BY <3>1, <3>2, FS_AddElement
    <3> QED BY <2>2, <2>4, <3>3 DEF IsSoundPartial
  <2> QED BY <2>2, <2>3, <2>4 DEF IsSoundPartial
<1> QED BY <1>3, <1>4

LEMMA StoredSound ==
  ASSUME RxTypes, PartialsSound, NEW d \in DataType,
         IsFragment(d.seq, d.idx, d.total, d.bytes)
  PROVE  \A s \in DOMAIN Stored(d) : IsSoundPartial(s, Stored(d)[s])
<1> DEFINE p == PartialFor(d)
<1>1. d.seq \in Streams /\ Total(d.seq) \in Nat \ {0} /\ d.total = Total(d.seq)
  BY TotalNat DEF DataType, IsFragment
<1>2. IsPartial(p) /\ IsSoundPartial(d.seq, p)
  <2>1. CASE d.seq \in DOMAIN pending
    <3>1. pending[d.seq].total # 0
      BY <1>1, <2>1 DEF PartialsSound, IsSoundPartial
    <3> QED BY <2>1, <3>1 DEF PartialFor, PartialsSound, RxTypes
  <2>2. CASE d.seq \notin DOMAIN pending
    <3>1. p = [total |-> d.total, received |-> 0, frags |-> [i \in 0 .. (d.total - 1) |-> {}]]
      BY <2>2 DEF PartialFor
    <3>2. p \in PartialOf(d.total)
      BY <3>1 DEF PartialOf, ChunkBytes
    <3>3. Present(p) = {}
      BY <3>1 DEF Present
    <3>4. Cardinality(Present(p)) = 0
      BY <3>3, FS_EmptySet
    <3> QED BY <1>1, <3>1, <3>2, <3>4 DEF IsPartial, IsSoundPartial, DataType
  <2> QED BY <2>1, <2>2
<1>3. IsSoundPartial(d.seq, Filled(p, d))
  BY <1>2, FilledSound
<1> QED BY <1>3 DEF Stored, PartialsSound

LEMMA DrainSound ==
  ASSUME NEW next \in 0 .. NumStreams, NEW pend, NEW queued,
         DOMAIN pend \subseteq Streams,
         \A s \in DOMAIN pend : IsPartial(pend[s]) /\ IsSoundPartial(s, pend[s]),
         \A m \in 0 .. (next - 1) : queued[m] = Payload(m),
         DrainPending(next, pend, queued)
  PROVE  PartialsSound' /\ DeliveredIntact'
<1>1. PICK n \in next .. NumStreams :
        /\ \A m \in next .. (n - 1) : Complete(pend, m)
        /\ nextRx' = n
        /\ chunks' = [m \in 0 .. (n - 1) |-> IF m < next THEN queued[m] ELSE pend[m].frags]
        /\ pending' = [m \in DOMAIN pend \ (next .. (n - 1)) |-> pend[m]]
  BY DEF DrainPending
<1>2. \A m \in next .. (n - 1) : pend[m].frags = Payload(m)
  BY <1>1, CompleteWhole DEF Complete
<1>3. DeliveredIntact'
  BY <1>1, <1>2, PipeAssumption DEF DeliveredIntact
<1>4. PartialsSound'
  BY <1>1 DEF PartialsSound, IsSoundPartial, Present
<1> QED BY <1>3, <1>4

\* The variables each part of PipeSound reads.
LEMMA SoundFrame ==
  /\ UNCHANGED <<spc, frag, localSeq>> /\ LoopSound => LoopSound'
  /\ dataWire' \subseteq dataWire /\ WireSound => WireSound'
  /\ UNCHANGED txBuf /\ BufferSound => BufferSound'
  /\ UNCHANGED <<pending, nextRx, chunks>> /\ PartialsSound /\ DeliveredIntact
       => PartialsSound' /\ DeliveredIntact'
BY DEF LoopSound, WireSound, BufferSound, PartialsSound, DeliveredIntact, Cur

LEMMA SendSound ==
  ASSUME FragsFit, TypeInv, PipeSound, Send \/ SendAgain \/ SendDie \/ Leave
  PROVE  WireSound' /\ BufferSound' /\ PartialsSound' /\ DeliveredIntact'
<1> USE DEF PipeSound
<1>1. CASE SendBegin \/ SendThrow \/ SendFinish \/ SendAgain \/ SendDie \/ Leave
  <2>1. UNCHANGED <<dataWire, txBuf, pending, nextRx, chunks>>
    BY <1>1 DEF SendBegin, SendThrow, SendFinish, SendAgain, SendDie, Leave, wireVars, rxVars
  <2> QED BY <2>1, SoundFrame
<1>2. ASSUME SendInsert \/ SendTo
      PROVE  /\ Cur \in Streams /\ frag \in Nat /\ frag < Total(Cur)
             /\ Idx16(frag) = frag /\ Total16(Cur) = Total(Cur)
  <2>1. Cur \in Streams /\ frag \in Nat /\ frag < Total(Cur)
    BY <1>2, CurStream DEF SendInsert, SendTo, LoopSound, TypeInv, TypeOK, SenderTypes
  <2> QED BY <2>1, FragmentFits
<1>3. CASE SendTo
  <2>1. \A d \in dataWire' : d \in dataWire
           \/ d = Datagram(Cur, frag, Total(Cur), Bytes(Cur, frag))
    BY <1>2, <1>3 DEF SendTo
  <2>2. WireSound'
    BY <1>2, <1>3, <2>1 DEF WireSound, IsFragment, Datagram
  <2>3. UNCHANGED <<txBuf, pending, nextRx, chunks>>
    BY <1>3 DEF SendTo, rxVars
  <2> QED BY <2>2, <2>3, SoundFrame
<1>4. CASE SendInsert
  <2>1. \A k \in DOMAIN txBuf' :
           \/ k \in DOMAIN txBuf /\ txBuf'[k] = txBuf[k]
           \/ /\ k = <<Cur, frag>>
              /\ txBuf'[k] = [total |-> Total(Cur), bytes |-> Bytes(Cur, frag), nacks |-> 0]
    BY <1>2, <1>4 DEF SendInsert
  <2>2. BufferSound'
    BY <1>2, <1>4, <2>1 DEF BufferSound, IsFragment
  <2>3. UNCHANGED <<dataWire, pending, nextRx, chunks>>
    BY <1>4 DEF SendInsert, rxVars, wireVars
  <2> QED BY <2>2, <2>3, SoundFrame
<1> QED BY <1>1, <1>3, <1>4 DEF Send

LEMMA NackSound ==
  ASSUME TypeInv, PipeSound, NEW n, HandleNack(n)
  PROVE  WireSound' /\ BufferSound' /\ PartialsSound' /\ DeliveredIntact'
<1> USE DEF PipeSound
<1>1. PartialsSound' /\ DeliveredIntact'
  BY SoundFrame DEF HandleNack, rxVars
<1>2. CASE NackIgnored(n) \/ NackEvicted(n)
  BY <1>1, <1>2, SoundFrame DEF NackIgnored, NackEvicted
<1>3. ASSUME n \in DOMAIN txBuf, CountNack(n) PROVE BufferSound'
  <2>1. DOMAIN txBuf' = DOMAIN txBuf
    BY <1>3 DEF CountNack
  <2>2. \A k \in DOMAIN txBuf : txBuf'[k].total = txBuf[k].total /\ txBuf'[k].bytes = txBuf[k].bytes
    BY <1>3 DEF CountNack, TypeInv, TypeOK, SenderTypes, TxRecordType
  <2> QED BY <2>1, <2>2 DEF BufferSound
<1>4. CASE NackAnswered(n)
  <2>1. \A d \in dataWire' : d \in dataWire
           \/ d = Datagram(n[1], n[2], txBuf[n].total, txBuf[n].bytes)
    BY <1>4 DEF NackAnswered
  <2>2. IsFragment(n[1], n[2], txBuf[n].total, txBuf[n].bytes)
    BY <1>4 DEF NackAnswered, BufferSound
  <2>3. WireSound'
    BY <2>1, <2>2 DEF WireSound, Datagram
  <2> QED BY <1>1, <1>3, <1>4, <2>3 DEF NackAnswered
<1>5. CASE NackOverCap(n)
  BY <1>1, <1>3, <1>5, SoundFrame DEF NackOverCap
<1> QED BY <1>2, <1>4, <1>5 DEF HandleNack

LEMMA WholeFragment ==
  ASSUME NEW d \in DataType, IsFragment(d.seq, d.idx, d.total, d.bytes), IsNextWhole(d)
  PROVE  d.idx = 0 /\ Total(nextRx) = 1 /\ d.bytes = Bytes(nextRx, 0)
<1>1. d.idx \in Nat
  BY PipeAssumption DEF DataType
<1>2. d.idx < Total(d.seq) /\ Total(d.seq) = 1 /\ d.seq = nextRx
  BY DEF IsFragment, IsNextWhole
<1>3. d.idx = 0
  BY <1>1, <1>2
<1> QED BY <1>2, <1>3 DEF IsFragment

LEMMA DataSound ==
  ASSUME TypeInv, PipeSound, NEW d, HandleData(d)
  PROVE  WireSound' /\ BufferSound' /\ PartialsSound' /\ DeliveredIntact'
<1> USE DEF PipeSound, TypeInv, TypeOK
<1>1. d \in DataType /\ IsFragment(d.seq, d.idx, d.total, d.bytes)
  BY DEF HandleData, TakeData, WireTypes, WireSound
<1>2. WireSound' /\ BufferSound'
  <2>1. dataWire' \subseteq dataWire /\ UNCHANGED txBuf
    BY DEF HandleData, TakeData, senderVars
  <2> QED BY <2>1, SoundFrame
<1>3. CASE UNCHANGED <<nextRx, pending, chunks>>
  BY <1>2, <1>3, SoundFrame
<1>4. CASE IsNextWhole(d) /\ DrainPending(nextRx + 1, pending, Queued(d))
  <2>1. nextRx \in Streams /\ nextRx + 1 \in 0 .. NumStreams
    BY <1>1, <1>4, PipeAssumption DEF IsNextWhole, DataType, Streams
  <2>2. d.idx = 0 /\ Total(nextRx) = 1 /\ d.bytes = Bytes(nextRx, 0)
    BY <1>1, <1>4, WholeFragment
  <2>3. [i \in 0 .. 0 |-> d.bytes] = Payload(nextRx)
    BY <2>2 DEF Payload
  <2>4. \A m \in 0 .. nextRx : Queued(d)[m] = Payload(m)
    BY <2>1, <2>3 DEF Queued, DeliveredIntact, RxTypes
  <2>5. \A m \in 0 .. ((nextRx + 1) - 1) : Queued(d)[m] = Payload(m)
    BY <2>1, <2>4, PipeAssumption DEF Streams
  <2>6. \A s \in DOMAIN pending : IsPartial(pending[s]) /\ IsSoundPartial(s, pending[s])
    BY DEF RxTypes, PartialsSound
  <2>7. DOMAIN pending \subseteq Streams
    BY DEF RxTypes
  <2> HIDE DEF PipeSound, TypeInv, TypeOK
  <2>8. PartialsSound' /\ DeliveredIntact'
    BY <1>4, <2>1, <2>5, <2>6, <2>7, DrainSound
  <2> QED BY <1>2, <2>8
<1>5. CASE DrainPending(nextRx, Stored(d), chunks)
  <2>1. \A s \in DOMAIN Stored(d) : IsPartial(Stored(d)[s]) /\ IsSoundPartial(s, Stored(d)[s])
    BY <1>1, StoredTypes, StoredSound
  <2>2. DOMAIN Stored(d) \subseteq Streams
    BY <1>1, StoredTypes
  <2> QED BY <1>2, <1>5, <2>1, <2>2, DrainSound DEF RxTypes, DeliveredIntact
<1> QED BY <1>3, <1>4, <1>5 DEF HandleData

LEMMA OtherSound ==
  ASSUME TypeInv, PipeSound,
         \/ HandlePoison \/ Recv \/ RecvThrow \/ Lose
         \/ \E elapsed \in SUBSET DOMAIN nackState : DrainNackState(elapsed)
  PROVE  WireSound' /\ BufferSound' /\ PartialsSound' /\ DeliveredIntact'
<1>1. dataWire' \subseteq dataWire /\ UNCHANGED <<txBuf, pending, nextRx, chunks>>
  BY DEF HandlePoison, Recv, RecvThrow, Lose, DrainNackState, senderVars, wireVars, rxVars
<1> QED BY <1>1, SoundFrame DEF PipeSound

(* The inductive invariant: every carrier of a fragment, the wire, the     *)
(* retransmit buffer and the reassembly slots, carries the right one.      *)
THEOREM Soundness == ASSUME FragsFit PROVE Spec => []PipeSound
<1>1. Init => PipeSound
  <2> SUFFICES ASSUME Init PROVE PipeSound
    OBVIOUS
  <2>1. spc = "idle" /\ dataWire = {} /\ DOMAIN txBuf = {} /\ DOMAIN pending = {} /\ nextRx = 0
    BY DEF Init
  <2> QED BY <2>1 DEF PipeSound, LoopSound, WireSound, BufferSound, PartialsSound, DeliveredIntact
<1>2. TypeInv /\ TypeInv' /\ PipeSound /\ [Next]_vars => PipeSound'
  <2> SUFFICES ASSUME TypeInv, TypeInv', PipeSound, [Next]_vars PROVE PipeSound'
    OBVIOUS
  <2>1. CASE UNCHANGED vars
    <3>1. UNCHANGED <<dataWire, txBuf, pending, nextRx, chunks>>
      BY <2>1 DEF vars, senderVars, wireVars, rxVars
    <3> QED BY <3>1, SoundFrame DEF PipeSound, TypeInv
  <2> QED
    BY <2>1, SendSound, NackSound, DataSound, OtherSound
    DEF Next, SenderPump, ReceiverPump, PipeSound, TypeInv
<1> QED BY <1>1, <1>2, TypeInvariance, PTL DEF Spec

(* Delivery is exact for every workload whose messages fit the 16-bit      *)
(* fragment fields (65535 fragments, 91 MB): whatever the wire loses,      *)
(* duplicates, delays or reorders, whenever send() stalls or dies, and     *)
(* however NACKs race it, what is queued for recv() is a prefix of what    *)
(* was sent, message by message.                                           *)
THEOREM IntactDelivery == ASSUME FragsFit PROVE Spec => []DeliveredIntact
<1>1. PipeSound => DeliveredIntact
  BY DEF PipeSound
<1> QED BY <1>1, Soundness, PTL

-----------------------------------------------------------------------------
(* Causality.                                                              *)

\* What is on the wire and in the retransmit buffer belongs to a stream that
\* send() has begun, and so does all the receiver knows of.
Begun ==
  /\ \A d \in dataWire : d.seq < localSeq
  /\ \A k \in DOMAIN txBuf : k[1] < localSeq
  /\ Causality

\* The variables Begun reads.
LEMMA BegunFrame ==
  ASSUME Begun, UNCHANGED <<localSeq, nextRx, maxSeen, anySeen>>,
         dataWire' \subseteq dataWire, DOMAIN txBuf' \subseteq DOMAIN txBuf,
         nackWire' \subseteq nackWire, DOMAIN pending' \subseteq DOMAIN pending,
         DOMAIN nackState' \subseteq DOMAIN nackState
  PROVE  Begun'
BY DEF Begun, Causality

LEMMA SendBegun ==
  ASSUME TypeInv, Begun, Send \/ SendAgain \/ SendDie \/ Leave PROVE Begun'
<1> USE DEF TypeInv, TypeOK
<1>1. CASE SendBegin
  <2>1. localSeq \in Nat /\ localSeq' = localSeq + 1 /\ UNCHANGED <<txBuf, wireVars, rxVars>>
    BY <1>1, PipeAssumption DEF SendBegin, SenderTypes
  <2>2. \A s \in Nat : s < localSeq => s < localSeq'
    BY <2>1
  <2>3. /\ Streams \subseteq Nat /\ nextRx \in Nat /\ maxSeen \in Nat
        /\ \A k \in Keys : k[1] \in Nat
        /\ \A d \in DataType : d.seq \in Nat
    BY PipeAssumption DEF Streams, RxTypes, Keys, DataType
  <2>4. /\ \A d \in dataWire' : d.seq < localSeq'
        /\ \A k \in DOMAIN txBuf' : k[1] < localSeq'
    BY <2>1, <2>2, <2>3 DEF Begun, wireVars, SenderTypes, WireTypes
  <2>5. Causality'
    BY <2>1, <2>2, <2>3 DEF Begun, Causality, wireVars, rxVars, WireTypes, RxTypes
  <2> QED BY <2>4, <2>5 DEF Begun
<1>2. CASE SendThrow \/ SendFinish \/ SendAgain \/ SendDie \/ Leave
  BY <1>2, BegunFrame DEF SendThrow, SendFinish, SendAgain, SendDie, Leave, wireVars, rxVars
<1>3. CASE SendInsert
  <2>1. Cur < localSeq /\ localSeq' = localSeq
    BY <1>3 DEF SendInsert, Cur, SenderTypes
  <2>2. \A k \in DOMAIN txBuf' : k \in DOMAIN txBuf \/ k[1] = Cur
    BY <1>3 DEF SendInsert
  <2>3. UNCHANGED <<wireVars, rxVars>>
    BY <1>3 DEF SendInsert
  <2> QED BY <2>1, <2>2, <2>3 DEF Begun, Causality, wireVars, rxVars
<1>4. CASE SendTo
  <2>1. Cur < localSeq /\ localSeq' = localSeq /\ UNCHANGED <<txBuf, nackWire, rxVars>>
    BY <1>4 DEF SendTo, Cur, SenderTypes
  <2>2. \A d \in dataWire' : d \in dataWire \/ d.seq = Cur
    BY <1>4 DEF SendTo, Datagram
  <2> QED BY <2>1, <2>2 DEF Begun, Causality, rxVars
<1> QED BY <1>1, <1>2, <1>3, <1>4 DEF Send

LEMMA NackBegun == ASSUME TypeInv, Begun, NEW n, HandleNack(n) PROVE Begun'
<1>1. UNCHANGED <<localSeq, rxVars>> /\ nackWire' \subseteq nackWire
  BY DEF HandleNack, TakeNack
<1>2. DOMAIN txBuf' = DOMAIN txBuf
  BY DEF HandleNack, NackIgnored, NackAnswered, NackOverCap, NackEvicted, CountNack
<1>3. \A d \in dataWire' : d \in dataWire \/ d.seq < localSeq
  <2>1. CASE NackAnswered(n)
    BY <2>1 DEF NackAnswered, Datagram, Begun
  <2> QED BY <2>1 DEF HandleNack, NackIgnored, NackOverCap, NackEvicted
<1> QED BY <1>1, <1>2, <1>3 DEF Begun, Causality, rxVars

\* Draining does not go past the last stream it has anything of.
LEMMA DrainBegun ==
  ASSUME NEW next \in 0 .. NumStreams, next <= localSeq, localSeq \in Nat,
         NEW pend, NEW queued,
         DOMAIN pend \subseteq Streams, \A s \in DOMAIN pend : s < localSeq,
         DrainPending(next, pend, queued)
  PROVE  nextRx' <= localSeq /\ \A s \in DOMAIN pending' : s < localSeq
<1>1. PICK n \in next .. NumStreams :
        /\ \A m \in next .. (n - 1) : Complete(pend, m)
        /\ nextRx' = n
        /\ pending' = [m \in DOMAIN pend \ (next .. (n - 1)) |-> pend[m]]
  BY DEF DrainPending
<1>2. n <= localSeq
  <2>1. CASE n = next
    BY <2>1
  <2>2. CASE n # next
    <3>1. n - 1 \in next .. (n - 1)
      BY <2>2, PipeAssumption
    <3>2. n - 1 < localSeq
      BY <1>1, <3>1 DEF Complete
    <3> QED BY <3>2, PipeAssumption
  <2> QED BY <2>1, <2>2
<1> QED BY <1>1, <1>2

LEMMA DataBegun == ASSUME TypeInv, Begun, NEW d, HandleData(d) PROVE Begun'
<1> USE DEF TypeInv, TypeOK
<1>1. d \in DataType /\ d.seq < localSeq /\ localSeq \in Nat
  BY DEF HandleData, TakeData, WireTypes, SenderTypes, Begun
<1>2. UNCHANGED <<localSeq, txBuf, nackWire>> /\ dataWire' \subseteq dataWire
  BY DEF HandleData, TakeData, senderVars
<1>3. maxSeen' < localSeq
  BY <1>1 DEF HandleData, Begun, Causality
<1>4. DOMAIN nackState' \subseteq DOMAIN nackState
  BY DEF HandleData
<1>5. nextRx' <= localSeq /\ \A s \in DOMAIN pending' : s < localSeq
  <2>1. CASE UNCHANGED <<nextRx, pending, chunks>>
    BY <2>1 DEF Begun, Causality
  <2>2. CASE IsNextWhole(d) /\ DrainPending(nextRx + 1, pending, Queued(d))
    <3>1. nextRx + 1 \in 0 .. NumStreams /\ nextRx + 1 <= localSeq
      BY <1>1, <2>2, PipeAssumption DEF IsNextWhole, DataType, Streams
    <3> QED BY <1>1, <2>2, <3>1, DrainBegun DEF RxTypes, Begun, Causality
  <2>3. CASE DrainPending(nextRx, Stored(d), chunks)
    <3>1. DOMAIN Stored(d) \subseteq Streams /\ \A s \in DOMAIN Stored(d) : s < localSeq
      BY <1>1 DEF Stored, RxTypes, DataType, Begun, Causality
    <3> QED BY <1>1, <2>3, <3>1, DrainBegun DEF RxTypes, Begun, Causality
  <2> QED BY <2>1, <2>2, <2>3 DEF HandleData
<1> QED BY <1>2, <1>3, <1>4, <1>5 DEF Begun, Causality

LEMMA DrainNackBegun ==
  ASSUME TypeInv, Begun, NEW elapsed, DrainNackState(elapsed) PROVE Begun'
<1> USE DEF TypeInv, TypeOK
<1>1. UNCHANGED <<localSeq, txBuf, dataWire, nextRx, maxSeen, anySeen, pending>>
  BY DEF DrainNackState, senderVars
<1>2. \A e \in Missing : e[1] < localSeq
  BY PipeAssumption DEF Missing, Begun, Causality, RxTypes, SenderTypes, Streams
<1>3. /\ DOMAIN nackState' \subseteq DOMAIN nackState \cup Missing
      /\ nackWire' \subseteq nackWire \cup DOMAIN nackState \cup Missing
  BY DEF DrainNackState, NackDue, NackGiveUp
<1> QED BY <1>1, <1>2, <1>3 DEF Begun, Causality

LEMMA OtherBegun ==
  ASSUME Begun, HandlePoison \/ Recv \/ RecvThrow \/ Lose \/ UNCHANGED vars PROVE Begun'
BY BegunFrame DEF HandlePoison, Recv, RecvThrow, Lose, vars, senderVars, wireVars, rxVars

LEMMA BegunInvariance == Spec => []Begun
<1>1. Init => Begun
  <2> SUFFICES ASSUME Init PROVE Begun
    OBVIOUS
  <2>1. /\ dataWire = {} /\ DOMAIN txBuf = {} /\ DOMAIN pending = {} /\ DOMAIN nackState = {}
        /\ nackWire = {} /\ nextRx = 0 /\ localSeq = 0 /\ ~anySeen
    BY DEF Init
  <2> QED BY <2>1 DEF Begun, Causality
<1>2. TypeInv /\ Begun /\ [Next]_vars => Begun'
  BY SendBegun, NackBegun, DataBegun, DrainNackBegun, OtherBegun
  DEF Next, SenderPump, ReceiverPump
<1> QED BY <1>1, <1>2, TypeInvariance, PTL DEF Spec

(* Nothing the receiver holds, asks for or has delivered is of a stream    *)
(* that the sender has not begun: no NACK and no gap is made up.           *)
THEOREM CausalityHolds == Spec => []Causality
<1>1. Begun => Causality
  BY DEF Begun
<1> QED BY <1>1, BegunInvariance, PTL

-----------------------------------------------------------------------------
(* What has arrived is kept, for messages that fit the fragment fields.    *)
(* The slot of an empty one stays free; its Partial counts the copies.     *)

Holds(pend, e) ==
  /\ e[1] \in DOMAIN pend
  /\ IF Units[e[1]] = 0 THEN pend[e[1]].received >= 1 ELSE pend[e[1]].frags[e[2]] # {}

Held(e) == Holds(pending, e)

\* What has arrived or is asked for is a fragment that its message has.
Named == \A e \in arrived \cup nackWire \cup DOMAIN nackState : e[2] < Total(e[1])

\* A fragment that has arrived is waiting in its Partial or delivered, and the
\* next stream is never complete between two steps.
Receipt ==
  /\ \A e \in arrived : e[1] < nextRx \/ Held(e)
  /\ ~Complete(pending, nextRx)

\* A gap names a fragment of its message.
LEMMA MissingNames ==
  ASSUME TypeInv, PipeSound, NEW e \in Missing PROVE e \in Keys /\ e[2] < Total(e[1])
<1> USE DEF TypeInv, TypeOK, PipeSound
<1>1. e \in Keys
  BY MissingKeys
<1>2. PICK s \in nextRx .. maxSeen : \E i \in Holes(s) : e = <<s, i>>
  BY DEF Missing
<1>3. s \in Streams /\ Total(s) \in Nat \ {0}
  BY <1>1, <1>2, TotalNat DEF Keys
<1>4. \A i \in Holes(s) : i < Total(s)
  BY <1>3 DEF Holes, PartialsSound, IsSoundPartial
<1> QED BY <1>1, <1>2, <1>4

LEMMA NamedStep == ASSUME TypeInv, PipeSound, Named, [Next]_vars PROVE Named'
<1>1. ASSUME UNCHANGED <<arrived, nackState>>, nackWire' \subseteq nackWire PROVE Named'
  BY <1>1 DEF Named
<1>2. CASE Send \/ SendAgain \/ SendDie \/ Leave \/ (\E n : HandleNack(n))
           \/ HandlePoison \/ Recv \/ RecvThrow \/ Lose \/ UNCHANGED vars
  <2>1. UNCHANGED rxVars /\ nackWire' \subseteq nackWire
    BY <1>2 DEF Send, SendBegin, SendThrow, SendInsert, SendTo, SendFinish, SendAgain, SendDie, Leave,
           HandleNack, TakeNack, HandlePoison, Recv, RecvThrow, Lose, vars, wireVars
  <2> QED BY <1>1, <2>1 DEF rxVars
<1>3. ASSUME NEW d, HandleData(d) PROVE Named'
  <2>1. d.idx < Total(d.seq)
    BY <1>3 DEF HandleData, TakeData, PipeSound, WireSound, IsFragment
  <2>2. /\ arrived' = arrived \cup {<<d.seq, d.idx>>} /\ UNCHANGED nackWire
        /\ DOMAIN nackState' \subseteq DOMAIN nackState
    BY <1>3 DEF HandleData
  <2> QED BY <2>1, <2>2 DEF Named
<1>4. ASSUME NEW elapsed, DrainNackState(elapsed) PROVE Named'
  <2>1. /\ DOMAIN nackState' \subseteq DOMAIN nackState \cup Missing
        /\ nackWire' \subseteq nackWire \cup DOMAIN nackState \cup Missing
        /\ UNCHANGED arrived
    BY <1>4 DEF DrainNackState, NackDue, NackGiveUp
  <2>2. \A e \in Missing : e[2] < Total(e[1])
    BY MissingNames
  <2> QED BY <2>1, <2>2 DEF Named
<1> QED BY <1>2, <1>3, <1>4 DEF Next, SenderPump, ReceiverPump

LEMMA NamedInvariance == ASSUME FragsFit PROVE Spec => []Named
<1>1. Init => Named
  <2> SUFFICES ASSUME Init PROVE Named
    OBVIOUS
  <2>1. DOMAIN nackState = {} /\ nackWire = {} /\ arrived = {}
    BY DEF Init
  <2> QED BY <2>1 DEF Named
<1>2. TypeInv /\ PipeSound /\ Named /\ [Next]_vars => Named'
  BY NamedStep
<1> QED BY <1>1, <1>2, TypeInvariance, Soundness, PTL DEF Spec

\* The variables Receipt reads.
LEMMA ReceiptFrame ==
  ASSUME Receipt, UNCHANGED <<nextRx, pending, arrived>> PROVE Receipt'
BY DEF Receipt, Held, Holds, Complete

\* Storing a fragment fills its slot, or counts it, and empties none.
LEMMA StoredHolds ==
  ASSUME TypeInv, PipeSound,
         NEW d \in DataType, IsFragment(d.seq, d.idx, d.total, d.bytes)
  PROVE  /\ Holds(Stored(d), <<d.seq, d.idx>>)
         /\ \A e \in Keys : e[2] < Total(e[1]) /\ Held(e) => Holds(Stored(d), e)
<1> USE DEF TypeInv, TypeOK, PipeSound
<1> DEFINE p == PartialFor(d)
           q == Filled(p, d)
<1>1. d.seq \in Streams /\ d.idx \in 0 .. (d.total - 1) /\ d.total = Total(d.seq) /\ d.total # 0
  BY TotalNat, PipeAssumption DEF DataType, IsFragment
<1>2. IF Units[d.seq] = 0 THEN d.bytes = {} ELSE d.bytes # {}
  BY <1>1 DEF IsFragment, Bytes
<1>3. /\ p.total = d.total /\ DOMAIN p.frags = 0 .. (d.total - 1) /\ p.frags = [i \in DOMAIN p.frags |-> p.frags[i]]
      /\ DOMAIN p = {"total", "received", "frags"} /\ p.received \in Nat
      /\ d.seq \in DOMAIN pending => p = pending[d.seq]
      /\ \A i \in 0 .. (d.total - 1) : p.frags[i] = {} \/ p.frags[i] = Bytes(d.seq, i)
  <2>1. CASE d.seq \in DOMAIN pending
    <3>1. IsSoundPartial(d.seq, pending[d.seq]) /\ IsPartial(pending[d.seq])
      BY <2>1 DEF PartialsSound, RxTypes
    <3>2. p = pending[d.seq]
      BY <1>1, <2>1, <3>1 DEF PartialFor, IsSoundPartial
    <3> QED BY <1>1, <3>1, <3>2 DEF IsPartial, PartialOf, IsSoundPartial
  <2>2. CASE d.seq \notin DOMAIN pending
    <3>1. p = [total |-> d.total, received |-> 0, frags |-> [i \in 0 .. (d.total - 1) |-> {}]]
      BY <2>2 DEF PartialFor
    <3> HIDE DEF p
    <3> QED BY <2>2, <3>1
  <2> QED BY <2>1, <2>2
<1> HIDE DEF p
<1>4. /\ q.received \in Nat /\ q.received >= p.received
      /\ IF Units[d.seq] = 0 THEN q.received >= 1 ELSE q.frags[d.idx] # {}
      /\ \A i \in 0 .. (d.total - 1) : p.frags[i] # {} => q.frags[i] # {}
  <2>1. CASE p.frags[d.idx] = {}
    <3>1. q.frags = [p.frags EXCEPT ![d.idx] = d.bytes] /\ q.received = p.received + 1
      BY <1>1, <1>3, <2>1, PipeAssumption DEF Filled, DataType
    <3> HIDE DEF q
    <3>2. q.received \in Nat /\ q.received >= p.received /\ q.received >= 1
      BY <1>3, <3>1
    <3>3. q.frags[d.idx] = d.bytes /\ \A i \in 0 .. (d.total - 1) : i # d.idx => q.frags[i] = p.frags[i]
      BY <1>1, <1>3, <3>1
    <3> QED BY <1>2, <2>1, <3>2, <3>3
  <2>2. CASE p.frags[d.idx] # {}
    <3>1. q = p
      BY <2>2 DEF Filled
    <3>2. Units[d.seq] # 0
      BY <1>1, <1>3, <2>2 DEF Bytes
    <3> QED BY <1>3, <2>2, <3>1, <3>2
  <2> QED BY <2>1, <2>2
<1>5. /\ DOMAIN Stored(d) = DOMAIN pending \cup {d.seq}
      /\ Stored(d)[d.seq] = q
      /\ \A s \in DOMAIN pending : s # d.seq => Stored(d)[s] = pending[s]
  BY DEF Stored, p
<1> HIDE DEF q
<1>6. ASSUME NEW e \in Keys, e[2] < Total(e[1]), Held(e)
      PROVE  Holds(Stored(d), e)
  <2>1. CASE e[1] = d.seq
    <3>1. e[2] \in 0 .. (d.total - 1)
      BY <1>1, <1>6, <2>1, PipeAssumption DEF Keys, DataType
    <3> QED BY <1>3, <1>4, <1>5, <1>6, <2>1, <3>1 DEF Held, Holds
  <2>2. CASE e[1] # d.seq
    BY <1>5, <1>6, <2>2 DEF Held, Holds
  <2> QED BY <2>1, <2>2
<1>7. Holds(Stored(d), <<d.seq, d.idx>>)
  BY <1>4, <1>5 DEF Holds
<1> QED BY <1>6, <1>7

\* Draining loses nothing: what it takes out of pending is delivered.
LEMMA DrainHolds ==
  ASSUME NEW next \in Nat, NEW pend, NEW queued, DrainPending(next, pend, queued),
         NEW e, e[1] \in Nat,
         e[1] < next \/ Holds(pend, e)
  PROVE  e[1] < nextRx' \/ Held(e)'
BY PipeAssumption DEF DrainPending, Held, Holds

LEMMA DrainIncomplete ==
  ASSUME NEW next, NEW pend, NEW queued, DrainPending(next, pend, queued)
  PROVE  ~Complete(pending', nextRx')
BY DEF DrainPending, Complete

LEMMA DataReceipt ==
  ASSUME TypeInv, PipeSound, Named, Receipt, NEW d, HandleData(d) PROVE Receipt'
<1> USE DEF TypeInv, TypeOK, PipeSound
<1>1. d \in DataType /\ IsFragment(d.seq, d.idx, d.total, d.bytes)
  BY DEF HandleData, TakeData, WireTypes, WireSound
<1>2. arrived' = arrived \cup {<<d.seq, d.idx>>}
  BY DEF HandleData
<1>3. d.seq \in Nat /\ nextRx \in Nat /\ \A e \in Keys : e[1] \in Nat
  BY <1>1, PipeAssumption DEF DataType, Streams, RxTypes, Keys
<1>4. /\ arrived \subseteq Keys
      /\ \A e \in arrived : e[2] < Total(e[1]) /\ (e[1] < nextRx \/ Held(e))
  BY DEF RxTypes, Named, Receipt
<1>5. /\ \A e \in arrived' : e[1] < nextRx' \/ Held(e)'
      /\ ~Complete(pending', nextRx')
  <2>1. CASE d.seq < nextRx /\ UNCHANGED <<nextRx, pending, chunks>>
    BY <1>2, <2>1 DEF Receipt, Held, Holds, Complete
  <2>2. CASE IsNextWhole(d) /\ DrainPending(nextRx + 1, pending, Queued(d))
    <3>1. \A e \in arrived' :
            e[1] \in Nat /\ (e[1] < nextRx + 1 \/ Holds(pending, e))
      BY <1>2, <1>3, <1>4, <2>2 DEF IsNextWhole, Held
    <3> QED BY <1>3, <2>2, <3>1, DrainHolds, DrainIncomplete
  <2>3. CASE DrainPending(nextRx, Stored(d), chunks)
    <3>1. \A e \in arrived' :
            e[1] \in Nat /\ (e[1] < nextRx \/ Holds(Stored(d), e))
      <4>1. /\ Holds(Stored(d), <<d.seq, d.idx>>)
            /\ \A e \in Keys : e[2] < Total(e[1]) /\ Held(e) => Holds(Stored(d), e)
        BY <1>1, StoredHolds
      <4> QED BY <1>2, <1>3, <1>4, <4>1
    <3> QED BY <1>3, <2>3, <3>1, DrainHolds, DrainIncomplete
  <2> QED BY <2>1, <2>2, <2>3 DEF HandleData
<1> QED BY <1>5 DEF Receipt, Complete

LEMMA OtherReceipt ==
  ASSUME Receipt,
         \/ Send \/ SendAgain \/ SendDie \/ Leave
         \/ (\E n : HandleNack(n)) \/ (\E elapsed : DrainNackState(elapsed))
         \/ HandlePoison \/ Recv \/ RecvThrow \/ Lose \/ UNCHANGED vars
  PROVE  Receipt'
<1>1. UNCHANGED <<nextRx, pending, arrived>>
  BY DEF Send, SendBegin, SendThrow, SendInsert, SendTo, SendFinish, SendAgain, SendDie, Leave,
         HandleNack, DrainNackState, HandlePoison, Recv, RecvThrow, Lose, vars, rxVars
<1> QED BY <1>1, ReceiptFrame

LEMMA ReceiptInvariance == ASSUME FragsFit PROVE Spec => []Receipt
<1>1. Init => Receipt
  <2> SUFFICES ASSUME Init PROVE Receipt
    OBVIOUS
  <2>1. DOMAIN pending = {} /\ arrived = {}
    BY DEF Init
  <2> QED BY <2>1 DEF Receipt, Complete
<1>2. TypeInv /\ PipeSound /\ Named /\ Receipt /\ [Next]_vars => Receipt'
  BY DataReceipt, OtherReceipt DEF Next, SenderPump, ReceiverPump
<1> QED BY <1>1, <1>2, TypeInvariance, Soundness, NamedInvariance, PTL DEF Spec

(* When every fragment of the next message has arrived, the message has    *)
(* been delivered: whatever the order of arrival, handle_data_ and         *)
(* drain_pending_locked_ leave no whole message in pending, but for an     *)
(* empty one that was counted twice while it waited.                       *)
THEOREM NoMessageStuck == ASSUME FragsFit PROVE Spec => []NoStall
<1>1. TypeInv /\ PipeSound /\ Receipt => NoStall
  <2> SUFFICES ASSUME TypeInv, PipeSound, Receipt, nextRx \in Streams,
                      \A i \in 0 .. (Total(nextRx) - 1) : <<nextRx, i>> \in arrived
               PROVE  HeldBlank(nextRx) /\ pending[nextRx].received > 1
    BY DEF NoStall
  <2> DEFINE p == pending[nextRx]
             all == 0 .. (Total(nextRx) - 1)
  <2>1. Total(nextRx) \in Nat \ {0}
    BY TotalNat
  <2>2. \A i \in all : Held(<<nextRx, i>>)
    BY DEF Receipt, Streams
  <2>3. nextRx \in DOMAIN pending
    BY <2>1, <2>2 DEF Held, Holds
  <2>4. p.total = Total(nextRx) /\ p.received \in Nat
    BY <2>3 DEF PipeSound, PartialsSound, IsSoundPartial, TypeInv, TypeOK, RxTypes, IsPartial, PartialOf
  <2>5. ASSUME Units[nextRx] # 0 PROVE FALSE
    <3>1. \A i \in all : p.frags[i] # {}
      BY <2>2, <2>5 DEF Held, Holds
    <3>2. p.received = Cardinality(Present(p))
      BY <2>3, <2>5 DEF PipeSound, PartialsSound, IsSoundPartial
    <3>3. Present(p) = all
      BY <2>4, <3>1 DEF Present
    <3>4. Cardinality(all) = Total(nextRx)
      BY <2>1, FS_Interval
    <3> QED BY <2>3, <2>4, <3>2, <3>3, <3>4 DEF Receipt, Complete
  <2>6. ASSUME Units[nextRx] = 0 PROVE p.received > 1
    <3>1. p.received >= 1
      BY <2>1, <2>2, <2>6 DEF Held, Holds
    <3>2. p.total = 1 /\ p.received # p.total
      BY <2>3, <2>4, <2>6 DEF Total, Receipt, Complete
    <3> QED BY <2>4, <3>1, <3>2
  <2> QED BY <2>3, <2>5, <2>6 DEF HeldBlank, Streams
<1> QED BY <1>1, TypeInvariance, Soundness, ReceiptInvariance, PTL

(* drain_nack_state_ asks for nothing that has arrived, however late the   *)
(* entry of its table and whatever has filled the gap in between, but for  *)
(* an empty message that waits behind a gap.                               *)
THEOREM NacksOnlyLost == ASSUME FragsFit PROVE Spec => NackOnlyForLost
<1>1. TypeInv /\ PipeSound /\ Named /\ Receipt /\ [Next]_vars
        => [\A n \in nackWire' \ nackWire : n \notin arrived \/ HeldBlank(n[1])]_vars
  <2> SUFFICES ASSUME TypeInv, PipeSound, Named, Receipt, Next, NEW n \in nackWire' \ nackWire,
                      n \in arrived
               PROVE  HeldBlank(n[1])
    OBVIOUS
  <2>1. PICK elapsed : DrainNackState(elapsed)
    BY DEF Next, Send, SendBegin, SendThrow, SendInsert, SendTo, SendFinish, SendAgain, SendDie,
           Leave, SenderPump, ReceiverPump, HandleNack, TakeNack, HandleData, HandlePoison,
           Recv, RecvThrow, Lose, wireVars
  <2>2. n \in DOMAIN nackState \cup Missing /\ ~Satisfied(n)
    BY <2>1 DEF DrainNackState, NackDue, NackGiveUp
  <2>3. n[2] < Total(n[1])
    BY <2>2, MissingNames DEF Named
  <2>4. Held(n) /\ ~(n[1] < nextRx)
    BY <2>2 DEF Receipt, Satisfied
  <2>5. n[1] \in DOMAIN pending /\ pending[n[1]].total = Total(n[1])
    BY <2>4 DEF Held, Holds, PipeSound, PartialsSound, IsSoundPartial
  <2>6. Units[n[1]] = 0
    BY <2>2, <2>3, <2>4, <2>5 DEF Satisfied, Held, Holds
  <2>7. n[1] \in Nat /\ nextRx \in Nat
    BY <2>5, PipeAssumption DEF TypeInv, TypeOK, RxTypes, Streams
  <2> QED BY <2>4, <2>5, <2>6, <2>7 DEF HeldBlank
<1> QED BY <1>1, TypeInvariance, Soundness, NamedInvariance, ReceiptInvariance, PTL
        DEF Spec, NackOnlyForLost

-----------------------------------------------------------------------------
(* The retransmit window, when no round of send()'s loop is repeated (a     *)
(* repeated first round would put its stream into tx_buf_order twice).     *)

\* How many streams have had their first fragment buffered.
Inserted == IF spc = "insert" /\ frag = 0 THEN localSeq - 1 ELSE localSeq

\* send() has put fragment i of stream s into tx_buf.
Loaded(s, i) ==
  \/ s \notin inFlight
  \/ s = Cur /\ spc = "insert" /\ i < frag
  \/ s = Cur /\ spc = "sendto" /\ i <= frag
  \/ s = Cur /\ spc = "finish"

\* tx_buf_order is the newest streams, oldest first.
OrderNewest ==
  /\ Len(txOrder) <= TxBufCap
  /\ Len(txOrder) = Inserted \/ (Len(txOrder) = TxBufCap /\ TxBufCap <= Inserted)
  /\ \A j \in 1 .. Len(txOrder) : txOrder[j] = Inserted - Len(txOrder) + j - 1

\* tx_buf holds what send() has put in of the streams in tx_buf_order.
BufferFull ==
  \A s \in Streams : \A i \in 0 .. (Total(s) - 1) :
    s < Inserted /\ s + Len(txOrder) >= Inserted /\ Loaded(s, i)
      => <<s, i>> \in DOMAIN txBuf

Window ==
  /\ spc \in {"insert", "sendto", "finish"} => Cur \in inFlight
  /\ OrderNewest
  /\ BufferFull

\* The variables Window reads.
LEMMA WindowFrame ==
  ASSUME Window, UNCHANGED <<spc, frag, localSeq, txOrder, inFlight>>,
         DOMAIN txBuf' = DOMAIN txBuf
  PROVE  Window'
BY DEF Window, OrderNewest, BufferFull, Inserted, Loaded, Cur

\* Buffering a first fragment: the queue grows by one or drops its oldest.
LEMMA OrderGrows ==
  ASSUME TypeInv, OrderNewest, SendInsert, frag = 0
  PROVE  /\ OrderNewest'
         /\ Len(txOrder') <= TxBufCap
         /\ \A s \in Evicted(OrderWith(Cur, frag)) : s + Len(txOrder') < localSeq
<1> USE DEF TypeInv, TypeOK
<1> DEFINE order == OrderWith(Cur, frag)
<1>1. Cur \in Streams /\ localSeq \in Nat /\ txOrder \in Seq(Streams) /\ TxBufCap \in Nat \ {0}
      /\ Cur = localSeq - 1 /\ localSeq' = localSeq /\ Inserted = localSeq - 1 /\ Inserted' = localSeq
  BY CurStream, PipeAssumption DEF SendInsert, SenderTypes, Inserted, Cur
<1>2. order \in Seq(Streams) /\ Len(order) = Len(txOrder) + 1 /\ Len(txOrder) \in Nat
      /\ \A j \in 1 .. Len(order) : order[j] = localSeq - Len(order) + j - 1
  <2>1. order = Append(txOrder, Cur)
    BY DEF OrderWith
  <2> HIDE DEF order
  <2>2. /\ order \in Seq(Streams) /\ Len(order) = Len(txOrder) + 1 /\ Len(txOrder) \in Nat
        /\ \A j \in 1 .. Len(txOrder) : order[j] = txOrder[j]
        /\ order[Len(txOrder) + 1] = Cur
    BY <1>1, <2>1
  <2>3. ASSUME NEW j \in 1 .. Len(order) PROVE order[j] = localSeq - Len(order) + j - 1
    <3>1. CASE j = Len(txOrder) + 1
      BY <1>1, <2>2, <3>1
    <3>2. CASE j \in 1 .. Len(txOrder)
      <4>1. txOrder[j] = (localSeq - 1) - Len(txOrder) + j - 1
        BY <1>1, <3>2 DEF OrderNewest
      <4> QED BY <1>1, <2>2, <3>2, <4>1
    <3> QED BY <2>2, <3>1, <3>2
  <2> QED BY <2>2, <2>3
<1>3. txOrder' = SubSeq(order, Overflow(order) + 1, Len(order))
  BY DEF SendInsert
<1> HIDE DEF order
<1>4. CASE Len(txOrder) < TxBufCap
  <2>1. Overflow(order) = 0
    BY <1>1, <1>2, <1>4 DEF Overflow
  <2>2. Len(txOrder') = Len(order) /\ \A j \in 1 .. Len(order) : txOrder'[j] = order[j]
    BY <1>2, <1>3, <2>1
  <2>3. Evicted(order) = {}
    BY <2>1 DEF Evicted
  <2>4. OrderNewest'
    BY <1>1, <1>2, <1>4, <2>2 DEF OrderNewest
  <2> QED BY <2>3, <2>4 DEF OrderNewest, order
<1>5. CASE Len(txOrder) = TxBufCap
  <2>1. Overflow(order) = 1
    BY <1>1, <1>2, <1>5 DEF Overflow
  <2>2. Len(txOrder') = TxBufCap /\ \A j \in 1 .. TxBufCap : txOrder'[j] = order[j + 1]
    BY <1>1, <1>2, <1>3, <1>5, <2>1
  <2>3. \A s \in Evicted(order) : s = localSeq - TxBufCap - 1
    BY <1>1, <1>2, <1>5, <2>1 DEF Evicted
  <2>4. \A j \in 1 .. TxBufCap : order[j + 1] = localSeq - TxBufCap + j - 1
    BY <1>1, <1>2, <1>5
  <2>5. TxBufCap <= localSeq - 1
    BY <1>1, <1>5 DEF OrderNewest
  <2>6. OrderNewest'
    <3>1. /\ Len(txOrder') = TxBufCap /\ TxBufCap <= Inserted'
          /\ \A j \in 1 .. TxBufCap : txOrder'[j] = Inserted' - TxBufCap + j - 1
      BY <1>1, <2>2, <2>4, <2>5
    <3> QED BY <1>1, <3>1 DEF OrderNewest
  <2>7. \A s \in Evicted(order) : s + Len(txOrder') < localSeq
    BY <1>1, <2>2, <2>3
  <2> QED BY <1>1, <2>2, <2>6, <2>7 DEF order
<1> QED BY <1>1, <1>2, <1>4, <1>5 DEF OrderNewest

LEMMA InsertWindow == ASSUME FragsFit, TypeInv, Window, SendInsert PROVE Window'
<1> USE DEF TypeInv, TypeOK
<1>1. Cur \in Streams /\ frag \in Nat /\ frag < Total(Cur) /\ Idx16(frag) = frag
  BY CurStream, FragmentFits DEF SendInsert, LoopSound, SenderTypes
<1>2. localSeq \in Nat /\ localSeq' = localSeq /\ inFlight' = inFlight /\ frag' = frag
      /\ spc = "insert" /\ spc' = "sendto" /\ Cur' = Cur /\ Cur = localSeq - 1 /\ Cur \in inFlight
      /\ Inserted' = localSeq
  BY PipeAssumption DEF SendInsert, Cur, SenderTypes, Window, Inserted
<1> DEFINE order == OrderWith(Cur, frag)
<1>3. /\ OrderNewest'
      /\ Len(txOrder') \in Nat
      /\ \A s \in Evicted(order) : s + Len(txOrder') < localSeq
      /\ \A s \in Streams : s < localSeq /\ s # Cur /\ s + Len(txOrder') >= localSeq
           => s < Inserted /\ s + Len(txOrder) >= Inserted
      /\ frag # 0 => Inserted = localSeq /\ Len(txOrder') = Len(txOrder)
  <2>1. CASE frag = 0
    <3>1. OrderNewest' /\ \A s \in Evicted(order) : s + Len(txOrder') < localSeq
      BY <2>1, OrderGrows DEF Window
    <3>2. Inserted = localSeq - 1
      BY <1>2, <2>1 DEF Inserted
    <3>3. txOrder \in Seq(Streams) /\ txOrder' \in Seq(Streams)
      BY InsertTypes DEF SenderTypes
    <3>4. Len(txOrder') <= Len(txOrder) + 1
      BY <1>2, <3>1, <3>2, <3>3, PipeAssumption DEF OrderNewest, Window
    <3> QED BY <1>2, <2>1, <3>1, <3>2, <3>3, <3>4, PipeAssumption DEF Streams
  <2>2. CASE frag # 0
    <3>1. order = txOrder /\ txOrder \in Seq(Streams) /\ Len(txOrder) <= TxBufCap
      BY <2>2 DEF OrderWith, SenderTypes, Window, OrderNewest
    <3>2. Overflow(order) = 0 /\ Evicted(order) = {}
      BY <3>1, PipeAssumption DEF Overflow, Evicted
    <3>3. txOrder' = txOrder
      BY <3>1, <3>2 DEF SendInsert
    <3>4. Inserted = localSeq
      BY <1>2, <2>2 DEF Inserted
    <3>5. OrderNewest'
      BY <1>2, <3>3, <3>4 DEF Window, OrderNewest
    <3> QED BY <1>2, <3>1, <3>2, <3>3, <3>4, <3>5
  <2> QED BY <2>1, <2>2
<1>4. DOMAIN txBuf' = {k \in DOMAIN txBuf \cup {<<Cur, frag>>} : k[1] \notin Evicted(order)}
  BY <1>1 DEF SendInsert
<1>5. ASSUME NEW s \in Streams, NEW i \in 0 .. (Total(s) - 1),
             s < localSeq, s + Len(txOrder') >= localSeq, Loaded(s, i)'
      PROVE  <<s, i>> \in DOMAIN txBuf'
  <2>1. s \notin Evicted(order)
    BY <1>2, <1>3, <1>5, PipeAssumption DEF Streams
  <2>2. i \in Nat
    BY <1>5
  <2>3. CASE s # Cur
    <3>1. Loaded(s, i)
      BY <1>2, <1>5, <2>3 DEF Loaded
    <3>2. <<s, i>> \in DOMAIN txBuf
      BY <1>3, <1>5, <2>3, <3>1 DEF Window, BufferFull
    <3> QED BY <1>4, <2>1, <3>2
  <2>4. CASE s = Cur /\ i = frag
    BY <1>4, <2>1, <2>4
  <2>5. CASE s = Cur /\ i # frag
    <3>1. i < frag
      BY <1>1, <1>2, <1>5, <2>2, <2>5 DEF Loaded
    <3>2. Loaded(s, i) /\ Inserted = localSeq /\ Len(txOrder') = Len(txOrder)
      BY <1>1, <1>2, <1>3, <2>2, <2>5, <3>1 DEF Loaded
    <3>3. <<s, i>> \in DOMAIN txBuf
      BY <1>5, <3>2 DEF Window, BufferFull
    <3> QED BY <1>4, <2>1, <3>3
  <2> QED BY <2>3, <2>4, <2>5
<1> QED BY <1>2, <1>3, <1>5 DEF Window, BufferFull

LEMMA SendWindow ==
  ASSUME FragsFit, "again" \notin Faults, TypeInv, Window, Send \/ SendAgain \/ SendDie \/ Leave
  PROVE  Window'
<1> USE DEF TypeInv, TypeOK
<1>1. CASE SendInsert
  BY <1>1, InsertWindow
<1>2. ASSUME UNCHANGED <<txOrder, txBuf>>, Inserted' = Inserted,
             spc' \in {"insert", "sendto", "finish"} => Cur' \in inFlight',
             \A s \in Streams : \A i \in 0 .. (Total(s) - 1) :
               s < Inserted /\ Loaded(s, i)' => Loaded(s, i)
      PROVE  Window'
  BY <1>2 DEF Window, OrderNewest, BufferFull
<1>3. CASE SendBegin
  <2>1. localSeq \in Nat /\ spc = "idle" /\ spc' = "insert" /\ frag' = 0 /\ localSeq' = localSeq + 1
        /\ inFlight' = inFlight \cup {localSeq} /\ UNCHANGED <<txOrder, txBuf>>
    BY <1>3, PipeAssumption DEF SendBegin, SenderTypes
  <2>2. Inserted' = Inserted /\ Inserted = localSeq /\ Cur' = localSeq
    BY <2>1 DEF Inserted, Cur
  <2>3. \A s \in Streams : \A i : s < Inserted /\ Loaded(s, i)' => Loaded(s, i)
    BY <2>1, <2>2, PipeAssumption DEF Loaded, Streams
  <2> QED BY <1>2, <2>1, <2>2, <2>3
<1>4. CASE SendTo
  <2>1. /\ Cur \in Streams /\ frag \in Nat /\ localSeq \in Nat /\ spc = "sendto" /\ frag' = frag + 1
        /\ spc' = IF frag + 1 < Total(Cur) THEN "insert" ELSE "finish"
        /\ UNCHANGED <<localSeq, inFlight, txOrder, txBuf>>
    BY <1>4, CurStream, PipeAssumption DEF SendTo, SenderTypes
  <2>2. Inserted' = Inserted /\ Cur' = Cur /\ Cur \in inFlight
    BY <2>1 DEF Inserted, Cur, Window
  <2>3. ASSUME NEW s \in Streams, NEW i \in 0 .. (Total(s) - 1), Loaded(s, i)' PROVE Loaded(s, i)
    <3>1. i \in Nat /\ i < Total(s) /\ Total(s) \in Nat
      BY TotalNat
    <3>2. CASE s \notin inFlight
      BY <3>2 DEF Loaded
    <3>3. CASE s = Cur
      <4>1. i < frag + 1
        BY <2>1, <2>2, <2>3, <3>1, <3>3 DEF Loaded
      <4> QED BY <2>1, <3>1, <3>3, <4>1 DEF Loaded
    <3> QED BY <2>1, <2>2, <2>3, <3>2, <3>3 DEF Loaded
  <2> QED BY <1>2, <2>1, <2>2, <2>3
<1>5. CASE SendFinish
  <2>1. spc = "finish" /\ spc' = "idle" /\ inFlight' = inFlight \ {Cur}
        /\ UNCHANGED <<frag, localSeq, txOrder, txBuf>>
    BY <1>5 DEF SendFinish
  <2>2. Inserted' = Inserted /\ Cur' = Cur
    BY <2>1 DEF Inserted, Cur
  <2>3. \A s, i : Loaded(s, i)' => Loaded(s, i)
    BY <2>1, <2>2 DEF Loaded
  <2> QED BY <1>2, <2>1, <2>2, <2>3
<1>6. CASE SendThrow \/ SendDie \/ Leave
  <2>1. /\ spc \in {"idle", "sendto", "threw", "dead"} /\ spc' \in {"threw", "dead", "left"}
        /\ UNCHANGED <<frag, localSeq, inFlight, txOrder, txBuf>>
    BY <1>6 DEF SendThrow, SendDie, Leave
  <2>2. Inserted' = Inserted /\ Cur' = Cur
    BY <2>1 DEF Inserted, Cur
  <2>3. \A s, i : Loaded(s, i)' => Loaded(s, i)
    BY <2>1, <2>2 DEF Loaded
  <2> QED BY <1>2, <2>1, <2>2, <2>3
<1>7. ~SendAgain
  BY DEF SendAgain, Fault
<1> QED BY <1>1, <1>3, <1>4, <1>5, <1>6, <1>7 DEF Send

LEMMA OtherWindow ==
  ASSUME Window,
         \/ \E n : HandleNack(n)
         \/ ReceiverPump \/ Recv \/ RecvThrow \/ Lose \/ UNCHANGED vars
  PROVE  Window'
<1>1. UNCHANGED <<spc, frag, localSeq, txOrder, inFlight>> /\ DOMAIN txBuf' = DOMAIN txBuf
  BY DEF HandleNack, NackIgnored, NackAnswered, NackOverCap, NackEvicted, CountNack,
         ReceiverPump, HandleData, HandlePoison, DrainNackState, Recv, RecvThrow, Lose,
         vars, senderVars
<1> QED BY <1>1, WindowFrame

LEMMA WindowInvariance == ASSUME FragsFit, "again" \notin Faults PROVE Spec => []Window
<1>1. Init => Window
  <2> SUFFICES ASSUME Init PROVE Window
    OBVIOUS
  <2>1. spc = "idle" /\ localSeq = 0 /\ txOrder = <<>> /\ Inserted = 0
    BY DEF Init, Inserted
  <2> QED BY <2>1, PipeAssumption DEF Window, OrderNewest, BufferFull, Streams
<1>2. TypeInv /\ Window /\ [Next]_vars => Window'
  BY SendWindow, OtherWindow DEF Next, SenderPump
<1> QED BY <1>1, <1>2, TypeInvariance, PTL DEF Spec

(* A stream whose send() has returned is answered for, byte for byte, until *)
(* TX_BUF_CAP_STREAMS newer ones have begun: the eviction of send() and    *)
(* tx_buf_order agree, for every cap and every length of message.          *)
THEOREM WindowKept == ASSUME FragsFit, "again" \notin Faults PROVE Spec => []RetransmitWindow
<1>1. TypeInv /\ PipeSound /\ Window => RetransmitWindow
  <2> SUFFICES ASSUME TypeInv, PipeSound, Window,
                      NEW s \in 0 .. (localSeq - 1), s \notin inFlight, s + TxBufCap >= localSeq,
                      NEW i \in 0 .. (Total(s) - 1)
               PROVE  /\ <<s, Idx16(i)>> \in DOMAIN txBuf
                      /\ txBuf[<<s, Idx16(i)>>].bytes = Bytes(s, i)
    BY DEF RetransmitWindow
  <2>1. s \in Streams /\ localSeq \in Nat /\ TxBufCap \in Nat /\ txOrder \in Seq(Streams)
    BY PipeAssumption DEF TypeInv, TypeOK, SenderTypes, Streams
  <2>2. i \in Nat /\ i < Total(s) /\ Idx16(i) = i
    BY <2>1, TotalNat, FragmentFits
  <2>3. s \in Nat /\ Len(txOrder) \in Nat
    BY <2>1
  <2>4. s < Inserted
    BY <2>1, <2>3 DEF Inserted, Window, Cur
  <2>5. s + Len(txOrder) >= Inserted
    BY <2>1, <2>3 DEF Inserted, Window, OrderNewest
  <2>6. <<s, i>> \in DOMAIN txBuf
    BY <2>1, <2>4, <2>5 DEF Window, BufferFull, Loaded
  <2>7. txBuf[<<s, i>>].bytes = Bytes(s, i)
    BY <2>6 DEF PipeSound, BufferSound, IsFragment
  <2> QED BY <2>2, <2>6, <2>7
<1> QED BY <1>1, TypeInvariance, Soundness, WindowInvariance, PTL

(* handle_nack_ gives the pipe up only over a fragment that has used up its *)
(* budget or whose stream the window has left behind: no NACK that outruns *)
(* send() or races it does that.                                           *)
THEOREM PoisonOnlyForCause ==
  ASSUME FragsFit, "again" \notin Faults PROVE Spec => PoisonJustified
<1> DEFINE Cause(n) == \/ n \in DOMAIN txBuf /\ txBuf[n].nacks >= KSend
                       \/ n[1] + TxBufCap < localSeq
<1>1. TypeInv /\ Named /\ RetransmitWindow /\ [Next]_vars
        => [~txPoisoned /\ txPoisoned' => \E n \in nackWire : Cause(n)]_vars
  <2> SUFFICES ASSUME TypeInv, Named, RetransmitWindow, Next, ~txPoisoned, txPoisoned'
               PROVE  \E n \in nackWire : Cause(n)
    OBVIOUS
  <2>1. PICK n \in nackWire : HandleNack(n)
    BY DEF Next, Send, SendBegin, SendThrow, SendInsert, SendTo, SendFinish, SendAgain, SendDie,
           Leave, SenderPump, ReceiverPump, HandleData, HandlePoison, DrainNackState,
           Recv, RecvThrow, Lose, senderVars
  <2>2. n \in Keys /\ n[2] < Total(n[1]) /\ localSeq \in Nat
    BY PipeAssumption DEF TypeInv, TypeOK, WireTypes, SenderTypes, Named
  <2>3. CASE NackOverCap(n)
    <3>1. txBuf[n].nacks \in Nat /\ txBuf[n].nacks + 1 > KSend /\ n \in DOMAIN txBuf
      BY <2>3 DEF NackOverCap, OverCap, TypeInv, TypeOK, SenderTypes, TxRecordType
    <3> QED BY <3>1, PipeAssumption
  <2>4. CASE NackEvicted(n)
    <3>1. n \notin DOMAIN txBuf /\ ~(n[1] >= localSeq) /\ n[1] \notin inFlight
      BY <2>4 DEF NackEvicted, NotYet
    <3>2. n = <<n[1], n[2]>> /\ n[1] \in Streams /\ n[1] \in Nat /\ n[2] \in Nat
      BY <2>2, PipeAssumption DEF Keys, Streams
    <3>3. Idx16(n[2]) = n[2] /\ Total(n[1]) \in Nat
      BY <2>2, <3>2, FragmentFits, TotalNat
    <3>4. ASSUME n[1] + TxBufCap >= localSeq PROVE FALSE
      <4>1. n[1] \in 0 .. (localSeq - 1) /\ n[2] \in 0 .. (Total(n[1]) - 1)
        BY <2>2, <3>1, <3>2, <3>3
      <4>2. <<n[1], Idx16(n[2])>> \in DOMAIN txBuf
        BY <3>1, <3>4, <4>1 DEF RetransmitWindow
      <4> QED BY <3>1, <3>2, <3>3, <4>2
    <3> QED BY <2>2, <3>2, <3>4, PipeAssumption
  <2> QED BY <2>1, <2>3, <2>4 DEF HandleNack, NackIgnored, NackAnswered
<1> QED BY <1>1, TypeInvariance, NamedInvariance, WindowKept, PTL DEF Spec, PoisonJustified

-----------------------------------------------------------------------------
(* The refinement: BusPipe implements ReliablePipe.                        *)

\* The reader has been handed what was queued, and empty messages.
TakenSound == \A m \in 0 .. (taken - 1) : m < nextRx \/ Units[m] = 0

\* Delivery never goes back.
LEMMA NextRxGrows == ASSUME TypeInv, [Next]_vars PROVE nextRx <= nextRx'
<1> USE DEF TypeInv, TypeOK
<1>1. nextRx \in Nat /\ nextRx \in 0 .. NumStreams
  BY PipeAssumption DEF RxTypes
<1>2. CASE UNCHANGED nextRx
  BY <1>1, <1>2
<1>3. ASSUME NEW d, HandleData(d) PROVE nextRx <= nextRx'
  <2>1. d \in DataType
    BY <1>3 DEF HandleData, TakeData, WireTypes
  <2>2. CASE IsNextWhole(d) /\ DrainPending(nextRx + 1, pending, Queued(d))
    <3>1. nextRx + 1 \in 0 .. NumStreams
      BY <1>1, <2>1, <2>2, PipeAssumption DEF IsNextWhole, DataType, Streams
    <3>2. nextRx' \in (nextRx + 1) .. NumStreams
      BY <2>2, <3>1 DEF DrainPending
    <3> QED BY <1>1, <3>2
  <2>3. CASE DrainPending(nextRx, Stored(d), chunks)
    BY <1>1, <2>3 DEF DrainPending
  <2> QED BY <1>2, <1>3, <2>2, <2>3 DEF HandleData
<1>4. CASE Send \/ SendAgain \/ SendDie \/ Leave \/ (\E n : HandleNack(n))
           \/ (\E elapsed : DrainNackState(elapsed))
           \/ HandlePoison \/ Recv \/ RecvThrow \/ Lose \/ UNCHANGED vars
  <2>1. UNCHANGED nextRx
    BY <1>4 DEF Send, SendBegin, SendThrow, SendInsert, SendTo, SendFinish, SendAgain, SendDie,
           Leave, HandleNack, DrainNackState, HandlePoison, Recv, RecvThrow, Lose, vars, rxVars
  <2> QED BY <1>2, <2>1
<1> QED BY <1>3, <1>4 DEF Next, SenderPump, ReceiverPump

LEMMA TakenInvariance == Spec => []TakenSound
<1>1. Init => TakenSound
  <2> SUFFICES ASSUME Init PROVE TakenSound
    OBVIOUS
  <2>1. taken = 0
    BY DEF Init
  <2> QED BY <2>1 DEF TakenSound
<1>2. TypeInv /\ TypeInv' /\ TakenSound /\ [Next]_vars => TakenSound'
  <2> SUFFICES ASSUME TypeInv, TypeInv', TakenSound, [Next]_vars,
                      NEW m \in 0 .. (taken' - 1), Units[m] # 0
               PROVE  m < nextRx'
    BY DEF TakenSound
  <2>1. nextRx <= nextRx' /\ taken \in Nat /\ nextRx \in Nat /\ nextRx' \in Nat
    BY NextRxGrows, PipeAssumption DEF TypeInv, TypeOK, AppTypes, RxTypes
  <2>2. CASE Recv
    <3>1. taken' = taken + 1 /\ Available(taken)
      BY <2>2 DEF Recv
    <3>2. m = taken \/ m \in 0 .. (taken - 1)
      BY <2>1, <3>1
    <3> QED BY <2>1, <3>1, <3>2 DEF TakenSound, Available
  <2>3. CASE ~Recv
    <3>1. UNCHANGED taken
      BY <2>3 DEF Next, Send, SendBegin, SendThrow, SendInsert, SendTo, SendFinish, SendAgain,
             SendDie, Leave, SenderPump, ReceiverPump, HandleNack, HandleData, HandlePoison,
             DrainNackState, RecvThrow, Lose, vars, appVars
    <3> QED BY <2>1, <3>1 DEF TakenSound
  <2> QED BY <2>2, <2>3
<1> QED BY <1>1, <1>2, TypeInvariance, PTL DEF Spec

\* What the reader has been handed, told from its number alone.
Given(n) == [m \in 0 .. (n - 1) |-> Payload(m)]

LEMMA HandedIntact ==
  ASSUME TypeInv, DeliveredIntact, TakenSound
  PROVE  [m \in 0 .. (taken - 1) |-> Handed(m)] = Given(taken)
<1>1. ASSUME NEW m \in 0 .. (taken - 1) PROVE Handed(m) = Payload(m)
  <2>1. m \in Nat /\ nextRx \in Nat
    BY <1>1, PipeAssumption DEF TypeInv, TypeOK, RxTypes
  <2>2. CASE m < nextRx
    <3>1. m \in 0 .. (nextRx - 1)
      BY <2>1, <2>2
    <3> QED BY <2>2, <3>1 DEF Handed, DeliveredIntact
  <2>3. CASE ~(m < nextRx)
    BY <1>1, <2>3 DEF Handed, Payload, TakenSound, Total, Bytes
  <2> QED BY <2>2, <2>3
<1> QED BY <1>1 DEF Given

LEMMA RefinedInit == Init => Pipe!Init
<1> SUFFICES ASSUME Init PROVE Pipe!Init
  OBVIOUS
<1>1. taken = 0 /\ localSeq = 0 /\ spc = "idle" /\ rpc = "run"
  BY DEF Init
<1>2. [m \in 0 .. (taken - 1) |-> Handed(m)] = [m \in {} |-> 0]
  BY <1>1
<1> QED BY <1>1, <1>2 DEF Pipe!Init

\* A step of send() is one of the abstract sender or a stutter.
LEMMA RefinedSend ==
  ASSUME TypeInv, Send \/ SendAgain \/ SendDie \/ Leave,
         UNCHANGED [m \in 0 .. (taken - 1) |-> Handed(m)]
  PROVE  [Pipe!Next]_(Pipe!vars)
<1>1. UNCHANGED rpc
  BY DEF Send, SendBegin, SendThrow, SendInsert, SendTo, SendFinish, SendAgain, SendDie, Leave, appVars
<1>2. CASE SendBegin
  <2>1. Pipe!Send
    BY <1>1, <1>2 DEF SendBegin, Pipe!Send
  <2> QED BY <2>1 DEF Pipe!Next
<1>3. CASE SendThrow \/ (Leave /\ spc # "threw")
  <2>1. Pipe!SendBreak
    BY <1>1, <1>3 DEF SendThrow, Leave, Pipe!SendBreak
  <2> QED BY <2>1 DEF Pipe!Next
<1>4. CASE SendInsert \/ SendTo \/ SendFinish \/ SendAgain \/ SendDie \/ (Leave /\ spc = "threw")
  <2>1. UNCHANGED localSeq /\ UNCHANGED (spc \notin {"threw", "left"})
    BY <1>4 DEF SendInsert, SendTo, SendFinish, SendAgain, SendDie, Leave
  <2> QED BY <1>1, <2>1 DEF Pipe!vars
<1> QED BY <1>2, <1>3, <1>4 DEF Send

\* recv() hands out the next message, which has been sent or is empty.
LEMMA RefinedRecv ==
  ASSUME TypeInv, Begun, Recv,
         [m \in 0 .. (taken - 1) |-> Handed(m)] = Given(taken),
         [m \in 0 .. (taken' - 1) |-> Handed(m)'] = Given(taken')
  PROVE  Pipe!Recv
<1> DEFINE out == [m \in 0 .. (taken - 1) |-> Handed(m)]
<1>1. /\ taken \in 0 .. (NumStreams - 1) /\ taken \in Nat /\ taken' = taken + 1
      /\ Available(taken) /\ rpc = "run" /\ rpc' = "run" /\ UNCHANGED <<spc, localSeq>>
  BY PipeAssumption DEF Recv, TypeInv, TypeOK, AppTypes, senderVars
<1>2. taken < localSeq \/ taken \in {s \in Streams : Units[s] = 0}
  BY <1>1, PipeAssumption DEF Available, Begun, Causality, TypeInv, TypeOK, RxTypes, SenderTypes, Streams
<1>3. Given(taken') = [k \in 0 .. taken |-> IF k = taken THEN [s \in Streams |-> Payload(s)][taken] ELSE out[k]]
  <2>1. taken \in Streams /\ 0 .. (taken' - 1) = 0 .. taken
    BY <1>1 DEF Streams
  <2>2. \A k \in 0 .. taken : k # taken => out[k] = Payload(k)
    BY <1>1 DEF Given
  <2> HIDE DEF out
  <2> QED BY <2>1, <2>2 DEF Given
<1>4. DOMAIN out = 0 .. (taken - 1)
  OBVIOUS
<1> QED BY <1>1, <1>2, <1>3, <1>4 DEF Pipe!Recv

(* BusPipe implements ReliablePipe: for the two applications the datagrams, *)
(* their losses, the retransmissions and the two threads at either end add *)
(* up to an ordered, exactly-once pipe of messages that may break at       *)
(* either end.                                                             *)
THEOREM PipeRefinement == ASSUME FragsFit PROVE Spec => ImplementsPipe
<1> DEFINE Sound == TypeInv /\ DeliveredIntact /\ TakenSound /\ Begun
           out   == [m \in 0 .. (taken - 1) |-> Handed(m)]
<1>1. Sound => out = Given(taken)
  BY HandedIntact
<1>2. (Sound => out = Given(taken))'
  BY <1>1, PTL
<1>3. Sound /\ Sound' /\ [Next]_vars => [Pipe!Next]_(Pipe!vars)
  <2> SUFFICES ASSUME Sound, Sound', [Next]_vars PROVE [Pipe!Next]_(Pipe!vars)
    OBVIOUS
  <2>1. out = Given(taken) /\ out' = Given(taken')
    BY <1>1, <1>2
  <2>2. CASE Send \/ SendAgain \/ SendDie \/ Leave
    <3>1. UNCHANGED taken
      BY <2>2 DEF Send, SendBegin, SendThrow, SendInsert, SendTo, SendFinish, SendAgain, SendDie,
             Leave, appVars
    <3>2. UNCHANGED out
      BY <2>1, <3>1
    <3> QED BY <2>2, <3>2, RefinedSend
  <2>3. CASE Recv
    <3>1. Pipe!Recv
      BY <2>1, <2>3, RefinedRecv
    <3> QED BY <3>1 DEF Pipe!Next
  <2>4. CASE RecvThrow
    <3>1. UNCHANGED <<taken, spc, localSeq>> /\ rpc = "run" /\ rpc' = "threw"
      BY <2>4 DEF RecvThrow, senderVars
    <3>2. UNCHANGED out
      BY <2>1, <3>1
    <3>3. Pipe!RecvBreak
      BY <3>1, <3>2 DEF Pipe!RecvBreak
    <3> QED BY <3>3 DEF Pipe!Next
  <2>5. CASE SenderPump \/ ReceiverPump \/ Lose \/ UNCHANGED vars
    <3>1. UNCHANGED <<taken, rpc, spc, localSeq>>
      BY <2>5 DEF SenderPump, ReceiverPump, HandleNack, HandleData, HandlePoison, DrainNackState,
             Lose, vars, senderVars, appVars
    <3>2. UNCHANGED out
      BY <2>1, <3>1
    <3> QED BY <3>1, <3>2 DEF Pipe!vars
  <2> QED BY <2>2, <2>3, <2>4, <2>5 DEF Next
<1> QED BY <1>3, RefinedInit, TypeInvariance, IntactDelivery, TakenInvariance, BegunInvariance, PTL
        DEF Spec, ImplementsPipe, Pipe!Spec

-----------------------------------------------------------------------------
(* The witness: its record is right, and it reports each gap once.         *)

\* What the two fields of WitnessState that are kept small stand for.
Recorded ==
  /\ overheard = wSeen \cup 0 .. (lowWalk - 1)
  /\ lowWalk \notin wSeen
  /\ \A s \in Streams : reports[s] = IF s \in nacked THEN 1 ELSE 0

\* A set of numbers that is not empty has a least one.
LEMMA LeastNumber ==
  ASSUME NEW T \in SUBSET Nat, T # {}
  PROVE  \E x \in T : \A y \in T : x <= y
<1>1. PICK x \in T : \A y \in T : ~(<<y, x>> \in OpToRel(<, Nat))
  BY NatLessThanWellFounded, WFMin, Zenon
<1>2. \A y \in T : ~(y < x)
  BY <1>1 DEF OpToRel
<1> QED BY <1>2

\* low_walk stops at the first stream that was not overheard.
LEMMA WalkStops ==
  ASSUME lowWalk \in 0 .. NumStreams, NEW seen \in SUBSET Streams
  PROVE  /\ Walk(seen) \in lowWalk .. NumStreams
         /\ Walk(seen) \notin seen
         /\ lowWalk .. (Walk(seen) - 1) \subseteq seen
<1> DEFINE free == {n \in lowWalk .. NumStreams : n \notin seen}
<1>1. NumStreams \in free /\ free \subseteq Nat
  BY PipeAssumption DEF Streams
<1>2. PICK n \in free : \A m \in free : n <= m
  BY <1>1, LeastNumber
<1>3. n \in lowWalk .. NumStreams /\ n \notin seen /\ lowWalk .. (n - 1) \subseteq seen
  BY <1>2, PipeAssumption
<1> QED BY <1>3 DEF Walk

WInv == WTypeOK /\ Recorded

\* The variables WInv reads.
LEMMA RecordFrame == ASSUME WInv, UNCHANGED witnessVars PROVE WInv'
BY DEF WInv, WTypeOK, Recorded, witnessVars

LEMMA ObserveRecorded == ASSUME WInv, NEW s \in Streams, Observe(s) PROVE WInv'
<1> DEFINE seen == wSeen \cup {s}
           walk == Walk(seen)
<1>1. /\ seen \in SUBSET Streams
      /\ Streams \subseteq Nat /\ lowWalk \in 0 .. NumStreams /\ NumStreams \in Nat
  BY PipeAssumption DEF WInv, WTypeOK, Streams
<1>2. walk \in lowWalk .. NumStreams /\ walk \notin seen /\ lowWalk .. (walk - 1) \subseteq seen
  BY <1>1, WalkStops
<1>3. /\ lowWalk' = walk /\ wSeen' = seen \ (lowWalk .. (walk - 1))
      /\ overheard' = overheard \cup {s}
      /\ wMaxSeen' = IF ~wAnySeen \/ s > wMaxSeen THEN s ELSE wMaxSeen
      /\ UNCHANGED <<nacked, reports>>
  BY DEF Observe
<1> HIDE DEF walk
<1>4. 0 .. (walk - 1) = 0 .. (lowWalk - 1) \cup lowWalk .. (walk - 1)
  BY <1>1, <1>2
<1>5. overheard' = wSeen' \cup 0 .. (walk - 1)
  BY <1>1, <1>2, <1>3, <1>4 DEF WInv, Recorded
<1>6. walk \notin wSeen' /\ walk \notin overheard'
  BY <1>1, <1>2, <1>3, <1>5
<1>7. wMaxSeen' \in overheard'
  BY <1>3 DEF WInv, WTypeOK
<1>8. wSeen' \subseteq Streams /\ lowWalk' \in 0 .. NumStreams /\ 0 .. (walk - 1) \subseteq overheard'
  BY <1>1, <1>2, <1>3, <1>5
<1> QED BY <1>3, <1>5, <1>6, <1>7, <1>8 DEF WInv, WTypeOK, Recorded

\* What is overheard is a set of streams, all of which the two fields tell.
LEMMA RecordRange ==
  ASSUME WInv
  PROVE  /\ Streams \subseteq Nat /\ NumStreams \in Nat /\ lowWalk \in 0 .. NumStreams
         /\ overheard = wSeen \cup 0 .. (lowWalk - 1) /\ overheard \subseteq Streams
         /\ wAnySeen => wMaxSeen \in Streams
<1>1. /\ overheard = wSeen \cup 0 .. (lowWalk - 1) /\ wSeen \subseteq Streams
      /\ lowWalk \in 0 .. NumStreams /\ NumStreams \in Nat
      /\ wAnySeen => wMaxSeen \in overheard
  BY PipeAssumption DEF WInv, WTypeOK, Recorded
<1>2. Streams \subseteq Nat /\ 0 .. (lowWalk - 1) \subseteq Streams
  BY <1>1 DEF Streams
<1> QED BY <1>1, <1>2

\* The gaps are the streams below the newest one that were neither overheard
\* nor reported.
LEMMA DueAre ==
  ASSUME WInv, wAnySeen
  PROVE  Due = {s \in Streams : s < wMaxSeen /\ s \notin overheard /\ s \notin nacked}
<1>1. \A s \in lowWalk .. (wMaxSeen - 1) : s \in Streams
  BY RecordRange DEF Streams
<1> QED BY <1>1, RecordRange DEF Due, Streams

LEMMA WDrainRecorded == ASSUME WInv, WitnessDrain PROVE WInv'
<1>1. Due \subseteq Streams /\ \A s \in Due : s \notin nacked
  BY DueAre DEF WitnessDrain
<1>2. /\ nacked' = nacked \cup Due
      /\ reports' = [s \in Streams |-> IF s \in Due THEN reports[s] + 1 ELSE reports[s]]
      /\ UNCHANGED <<wSeen, wMaxSeen, wAnySeen, lowWalk, overheard>>
  BY DEF WitnessDrain
<1>3. \A s \in Streams : reports'[s] = IF s \in nacked' THEN 1 ELSE 0
  BY <1>1, <1>2 DEF WInv, Recorded
<1>4. reports' \in [Streams -> Nat]
  BY <1>2 DEF WInv, WTypeOK
<1> QED BY <1>1, <1>2, <1>3, <1>4 DEF WInv, WTypeOK, Recorded

LEMMA WitnessInvariance == WSpec => []WInv
<1>1. WInit => WInv
  <2> SUFFICES ASSUME WInit PROVE WInv
    OBVIOUS
  <2>1. /\ wSeen = {} /\ lowWalk = 0 /\ nacked = {}
        /\ overheard = {} /\ reports = [s \in Streams |-> 0] /\ ~wAnySeen
    BY DEF WInit
  <2> QED BY <2>1, PipeAssumption DEF WInv, WTypeOK, Recorded
<1>2. WInv /\ [WNext]_wVars => WInv'
  BY RecordFrame, ObserveRecorded, WDrainRecorded DEF WNext, PipeStep, wVars
<1> QED BY <1>1, <1>2, PTL DEF WSpec

(* A witness's record is right: every stream below low_walk was overheard, *)
(* low_walk itself was not, and its newest stream was overheard.           *)
THEOREM WitnessRecord == WSpec => []WTypeOK
<1>1. WInv => WTypeOK
  BY DEF WInv
<1> QED BY <1>1, WitnessInvariance, PTL

(* witness_drain_ leaves out no gap, names none twice and none that is not *)
(* one, though seen is pruned below low_walk and copies are lost, doubled  *)
(* and overtake each other.                                                *)
THEOREM WitnessReportsOnce == WSpec => ReportsOnce
<1> DEFINE Told == reports' # reports =>
             \A s \in Streams :
               reports'[s] = IF s < wMaxSeen /\ s \notin overheard THEN 1 ELSE reports[s]
<1>1. WInv /\ [WNext]_wVars => [Told]_wVars
  <2> SUFFICES ASSUME WInv, WNext, reports' # reports, NEW s \in Streams
               PROVE  reports'[s] = IF s < wMaxSeen /\ s \notin overheard THEN 1 ELSE reports[s]
    OBVIOUS
  <2>1. WitnessDrain
    BY DEF WNext, PipeStep, Observe, witnessVars
  <2>2. reports'[s] = IF s \in Due THEN reports[s] + 1 ELSE reports[s]
    BY <2>1 DEF WitnessDrain
  <2>3. s \in Due <=> s < wMaxSeen /\ s \notin overheard /\ s \notin nacked
    BY <2>1, DueAre DEF WitnessDrain
  <2>4. reports[s] = IF s \in nacked THEN 1 ELSE 0
    BY DEF WInv, Recorded
  <2> QED BY <2>2, <2>3, <2>4
<1> QED BY <1>1, WitnessInvariance, PTL DEF WSpec, ReportsOnce
=============================================================================
