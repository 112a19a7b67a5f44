---------------------------- MODULE RxQueueProofs ----------------------------
(***************************************************************************)
(* Proofs about RxQueue, for chunks and reads of any lengths: recv()       *)
(* returns the stream in order, and its copy loop never runs dry.  Neither *)
(* lost wakeups nor poisoning matter here; the mutex does.                 *)
(***************************************************************************)
EXTENDS RxQueue, SequenceTheorems, TLAPS

-----------------------------------------------------------------------------
(* The invariant: what is waited for stays queued until it is copied, and  *)
(* a recv() that runs is one of those asked for.                           *)

Covered ==
  /\ rpc = "copy" => remaining <= rxBytes
  /\ rpc # "idle" => call <= Len(Reads)

QueueInv == TypeOK /\ StreamInOrder /\ Covered

-----------------------------------------------------------------------------
(* The stream.                                                             *)

LEMMA StreamGrows ==
  ASSUME NEW n \in 1 .. Len(Ends)
  PROVE  /\ StreamAt(n) \in Nat /\ StreamAt(n - 1) \in Nat
         /\ StreamAt(n - 1) < StreamAt(n)
<1>1. Ends \in Seq(Nat \ {0}) /\ Len(Ends) \in Nat /\ DOMAIN Ends = 1 .. Len(Ends)
  BY QueueAssumption
<1>2. StreamAt(n) = Ends[n] /\ Ends[n] \in Nat \ {0}
  BY <1>1 DEF StreamAt
<1>3. CASE n = 1
  BY <1>2, <1>3 DEF StreamAt
<1>4. CASE n # 1
  <2>1. n - 1 \in DOMAIN Ends /\ n \in DOMAIN Ends /\ n - 1 < n
    BY <1>1, <1>4
  <2>2. StreamAt(n - 1) = Ends[n - 1] /\ Ends[n - 1] \in Nat \ {0}
    BY <1>1, <1>4, <2>1 DEF StreamAt
  <2>3. Ends[n - 1] < Ends[n]
    BY <2>1, QueueAssumption
  <2> QED BY <1>2, <2>2, <2>3
<1> QED BY <1>3, <1>4

\* A chunk holds the stream's bytes from where the one before it ends.
LEMMA ChunkIs ==
  ASSUME NEW n \in 1 .. Len(Ends)
  PROVE  /\ BytesOf(n) \in Seq(Nat) \ {<<>>}
         /\ Len(BytesOf(n)) = StreamAt(n) - StreamAt(n - 1)
         /\ Follows(BytesOf(n), StreamAt(n - 1))
<1> DEFINE size == StreamAt(n) - StreamAt(n - 1)
<1>1. size \in Nat \ {0} /\ StreamAt(n - 1) \in Nat
  BY StreamGrows
<1>2. BytesOf(n) = [i \in 1 .. size |-> StreamAt(n - 1) + i]
  BY DEF BytesOf
<1> HIDE DEF size
<1>3. BytesOf(n) \in Seq(Nat) /\ Len(BytesOf(n)) = size
  BY <1>1, <1>2
<1>4. BytesOf(n) # <<>>
  BY <1>1, <1>3
<1>5. Follows(BytesOf(n), StreamAt(n - 1))
  BY <1>1, <1>2 DEF Follows
<1> QED BY <1>3, <1>4, <1>5 DEF size

-----------------------------------------------------------------------------
(* What the steps do to a sequence of chunks.                              *)

Filled == Seq(Nat) \ {<<>>}

LEMMA FilledChunk ==
  ASSUME NEW c \in Filled
  PROVE  c \in Seq(Nat) /\ Len(c) \in Nat \ {0} /\ DOMAIN c = 1 .. Len(c)
         /\ EndOf(c) \in Nat /\ \A n : Follows(c, n) => EndOf(c) = n + Len(c)
<1>1. c \in Seq(Nat) /\ c # <<>>
  BY DEF Filled
<1>2. Len(c) \in Nat \ {0} /\ DOMAIN c = 1 .. Len(c)
  BY <1>1, EmptySeq, LenProperties
<1>3. c[Len(c)] \in Nat
  BY <1>1, <1>2, ElementOfSeq
<1> QED BY <1>1, <1>2, <1>3 DEF EndOf, Follows

LEMMA HoldsMore ==
  ASSUME NEW s \in Seq(Filled), NEW from, NEW to, Holds(s, from, to),
         NEW c \in Filled, Follows(c, to)
  PROVE  Append(s, c) \in Seq(Filled) /\ Holds(Append(s, c), from, to + Len(c))
<1> DEFINE t == Append(s, c)
<1>1. /\ t \in Seq(Filled) /\ t # <<>> /\ Len(s) \in Nat /\ Len(t) = Len(s) + 1
      /\ t[Len(s) + 1] = c
      /\ \A k \in 1 .. Len(s) : t[k] = s[k]
  BY AppendProperties, LenProperties
<1>2. DOMAIN s = 1 .. Len(s) /\ DOMAIN t = 1 .. (Len(s) + 1)
  BY <1>1, LenProperties
<1> HIDE DEF t
<1>3. s = <<>> <=> Len(s) = 0
  BY EmptySeq
<1>4. ASSUME NEW k \in DOMAIN t
      PROVE  Follows(t[k], IF k = 1 THEN from ELSE EndOf(t[k - 1]))
  <2>1. CASE k \in 1 .. Len(s)
    <3>1. k # 1 => k - 1 \in 1 .. Len(s)
      BY <1>1, <2>1
    <3> QED BY <1>1, <1>2, <2>1, <3>1 DEF Holds
  <2>2. CASE k = Len(s) + 1
    <3>1. CASE s = <<>>
      BY <1>1, <1>3, <2>2, <3>1 DEF Holds
    <3>2. CASE s # <<>>
      <4>1. k # 1 /\ k - 1 = Len(s) /\ Len(s) \in 1 .. Len(s)
        BY <1>1, <1>3, <2>2, <3>2
      <4> QED BY <1>1, <2>2, <3>2, <4>1 DEF Holds
    <3> QED BY <3>1, <3>2
  <2> QED BY <1>1, <1>2, <2>1, <2>2
<1>5. EndOf(t[Len(t)]) = to + Len(c)
  BY <1>1, FilledChunk
<1> QED BY <1>1, <1>4, <1>5 DEF Holds, t

LEMMA HeadOf ==
  ASSUME NEW s \in Seq(Filled), s # <<>>
  PROVE  /\ Head(s) = s[1] /\ s[1] \in Filled
         /\ Len(s) \in Nat \ {0} /\ DOMAIN s = 1 .. Len(s)
         /\ Tail(s) \in Seq(Filled) /\ Len(Tail(s)) = Len(s) - 1
         /\ DOMAIN Tail(s) = 1 .. (Len(s) - 1)
         /\ \A k \in 1 .. (Len(s) - 1) : Tail(s)[k] = s[k + 1]
<1>1. Len(s) \in Nat \ {0} /\ DOMAIN s = 1 .. Len(s)
  BY EmptySeq, LenProperties
<1>2. Tail(s) \in Seq(Filled) /\ Len(Tail(s)) = Len(s) - 1
      /\ \A k \in 1 .. Len(Tail(s)) : Tail(s)[k] = s[k + 1]
  BY HeadTailProperties
<1>3. DOMAIN Tail(s) = 1 .. (Len(s) - 1)
  BY <1>2, LenProperties
<1>4. Head(s) = s[1] /\ s[1] \in Filled
  BY <1>1, ElementOfSeq
<1> QED BY <1>1, <1>2, <1>3, <1>4

LEMMA HoldsLess ==
  ASSUME NEW s \in Seq(Filled), s # <<>>, NEW from, NEW to, Holds(s, from, to)
  PROVE  Holds(Tail(s), from + Len(s[1]), to)
<1> DEFINE t == Tail(s)
<1>1. /\ s[1] \in Filled /\ Len(s) \in Nat \ {0} /\ DOMAIN s = 1 .. Len(s)
      /\ t \in Seq(Filled) /\ Len(t) = Len(s) - 1 /\ DOMAIN t = 1 .. (Len(s) - 1)
      /\ \A k \in 1 .. (Len(s) - 1) : t[k] = s[k + 1]
  BY HeadOf
<1> HIDE DEF t
<1>2. EndOf(s[1]) = from + Len(s[1])
  <2>1. 1 \in DOMAIN s
    BY <1>1
  <2>2. Follows(s[1], IF 1 = 1 THEN from ELSE EndOf(s[1 - 1]))
    BY <2>1 DEF Holds
  <2>3. Follows(s[1], from)
    BY <2>2
  <2> QED BY <1>1, <2>3, FilledChunk
<1>3. ASSUME NEW k \in DOMAIN t
      PROVE  Follows(t[k], IF k = 1 THEN from + Len(s[1]) ELSE EndOf(t[k - 1]))
  <2>1. k + 1 \in DOMAIN s /\ k + 1 # 1 /\ (k + 1) - 1 = k
    BY <1>1
  <2>2. Follows(t[k], EndOf(s[k]))
    BY <1>1, <2>1 DEF Holds
  <2>3. k # 1 => t[k - 1] = s[k]
    <3>1. k # 1 => k - 1 \in 1 .. (Len(s) - 1) /\ (k - 1) + 1 = k
      BY <1>1
    <3> QED BY <1>1, <3>1
  <2> QED BY <1>2, <2>2, <2>3
<1>4. t = <<>> <=> Len(t) = 0
  BY <1>1, EmptySeq
<1>5. t # <<>> => EndOf(t[Len(t)]) = EndOf(s[Len(s)])
  <2>1. t # <<>> => Len(t) \in 1 .. (Len(s) - 1) /\ Len(t) + 1 = Len(s)
    BY <1>1, <1>4
  <2> QED BY <1>1, <2>1
<1>6. ASSUME t = <<>> PROVE Len(s) = 1
  <2>1. Len(t) = 0
    BY <1>4, <1>6
  <2>2. Len(s) - 1 = 0 /\ Len(s) \in Nat
    BY <1>1, <2>1, Zenon
  <2> QED BY <2>2
<1>7. to = EndOf(s[Len(s)])
  BY DEF Holds
<1>8. to = IF t = <<>> THEN from + Len(s[1]) ELSE EndOf(t[Len(t)])
  BY <1>2, <1>5, <1>6, <1>7
<1>9. Holds(t, from + Len(s[1]), to)
  BY <1>3, <1>8 DEF Holds
<1> QED BY <1>9 DEF t

\* Cutting the first take bytes off the first chunk.
LEMMA HoldsCut ==
  ASSUME NEW s \in Seq(Filled), s # <<>>, NEW from \in Nat, NEW to, Holds(s, from, to),
         NEW take \in 1 .. Len(s[1])
  PROVE  /\ Rest(s[1], take) \o Tail(s) \in Seq(Filled)
         /\ Holds(Rest(s[1], take) \o Tail(s), from + take, to)
<1>1. /\ s[1] \in Filled /\ Len(s) \in Nat \ {0} /\ DOMAIN s = 1 .. Len(s)
      /\ Tail(s) \in Seq(Filled) /\ Len(Tail(s)) = Len(s) - 1
      /\ \A k \in 1 .. (Len(s) - 1) : Tail(s)[k] = s[k + 1]
  BY HeadOf
<1>2. s[1] \in Seq(Nat) /\ Len(s[1]) \in Nat \ {0} /\ DOMAIN s[1] = 1 .. Len(s[1])
      /\ EndOf(s[1]) \in Nat
  BY <1>1, FilledChunk
<1>3. CASE take = Len(s[1])
  <2>1. Rest(s[1], take) \o Tail(s) = Tail(s)
    BY <1>1, <1>3, ConcatEmptySeq DEF Rest
  <2> QED BY <1>1, <1>3, <2>1, HoldsLess
<1>4. CASE take # Len(s[1])
  <2> DEFINE cut == SubSeq(s[1], take + 1, Len(s[1]))
             t   == <<cut>> \o Tail(s)
  <2>1. cut \in Seq(Nat) /\ Len(cut) = Len(s[1]) - take
        /\ \A i \in 1 .. (Len(s[1]) - take) : cut[i] = s[1][take + i]
    <3>1. take + 1 \in Int /\ Len(s[1]) \in Int /\ take + 1 <= Len(s[1])
      BY <1>2, <1>4
    <3>2. \A i \in (take + 1) .. Len(s[1]) : s[1][i] \in Nat
      BY <1>2
    <3>3. cut \in Seq(Nat) /\ Len(cut) = Len(s[1]) - (take + 1) + 1
          /\ \A i \in 1 .. (Len(s[1]) - (take + 1) + 1) : cut[i] = s[1][(take + 1) + i - 1]
      BY <3>1, <3>2, SubSeqProperties
    <3> HIDE DEF cut
    <3>4. Len(s[1]) - (take + 1) + 1 = Len(s[1]) - take
      BY <3>1
    <3>5. \A i \in 1 .. (Len(s[1]) - take) : (take + 1) + i - 1 = take + i
      OBVIOUS
    <3> QED BY <3>3, <3>4, <3>5
  <2> HIDE DEF cut
  <2>2. Len(cut) \in Nat \ {0}
    BY <1>2, <1>4, <2>1
  <2>3. cut \in Filled /\ DOMAIN cut = 1 .. Len(cut)
    BY <2>1, <2>2, EmptySeq, LenProperties DEF Filled
  <2>4. Follows(s[1], from)
    <3>1. 1 \in DOMAIN s
      BY <1>1
    <3>2. Follows(s[1], IF 1 = 1 THEN from ELSE EndOf(s[1 - 1]))
      BY <3>1 DEF Holds
    <3> QED BY <3>2
  <2>5. Follows(cut, from + take) /\ EndOf(cut) = EndOf(s[1])
    <3>1. \A i \in 1 .. Len(cut) : take + i \in DOMAIN s[1]
      BY <1>2, <2>1
    <3>2. \A i \in 1 .. Len(cut) : cut[i] = from + take + i
      BY <2>1, <2>4, <3>1 DEF Follows
    <3>3. EndOf(s[1]) = from + Len(s[1])
      BY <1>1, <2>4, FilledChunk
    <3>4. Follows(cut, from + take)
      BY <2>3, <3>2 DEF Follows
    <3>5. EndOf(cut) = (from + take) + Len(cut)
      BY <2>3, <3>4, FilledChunk
    <3>6. EndOf(cut) = EndOf(s[1])
      <4>1. PICK a \in Nat, b \in Nat, d \in Nat : a = Len(s[1]) /\ b = Len(cut) /\ d = from
        BY <1>2, <2>2
      <4>2. take \in Nat /\ b = a - take
        BY <2>1, <4>1
      <4>3. EndOf(s[1]) = d + a /\ EndOf(cut) = (d + take) + b
        BY <3>3, <3>5, <4>1
      <4>4. (d + take) + b = d + a
        BY <4>2
      <4> QED BY <4>3, <4>4, Zenon
    <3> QED BY <3>4, <3>6
  <2>6. /\ t \in Seq(Filled) /\ Len(t) = Len(s)
        /\ t[1] = cut
        /\ \A k \in 2 .. Len(s) : t[k] = s[k]
    <3>1. <<cut>> \in Seq(Filled) /\ Len(<<cut>>) = 1 /\ <<cut>>[1] = cut
      BY <2>3
    <3>2. /\ t \in Seq(Filled) /\ Len(t) = 1 + (Len(s) - 1)
          /\ \A k \in 1 .. (1 + (Len(s) - 1)) :
               t[k] = IF k <= 1 THEN <<cut>>[k] ELSE Tail(s)[k - 1]
      BY <1>1, <3>1, ConcatProperties
    <3> HIDE DEF t
    <3>3. 1 + (Len(s) - 1) = Len(s) /\ 1 \in 1 .. Len(s)
      BY <1>1
    <3>4. ASSUME NEW k \in 2 .. Len(s) PROVE t[k] = s[k]
      <4>1. k \in 1 .. Len(s) /\ ~(k <= 1) /\ k - 1 \in 1 .. (Len(s) - 1) /\ (k - 1) + 1 = k
        BY <1>1
      <4> QED BY <1>1, <3>2, <3>3, <4>1
    <3> QED BY <3>1, <3>2, <3>3, <3>4
  <2>7. DOMAIN t = 1 .. Len(s)
    BY <2>6, LenProperties
  <2> HIDE DEF t
  <2>8. ASSUME NEW k \in DOMAIN t
        PROVE  Follows(t[k], IF k = 1 THEN from + take ELSE EndOf(t[k - 1]))
    <3>1. CASE k = 1
      BY <2>5, <2>6, <3>1
    <3>2. CASE k # 1
      <4>1. k \in 2 .. Len(s) /\ k \in DOMAIN s
        BY <1>1, <2>7, <3>2
      <4>2. EndOf(t[k - 1]) = EndOf(s[k - 1])
        <5>1. CASE k = 2
          BY <2>5, <2>6, <5>1
        <5>2. CASE k # 2
          <6>1. k - 1 \in 2 .. Len(s)
            BY <1>1, <4>1, <5>2
          <6> QED BY <2>6, <6>1
        <5> QED BY <5>1, <5>2
      <4>3. Follows(s[k], IF k = 1 THEN from ELSE EndOf(s[k - 1]))
        BY <4>1 DEF Holds
      <4> QED BY <2>6, <3>2, <4>1, <4>2, <4>3
    <3> QED BY <3>1, <3>2
  <2>9. EndOf(t[Len(t)]) = EndOf(s[Len(s)]) /\ t # <<>>
    <3>1. Len(t) # 0
      BY <1>1, <2>6
    <3>2. CASE Len(s) = 1
      BY <2>5, <2>6, <3>1, <3>2, EmptySeq
    <3>3. CASE Len(s) # 1
      <4>1. Len(s) \in 2 .. Len(s)
        BY <1>1, <3>3
      <4> QED BY <2>6, <3>1, <4>1, EmptySeq
    <3> QED BY <3>2, <3>3
  <2>10. Holds(t, from + take, to)
    BY <2>8, <2>9 DEF Holds
  <2>11. Rest(s[1], take) \o Tail(s) = t
    BY <1>4 DEF Rest, t, cut
  <2> QED BY <2>6, <2>10, <2>11
<1> QED BY <1>3, <1>4

-----------------------------------------------------------------------------
(* The steps that change the queue.                                        *)

\* What the types and the order say of the queue.
LEMMA QueueIs ==
  ASSUME QueueInv
  PROVE  /\ rx \in Seq(Filled) /\ out \in Seq(Nat) /\ Len(out) \in Nat
         /\ rxBytes \in Nat /\ remaining \in Nat
         /\ queued \in Nat /\ StreamAt(queued) \in Nat
         /\ Len(out) + rxBytes = StreamAt(queued)
         /\ Holds(rx, Len(out), StreamAt(queued))
         /\ rx = <<>> => rxBytes = 0
<1> USE DEF QueueInv, TypeOK
<1>1. /\ rx \in Seq(Filled) /\ out \in Seq(Nat) /\ rxBytes \in Nat /\ remaining \in Nat
      /\ queued \in Nat
  BY QueueAssumption DEF Filled
<1>2. Len(out) \in Nat
  BY <1>1, LenProperties
<1>3. StreamAt(queued) \in Nat
  <2>1. CASE queued = 0
    BY <2>1 DEF StreamAt
  <2>2. CASE queued # 0
    <3>1. queued \in 1 .. Len(Ends)
      BY <1>1, <2>2
    <3> QED BY <3>1, StreamGrows
  <2> QED BY <2>1, <2>2
<1>4. Len(out) + rxBytes = StreamAt(queued) /\ Holds(rx, Len(out), StreamAt(queued))
  BY DEF StreamInOrder
<1>5. rx = <<>> => StreamAt(queued) = Len(out)
  BY <1>4 DEF Holds
<1>6. rx = <<>> => rxBytes = 0
  BY <1>1, <1>2, <1>4, <1>5
<1> QED BY <1>1, <1>2, <1>3, <1>4, <1>6

LEMMA QueueChunkStep ==
  ASSUME QueueInv, QueueChunk
  PROVE  QueueInv'
<1> DEFINE n == queued + 1
           c == BytesOf(n)
<1>1. n \in 1 .. Len(Ends) /\ n - 1 = queued
  <2>1. Len(Ends) \in Nat /\ queued < Len(Ends)
    BY QueueAssumption, LenProperties DEF QueueChunk
  <2> QED BY <2>1, QueueIs
<1>2. /\ c \in Filled /\ Follows(c, StreamAt(queued))
      /\ Len(c) = StreamAt(n) - StreamAt(queued)
  BY <1>1, ChunkIs DEF Filled
<1>3. Len(c) \in Nat /\ StreamAt(n) \in Nat /\ StreamAt(n) = StreamAt(queued) + Len(c)
  BY <1>1, <1>2, QueueIs, StreamGrows
<1>4. /\ rx' = Append(rx, c) /\ rxBytes' = rxBytes + Len(c) /\ queued' = n
      /\ UNCHANGED <<mu, poisoned, ppc, call, remaining, out>> /\ mu = "free"
      /\ rpc' = IF rpc = "waiting" THEN "woken" ELSE rpc
  BY DEF QueueChunk, Notify
<1> HIDE DEF c, n
<1>5. rx' \in Seq(Filled) /\ Holds(rx', Len(out), StreamAt(n))
  BY <1>2, <1>3, <1>4, QueueIs, HoldsMore
<1>6. rxBytes' \in Nat /\ Len(out) + rxBytes' = StreamAt(n)
  BY <1>3, <1>4, QueueIs
<1>7. TypeOK'
  <2>1. n \in 0 .. Len(Ends)
    BY <1>1
  <2>2. rpc' \in ReaderPc /\ (mu' = "app" <=> rpc' \in {"check", "park", "copy"})
    BY <1>4 DEF QueueInv, TypeOK, ReaderPc
  <2> QED BY <1>4, <1>5, <1>6, <2>1, <2>2 DEF QueueInv, TypeOK, Filled
<1>8. StreamInOrder'
  BY <1>4, <1>5, <1>6 DEF QueueInv, StreamInOrder
<1>9. Covered'
  BY <1>4 DEF QueueInv, TypeOK, Covered
<1> QED BY <1>7, <1>8, <1>9 DEF QueueInv

LEMMA CopyStep ==
  ASSUME QueueInv, Copy
  PROVE  QueueInv'
<1>1. rpc = "copy" /\ remaining > 0 /\ remaining <= rxBytes
  BY DEF Copy, QueueInv, Covered
<1>2. rx # <<>>
  BY <1>1, QueueIs
<1> DEFINE front == Head(rx)
           take  == IF remaining < Len(front) THEN remaining ELSE Len(front)
<1>3. front = rx[1] /\ front \in Filled /\ Len(front) \in Nat \ {0}
      /\ DOMAIN front = 1 .. Len(front)
  BY <1>2, QueueIs, HeadOf, FilledChunk
<1>4. take \in 1 .. Len(front) /\ take \in Nat /\ take <= remaining
  BY <1>1, <1>3, QueueIs
<1>5. /\ out' = out \o SubSeq(front, 1, take)
      /\ remaining' = remaining - take /\ rxBytes' = rxBytes - take
      /\ rx' = Rest(front, take) \o Tail(rx)
      /\ UNCHANGED <<mu, poisoned, queued, ppc, rpc, call>>
  BY DEF Copy, pumpVars
<1> HIDE DEF front, take
<1>6. rx' \in Seq(Filled) /\ Holds(rx', Len(out) + take, StreamAt(queued))
  BY <1>2, <1>3, <1>4, <1>5, QueueIs, HoldsCut
<1> DEFINE got == SubSeq(front, 1, take)
<1>7. got \in Seq(Nat) /\ Len(got) = take /\ \A i \in 1 .. take : got[i] = front[i]
  <2>1. \A i \in 1 .. take : front[i] \in Nat
    <3>1. front \in Seq(Nat)
      BY <1>3 DEF Filled
    <3> QED BY <1>3, <1>4, <3>1
  <2>2. /\ got \in Seq(Nat) /\ Len(got) = IF 1 <= take THEN take - 1 + 1 ELSE 0
        /\ \A i \in 1 .. (take - 1 + 1) : got[i] = front[1 + i - 1]
    BY <1>4, <2>1, SubSeqProperties
  <2> HIDE DEF got
  <2>3. take - 1 + 1 = take /\ \A i \in 1 .. take : 1 + i - 1 = i
    BY <1>4
  <2>4. 1 <= take
    BY <1>4
  <2> QED BY <2>2, <2>3, <2>4
<1> HIDE DEF got
<1>8. /\ out' \in Seq(Nat) /\ Len(out') = Len(out) + take
      /\ \A i \in 1 .. (Len(out) + take) :
           out'[i] = IF i <= Len(out) THEN out[i] ELSE got[i - Len(out)]
  <2>1. out' = out \o got
    BY <1>5 DEF got
  <2>2. /\ out' \in Seq(Nat) /\ Len(out') = Len(out) + Len(got)
        /\ \A i \in 1 .. (Len(out) + Len(got)) :
             out'[i] = IF i <= Len(out) THEN out[i] ELSE got[i - Len(out)]
    BY <1>7, <2>1, QueueIs, ConcatProperties
  <2> QED BY <1>7, <2>2
<1>9. Follows(out', 0)
  <2>1. Follows(front, Len(out))
    <3>1. 1 \in DOMAIN rx
      BY <1>2, QueueIs, HeadOf
    <3>2. Follows(rx[1], IF 1 = 1 THEN Len(out) ELSE EndOf(rx[1 - 1]))
      BY <3>1, QueueIs DEF Holds
    <3> QED BY <1>3, <3>2
  <2>2. \A i \in DOMAIN out : out[i] = 0 + i
    BY DEF QueueInv, StreamInOrder, Follows
  <2>3. DOMAIN out = 1 .. Len(out) /\ DOMAIN out' = 1 .. (Len(out) + take)
    BY <1>8, QueueIs, LenProperties
  <2>4. ASSUME NEW i \in 1 .. (Len(out) + take) PROVE out'[i] = 0 + i
    <3>1. CASE i <= Len(out)
      <4>1. i \in DOMAIN out
        BY <2>3, <2>4, <3>1, QueueIs
      <4> QED BY <1>8, <2>2, <2>4, <3>1, <4>1
    <3>2. CASE ~(i <= Len(out))
      <4>1. PICK j \in 1 .. take : i = Len(out) + j /\ i - Len(out) = j
        BY <1>4, <2>4, <3>2, QueueIs
      <4>2. out'[i] = got[j] /\ got[j] = front[j]
        BY <1>7, <1>8, <2>4, <3>2, <4>1
      <4>3. j \in DOMAIN front
        BY <1>3, <1>4
      <4>4. front[j] = Len(out) + j
        BY <2>1, <4>3 DEF Follows
      <4> QED BY <4>1, <4>2, <4>4
    <3> QED BY <3>1, <3>2
  <2> QED BY <2>3, <2>4 DEF Follows
<1>10. rxBytes' \in Nat /\ remaining' \in Nat /\ remaining' <= rxBytes'
       /\ Len(out') + rxBytes' = StreamAt(queued)
  BY <1>1, <1>4, <1>5, <1>8, QueueIs
<1>11. TypeOK'
  BY <1>5, <1>6, <1>8, <1>10 DEF QueueInv, TypeOK, Filled
<1>12. StreamInOrder'
  <2>1. queued' = queued
    BY <1>5
  <2>2. Holds(rx', Len(out'), StreamAt(queued'))
    BY <1>6, <1>8, <2>1
  <2> QED BY <1>9, <1>10, <2>1, <2>2 DEF StreamInOrder
<1>13. Covered'
  <2>1. call' = call /\ rpc' = rpc
    BY <1>5
  <2> QED BY <1>10, <2>1 DEF QueueInv, Covered
<1> QED BY <1>11, <1>12, <1>13 DEF QueueInv

LEMMA QueueInvInit == Init => QueueInv
<1> SUFFICES ASSUME Init PROVE QueueInv
  OBVIOUS
<1>1. rx = <<>> /\ out = <<>> /\ rxBytes = 0 /\ queued = 0 /\ remaining = 0
  BY DEF Init
<1>2. <<>> \in Seq(Seq(Nat) \ {<<>>}) /\ <<>> \in Seq(Nat) /\ Len(<<>>) = 0
  BY EmptySeq
<1>3. Len(Reads) \in Nat /\ Len(Ends) \in Nat
  BY QueueAssumption
<1>4. TypeOK
  <2>1. rx \in Seq(Seq(Nat) \ {<<>>}) /\ out \in Seq(Nat)
    BY <1>1, <1>2
  <2>2. 1 \in 1 .. (Len(Reads) + 1) /\ 0 \in 0 .. Len(Ends)
    BY <1>3
  <2>3. rxBytes \in Nat /\ remaining \in Nat /\ queued \in 0 .. Len(Ends)
        /\ call \in 1 .. (Len(Reads) + 1)
    BY <1>1, <2>2 DEF Init
  <2>4. /\ mu \in {"free", "app"} /\ rpc \in ReaderPc /\ ppc \in {"run", "notify"}
        /\ poisoned \in BOOLEAN
        /\ mu = "app" <=> rpc \in {"check", "park", "copy"}
    BY DEF Init, ReaderPc
  <2> QED BY <2>1, <2>3, <2>4 DEF TypeOK
<1>5. StreamInOrder
  BY <1>1, <1>2 DEF StreamInOrder, Follows, Holds, StreamAt
<1> QED BY <1>4, <1>5 DEF Init, QueueInv, Covered

LEMMA QueueInvStep == QueueInv /\ [Next]_vars => QueueInv'
<1> SUFFICES ASSUME QueueInv, [Next]_vars PROVE QueueInv'
  OBVIOUS
<1>1. CASE UNCHANGED vars
  BY <1>1 DEF QueueInv, TypeOK, StreamInOrder, Covered, vars
<1>2. CASE QueueChunk
  BY <1>2, QueueChunkStep
<1>3. CASE Copy
  BY <1>3, CopyStep
\* The other steps leave the queue and what was read alone.
<1>4. CASE Poison \/ PoisonNotify \/ Enter \/ Lock \/ Check \/ Park \/ Return \/ SpuriousWakeup
  <2>1. UNCHANGED <<rx, rxBytes, queued, out>>
    BY <1>4 DEF Poison, PoisonNotify, Enter, Lock, Check, Park, Return, SpuriousWakeup,
                pumpVars
  <2>2. StreamInOrder'
    BY <2>1 DEF QueueInv, StreamInOrder
  <2>3. remaining' \in Nat
    <3>1. CASE Enter
      <4>1. call \in 1 .. Len(Reads)
        BY <3>1, QueueAssumption DEF Enter, QueueInv, TypeOK
      <4> QED BY <3>1, <4>1, QueueAssumption DEF Enter
    <3>2. CASE ~Enter
      BY <1>4, <3>2 DEF QueueInv, TypeOK, Poison, PoisonNotify, Lock, Check, Park, Return,
                        SpuriousWakeup
    <3> QED BY <3>1, <3>2
  <2>4. call' \in 1 .. (Len(Reads) + 1)
    <3>1. Len(Reads) \in Nat
      BY QueueAssumption, LenProperties
    <3>2. CASE Return
      BY <3>1, <3>2 DEF QueueInv, TypeOK, Covered, Return
    <3>3. CASE ~Return
      BY <1>4, <3>3 DEF QueueInv, TypeOK, Poison, PoisonNotify, Enter, Lock, Check, Park,
                        SpuriousWakeup
    <3> QED BY <3>2, <3>3
  <2>5. /\ mu' \in {"free", "app"} /\ rpc' \in ReaderPc
        /\ mu' = "app" <=> rpc' \in {"check", "park", "copy"}
    BY <1>4 DEF QueueInv, TypeOK, ReaderPc, Poison, PoisonNotify, Notify, Enter, Lock,
                Check, Park, Return, SpuriousWakeup
  <2>6. ppc' \in {"run", "notify"} /\ poisoned' \in BOOLEAN
    BY <1>4 DEF QueueInv, TypeOK, Poison, PoisonNotify, Enter, Lock, Check, Park, Return,
                SpuriousWakeup, pumpVars
  <2>7. TypeOK'
    BY <2>1, <2>3, <2>4, <2>5, <2>6 DEF QueueInv, TypeOK
  <2>8. Covered'
    BY <1>4 DEF QueueInv, TypeOK, Covered, Poison, PoisonNotify, Notify, Enter, Lock, Check,
                Park, Return, SpuriousWakeup, Ready
  <2> QED BY <2>2, <2>7, <2>8 DEF QueueInv
<1> QED BY <1>1, <1>2, <1>3, <1>4 DEF Next, Pump, Reader

-----------------------------------------------------------------------------
\* The types of the receive queue; the mutex is held by the application exactly
\* in the locked part of recv().
THEOREM QueueTypes == Spec => []TypeOK
<1>1. QueueInv => TypeOK
  BY DEF QueueInv
<1> QED BY <1>1, QueueInvInit, QueueInvStep, PTL DEF Spec

\* recv() hands out the stream byte for byte and in order, and rx and rx_bytes
\* hold exactly the rest, however chunks and reads cut it up.
THEOREM ReadsInOrder == Spec => []StreamInOrder
<1>1. QueueInv => StreamInOrder
  BY DEF QueueInv
<1> QED BY <1>1, QueueInvInit, QueueInvStep, PTL DEF Spec

\* The copy loop of recv() always finds a chunk: front() is never called on an
\* empty deque.
THEOREM FrontIsThere == Spec => []NeverCopiesEmpty
<1>1. QueueInv => NeverCopiesEmpty
  <2> SUFFICES ASSUME QueueInv, rpc = "copy", remaining > 0 PROVE rx # <<>>
    BY DEF NeverCopiesEmpty
  <2>1. remaining <= rxBytes
    BY DEF QueueInv, Covered
  <2> QED BY <2>1, QueueIs
<1> QED BY <1>1, QueueInvInit, QueueInvStep, PTL DEF Spec
=============================================================================
