-------------------------- MODULE SyncBarrierProofs --------------------------
(***************************************************************************)
(* The first sync() is a barrier, and nobody misses it, proved for any     *)
(* number of parties and rounds, and whatever is lost.                     *)
(*                                                                         *)
(* Barrier rests on where a frame can have come from: whoever has left the *)
(* first emit has spoken in round 1, and so has whoever a frame or an      *)
(* entry of seen names.  FirstSyncHeard is a count: a party q that trails, *)
(* having heard everyone, has sent Trailing - trail[q] frames to everyone, *)
(* all of them up, and one that p, still waiting in round 1, has neither   *)
(* read nor has in its buffer was lost each time.  Of a q that timed out   *)
(* none of this is known: p may not have been up yet.                      *)
(***************************************************************************)
EXTENDS SyncBarrier, FiniteSetTheorems, TLAPS

-----------------------------------------------------------------------------
(* The parts of the invariant.                                             *)

\* A party outside sync()'s first attempt is up, and counts rounds from 1.
Up == \A p \in Parties : IF pc[p] = "down" THEN round[p] = 0 /\ spoken[p] = {}
                                            ELSE round[p] >= 1

\* Whoever has left the first emit has spoken in round 1.
Past(q) == pc[q] \in {"listen", "trail", "drain", "run"} \/ round[q] > 1

SpokenPast == \A q \in Parties : Past(q) => 1 \in spoken[q]

\* A SYNC frame on its way, and one that was counted, come of such a party.
Heard(p, q) == Sync(q) \in inbox[p] \/ q \in seen[p]

SpokenHeard == \A p, q \in Parties : Heard(p, q) => 1 \in spoken[q]

\* The pump runs from the end of the first sync() on.
PumpLate == \A p \in Parties : pump[p] => pc[p] = "run" \/ round[p] > 1

\* p waits in the first sync().
Waits(p) == pc[p] \in {"emit", "listen"} /\ round[p] = 1

\* What q's trailing frames have cost if p, waiting, has none of them.
Cost(q) ==
  /\ pc[q] = "trail" /\ round[q] = 1 => lost + trail[q] >= Trailing
  /\ pc[q] \in {"drain", "run"} \/ round[q] > 1 => lost >= Trailing

Costly ==
  \A p, q \in Parties :
    p # q /\ Waits(p) /\ ~Heard(p, q) /\ <<q, 1>> \notin gaveUp => Cost(q)

Typed == TypeOK /\ Up

BarrierInv == Typed /\ SpokenPast /\ SpokenHeard /\ Barrier /\ PumpLate

SyncInv == BarrierInv /\ Costly

-----------------------------------------------------------------------------
(* The steps, seen one way for all of the proofs.                          *)

Steps(p) ==
  \/ Start(p) \/ Again(p) \/ Emit(p) \/ Quiet(p) \/ Trail(p) \/ TrailDone(p)
  \/ DrainDone(p) \/ SendData(p)
  \/ \E f \in inbox[p] : Listen(p, f) \/ Drain(p, f) \/ Pump(p, f)

LEMMA StepsAre == Next <=> \E p \in Parties : Steps(p)
BY DEF Next, Steps, Receive

LEMMA FrameNames ==
  ASSUME NEW p \in Parties, NEW q
  PROVE  /\ Sync(p) \in Frames /\ Data(p) \in Frames
         /\ Sync(p) # Data(q)
         /\ Sync(p) = Sync(q) => p = q
BY DEF Sync, Data, Frames

\* What a broadcast does: the frame goes to whoever is up, or it is lost there.
LEMMA Wire ==
  ASSUME TypeOK, NEW p \in Parties, NEW frame \in Frames, Broadcast(p, frame)
  PROVE  /\ lost' \in 0 .. MaxLost /\ lost' >= lost
         /\ inbox' \in [Parties -> SUBSET Frames]
         /\ \A q \in Parties : /\ inbox[q] \subseteq inbox'[q]
                               /\ inbox'[q] \subseteq inbox[q] \cup {frame}
         /\ \A q \in Others(p) :
              pc[q] # "down" /\ frame \notin inbox'[q] => lost' >= lost + 1
<1>1. PICK missed \in SUBSET {q \in Others(p) : pc[q] # "down"} :
        /\ lost' = lost + Cardinality(missed)
        /\ lost' <= MaxLost
        /\ inbox' = [q \in Parties |-> IF pc[q] = "down" \/ q \in missed
                                       THEN inbox[q] ELSE inbox[q] \cup {frame}]
  BY DEF Broadcast
<1>2. IsFiniteSet(missed)
  <2>1. missed \in SUBSET Parties
    BY DEF Others
  <2> QED BY <2>1, SyncAssumption, FS_Subset
<1>3. Cardinality(missed) \in Nat
  BY <1>2, FS_CardinalityType
<1>4. lost \in 0 .. MaxLost /\ MaxLost \in Nat /\ inbox \in [Parties -> SUBSET Frames]
  BY SyncAssumption DEF TypeOK
<1>5. ASSUME NEW q \in missed PROVE Cardinality(missed) >= 1
  <2>1. Cardinality(missed) # 0
    BY <1>2, <1>5, FS_EmptySet
  <2> QED BY <2>1, <1>3
<1>6. lost' \in 0 .. MaxLost /\ lost' >= lost
  BY <1>1, <1>3, <1>4
<1>7. inbox' \in [Parties -> SUBSET Frames]
  BY <1>1, <1>4
<1>8. ASSUME NEW q \in Parties
      PROVE  inbox[q] \subseteq inbox'[q] /\ inbox'[q] \subseteq inbox[q] \cup {frame}
  BY <1>1
<1>9. ASSUME NEW q \in Others(p), pc[q] # "down", frame \notin inbox'[q]
      PROVE  lost' >= lost + 1
  <2>1. q \in missed
    BY <1>1, <1>9 DEF Others
  <2> QED BY <2>1, <1>5, <1>1, <1>3, <1>4
<1> QED BY <1>6, <1>7, <1>8, <1>9

\* got = needed: the set heard is all of the others.
LEMMA HeardAllMeans ==
  ASSUME NEW p \in Parties, TypeOK
  PROVE  HeardAll(p) <=> seen[p] = Others(p)
<1>1. IsFiniteSet(Others(p)) /\ Cardinality(Others(p)) = Cardinality(Parties) - 1
  BY SyncAssumption, FS_RemoveElement DEF Others
<1>2. seen[p] \in SUBSET Others(p)
  BY DEF TypeOK, Others
<1>3. Cardinality(Others(p)) = Cardinality(seen[p]) => Others(p) = seen[p]
  BY <1>1, <1>2, FS_Subset
<1> QED BY <1>1, <1>3 DEF HeardAll

-----------------------------------------------------------------------------
(* The types.                                                              *)

LEMMA TypedInit == Init => Typed
BY SyncAssumption DEF Init, Typed, TypeOK, Up, PartyPc, Others

LEMMA TypedStep == Typed /\ [Next]_vars => Typed'
<1> SUFFICES ASSUME Typed, [Next]_vars PROVE Typed'
  OBVIOUS
<1>1. CASE UNCHANGED vars
  BY <1>1 DEF Typed, TypeOK, Up, vars
<1>2. CASE Next
  <2>1. PICK p \in Parties : Steps(p)
    BY <1>2, StepsAre
  <2>2. round[p] \in Nat /\ Rounds \in Nat /\ Trailing \in Nat /\ TypeOK /\ Up
    BY SyncAssumption DEF Typed, TypeOK
  <2> USE DEF Typed, TypeOK, Up, PartyPc
  <2>3. CASE Start(p)
    BY <2>2, <2>3, SyncAssumption DEF Start, Goto
  <2>4. CASE Again(p)
    BY <2>2, <2>4 DEF Again, Goto
  <2>5. CASE Emit(p)
    <3>1. lost' \in 0 .. MaxLost /\ inbox' \in [Parties -> SUBSET Frames]
      BY <2>2, <2>5, Wire, FrameNames DEF Emit
    <3>2. round[p] \in 1 .. Rounds
      BY <2>2, <2>5 DEF Emit
    <3> QED BY <2>2, <2>5, <3>1, <3>2 DEF Emit, Goto
  <2>6. CASE Quiet(p)
    <3>1. trail' \in [Parties -> 0 .. Trailing] /\ pc' \in [Parties -> PartyPc]
      BY <2>2, <2>6 DEF Quiet, Goto, TrailFrom
    <3>2. round[p] \in 1 .. Rounds
      BY <2>2, <2>6 DEF Quiet
    <3>3. gaveUp' \subseteq Parties \X (1 .. Rounds)
      BY <2>2, <2>6, <3>2 DEF Quiet
    <3>4. Up'
      BY <2>2, <2>6 DEF Quiet, Goto
    <3> QED BY <2>2, <2>6, <3>1, <3>3, <3>4 DEF Quiet
  <2>7. CASE Trail(p)
    <3>1. lost' \in 0 .. MaxLost /\ inbox' \in [Parties -> SUBSET Frames]
      BY <2>2, <2>7, Wire, FrameNames DEF Trail
    <3>2. trail[p] - 1 \in 0 .. Trailing
      BY <2>2, <2>7 DEF Trail
    <3>3. trail' \in [Parties -> 0 .. Trailing]
      BY <2>2, <2>7, <3>2 DEF Trail
    <3> QED BY <2>2, <2>7, <3>1, <3>3 DEF Trail
  <2>8. CASE TrailDone(p)
    BY <2>2, <2>8 DEF TrailDone, Goto
  <2>9. CASE DrainDone(p)
    BY <2>2, <2>9 DEF DrainDone, Goto
  <2>10. CASE SendData(p)
    <3>1. lost' \in 0 .. MaxLost /\ inbox' \in [Parties -> SUBSET Frames]
      BY <2>2, <2>10, Wire, FrameNames DEF SendData
    <3> QED BY <2>2, <2>10, <3>1 DEF SendData
  <2>11. CASE \E f \in inbox[p] : Listen(p, f) \/ Drain(p, f) \/ Pump(p, f)
    <3>1. PICK f \in inbox[p] : Listen(p, f) \/ Drain(p, f) \/ Pump(p, f)
      BY <2>11
    <3>2. f \in Frames
      BY <2>2
    <3>3. eaten' \subseteq Frames /\ inbox' \in [Parties -> SUBSET Frames]
      BY <2>2, <3>1, <3>2 DEF Listen, Drain, Pump, Discard
    <3>4. seen' \in [Parties -> SUBSET Parties] /\ \A q \in Parties : q \notin seen'[q]
      <4>1. CASE Listen(p, f) /\ Counts(p, f)
        <5>1. f.from \in Parties /\ f.from # p
          BY <3>2, <4>1 DEF Counts, Frames
        <5> QED BY <2>2, <4>1, <5>1 DEF Listen
      <4>2. CASE Listen(p, f) /\ ~Counts(p, f)
        BY <2>2, <4>2 DEF Listen
      <4>3. CASE Drain(p, f) \/ Pump(p, f)
        BY <2>2, <4>3 DEF Drain, Pump
      <4> QED BY <3>1, <4>1, <4>2, <4>3
    <3> QED BY <2>2, <3>1, <3>3, <3>4 DEF Listen, Drain, Pump
  <2> QED BY <2>1, <2>3, <2>4, <2>5, <2>6, <2>7, <2>8, <2>9, <2>10, <2>11 DEF Steps
<1> QED BY <1>1, <1>2

\* The types of the barrier's state hold in every run of it: heard are only
\* other parties, rounds and trailing frames stay within their bounds.
THEOREM BarrierTypes == Spec => []TypeOK
<1>1. Typed => TypeOK
  BY DEF Typed
<1> QED BY <1>1, TypedInit, TypedStep, PTL DEF Spec

-----------------------------------------------------------------------------
(* Who has spoken.                                                         *)

\* Only Emit adds to what has been said, the sender's own round.
LEMMA SpokenGrows ==
  ASSUME Typed, NEW p \in Parties, Steps(p)
  PROVE  /\ \A q \in Parties : spoken[q] \subseteq spoken'[q]
         /\ Emit(p) => round[p] \in spoken'[p]
BY DEF Typed, TypeOK, Steps, Start, Again, Emit, Quiet, Trail, TrailDone, DrainDone,
       SendData, Listen, Drain, Pump

LEMMA SpokenPastStep ==
  ASSUME Typed, SpokenPast, NEW p \in Parties, Steps(p)
  PROVE  SpokenPast'
<1>1. \A q \in Parties : spoken[q] \subseteq spoken'[q]
  BY SpokenGrows
<1>2. \A q \in Parties : q # p => pc'[q] = pc[q] /\ round'[q] = round[q]
  BY DEF Typed, TypeOK, Steps, Start, Again, Emit, Quiet, Trail, TrailDone, DrainDone,
         SendData, Listen, Drain, Pump, Goto
<1>3. Past(p)' => 1 \in spoken'[p]
  <2>1. CASE Start(p)
    BY <2>1 DEF Typed, TypeOK, Start, Goto, Past
  <2>2. CASE Emit(p)
    <3>1. round[p] >= 1 /\ round[p] \in Nat
      BY <2>2, SyncAssumption DEF Typed, TypeOK, Up, Emit
    <3>2. CASE round[p] = 1
      BY <2>2, <3>2, SpokenGrows DEF Steps
    <3>3. CASE round[p] > 1
      BY <3>3, <1>1 DEF SpokenPast, Past
    <3> QED BY <3>1, <3>2, <3>3
  <2>3. CASE ~Start(p) /\ ~Emit(p)
    <3>1. Past(p)' => Past(p)
      BY <2>3 DEF Typed, TypeOK, Steps, Again, Quiet, Trail, TrailDone, DrainDone,
                  SendData, Listen, Drain, Pump, Goto, Past
    <3> QED BY <3>1, <1>1 DEF SpokenPast
  <2> QED BY <2>1, <2>2, <2>3
<1> QED BY <1>1, <1>2, <1>3 DEF SpokenPast, Past

LEMMA SpokenHeardStep ==
  ASSUME Typed, SpokenPast, SpokenHeard, NEW p \in Parties, Steps(p)
  PROVE  SpokenHeard'
<1> SUFFICES ASSUME NEW o \in Parties, NEW q \in Parties, Heard(o, q)'
             PROVE  1 \in spoken'[q]
  BY DEF SpokenHeard
<1>1. Heard(o, q) => 1 \in spoken'[q]
  BY SpokenGrows DEF SpokenHeard
<1>2. CASE Emit(p) \/ Trail(p)
  <2>1. inbox'[o] \subseteq inbox[o] \cup {Sync(p)} /\ seen' = seen
    BY <1>2, Wire, FrameNames DEF Emit, Trail, Typed
  <2>2. CASE q = p
    <3>1. Past(p)'
      BY <1>2 DEF Typed, TypeOK, Emit, Trail, Goto, Past
    <3> QED BY <2>2, <3>1, SpokenPastStep DEF SpokenPast
  <2>3. CASE q # p
    BY <1>1, <2>1, <2>3, FrameNames DEF Heard
  <2> QED BY <2>2, <2>3
<1>3. CASE SendData(p)
  <2>1. inbox'[o] \subseteq inbox[o] \cup {Data(p)} /\ seen' = seen
    BY <1>3, Wire, FrameNames DEF SendData, Typed
  <2> QED BY <1>1, <2>1, FrameNames DEF Heard
<1>4. CASE \E f \in inbox[p] : Listen(p, f) \/ Drain(p, f) \/ Pump(p, f)
  <2>1. PICK f \in inbox[p] : Listen(p, f) \/ Drain(p, f) \/ Pump(p, f)
    BY <1>4
  <2>2. inbox'[o] \subseteq inbox[o]
    BY <2>1 DEF Typed, TypeOK, Listen, Drain, Pump
  <2>3. CASE q \in seen'[o] /\ q \notin seen[o]
    <3>1. o = p /\ f.from = q /\ f.kind = "sync" /\ f \in Frames
      BY <2>1, <2>3 DEF Typed, TypeOK, Listen, Drain, Pump, Counts
    <3>2. f = Sync(q)
      BY <3>1 DEF Frames, Sync
    <3> QED BY <1>1, <2>1, <3>1, <3>2 DEF Heard
  <2> QED BY <1>1, <2>2, <2>3 DEF Heard
<1>5. CASE Start(p) \/ Again(p) \/ Quiet(p) \/ TrailDone(p) \/ DrainDone(p)
  <2>1. inbox' = inbox /\ seen'[o] \subseteq seen[o]
    BY <1>5 DEF Typed, TypeOK, Start, Again, Quiet, TrailDone, DrainDone
  <2> QED BY <1>1, <2>1 DEF Heard
<1> QED BY <1>2, <1>3, <1>4, <1>5 DEF Steps

LEMMA PumpLateStep ==
  ASSUME Typed, PumpLate, NEW p \in Parties, Steps(p)
  PROVE  PumpLate'
<1>1. CASE Start(p)
  <2>1. ~pump[p]
    BY <1>1 DEF Start, PumpLate, TypeOK, Typed, Up
  <2> QED BY <1>1, <2>1 DEF Start, Goto, PumpLate, Typed, TypeOK
<1>2. CASE Again(p)
  <2>1. round[p] >= 1 /\ round[p] \in Nat
    BY <1>2, SyncAssumption DEF Again, Typed, Up, TypeOK
  <2> QED BY <1>2, <2>1 DEF Again, Goto, PumpLate, Typed, TypeOK
<1>3. CASE Emit(p) \/ Quiet(p) \/ Trail(p) \/ TrailDone(p)
  BY <1>3 DEF Emit, Quiet, Trail, TrailDone, Goto, PumpLate, Typed, TypeOK
<1>4. CASE DrainDone(p)
  BY <1>4 DEF DrainDone, Goto, PumpLate, Typed, TypeOK
<1>5. CASE SendData(p) \/ \E f \in inbox[p] : Listen(p, f) \/ Drain(p, f) \/ Pump(p, f)
  BY <1>5 DEF SendData, Listen, Drain, Pump, PumpLate
<1> QED BY <1>1, <1>2, <1>3, <1>4, <1>5 DEF Steps

-----------------------------------------------------------------------------
(* The barrier.                                                            *)

LEMMA BarrierStep ==
  ASSUME BarrierInv, NEW p \in Parties, Steps(p)
  PROVE  Barrier'
<1> SUFFICES ASSUME NEW o \in Parties, NEW q \in Parties,
                    (Through(o) \/ round[o] > 1)', <<o, 1>> \notin gaveUp'
             PROVE  1 \in spoken'[q]
  BY DEF Barrier
<1> USE DEF BarrierInv, Typed
<1>1. spoken[q] \subseteq spoken'[q]
  BY SpokenGrows
<1>2. gaveUp \subseteq gaveUp'
  BY DEF Steps, Start, Again, Emit, Quiet, Trail, TrailDone, DrainDone, SendData, Listen,
         Drain, Pump
<1>3. CASE Through(o) \/ round[o] > 1
  BY <1>1, <1>2, <1>3 DEF Barrier
<1>4. CASE ~(Through(o) \/ round[o] > 1)
  <2>1. o = p /\ Quiet(p)
    BY <1>4, SyncAssumption
       DEF TypeOK, Steps, Start, Again, Emit, Quiet, Trail, TrailDone, DrainDone,
           SendData, Listen, Drain, Pump, Goto, Through
  <2>2. HeardAll(p)
    <3>1. round[p] = 1
      BY <1>4, <2>1, SyncAssumption DEF TypeOK, Up, Quiet
    <3> QED BY <1>4, <2>1, <3>1 DEF TypeOK, Quiet, Goto, Through
  <2>3. seen[p] = Others(p)
    BY <2>2, HeardAllMeans
  <2>4. CASE q = p
    BY <1>1, <2>1, <2>4 DEF SpokenPast, Past, Quiet
  <2>5. CASE q # p
    BY <1>1, <2>3, <2>5 DEF SpokenHeard, Heard, Others
  <2> QED BY <2>4, <2>5
<1> QED BY <1>3, <1>4

LEMMA BarrierInvStep == BarrierInv /\ [Next]_vars => BarrierInv'
<1> SUFFICES ASSUME BarrierInv, [Next]_vars PROVE BarrierInv'
  OBVIOUS
<1>1. Typed'
  BY TypedStep DEF BarrierInv
<1>2. CASE UNCHANGED vars
  BY <1>1, <1>2 DEF BarrierInv, SpokenPast, Past, SpokenHeard, Heard, Barrier, Through,
                    PumpLate, vars
<1>3. CASE Next
  <2>1. PICK p \in Parties : Steps(p)
    BY <1>3, StepsAre
  <2> QED BY <1>1, <2>1, SpokenPastStep, SpokenHeardStep, BarrierStep, PumpLateStep
          DEF BarrierInv
<1> QED BY <1>2, <1>3

LEMMA BarrierInvInit == Init => BarrierInv
<1> SUFFICES ASSUME Init PROVE BarrierInv
  OBVIOUS
<1> QED BY TypedInit
        DEF BarrierInv, Init, SpokenPast, Past, SpokenHeard, Heard, Barrier, Through, PumpLate

\* The first sync() is a barrier, for any number of parties and rounds and any
\* losses: nobody is past it without a timeout before every other party has
\* entered it and sent its first SYNC.
THEOREM BarrierHolds == Spec => []Barrier
<1>1. BarrierInv => Barrier
  BY DEF BarrierInv
<1> QED BY <1>1, BarrierInvInit, BarrierInvStep, PTL DEF Spec

-----------------------------------------------------------------------------
(* What it costs to miss the trailing frames.                              *)

LEMMA LostGrows ==
  ASSUME Typed, NEW p \in Parties, Steps(p)
  PROVE  lost' >= lost /\ lost' \in Nat /\ lost \in Nat
<1>1. lost \in Nat /\ MaxLost \in Nat
  BY SyncAssumption DEF Typed, TypeOK
<1>2. CASE Emit(p) \/ Trail(p) \/ SendData(p)
  BY <1>1, <1>2, Wire, FrameNames DEF Emit, Trail, SendData, Typed
<1>3. CASE ~(Emit(p) \/ Trail(p) \/ SendData(p))
  BY <1>1, <1>3 DEF Steps, Start, Again, Quiet, TrailDone, DrainDone, Listen, Drain, Pump
<1> QED BY <1>2, <1>3

\* Nobody but o takes a frame to o, or what o has heard, away.
LEMMA HeardKept ==
  ASSUME Typed, NEW p \in Parties, Steps(p), NEW o \in Parties \ {p}, NEW q
  PROVE  /\ pc'[o] = pc[o] /\ round'[o] = round[o] /\ trail'[o] = trail[o]
         /\ Heard(o, q) => Heard(o, q)'
<1>1. CASE Emit(p) \/ Trail(p) \/ SendData(p)
  <2>1. inbox[o] \subseteq inbox'[o]
    BY <1>1, Wire, FrameNames DEF Emit, Trail, SendData, Typed
  <2> QED BY <1>1, <2>1 DEF Typed, TypeOK, Emit, Trail, SendData, Goto, Heard
<1>2. CASE Start(p) \/ Again(p) \/ Quiet(p) \/ TrailDone(p) \/ DrainDone(p)
  BY <1>2 DEF Typed, TypeOK, Start, Again, Quiet, TrailDone, DrainDone, Goto, TrailFrom, Heard
<1>3. CASE \E f \in inbox[p] : Listen(p, f) \/ Drain(p, f) \/ Pump(p, f)
  BY <1>3 DEF Typed, TypeOK, Listen, Drain, Pump, Heard
<1> QED BY <1>1, <1>2, <1>3 DEF Steps

\* A timeout is not taken back.
LEMMA GaveUpGrows ==
  ASSUME NEW p \in Parties, Steps(p)
  PROVE  gaveUp \subseteq gaveUp'
BY DEF Steps, Start, Again, Emit, Quiet, Trail, TrailDone, DrainDone, SendData, Listen,
       Drain, Pump

LEMMA CostlyStep ==
  ASSUME BarrierInv, Costly, NEW p \in Parties, Steps(p)
  PROVE  Costly'
<1> SUFFICES ASSUME NEW o \in Parties, NEW q \in Parties, o # q, Waits(o)', ~Heard(o, q)',
                    <<q, 1>> \notin gaveUp'
             PROVE  Cost(q)'
  BY DEF Costly
<1> USE DEF BarrierInv, Typed
<1>0. <<q, 1>> \notin gaveUp
  BY GaveUpGrows
<1>1. lost' >= lost /\ lost' \in Nat /\ lost \in Nat /\ Trailing \in Nat
  BY LostGrows, SyncAssumption
<1>2. trail[q] \in Nat /\ round[q] \in Nat /\ round[o] \in Nat
  BY SyncAssumption DEF TypeOK
<1>3. ASSUME p # q, Cost(q) PROVE Cost(q)'
  BY <1>1, <1>2, <1>3, HeardKept DEF Cost
<1>4. CASE p = o
  <2>1. CASE Start(p)
    <3>1. spoken[o] = {}
      BY <1>4, <2>1 DEF Up, Start
    <3>2. ~(Through(q) \/ round[q] > 1)
      BY <1>0, <3>1 DEF Barrier
    <3> QED BY <1>3, <1>4, <3>2 DEF Cost, Through
  <2>2. ~Start(p) => Waits(o) /\ ~Heard(o, q)
    <3>1. CASE Emit(p)
      <4>1. inbox[o] \subseteq inbox'[o]
        BY <3>1, Wire, FrameNames DEF Emit
      <4> QED BY <1>4, <3>1, <4>1 DEF Emit, Waits, Heard
    <3>2. CASE Quiet(p)
      BY <1>4, <3>2 DEF Quiet, Waits, Heard
    <3>3. CASE Again(p)
      <4>1. round[o] >= 1
        BY <1>4, <3>3 DEF Up, Again
      <4>2. round'[o] = round[o] + 1
        BY <1>4, <3>3 DEF TypeOK, Again
      <4> QED BY <1>2, <4>1, <4>2 DEF Waits
    <3>4. CASE Trail(p) \/ TrailDone(p) \/ DrainDone(p) \/ SendData(p)
      BY <1>4, <3>4 DEF TypeOK, Trail, TrailDone, DrainDone, SendData, Goto, Waits
    <3>5. CASE \E f \in inbox[p] : Drain(p, f) \/ Pump(p, f)
      BY <1>4, <3>5 DEF Drain, Pump, PumpLate, Waits
    <3>6. CASE \E f \in inbox[p] : Listen(p, f)
      <4>1. PICK f \in inbox[p] : Listen(p, f)
        BY <3>6
      <4>2. f = Sync(q) => Counts(p, f) /\ f.from = q
        BY <1>4 DEF Sync, Counts
      <4> QED BY <1>4, <4>1, <4>2 DEF TypeOK, Listen, Waits, Heard
    <3> QED BY <3>1, <3>2, <3>3, <3>4, <3>5, <3>6 DEF Steps
  <2> QED BY <1>0, <1>3, <1>4, <2>1, <2>2 DEF Costly
<1>5. CASE p # o
  <2>1. Waits(o) /\ ~Heard(o, q) /\ pc'[o] = pc[o]
    BY <1>5, HeardKept DEF Waits
  <2>2. Cost(q)
    BY <1>0, <2>1 DEF Costly
  <2>3. CASE p = q
    <3>1. CASE Start(p)
      BY <2>3, <3>1 DEF TypeOK, Start, Goto, Cost
    <3>2. CASE Again(p)
      <4>1. lost >= Trailing /\ lost' = lost
        BY <2>2, <2>3, <3>2 DEF Again, Cost
      <4>2. pc'[q] = "emit"
        BY <2>3, <3>2 DEF TypeOK, Again, Goto
      <4> QED BY <4>1, <4>2 DEF Cost
    <3>3. CASE Quiet(p)
      <4>1. trail'[q] = Trailing \/ pc'[q] = "emit"
        BY <2>3, <3>3 DEF TypeOK, Quiet, Goto, TrailFrom
      <4>2. pc'[q] \in {"trail", "emit"} /\ round' = round
        BY <2>3, <3>3 DEF TypeOK, Quiet, Goto
      <4> QED BY <1>1, <1>2, <2>2, <4>1, <4>2 DEF Cost
    <3>4. CASE Trail(p)
      <4>1. lost' >= lost + 1
        <5>1. o \in Others(p) /\ pc[o] # "down"
          BY <1>5, <2>1 DEF Others, Waits
        <5>2. Sync(q) \notin inbox'[o]
          BY DEF Heard
        <5> QED BY <2>3, <3>4, <5>1, <5>2, Wire, FrameNames DEF Trail
      <4>2. trail'[q] = trail[q] - 1 /\ pc[q] = "trail" /\ pc' = pc /\ round' = round
        BY <2>3, <3>4 DEF TypeOK, Trail
      <4> QED BY <1>1, <1>2, <2>2, <4>1, <4>2 DEF Cost
    <3>5. CASE TrailDone(p)
      <4>1. trail[q] = 0 /\ pc[q] = "trail" /\ pc'[q] = "drain" /\ round' = round /\ lost' = lost
        BY <2>3, <3>5 DEF TypeOK, TrailDone, Goto
      <4>2. round[q] >= 1
        BY <4>1 DEF Up
      <4> QED BY <1>1, <1>2, <2>2, <4>1, <4>2 DEF Cost
    <3>6. CASE Emit(p) \/ DrainDone(p) \/ SendData(p)
      <4>1. round' = round
            /\ \/ pc'[q] \in {pc[q], "listen"}
               \/ pc[q] = "drain" /\ pc'[q] = "run"
        BY <2>3, <3>6 DEF TypeOK, Emit, DrainDone, SendData, Goto
      <4>2. pc'[q] # "trail"
        <5>1. pc[q] # "trail"
          BY <2>3, <3>6 DEF Emit, DrainDone, SendData
        <5> QED BY <4>1, <5>1
      <4>3. pc'[q] \in {"drain", "run"} => pc[q] \in {"drain", "run"}
        BY <4>1
      <4> QED BY <1>1, <1>2, <2>2, <4>1, <4>2, <4>3 DEF Cost
    <3>7. CASE \E f \in inbox[p] : Listen(p, f) \/ Drain(p, f) \/ Pump(p, f)
      BY <2>2, <3>7 DEF Listen, Drain, Pump, Cost
    <3> QED BY <3>1, <3>2, <3>3, <3>4, <3>5, <3>6, <3>7 DEF Steps
  <2> QED BY <1>3, <2>2, <2>3
<1> QED BY <1>4, <1>5

LEMMA SyncInvStep == SyncInv /\ [Next]_vars => SyncInv'
<1> SUFFICES ASSUME SyncInv, [Next]_vars PROVE SyncInv'
  OBVIOUS
<1>1. BarrierInv'
  BY BarrierInvStep DEF SyncInv
<1>2. CASE UNCHANGED vars
  BY <1>1, <1>2 DEF SyncInv, Costly, Cost, Waits, Heard, vars
<1>3. CASE Next
  <2>1. PICK p \in Parties : Steps(p)
    BY <1>3, StepsAre
  <2> QED BY <1>1, <2>1, CostlyStep DEF SyncInv
<1> QED BY <1>2, <1>3

LEMMA SyncInvInit == Init => SyncInv
<1> SUFFICES ASSUME Init PROVE SyncInv
  OBVIOUS
<1> QED BY BarrierInvInit DEF SyncInv, Init, Costly, Cost, Waits

\* "Trailing emits so peers that completed sync slightly later still catch one
\* of our SYNCs": as long as fewer frames are lost than one party sends
\* trailing, an attempt of the first sync() does not end without every party in
\* seen that heard everyone and is done trailing; with any number of parties,
\* whoever else times out, and whenever.
THEOREM FirstSyncReaches == Spec => []FirstSyncHeard
<1>1. SyncInv => FirstSyncHeard
  <2> SUFFICES ASSUME SyncInv, lost < Trailing, NEW p \in Parties, NEW q \in Parties,
                      p # q, round[p] = 1, pc[p] = "listen", Silent(p), PassedUntimed(q),
                      q \notin seen[p]
               PROVE  FALSE
    BY DEF FirstSyncHeard
  <2>1. Waits(p) /\ ~Heard(p, q)
    BY DEF Waits, Heard, Silent
  <2>2. lost >= Trailing
    BY <2>1 DEF SyncInv, Costly, Cost, PassedUntimed
  <2> QED BY <2>2, SyncAssumption DEF SyncInv, BarrierInv, Typed, TypeOK
<1> QED BY <1>1, SyncInvInit, SyncInvStep, PTL DEF Spec
=============================================================================
