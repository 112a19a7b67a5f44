---------------------------- MODULE TdmaGateProofs ----------------------------
(***************************************************************************)
(* Proofs about TdmaGate, for any schedule, number of threads and clock    *)
(* error: what the guard band must cover for the gate to keep its promise. *)
(***************************************************************************)
EXTENDS TdmaGate, TLAPS

\* Every sending party owns a slot: one that owns none passes at once.
EveryoneOwns == \A t \in Threads : \E s \in Slots : Owns(t, s)

\* The guard band covers the time from the gate to mark_post ...
GuardCoversLag == MaxLag <= Guard

\* ... and, between any two parties, the disagreement of their clocks too.
GuardCoversSkew ==
  GuardCoversLag /\ \A p, q \in Parties : MaxLag + (Ahead[p] - Ahead[q]) <= Guard

-----------------------------------------------------------------------------
(* Arithmetic of the cycle.                                                *)

LEMMA ModSmall == ASSUME NEW c \in Nat \ {0}, NEW n \in 0 .. (c - 1) PROVE n % c = n
OBVIOUS

LEMMA DivIs ==
  ASSUME NEW c \in Nat \ {0}, NEW n \in Nat,
         NEW q \in Int, q = n \div c, NEW r \in Int, r = n % c
  PROVE  q \in Nat /\ r \in 0 .. (c - 1) /\ n = q * c + r
<1>1. n = c * q + r
  OBVIOUS
<1>2. r \in 0 .. (c - 1)
  OBVIOUS
<1>3. q \in Nat
  OBVIOUS
<1> QED BY <1>1, <1>2, <1>3

\* A view of a time may be taken before or after the cycle is cut off.
LEMMA ModShift ==
  ASSUME NEW c \in Nat \ {0}, NEW a \in Nat, NEW k \in Nat
  PROVE  ((a % c) + k) % c = (a + k) % c
<1>1. PICK p \in Int, b \in Int : p = a \div c /\ b = a % c
  OBVIOUS
<1>2. p \in Nat /\ b \in 0 .. (c - 1) /\ a = p * c + b
  BY <1>1, DivIs
<1>3. PICK q \in Int, r \in Int : q = (b + k) \div c /\ r = (b + k) % c
  BY <1>2
<1>4. q \in Nat /\ r \in 0 .. (c - 1) /\ b + k = q * c + r
  BY <1>2, <1>3, DivIs
<1>5. PICK s \in Int : s = p + q
  BY <1>2, <1>4
<1>6. PICK n \in Nat : n = a + k
  OBVIOUS
<1>7. n = s * c + r
  BY <1>2, <1>4, <1>5, <1>6
<1>8. r \in 0 .. (c - 1)
  BY <1>4
<1>9. n % c = r
  BY <1>7, <1>8
<1> QED BY <1>1, <1>3, <1>6, <1>9

\* Multiplication by a positive number keeps order.
LEMMA TimesOrder ==
  ASSUME NEW c \in Nat \ {0}, NEW x \in Int, NEW y \in Int
  PROVE  x * c < y * c <=> x < y
OBVIOUS

LEMMA CycleNat == Cycle \in Nat \ {0} /\ NumSlots \in Nat \ {0} /\ SlotNs \in Nat \ {0}
BY GateAssumption DEF Cycle

LEMMA SlotIs ==
  ASSUME NEW n \in 0 .. (Cycle - 1)
  PROVE  /\ SlotOf(n) \in Slots
         /\ RemainingAt(n) = (SlotOf(n) + 1) * SlotNs - n
         /\ RemainingAt(n) \in 1 .. SlotNs
<1>1. PICK s \in Int, r \in Int : s = n \div SlotNs /\ r = n % SlotNs
  BY CycleNat
<1>2. s \in Nat /\ r \in 0 .. (SlotNs - 1) /\ n = s * SlotNs + r
  BY <1>1, CycleNat, DivIs
<1>3. s * SlotNs < NumSlots * SlotNs
  BY <1>2, CycleNat DEF Cycle
<1>4. s < NumSlots
  BY <1>2, <1>3, CycleNat, TimesOrder
<1>5. (s + 1) * SlotNs = s * SlotNs + SlotNs
  BY <1>2, CycleNat
<1>6. SlotOf(n) = s /\ RemainingAt(n) = SlotNs - r
  BY <1>1, <1>2, CycleNat DEF SlotOf, RemainingAt
<1> QED BY <1>2, <1>4, <1>5, <1>6, CycleNat DEF Slots

\* Time that is left in a slot may pass in it.
LEMMA SameSlot ==
  ASSUME NEW n \in 0 .. (Cycle - 1), NEW d \in Nat, d < RemainingAt(n)
  PROVE  /\ n + d \in 0 .. (Cycle - 1)
         /\ SlotOf(n + d) = SlotOf(n)
         /\ RemainingAt(n + d) = RemainingAt(n) - d
<1>1. PICK s \in Int : s = SlotOf(n)
  BY SlotIs DEF Slots
<1>2. s \in Nat /\ s + 1 <= NumSlots /\ RemainingAt(n) = (s + 1) * SlotNs - n
      /\ RemainingAt(n) <= SlotNs
  BY <1>1, SlotIs, CycleNat DEF Slots
<1>3. (s + 1) * SlotNs = s * SlotNs + SlotNs
  BY CycleNat
<1>4. (s + 1) * SlotNs <= NumSlots * SlotNs
  <2>1. ~(NumSlots * SlotNs < (s + 1) * SlotNs)
    BY <1>2, CycleNat, TimesOrder
  <2> QED BY <1>3, <2>1, CycleNat
<1>5. PICK m \in Nat : m = n + d
  OBVIOUS
<1>6. PICK r \in Int : r = m - s * SlotNs
  BY <1>5, CycleNat
<1>7. r \in 0 .. (SlotNs - 1) /\ m = s * SlotNs + r
  BY <1>2, <1>3, <1>5, <1>6, CycleNat
<1>8. m \div SlotNs = s
  BY <1>7, CycleNat
<1>9. m < Cycle
  BY <1>2, <1>3, <1>4, <1>5, CycleNat DEF Cycle
<1> QED BY <1>1, <1>2, <1>3, <1>5, <1>8, <1>9, CycleNat DEF SlotOf, RemainingAt

-----------------------------------------------------------------------------
(* A party's view of the clock.                                            *)

LEMMA ViewNat == ASSUME NEW t \in Threads PROVE Party[t] \in Parties /\ Ahead[Party[t]] \in Nat
BY GateAssumption DEF Parties

LEMMA NowRange ==
  ASSUME pos \in 0 .. (Cycle - 1), NEW t \in Threads
  PROVE  Now(t) \in 0 .. (Cycle - 1)
<1>1. PICK n \in Nat : n = pos + Ahead[Party[t]]
  BY ViewNat, CycleNat
<1>2. n % Cycle \in 0 .. (Cycle - 1)
  BY <1>1, CycleNat
<1> QED BY <1>1, <1>2 DEF Now

\* While there is more than a tick left of the slot, a tick stays in it.
LEMMA NowTicks ==
  ASSUME pos \in 0 .. (Cycle - 1), pos' = (pos + 1) % Cycle,
         NEW t \in Threads, RemainingAt(Now(t)) > 1
  PROVE  Now(t)' = Now(t) + 1
<1>1. PICK a \in Nat, c \in Nat \ {0} : a = Ahead[Party[t]] /\ c = Cycle
  BY ViewNat, CycleNat
<1>2. (((pos + 1) % c) + a) % c = ((pos + 1) + a) % c
  <2>1. pos + 1 \in Nat
    BY CycleNat
  <2> QED BY <1>1, <2>1, ModShift
<1>3. (((pos + a) % c) + 1) % c = ((pos + a) + 1) % c
  <2>1. pos + a \in Nat
    BY <1>1, CycleNat
  <2> QED BY <1>1, <2>1, ModShift
<1>4. (pos + 1) + a = (pos + a) + 1
  BY <1>1, CycleNat
<1>5. Now(t) = (pos + a) % c /\ Now(t)' = (((pos + 1) % c) + a) % c
  BY <1>1 DEF Now
<1>6. Now(t)' = (Now(t) + 1) % c
  BY <1>2, <1>3, <1>4, <1>5
<1>7. Now(t) + 1 \in 0 .. (c - 1)
  BY <1>1, NowRange, SameSlot
<1> QED BY <1>1, <1>6, <1>7, ModSmall

\* Two views whose difference is left of the slot are in the same slot.
LEMMA NowAgree ==
  ASSUME pos \in 0 .. (Cycle - 1), NEW t \in Threads, NEW u \in Threads,
         NEW d \in Nat, Ahead[Party[u]] = Ahead[Party[t]] + d, d < RemainingAt(Now(t))
  PROVE  SlotOf(Now(u)) = SlotOf(Now(t))
<1>1. PICK a \in Nat, c \in Nat \ {0} : a = Ahead[Party[t]] /\ c = Cycle
  BY ViewNat, CycleNat
<1>2. (((pos + a) % c) + d) % c = ((pos + a) + d) % c
  <2>1. pos + a \in Nat
    BY <1>1, CycleNat
  <2> QED BY <1>1, <2>1, ModShift
<1>3. pos + (a + d) = (pos + a) + d
  BY <1>1, CycleNat
<1>4. Now(u) = (Now(t) + d) % c
  BY <1>1, <1>2, <1>3 DEF Now
<1>5. Now(t) + d \in 0 .. (c - 1) /\ SlotOf(Now(t) + d) = SlotOf(Now(t))
  BY <1>1, NowRange, SameSlot
<1> QED BY <1>1, <1>4, <1>5, ModSmall

\* Who owns a slot is never told that none is ahead.
LEMMA AheadSome ==
  ASSUME EveryoneOwns, NEW t \in Threads, NEW cur \in Slots
  PROVE  AheadOwned(t, cur) # {}
<1>1. PICK s \in Slots : Owns(t, s)
  BY DEF EveryoneOwns
<1>2. s \in 0 .. (NumSlots - 1) /\ cur \in 0 .. (NumSlots - 1) /\ NumSlots \in Nat \ {0}
  BY CycleNat DEF Slots
<1>3. CASE s > cur
  <2>1. s - cur \in 1 .. NumSlots /\ cur + (s - cur) = s
    BY <1>2, <1>3
  <2>2. s % NumSlots = s
    BY <1>2, ModSmall
  <2> QED BY <1>1, <2>1, <2>2 DEF AheadOwned
<1>4. CASE s <= cur
  <2>1. PICK k \in Int, n \in Nat : k = s - cur + NumSlots /\ n = cur + k
    BY <1>2
  <2>2. k \in 1 .. NumSlots /\ n = 1 * NumSlots + s
    BY <1>2, <1>4, <2>1
  <2>3. n % NumSlots = s
    BY <1>2, <2>2
  <2> QED BY <1>1, <2>1, <2>2, <2>3 DEF AheadOwned
<1> QED BY <1>2, <1>3, <1>4

LEMMA SleepRange ==
  ASSUME NEW n \in 0 .. (Cycle - 1), NEW k \in 1 .. NumSlots
  PROVE  SleepFor(n, k) \in 1 .. Cycle
<1>1. PICK s \in Nat : s = SlotOf(n)
  BY SlotIs DEF Slots
<1>2. (s + 1) * SlotNs - n \in 1 .. SlotNs
  BY <1>1, SlotIs
<1>3. (s + 1) * SlotNs = s * SlotNs + SlotNs
  BY CycleNat
<1>4. (s + k) * SlotNs = s * SlotNs + k * SlotNs
  BY CycleNat
<1>5. 1 * SlotNs <= k * SlotNs /\ k * SlotNs <= NumSlots * SlotNs
  <2>1. ~(k * SlotNs < 1 * SlotNs) /\ ~(NumSlots * SlotNs < k * SlotNs)
    BY CycleNat, TimesOrder
  <2> QED BY <2>1, CycleNat
<1> QED BY <1>1, <1>2, <1>3, <1>4, <1>5, CycleNat DEF SleepFor, Cycle

-----------------------------------------------------------------------------
(* Type correctness.                                                       *)

LEMMA ThreadTypes ==
  ASSUME TypeOK, NEW t \in Threads, Request(t) \/ Gate(t) \/ Send(t) \/ EmitAgain(t) \/ SendPoison(t)
  PROVE  TypeOK'
<1> USE DEF TypeOK
<1>1. Now(t) \in 0 .. (Cycle - 1) /\ SlotOf(Now(t)) \in Slots /\ Party[t] \in Parties
  BY NowRange, SlotIs, ViewNat
<1>2. CASE Request(t) \/ EmitAgain(t)
  BY <1>2 DEF Request, EmitAgain, ThreadPc
<1>3. CASE GatePasses(t)
  BY <1>3, GateAssumption, CycleNat DEF GatePasses, ThreadPc
<1>4. CASE GateSleeps(t)
  <2>1. PICK k \in 1 .. NumSlots : left' = [left EXCEPT ![t] = SleepFor(Now(t), k)]
    BY <1>4 DEF GateSleeps, AheadOwned
  <2>2. SleepFor(Now(t), k) \in (-Oversleep) .. Cycle
    BY <1>1, SleepRange, GateAssumption, CycleNat
  <2> QED BY <1>4, <2>1, <2>2 DEF GateSleeps, ThreadPc
<1>5. CASE MarkPre(t)
  BY <1>1, <1>5 DEF MarkPre, ThreadPc
<1>6. CASE Emit(t)
  <2>1. air' \subseteq Parties \X Slots \X BOOLEAN
    <3>1. <<Party[t], SlotOf(Now(t)), TRUE>> \in Parties \X Slots \X BOOLEAN
      BY <1>1
    <3> QED BY <1>6, <3>1, Zenon DEF Emit
  <2> QED BY <1>6, <2>1 DEF Emit, ThreadPc
<1>7. CASE MarkPost(t)
  BY <1>7 DEF MarkPost, ThreadPc
<1>8. CASE SendPoison(t)
  <2>1. air' \subseteq Parties \X Slots \X BOOLEAN
    <3>1. <<Party[t], SlotOf(Now(t)), FALSE>> \in Parties \X Slots \X BOOLEAN
      BY <1>1
    <3> QED BY <1>8, <3>1, Zenon DEF SendPoison
  <2> QED BY <1>8, <2>1 DEF SendPoison
<1> QED BY <1>2, <1>3, <1>4, <1>5, <1>6, <1>7, <1>8 DEF Gate, Send

LEMMA TickTypes == ASSUME TypeOK, Tick PROVE TypeOK'
<1> USE DEF TypeOK
<1>1. pos' \in 0 .. (Cycle - 1)
  <2>1. PICK n \in Nat : n = pos + 1
    BY CycleNat
  <2>2. n % Cycle \in 0 .. (Cycle - 1)
    BY CycleNat
  <2> QED BY <2>1, <2>2 DEF Tick
<1>2. lag' \in [Threads -> 0 .. MaxLag]
  BY GateAssumption DEF Tick
<1>3. left' \in [Threads -> (-Oversleep) .. Cycle]
  BY GateAssumption, CycleNat DEF Tick
<1> QED BY <1>1, <1>2, <1>3 DEF Tick

(* A thread is never told to sleep longer than a cycle, and every slot     *)
(* number the scheduler computes is one of the schedule.                   *)
THEOREM GateTypes == Spec => []TypeOK
<1>1. Init => TypeOK
  <2> SUFFICES ASSUME Init PROVE TypeOK
    OBVIOUS
  <2>1. pos \in 0 .. (Cycle - 1) /\ air = {} /\ tally = {}
    BY DEF Init
  <2>2. /\ pc = [t \in Threads |-> "idle"] /\ left = [t \in Threads |-> 0]
        /\ lag = [t \in Threads |-> 0] /\ pre = [t \in Threads |-> 0]
    BY DEF Init
  <2>3. 0 \in Slots /\ 0 \in 0 .. MaxLag /\ 0 \in (-Oversleep) .. Cycle
    BY GateAssumption, CycleNat DEF Slots
  <2> QED BY <2>1, <2>2, <2>3 DEF TypeOK, ThreadPc
<1>2. TypeOK /\ [Next]_vars => TypeOK'
  <2> SUFFICES ASSUME TypeOK, [Next]_vars PROVE TypeOK'
    OBVIOUS
  <2>1. CASE UNCHANGED vars
    BY <2>1 DEF vars, TypeOK
  <2> QED BY <2>1, TickTypes, ThreadTypes DEF Next
<1> QED BY <1>1, <1>2, PTL DEF Spec

-----------------------------------------------------------------------------
(* The gate's promise.                                                     *)

\* The slot a thread was let through for is its party's, and what is left of
\* it is more than the guard band less the time since.
InSlot(t) ==
  /\ Owns(t, SlotOf(Now(t)))
  /\ RemainingAt(Now(t)) > Guard - lag[t]

GateSound ==
  \A t \in Threads :
    /\ Passing(t) => InSlot(t)
    /\ pc[t] \in {"emit", "post"} => pre[t] = SlotOf(Now(t))

LEMMA ThreadSound ==
  ASSUME EveryoneOwns, TypeOK, GateSound,
         NEW t \in Threads, Request(t) \/ Gate(t) \/ Send(t) \/ EmitAgain(t) \/ SendPoison(t)
  PROVE  GateSound'
<1> USE DEF TypeOK
<1>1. UNCHANGED pos
  BY DEF Request, Gate, GatePasses, GateSleeps, Send, MarkPre, Emit, MarkPost, EmitAgain, SendPoison
<1>2. \A u \in Threads : Now(u)' = Now(u)
  BY <1>1 DEF Now
<1>3. ASSUME NEW u \in Threads, u # t
      PROVE  /\ Passing(u)' => InSlot(u)'
             /\ pc'[u] \in {"emit", "post"} => pre'[u] = SlotOf(Now(u))'
  <2>1. UNCHANGED <<pc[u], lag[u], pre[u]>>
    BY <1>3 DEF Request, Gate, GatePasses, GateSleeps, Send, MarkPre, Emit, MarkPost, EmitAgain, SendPoison
  <2>2. SlotOf(Now(u))' = SlotOf(Now(u)) /\ RemainingAt(Now(u))' = RemainingAt(Now(u))
    BY <1>2 DEF SlotOf, RemainingAt
  <2> QED BY <2>1, <2>2 DEF GateSound, Passing, InSlot
<1>4. /\ Passing(t)' => InSlot(t)'
      /\ pc'[t] \in {"emit", "post"} => pre'[t] = SlotOf(Now(t))'
  <2>1. SlotOf(Now(t))' = SlotOf(Now(t)) /\ RemainingAt(Now(t))' = RemainingAt(Now(t))
    BY <1>2 DEF SlotOf, RemainingAt
  <2>2. CASE GatePasses(t)
    <3>1. Open(t, Now(t))
      BY <2>2, NowRange, SlotIs, AheadSome DEF GatePasses
    <3>2. lag'[t] = 0 /\ pc'[t] = "pre" /\ Guard \in Nat
      BY <2>2, GateAssumption DEF GatePasses
    <3>3. RemainingAt(Now(t)) \in Nat
      BY NowRange, SlotIs, CycleNat
    <3> QED BY <2>1, <3>1, <3>2, <3>3 DEF Open, InSlot
  <2>3. CASE Request(t) \/ GateSleeps(t) \/ EmitAgain(t) \/ MarkPost(t) \/ SendPoison(t)
    <3>1. pc'[t] \notin {"pre", "emit", "post"}
      BY <2>3 DEF Request, GateSleeps, EmitAgain, MarkPost, SendPoison
    <3> QED BY <3>1 DEF Passing
  <2>4. CASE MarkPre(t)
    BY <2>1, <2>4 DEF MarkPre, GateSound, Passing, InSlot
  <2>5. CASE Emit(t)
    BY <2>1, <2>5 DEF Emit, GateSound, Passing, InSlot
  <2> QED BY <2>2, <2>3, <2>4, <2>5 DEF Gate, Send
<1> QED BY <1>3, <1>4 DEF GateSound, Passing, InSlot

LEMMA TickSound == ASSUME GuardCoversLag, TypeOK, GateSound, Tick PROVE GateSound'
<1> USE DEF TypeOK
<1>1. ASSUME NEW t \in Threads, Passing(t)
      PROVE  SlotOf(Now(t))' = SlotOf(Now(t)) /\ InSlot(t)'
  <2>1. Passing(t) /\ lag[t] \in Nat /\ lag[t] + 1 <= MaxLag /\ lag'[t] = lag[t] + 1
        /\ MaxLag \in Nat /\ Guard \in Nat
    BY <1>1, GateAssumption DEF Tick, Passing
  <2>2. RemainingAt(Now(t)) > Guard - lag[t] /\ RemainingAt(Now(t)) \in Nat
        /\ Now(t) \in 0 .. (Cycle - 1) /\ Now(t) \in Nat
    BY <1>1, NowRange, SlotIs, CycleNat DEF GateSound, InSlot
  <2>3. RemainingAt(Now(t)) > 1
    BY <2>1, <2>2 DEF GuardCoversLag
  <2>4. Now(t)' = Now(t) + 1
    BY <2>3, NowTicks DEF Tick
  <2>5. SlotOf(Now(t) + 1) = SlotOf(Now(t)) /\ RemainingAt(Now(t) + 1) = RemainingAt(Now(t)) - 1
    BY <2>2, <2>3, SameSlot
  <2>6. SlotOf(Now(t))' = SlotOf(Now(t)) /\ RemainingAt(Now(t))' = RemainingAt(Now(t)) - 1
    BY <2>4, <2>5 DEF SlotOf, RemainingAt
  <2> QED BY <1>1, <2>1, <2>2, <2>6 DEF GateSound, InSlot
<1>2. UNCHANGED <<pc, pre>>
  BY DEF Tick
<1> QED BY <1>1, <1>2 DEF GateSound, Passing

LEMMA GateInvariance == ASSUME EveryoneOwns, GuardCoversLag PROVE Spec => []GateSound
<1>1. Init => GateSound
  BY DEF Init, GateSound, Passing
<1>2. TypeOK /\ GateSound /\ [Next]_vars => GateSound'
  <2> SUFFICES ASSUME TypeOK, GateSound, [Next]_vars PROVE GateSound'
    OBVIOUS
  <2>1. CASE UNCHANGED vars
    BY <2>1 DEF vars, GateSound, Passing, InSlot, Now, SlotOf, RemainingAt
  <2> QED BY <2>1, ThreadSound, TickSound DEF Next
<1> QED BY <1>1, <1>2, GateTypes, PTL DEF Spec

(* A datagram that asked the gate leaves in a slot of its sender, though   *)
(* the thread may be delayed between the gate and sendto(), as long as the *)
(* guard band is no shorter than that delay.                               *)
THEOREM SlotKept == ASSUME EveryoneOwns, GuardCoversLag PROVE Spec => []PinnedToSlot
<1>1. Init => PinnedToSlot
  BY DEF Init, PinnedToSlot
<1>2. GateSound /\ PinnedToSlot /\ [Next]_vars => PinnedToSlot'
  <2> SUFFICES ASSUME GateSound, PinnedToSlot, [Next]_vars PROVE PinnedToSlot'
    OBVIOUS
  <2>1. ASSUME NEW t \in Threads, Emit(t) PROVE PinnedToSlot'
    <3>1. Owns(t, SlotOf(Now(t)))
      BY <2>1 DEF Emit, GateSound, Passing, InSlot
    <3> DEFINE new == <<Party[t], SlotOf(Now(t)), TRUE>>
    <3>2. \A e \in air' : e \in air \/ e = new
      BY <2>1, Zenon DEF Emit
    <3>3. new[1] = Party[t] /\ new[2] = SlotOf(Now(t))
      OBVIOUS
    <3> HIDE DEF new
    <3> QED BY <3>1, <3>2, <3>3, Zenon DEF PinnedToSlot, Owns
  <2>2. ASSUME NEW t \in Threads, SendPoison(t) PROVE PinnedToSlot'
    <3>1. \A e \in air' : e \in air \/ e = <<Party[t], SlotOf(Now(t)), FALSE>>
      BY <2>2, Zenon DEF SendPoison
    <3>2. ~ <<Party[t], SlotOf(Now(t)), FALSE>>[3]
      OBVIOUS
    <3> QED BY <3>1, <3>2, Zenon DEF PinnedToSlot
  <2>3. CASE Tick \/ (\E t \in Threads : Request(t) \/ Gate(t) \/ MarkPre(t) \/ MarkPost(t) \/ EmitAgain(t))
             \/ UNCHANGED vars
    BY <2>3 DEF Tick, Request, Gate, GatePasses, GateSleeps, MarkPre, MarkPost, EmitAgain, vars, PinnedToSlot
  <2> QED BY <2>1, <2>2, <2>3 DEF Next, Send
<1> QED BY <1>1, <1>2, GateInvariance, PTL DEF Spec

(* mark_post never reports a spill: the slot read before sendto() and the  *)
(* one read after it are the same, and the party's.                        *)
THEOREM NoSpill == ASSUME EveryoneOwns, GuardCoversLag PROVE Spec => []SpillFree
<1>1. Init => SpillFree
  BY DEF Init, SpillFree
<1>2. GateSound /\ SpillFree /\ [Next]_vars => SpillFree'
  <2> SUFFICES ASSUME GateSound, SpillFree, [Next]_vars PROVE SpillFree'
    OBVIOUS
  <2>1. ASSUME NEW t \in Threads, MarkPost(t) PROVE SpillFree'
    <3>1. Owns(t, SlotOf(Now(t))) /\ pre[t] = SlotOf(Now(t))
      BY <2>1 DEF MarkPost, GateSound, Passing, InSlot
    <3> QED BY <2>1, <3>1 DEF MarkPost, SpillFree
  <2>2. CASE Tick \/ UNCHANGED vars
             \/ (\E t \in Threads : Request(t) \/ Gate(t) \/ MarkPre(t) \/ Emit(t) \/ EmitAgain(t) \/ SendPoison(t))
    BY <2>2 DEF Tick, Request, Gate, GatePasses, GateSleeps, MarkPre, Emit, EmitAgain, SendPoison, vars, SpillFree
  <2> QED BY <2>1, <2>2 DEF Next, Send
<1> QED BY <1>1, <1>2, GateInvariance, PTL DEF Spec

(* Two parties that share no slot are never both about to transmit, as     *)
(* long as the guard band covers the delay and the disagreement of clocks. *)
THEOREM CollisionFree == ASSUME EveryoneOwns, GuardCoversSkew PROVE Spec => []NoCollision
<1>1. TypeOK /\ GateSound => NoCollision
  <2> SUFFICES ASSUME TypeOK, GateSound, NEW t \in Threads, NEW u \in Threads,
                      pc[t] = "emit", pc[u] = "emit"
               PROVE  \E s \in Slots : Owns(t, s) /\ Owns(u, s)
    BY DEF NoCollision
  <2>1. \A v \in {t, u} : InSlot(v) /\ lag[v] \in 0 .. MaxLag /\ SlotOf(Now(v)) \in Slots
                          /\ RemainingAt(Now(v)) \in Nat
    BY NowRange, SlotIs, CycleNat DEF TypeOK, GateSound, Passing
  <2>2. \A v, w \in {t, u} : MaxLag + (Ahead[Party[v]] - Ahead[Party[w]]) <= Guard
                             /\ Ahead[Party[v]] \in Nat
    BY ViewNat DEF GuardCoversSkew
  <2>3. MaxLag \in Nat /\ Guard \in Nat
    BY GateAssumption
  <2>4. ASSUME NEW v \in {t, u}, NEW w \in {t, u}, Ahead[Party[v]] <= Ahead[Party[w]]
        PROVE  SlotOf(Now(v)) = SlotOf(Now(w))
    <3>1. PICK d \in Nat : d = Ahead[Party[w]] - Ahead[Party[v]]
      BY <2>2, <2>4
    <3>2. RemainingAt(Now(v)) > Guard - lag[v]
      BY <2>1 DEF InSlot
    <3>3. d < RemainingAt(Now(v))
      BY <2>1, <2>2, <2>3, <3>1, <3>2
    <3>4. Ahead[Party[w]] = Ahead[Party[v]] + d
      BY <2>2, <3>1
    <3> QED BY <3>3, <3>4, NowAgree DEF TypeOK
  <2>5. SlotOf(Now(t)) = SlotOf(Now(u))
    BY <2>2, <2>4
  <2> QED BY <2>1, <2>5 DEF InSlot
<1>2. GuardCoversLag
  BY DEF GuardCoversSkew
<1> QED BY <1>1, <1>2, GateTypes, GateInvariance, PTL
=============================================================================
