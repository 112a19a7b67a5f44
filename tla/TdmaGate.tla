------------------------------ MODULE TdmaGate ------------------------------
(***************************************************************************)
(* net::TDMAScheduler: the transmit gate that pins each party to its slots *)
(* of a repeating cycle, with the clock it reads, the threads that pass it *)
(* and the tally it keeps of datagrams that left in or out of slot.        *)
(*                                                                         *)
(* A thread asks the gate, which sleeps until an owned slot has more than  *)
(* guard_ns left; it reads the clock again (t_pre), calls sendto() and     *)
(* reports (mark_post).  Time passes between any two of these steps.       *)
(* Time is counted modulo the cycle: nothing in the scheduler depends on   *)
(* more.                                                                   *)
(*                                                                         *)
(* An operator named Bad... is a faulty variant of the definition after    *)
(* it: a run is shown to notice the fault when it takes that one's place.  *)
(***************************************************************************)
EXTENDS Integers, FiniteSets

CONSTANTS
  Threads,    \* sending threads: each party's application and pump
  Party,      \* Party[t]: the party thread t belongs to
  Ungated,    \* threads that also send POISON datagrams (pumps)
  NumSlots,   \* cycle_slots()
  SlotNs,     \* slot_ns
  Owners,     \* Owners[s]: slot_owners[s]
  Guard,      \* guard_ns
  Ahead,      \* Ahead[p]: by how much p's view of the shared clock is ahead
  MaxLag,     \* longest time from the gate's last look at the clock to mark_post
  Oversleep,  \* longest delay of a thread past the end of its sleep
  Early       \* how long before its end a sleep may return (timer slack)

Slots   == 0 .. (NumSlots - 1)
Cycle   == NumSlots * SlotNs
Parties == {Party[t] : t \in Threads}

ASSUME GateAssumption ==
  /\ NumSlots \in Nat \ {0} /\ SlotNs \in Nat \ {0}
  /\ Ungated \subseteq Threads
  /\ Owners \in [Slots -> SUBSET Parties]
  /\ Ahead \in [Parties -> Nat]
  /\ {Guard, MaxLag, Oversleep, Early} \subseteq Nat

VARIABLES
  pos,     \* true time, modulo the cycle
  pc,      \* pc[t]: see ThreadPc
  left,    \* left[t]: what is left of its sleep
  lag,     \* lag[t]: time since the gate's last look at the clock
  pre,     \* pre[t]: slot of t_pre
  air,     \* history: every datagram sent, as <<party, slot, asked the gate?>>
  tally    \* the verdicts of mark_post so far: in_slot_ and out_of_slot_

vars == <<pos, pc, left, lag, pre, air, tally>>

ThreadPc == {"idle", "gate", "sleep", "pre", "emit", "post"}

-----------------------------------------------------------------------------
(* What the scheduler computes from a clock reading.                       *)

Now(t)    == (pos + Ahead[Party[t]]) % Cycle
SlotOf(n) == n \div SlotNs
Owns(t, s) == Party[t] \in Owners[s]

RemainingAt(n) == SlotNs - (n - SlotOf(n) * SlotNs)

BadOpen(t, n) == Owns(t, SlotOf(n)) /\ RemainingAt(n) >= Guard

\* wait_for_slot returns at once.
Open(t, n) == Owns(t, SlotOf(n)) /\ RemainingAt(n) > Guard

BadAhead(t, cur) == {k \in 1 .. (NumSlots - 1) : Owns(t, (cur + k) % NumSlots)}

\* How many slots ahead the owned slots are, the current one a cycle away.
AheadOwned(t, cur) == {k \in 1 .. NumSlots : Owns(t, (cur + k) % NumSlots)}

BadSleep(n, k) == (SlotOf(n) + k + 1) * SlotNs - n

\* delta_ns to the start of the slot k slots ahead.
SleepFor(n, k) == (SlotOf(n) + k) * SlotNs - n

-----------------------------------------------------------------------------
(* One sending thread.                                                     *)

Request(t) ==
  /\ pc[t] = "idle"
  /\ pc' = [pc EXCEPT ![t] = "gate"]
  /\ UNCHANGED <<pos, left, lag, pre, air, tally>>

Awake(t) == pc[t] = "gate" \/ (pc[t] = "sleep" /\ left[t] <= Early)

BadGatePasses(t) ==
  /\ Awake(t)
  /\ pc[t] = "sleep" \/ Open(t, Now(t)) \/ AheadOwned(t, SlotOf(Now(t))) = {}
  /\ pc' = [pc EXCEPT ![t] = "pre"]
  /\ lag' = [lag EXCEPT ![t] = 0]
  /\ left' = [left EXCEPT ![t] = 0]
  /\ UNCHANGED <<pos, pre, air, tally>>

\* One round of wait_for_slot: open ...
GatePasses(t) ==
  /\ Awake(t)
  /\ Open(t, Now(t)) \/ AheadOwned(t, SlotOf(Now(t))) = {}
  /\ pc' = [pc EXCEPT ![t] = "pre"]
  /\ lag' = [lag EXCEPT ![t] = 0]
  /\ left' = [left EXCEPT ![t] = 0]
  /\ UNCHANGED <<pos, pre, air, tally>>

\* ... or sleep until the next owned slot.
GateSleeps(t) ==
  /\ Awake(t)
  /\ ~Open(t, Now(t))
  /\ \E k \in AheadOwned(t, SlotOf(Now(t))) :
       /\ \A j \in AheadOwned(t, SlotOf(Now(t))) : k <= j
       /\ left' = [left EXCEPT ![t] = SleepFor(Now(t), k)]
  /\ pc' = [pc EXCEPT ![t] = "sleep"]
  /\ UNCHANGED <<pos, lag, pre, air, tally>>

\* The second clock reading of wait_and_mark_pre.
MarkPre(t) ==
  /\ pc[t] = "pre"
  /\ pre' = [pre EXCEPT ![t] = SlotOf(Now(t))]
  /\ pc' = [pc EXCEPT ![t] = "emit"]
  /\ UNCHANGED <<pos, left, lag, air, tally>>

\* sendto().
Emit(t) ==
  /\ pc[t] = "emit"
  /\ air' = air \cup {<<Party[t], SlotOf(Now(t)), TRUE>>}
  /\ pc' = [pc EXCEPT ![t] = "post"]
  /\ UNCHANGED <<pos, left, lag, pre, tally>>

\* sendto() said EAGAIN: back to the gate, nothing reported.
EmitAgain(t) ==
  /\ pc[t] = "emit"
  /\ pc' = [pc EXCEPT ![t] = "gate"]
  /\ UNCHANGED <<pos, left, lag, pre, air, tally>>

MarkPost(t) ==
  /\ pc[t] = "post"
  /\ LET post    == SlotOf(Now(t))
         verdict == IF Owns(t, pre[t]) /\ Owns(t, post) /\ pre[t] = post
                    THEN "in" ELSE "out"
     IN  tally' = tally \cup {verdict}
  /\ pc' = [pc EXCEPT ![t] = "idle"]
  /\ UNCHANGED <<pos, left, lag, pre, air>>

\* send_poison_to_target_ asks no gate.
SendPoison(t) ==
  /\ t \in Ungated
  /\ pc[t] = "idle"
  /\ air' = air \cup {<<Party[t], SlotOf(Now(t)), FALSE>>}
  /\ UNCHANGED <<pos, pc, left, lag, pre, tally>>

-----------------------------------------------------------------------------
(* Time.  It waits for a thread that is as late as it may be.              *)

Passing(t) == pc[t] \in {"pre", "emit", "post"}

Tick ==
  /\ \A t \in Threads :
       /\ Passing(t) => lag[t] < MaxLag
       /\ pc[t] = "sleep" => left[t] > -Oversleep
  /\ pos' = (pos + 1) % Cycle
  /\ lag' = [t \in Threads |-> IF Passing(t) THEN lag[t] + 1 ELSE lag[t]]
  /\ left' = [t \in Threads |-> IF pc[t] = "sleep" THEN left[t] - 1 ELSE left[t]]
  /\ UNCHANGED <<pc, pre, air, tally>>

-----------------------------------------------------------------------------
Init ==
  /\ pos \in 0 .. (Cycle - 1)
  /\ pc = [t \in Threads |-> "idle"]
  /\ left = [t \in Threads |-> 0]
  /\ lag = [t \in Threads |-> 0]
  /\ pre = [t \in Threads |-> 0]
  /\ air = {} /\ tally = {}

Gate(t) == GatePasses(t) \/ GateSleeps(t)
Send(t) == MarkPre(t) \/ Emit(t) \/ MarkPost(t)

Next ==
  \/ Tick
  \/ \E t \in Threads : Request(t) \/ Gate(t) \/ Send(t) \/ EmitAgain(t) \/ SendPoison(t)

Spec == Init /\ [][Next]_vars

(* Time passes and every thread is scheduled.                              *)
FairSpec ==
  /\ Spec
  /\ WF_vars(Tick)
  /\ \A t \in Threads : WF_vars(Gate(t)) /\ WF_vars(Send(t))

-----------------------------------------------------------------------------
(* The types; a sleep never exceeds a cycle, and is overslept by at most   *)
(* Oversleep.                                                              *)
TypeOK ==
  /\ pos \in 0 .. (Cycle - 1)
  /\ pc \in [Threads -> ThreadPc]
  /\ left \in [Threads -> (-Oversleep) .. Cycle]
  /\ lag \in [Threads -> 0 .. MaxLag]
  /\ pre \in [Threads -> Slots]
  /\ air \subseteq Parties \X Slots \X BOOLEAN
  /\ tally \subseteq {"in", "out"}

(* "Every outbound datagram passes through a TDMA gate that pins the party *)
(* to its assigned slot": no datagram that asked the gate leaves outside   *)
(* its sender's slots (POISON and SYNC datagrams do not ask).              *)
PinnedToSlot == \A e \in air : e[3] => e[1] \in Owners[e[2]]

(* Two parties that share no slot are never both through the gate and      *)
(* about to transmit, even with clocks that disagree and threads that lag, *)
(* as long as the guard band covers the disagreement and the lag together  *)
(* (wait_for_slot).                                                        *)
NoCollision ==
  \A t, u \in Threads :
    pc[t] = "emit" /\ pc[u] = "emit" => \E s \in Slots : Owns(t, s) /\ Owns(u, s)

(* "chosen so that [...] staying spill-free [...] (0 violations observed": *)
(* mark_post never counts a datagram as out of slot.                       *)
SpillFree == "out" \notin tally

(* "it blocks until the shared clock is inside one of this party's owned   *)
(* slots": a thread that keeps asking is let through.                      *)
GateOpens == \A t \in Threads : pc[t] = "gate" ~> pc[t] = "pre"
=============================================================================
