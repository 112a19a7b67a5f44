------------------------------- MODULE RxQueue -------------------------------
(***************************************************************************)
(* The receive queue of one pipe of io::BcastBus, byte by byte: the chunk  *)
(* queue rx with its running count rx_bytes, the mutex and the condition   *)
(* variable of RxState, and the poisoned flag, which is set and announced  *)
(* without the mutex.  BusPipe reads whole messages; here recv() asks for  *)
(* any number of bytes, across chunk boundaries.                           *)
(*                                                                         *)
(* Two threads: the application in recv(), and the pump, which queues      *)
(* chunks (handle_data_) or poisons the pipe (mark_recv_poisoned_).        *)
(*                                                                         *)
(* An operator named Bad... is a faulty variant of the definition after    *)
(* it: a run is shown to notice the fault when it takes that one's place.  *)
(***************************************************************************)
EXTENDS Integers, Sequences

CONSTANTS
  Ends,       \* where the chunks the pump queues end in the stream, in order
  Reads,      \* lengths the application asks recv() for, in order
  MayPoison   \* can the pipe be poisoned?

ASSUME QueueAssumption ==
  /\ Ends \in Seq(Nat \ {0})
  /\ \A m, n \in DOMAIN Ends : m < n => Ends[m] < Ends[n]  \* no empty payload is queued
  /\ Reads \in Seq(Nat)
  /\ MayPoison \in BOOLEAN

VARIABLES
  mu,         \* holder of RxState::mu: "free" or "app"
  rx,         \* deque of chunks: the bytes of each not yet read
  rxBytes,    \* rx_bytes
  poisoned,   \* RxState::poisoned
  queued,     \* chunks the pump has queued
  ppc,        \* pump: "run", or "notify" between the exchange and the notify
  rpc,        \* application: see ReaderPc
  call,       \* number of the running (or next) recv()
  remaining,  \* its local variable
  out         \* every byte read so far, in order

vars == <<mu, rx, rxBytes, poisoned, queued, ppc, rpc, call, remaining, out>>

\* "waiting": parked on cv; "woken": notified, the mutex not yet reacquired.
ReaderPc == {"idle", "lock", "check", "park", "waiting", "woken", "copy", "threw"}

pumpVars == <<queued, ppc>>

\* The number of bytes in the first n chunks.
StreamAt(n) == IF n = 0 THEN 0 ELSE Ends[n]

\* The bytes of the n-th chunk, each named by its place in the stream.
BytesOf(n) == [i \in 1 .. (StreamAt(n) - StreamAt(n - 1)) |-> StreamAt(n - 1) + i]

-----------------------------------------------------------------------------
(* The pump.                                                               *)

\* notify_all: whoever is parked is woken; a thread about to park is not.
Notify == rpc' = IF rpc = "waiting" THEN "woken" ELSE rpc

BadQueueChunk ==
  /\ ppc = "run" /\ mu = "free"
  /\ queued < Len(Ends)
  /\ rx' = Append(rx, BytesOf(queued + 1))
  /\ rxBytes' = rxBytes + Len(BytesOf(queued + 1))
  /\ queued' = queued + 1
  /\ IF rx = <<>> THEN Notify ELSE rpc' = rpc
  /\ UNCHANGED <<mu, poisoned, ppc, call, remaining, out>>

\* handle_data_, all of it under the mutex, cv.notify_all() included.
QueueChunk ==
  /\ ppc = "run" /\ mu = "free"
  /\ queued < Len(Ends)
  /\ rx' = Append(rx, BytesOf(queued + 1))
  /\ rxBytes' = rxBytes + Len(BytesOf(queued + 1))
  /\ queued' = queued + 1
  /\ Notify
  /\ UNCHANGED <<mu, poisoned, ppc, call, remaining, out>>

\* mark_recv_poisoned_ takes no mutex: first the exchange ...
Poison ==
  /\ MayPoison
  /\ ppc = "run"
  /\ ~poisoned
  /\ poisoned' = TRUE
  /\ ppc' = "notify"
  /\ UNCHANGED <<mu, rx, rxBytes, queued, rpc, call, remaining, out>>

\* ... then cv.notify_all().
PoisonNotify ==
  /\ ppc = "notify"
  /\ Notify
  /\ ppc' = "run"
  /\ UNCHANGED <<mu, rx, rxBytes, poisoned, queued, call, remaining, out>>

-----------------------------------------------------------------------------
(* The application.                                                        *)

\* Entry of recv(): the unlocked poison check.
Enter ==
  /\ rpc = "idle"
  /\ call <= Len(Reads)
  /\ rpc' = IF poisoned THEN "threw" ELSE "lock"
  /\ remaining' = Reads[call]
  /\ UNCHANGED <<mu, rx, rxBytes, poisoned, pumpVars, call, out>>

\* Take the mutex: at the start, and again inside cv.wait once woken.
Lock ==
  /\ rpc \in {"lock", "woken"}
  /\ mu = "free"
  /\ mu' = "app"
  /\ rpc' = "check"
  /\ UNCHANGED <<rx, rxBytes, poisoned, pumpVars, call, remaining, out>>

BadReady == rxBytes > 0 \/ poisoned

\* The predicate of cv.wait.
Ready == rxBytes >= remaining \/ poisoned

BadCheck ==
  /\ rpc = "check"
  /\ \/ ~Ready /\ rpc' = "park"
     \/ Ready /\ ~poisoned /\ rpc' = "copy"
     \/ Ready /\ poisoned /\ rpc' = "threw"
  /\ UNCHANGED <<mu, rx, rxBytes, poisoned, pumpVars, call, remaining, out>>

\* Evaluate it, and if it holds look at the poisoned flag once more.
Check ==
  /\ rpc = "check"
  /\ \/ ~Ready /\ rpc' = "park" /\ mu' = mu
     \/ Ready /\ ~poisoned /\ rpc' = "copy" /\ mu' = mu
     \/ Ready /\ poisoned /\ rpc' = "threw" /\ mu' = "free"
  /\ UNCHANGED <<rx, rxBytes, poisoned, pumpVars, call, remaining, out>>

\* cv.wait lets go of the mutex and parks, in one step.
Park ==
  /\ rpc = "park"
  /\ mu' = "free"
  /\ rpc' = "waiting"
  /\ UNCHANGED <<rx, rxBytes, poisoned, pumpVars, call, remaining, out>>

\* A condition variable may wake for no reason.
SpuriousWakeup ==
  /\ rpc = "waiting"
  /\ rpc' = "woken"
  /\ UNCHANGED <<mu, rx, rxBytes, poisoned, pumpVars, call, remaining, out>>

BadRest(chunk, take) == <<>>

\* What is left of the deque when take bytes of its first chunk are read.
Rest(chunk, take) ==
  IF take = Len(chunk) THEN <<>> ELSE <<SubSeq(chunk, take + 1, Len(chunk))>>

\* One round of the copy loop.
Copy ==
  /\ rpc = "copy"
  /\ remaining > 0
  /\ LET front == Head(rx)
         take  == IF remaining < Len(front) THEN remaining ELSE Len(front)
     IN  /\ out' = out \o SubSeq(front, 1, take)
         /\ remaining' = remaining - take
         /\ rxBytes' = rxBytes - take
         /\ rx' = Rest(front, take) \o Tail(rx)
  /\ UNCHANGED <<mu, poisoned, pumpVars, rpc, call>>

Return ==
  /\ rpc = "copy"
  /\ remaining = 0
  /\ mu' = "free"
  /\ rpc' = "idle"
  /\ call' = call + 1
  /\ UNCHANGED <<rx, rxBytes, poisoned, pumpVars, remaining, out>>

-----------------------------------------------------------------------------
Init ==
  /\ mu = "free"
  /\ rx = <<>> /\ rxBytes = 0 /\ poisoned = FALSE
  /\ queued = 0 /\ ppc = "run"
  /\ rpc = "idle" /\ call = 1 /\ remaining = 0
  /\ out = <<>>

Pump   == QueueChunk \/ Poison \/ PoisonNotify
Reader == Enter \/ Lock \/ Check \/ Park \/ Copy \/ Return

Next == Pump \/ Reader \/ SpuriousWakeup

Spec == Init /\ [][Next]_vars

(* Both threads keep running and data in flight is queued in the end: the  *)
(* pump gets the mutex that recv() lets go of again and again.             *)
FairSpec ==
  Spec /\ SF_vars(QueueChunk) /\ WF_vars(PoisonNotify) /\ WF_vars(Reader)

-----------------------------------------------------------------------------
(* The types, and that the mutex is held exactly in the locked part of     *)
(* recv().                                                                 *)
TypeOK ==
  /\ mu \in {"free", "app"}
  /\ mu = "app" <=> rpc \in {"check", "park", "copy"}
  /\ rx \in Seq(Seq(Nat) \ {<<>>}) /\ out \in Seq(Nat)
  /\ rxBytes \in Nat /\ remaining \in Nat
  /\ poisoned \in BOOLEAN
  /\ queued \in 0 .. Len(Ends)
  /\ ppc \in {"run", "notify"}
  /\ rpc \in ReaderPc
  /\ call \in 1 .. (Len(Reads) + 1)

\* The sequence s is the stream's bytes after the n-th.
Follows(s, n) == \A i \in DOMAIN s : s[i] = n + i

\* The place in the stream of a chunk's last byte.
EndOf(chunk) == chunk[Len(chunk)]

\* The chunks of s hold the stream's bytes from the one after from up to to.
Holds(s, from, to) ==
  /\ \A k \in DOMAIN s : Follows(s[k], IF k = 1 THEN from ELSE EndOf(s[k - 1]))
  /\ to = IF s = <<>> THEN from ELSE EndOf(s[Len(s)])

(* The application reads the stream byte for byte, in order: no read of    *)
(* part of a chunk drops, repeats or reorders a byte, the deque holds all  *)
(* that is queued and not yet read, and rx_bytes counts exactly that.      *)
StreamInOrder ==
  /\ Follows(out, 0)
  /\ Len(out) + rxBytes = StreamAt(queued)
  /\ Holds(rx, Len(out), StreamAt(queued))

(* recv() never takes front() of an empty deque: the count it waited for   *)
(* covers the whole copy loop.                                             *)
NeverCopiesEmpty == rpc = "copy" /\ remaining > 0 => rx # <<>>

(* A reader whose bytes are all queued gets them: no wakeup by             *)
(* handle_data_ is lost.                                                   *)
Asked[n \in 0 .. Len(Reads)] == IF n = 0 THEN 0 ELSE Asked[n - 1] + Reads[n]

Enough == Asked[Len(Reads)] <= StreamAt(Len(Ends))

ReadsAnswered == Enough => <>(poisoned \/ call = Len(Reads) + 1)

(* "Throws ChannelPoisonedError if the (src, self) pipe is poisoned."      *)
PoisonThrows == [](poisoned /\ rpc # "idle" => <>(rpc \in {"threw", "idle"}))
=============================================================================
