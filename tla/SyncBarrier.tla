----------------------------- MODULE SyncBarrier -----------------------------
(***************************************************************************)
(* BcastBus::sync(): the start-up barrier, and what happens when it is     *)
(* called again while the pump it starts (NetIOMP::sync) is running.       *)
(*                                                                         *)
(* Each party broadcasts a SYNC frame, listens until nothing has come for  *)
(* 50 ms, and repeats until it has heard everyone; it then sends Trailing  *)
(* more frames, throws away what is still in its socket buffer, and lets   *)
(* the pump read that buffer.  Frames are read from the one socket buffer  *)
(* by whoever calls recvfrom first, sync() or the pump.                    *)
(*                                                                         *)
(* A party that does not hear everyone gives up after 1200 attempts and    *)
(* goes on as if it had.  The attempts are not counted: any of them may be *)
(* the last, whatever the others have done or not done by then.  Equal     *)
(* frames in one buffer are merged.                                        *)
(*                                                                         *)
(* An operator named Bad... is a faulty variant of the definition after    *)
(* it: a run is shown to notice the fault when it takes that one's place.  *)
(***************************************************************************)
EXTENDS Integers, FiniteSets

CONSTANTS
  Parties,
  Rounds,    \* number of times each party calls sync()
  Trailing,  \* trailing emits (4)
  MaxLost,   \* bound on the frames the wire loses
  WithData   \* do parties broadcast DATA once they are through?

ASSUME SyncAssumption ==
  /\ IsFiniteSet(Parties)
  /\ Rounds \in Nat \ {0}
  /\ {Trailing, MaxLost} \subseteq Nat
  /\ WithData \in BOOLEAN

VARIABLES
  pc,      \* pc[p]: see PartyPc
  round,   \* round[p]: number of the running, or latest, sync()
  seen,    \* seen[p]: the others heard in this sync()
  trail,   \* trail[p]: trailing emits still to do
  pump,    \* pump[p]: pump_running_
  inbox,   \* inbox[p]: frames in p's socket buffer
  lost,    \* number of frames lost
  spoken,  \* spoken[p]: history, rounds in which p has sent a SYNC
  gaveUp,  \* history: every sync() that timed out, as <<party, round>>
  eaten    \* history: DATA frames read by a sync()

vars == <<pc, round, seen, trail, pump, inbox, lost, spoken, gaveUp, eaten>>

PartyPc == {"down", "emit", "listen", "trail", "drain", "run"}

Others(p) == Parties \ {p}

Sync(p) == [kind |-> "sync", from |-> p]
Data(p) == [kind |-> "data", from |-> p]

\* A broadcast reaches the sockets that are open, the sender's own included,
\* less those it is lost to.
Broadcast(p, frame) ==
  \E missed \in SUBSET {q \in Others(p) : pc[q] # "down"} :
    /\ lost' = lost + Cardinality(missed)
    /\ lost' <= MaxLost
    /\ inbox' = [q \in Parties |-> IF pc[q] = "down" \/ q \in missed
                                   THEN inbox[q] ELSE inbox[q] \cup {frame}]

Goto(p, label) == pc' = [pc EXCEPT ![p] = label]

-----------------------------------------------------------------------------
(* sync() of party p.                                                      *)

\* The socket is opened and sync() called for the first time.
Start(p) ==
  /\ pc[p] = "down"
  /\ Goto(p, "emit")
  /\ round' = [round EXCEPT ![p] = 1]
  /\ UNCHANGED <<seen, trail, pump, inbox, lost, spoken, gaveUp, eaten>>

\* sync() is called once more, with the pump running.
Again(p) ==
  /\ pc[p] = "run"
  /\ round[p] < Rounds
  /\ Goto(p, "emit")
  /\ round' = [round EXCEPT ![p] = @ + 1]
  /\ seen' = [seen EXCEPT ![p] = {}]
  /\ UNCHANGED <<trail, pump, inbox, lost, spoken, gaveUp, eaten>>

Emit(p) ==
  /\ pc[p] = "emit"
  /\ Broadcast(p, Sync(p))
  /\ spoken' = [spoken EXCEPT ![p] = @ \cup {round[p]}]
  /\ Goto(p, "listen")
  /\ UNCHANGED <<round, seen, trail, pump, gaveUp, eaten>>

Discard(f) == eaten' = IF f.kind = "data" THEN eaten \cup {f} ELSE eaten

BadCounts(p, f) == f.kind = "sync"

\* A SYNC of another party; anything else is dropped.
Counts(p, f) == f.kind = "sync" /\ f.from # p

\* One recvfrom of the attempt loop.
Listen(p, f) ==
  /\ pc[p] = "listen"
  /\ f \in inbox[p]
  /\ inbox' = [inbox EXCEPT ![p] = @ \ {f}]
  /\ seen' = [seen EXCEPT ![p] = IF Counts(p, f) THEN @ \cup {f.from} ELSE @]
  /\ Discard(f)
  /\ UNCHANGED <<pc, round, trail, pump, lost, spoken, gaveUp>>

BadHeardSelf(p) == Cardinality(seen[p]) = Cardinality(Parties)

\* got = needed.
HeardAll(p) == Cardinality(seen[p]) = Cardinality(Parties) - 1

BadTrailFrom(p) == [trail EXCEPT ![p] = 0]

TrailFrom(p) == [trail EXCEPT ![p] = Trailing]

\* recvfrom timed out.
Silent(p) == inbox[p] = {}

\* The attempt is over: everyone heard, or one more attempt, or give up.
Quiet(p) ==
  /\ pc[p] = "listen"
  /\ Silent(p)
  /\ \/ /\ HeardAll(p)
        /\ Goto(p, "trail") /\ trail' = TrailFrom(p) /\ gaveUp' = gaveUp
     \/ /\ ~HeardAll(p)
        /\ Goto(p, "emit") /\ UNCHANGED <<trail, gaveUp>>
     \/ /\ ~HeardAll(p)
        /\ Goto(p, "trail") /\ trail' = TrailFrom(p) /\ gaveUp' = gaveUp \cup {<<p, round[p]>>}
  /\ UNCHANGED <<round, seen, pump, inbox, lost, spoken, eaten>>

Trail(p) ==
  /\ pc[p] = "trail"
  /\ trail[p] > 0
  /\ Broadcast(p, Sync(p))
  /\ trail' = [trail EXCEPT ![p] = @ - 1]
  /\ UNCHANGED <<pc, round, seen, pump, spoken, gaveUp, eaten>>

TrailDone(p) ==
  /\ pc[p] = "trail"
  /\ trail[p] = 0
  /\ Goto(p, "drain")
  /\ UNCHANGED <<round, seen, trail, pump, inbox, lost, spoken, gaveUp, eaten>>

\* The drain throws away every frame, of whatever kind.
Drain(p, f) ==
  /\ pc[p] = "drain"
  /\ f \in inbox[p]
  /\ inbox' = [inbox EXCEPT ![p] = @ \ {f}]
  /\ Discard(f)
  /\ UNCHANGED <<pc, round, seen, trail, pump, lost, spoken, gaveUp>>

\* The drain ends on a timeout; start_pump (once).
DrainDone(p) ==
  /\ pc[p] = "drain"
  /\ inbox[p] = {}
  /\ Goto(p, "run")
  /\ pump' = [pump EXCEPT ![p] = TRUE]
  /\ UNCHANGED <<round, seen, trail, inbox, lost, spoken, gaveUp, eaten>>

-----------------------------------------------------------------------------
(* The pump, and the protocol that runs between two calls of sync().       *)

\* The pump drops SYNC frames and its own, and delivers DATA.
Pump(p, f) ==
  /\ pump[p]
  /\ f \in inbox[p]
  /\ inbox' = [inbox EXCEPT ![p] = @ \ {f}]
  /\ UNCHANGED <<pc, round, seen, trail, pump, lost, spoken, gaveUp, eaten>>

SendData(p) ==
  /\ WithData
  /\ pc[p] = "run"
  /\ Broadcast(p, Data(p))
  /\ UNCHANGED <<pc, round, seen, trail, pump, spoken, gaveUp, eaten>>

-----------------------------------------------------------------------------
Init ==
  /\ pc = [p \in Parties |-> "down"]
  /\ round = [p \in Parties |-> 0]
  /\ seen = [p \in Parties |-> {}]
  /\ trail = [p \in Parties |-> 0]
  /\ pump = [p \in Parties |-> FALSE]
  /\ inbox = [p \in Parties |-> {}]
  /\ lost = 0
  /\ spoken = [p \in Parties |-> {}]
  /\ gaveUp = {} /\ eaten = {}

Receive(p, f) == Listen(p, f) \/ Drain(p, f)

Next ==
  \E p \in Parties :
    \/ Start(p) \/ Again(p)
    \/ Emit(p) \/ Quiet(p) \/ Trail(p) \/ TrailDone(p) \/ DrainDone(p)
    \/ \E f \in inbox[p] : Receive(p, f) \/ Pump(p, f)
    \/ SendData(p)

Spec == Init /\ [][Next]_vars

Frames == [kind : {"sync", "data"}, from : Parties]

(* Every party starts and keeps running, and the socket buffer is first    *)
(* in, first out, so that every frame in it is read in the end.            *)
FairSpec ==
  /\ Spec
  /\ \A p \in Parties :
       /\ WF_vars(Start(p)) /\ WF_vars(Again(p))
       /\ WF_vars(Emit(p)) /\ WF_vars(Trail(p)) /\ WF_vars(TrailDone(p))
       /\ SF_vars(Quiet(p)) /\ SF_vars(DrainDone(p))
       /\ \A f \in Frames : WF_vars(Receive(p, f)) /\ WF_vars(Pump(p, f))

-----------------------------------------------------------------------------
(* The types; nobody counts itself among those heard.                      *)
TypeOK ==
  /\ pc \in [Parties -> PartyPc]
  /\ round \in [Parties -> 0 .. Rounds]
  /\ seen \in [Parties -> SUBSET Parties] /\ \A p \in Parties : p \notin seen[p]
  /\ trail \in [Parties -> 0 .. Trailing]
  /\ pump \in [Parties -> BOOLEAN]
  /\ inbox \in [Parties -> SUBSET Frames]
  /\ lost \in 0 .. MaxLost
  /\ spoken \in [Parties -> SUBSET (1 .. Rounds)]
  /\ gaveUp \subseteq Parties \X (1 .. Rounds)
  /\ eaten \subseteq Frames

Through(p) == pc[p] \in {"trail", "drain", "run"}

(* The first sync() is a barrier, whatever is lost and however often sync() *)
(* is called later: no party is past it, without a timeout, before every   *)
(* other one has entered it and spoken.  (A later one is none: frames left *)
(* over from the one before count in it.)                                  *)
Barrier ==
  \A p, q \in Parties :
    (Through(p) \/ round[p] > 1) /\ <<p, 1>> \notin gaveUp => 1 \in spoken[q]

\* q has heard everyone in its first sync() and is done with its trailing emits.
PassedUntimed(q) ==
  /\ pc[q] \in {"drain", "run"} \/ round[q] > 1
  /\ <<q, 1>> \notin gaveUp

(* "Trailing emits so peers that completed sync slightly later still      *)
(* catch one of our SYNCs": unless as many frames were lost as a party     *)
(* sends trailing ones, an attempt of the first sync() does not end, nor   *)
(* does the party give up, without having heard everyone who is through.   *)
(* Who times out has missed a party that was late or timed out itself.     *)
FirstSyncHeard ==
  lost < Trailing =>
    \A p, q \in Parties :
      p # q /\ round[p] = 1 /\ pc[p] = "listen" /\ Silent(p) /\ PassedUntimed(q) => q \in seen[p]

(* The first barrier opens: if the wire falls silent again and again for   *)
(* long enough that everybody has read everything (an attempt waits 50 ms, *)
(* a read takes far less), everyone gets through it by having heard the    *)
(* others, unless somebody's attempts run out before that.                 *)
AllSilent == \A p \in Parties : inbox[p] = {}

FirstSyncOpens ==
  []<>AllSilent => <>(\/ \E p \in Parties : <<p, 1>> \in gaveUp
                     \/ \A p \in Parties : Through(p) \/ round[p] > 1)
=============================================================================
