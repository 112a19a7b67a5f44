----------------------------- MODULE BusWitness -----------------------------
(***************************************************************************)
(* A third party that overhears the pipe of BusPipe.  Every DATA datagram  *)
(* is broadcast; a party it is not meant for keeps count of the streams it *)
(* has overheard (witness_observe_) and, when its socket falls silent,     *)
(* NACKs the gaps once each (witness_drain_).                              *)
(*                                                                         *)
(* The witness's copy of a datagram may be lost, delayed, overtaken or     *)
(* doubled: at any time the witness may overhear any stream of which       *)
(* something has been sent, once more too.  The sender drops the witness's *)
(* NACKs by the address they come from, before it looks at any state of    *)
(* the pipe (origin check of handle_nack_): they end here.                 *)
(*                                                                         *)
(* An operator named Bad... is a faulty variant of the definition after    *)
(* it: a run is shown to notice the fault when it takes that one's place.  *)
(***************************************************************************)
EXTENDS BusPipe

VARIABLES
  wSeen,     \* WitnessState::seen
  wMaxSeen,  \* WitnessState::max_seen
  wAnySeen,  \* WitnessState::any_seen
  lowWalk,   \* WitnessState::low_walk
  nacked,    \* WitnessState::nacked
  overheard, \* history: streams the witness has overheard
  reports    \* history: reports[s]: NACKs it has sent for stream s

witnessVars == <<wSeen, wMaxSeen, wAnySeen, lowWalk, nacked, overheard, reports>>

wVars == <<vars, witnessVars>>

-----------------------------------------------------------------------------
PipeStep == Next /\ UNCHANGED witnessVars

\* A datagram of stream s has been on the wire.
Sent(s) == s < localSeq /\ (s = Cur => frag > 0)

BadWalk(seen) == lowWalk

\* low_walk moves through the streams overheard without a gap.
Walk(seen) ==
  CHOOSE n \in lowWalk .. NumStreams : n \notin seen /\ lowWalk .. (n - 1) \subseteq seen

\* witness_observe_ of a datagram of stream s.
Observe(s) ==
  /\ Sent(s)
  /\ LET seen == wSeen \cup {s}
     IN  /\ lowWalk' = Walk(seen)
         /\ wSeen' = seen \ (lowWalk .. (Walk(seen) - 1))
  /\ wMaxSeen' = IF ~wAnySeen \/ s > wMaxSeen THEN s ELSE wMaxSeen
  /\ wAnySeen' = TRUE
  /\ overheard' = overheard \cup {s}
  /\ UNCHANGED <<nacked, reports, vars>>

BadDue == {s \in lowWalk .. (wMaxSeen - 1) : s \notin wSeen}

\* The gaps below the newest stream overheard that were not NACKed before.
Due == {s \in lowWalk .. (wMaxSeen - 1) : s \notin wSeen /\ s \notin nacked}

\* witness_drain_, on a timeout of the witness's pump.
WitnessDrain ==
  /\ wAnySeen
  /\ Due # {}
  /\ nacked' = nacked \cup Due
  /\ reports' = [s \in Streams |-> IF s \in Due THEN reports[s] + 1 ELSE reports[s]]
  /\ UNCHANGED <<wSeen, wMaxSeen, wAnySeen, lowWalk, overheard, vars>>

-----------------------------------------------------------------------------
WInit ==
  /\ Init
  /\ wSeen = {} /\ wMaxSeen = 0 /\ wAnySeen = FALSE
  /\ lowWalk = 0 /\ nacked = {}
  /\ overheard = {} /\ reports = [s \in Streams |-> 0]

WNext ==
  \/ PipeStep
  \/ \E s \in Streams : Observe(s)
  \/ WitnessDrain

WSpec == WInit /\ [][WNext]_wVars

-----------------------------------------------------------------------------
(* The types; every stream below low_walk was overheard, low_walk itself   *)
(* was not, and no gap lies beyond the newest stream overheard.            *)
WTypeOK ==
  /\ wSeen \subseteq Streams /\ nacked \subseteq Streams
  /\ lowWalk \in 0 .. NumStreams
  /\ 0 .. (lowWalk - 1) \subseteq overheard /\ lowWalk \notin overheard
  /\ wAnySeen => wMaxSeen \in overheard
  /\ reports \in [Streams -> Nat]

(* A witness that reports leaves no gap out and names none twice: after    *)
(* the drain every stream below the newest one overheard, of which it has  *)
(* overheard nothing, was NACKed exactly once, now or by an earlier drain, *)
(* and no other stream was NACKed now.                                     *)
ReportsOnce ==
  [][reports' # reports =>
       \A s \in Streams :
         reports'[s] = IF s < wMaxSeen /\ s \notin overheard THEN 1 ELSE reports[s]]_wVars
=============================================================================
