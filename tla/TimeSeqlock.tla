----------------------------- MODULE TimeSeqlock -----------------------------
(***************************************************************************)
(* timesrc::TimeSource::now_ns(): the shared clock every TDMA gate reads.  *)
(* The daemon timesrcd (not in the repository; modelled from the comment   *)
(* on TimeSrcShared) publishes samples (shared-epoch time, local monotonic *)
(* time) in shared memory under a sequence lock; a reader extrapolates     *)
(* from the sample it reads, and after Tries failed attempts falls back to *)
(* the raw monotonic clock.                                                *)
(*                                                                         *)
(* Loads happen in program order, each 64-bit field in one piece.          *)
(*                                                                         *)
(* An operator named Bad... is a faulty variant of the definition after    *)
(* it: a run is shown to notice the fault when it takes that one's place.  *)
(***************************************************************************)
EXTENDS Integers

CONSTANTS
  Tries,      \* attempts of now_ns (8)
  Offsets,    \* shared-epoch time minus local time, at one sample or another
  MaxMono,    \* bound on the local monotonic clock
  MaxSamples  \* bound on the number of samples published

ASSUME SeqlockAssumption ==
  /\ Tries \in Nat \ {0}
  /\ Offsets \subseteq Nat /\ Offsets # {}
  /\ {MaxMono, MaxSamples} \subseteq Nat

VARIABLES
  mono,       \* CLOCK_MONOTONIC_RAW
  seq,        \* shm seq
  epochNs,    \* shm epoch_ns
  localMono,  \* shm local_mono_ns
  wpc,        \* writer: "idle", "epoch", "mono", "end"
  sample,     \* writer: the sample it is publishing
  published,  \* history: every sample published in full
  rpc,        \* reader: "idle", "s1", "epoch", "mono", "s2", "now", "fallback"
  tries,      \* reader: attempts left
  s1, e, m,   \* reader: local variables s1, epoch, mono
  wrote,      \* history: has a write begun since the running attempt did?
  last,       \* history: the latest result that used a sample
  used        \* history: the sample it used

shm     == <<seq, epochNs, localMono>>
writer  == <<wpc, sample, published>>
locals  == <<tries, s1, e, m>>
history == <<last, used>>
vars    == <<mono, shm, writer, rpc, locals, wrote, history>>

Tick == mono < MaxMono /\ mono' = mono + 1 /\ UNCHANGED <<shm, writer, rpc, locals, wrote, history>>

-----------------------------------------------------------------------------
(* The writer.  From one sample to the next the shared clock may have been *)
(* stepped either way, or have run faster or slower than the local one.    *)

WriteBegin ==
  /\ wpc = "idle"
  /\ seq < 2 * MaxSamples
  /\ \E off \in Offsets : sample' = [seq |-> seq + 2, epoch |-> mono + off, mono |-> mono]
  /\ seq' = seq + 1
  /\ wpc' = "epoch"
  /\ wrote' = TRUE
  /\ UNCHANGED <<mono, epochNs, localMono, published, rpc, locals, history>>

WriteEpoch ==
  /\ wpc = "epoch"
  /\ epochNs' = sample.epoch
  /\ wpc' = "mono"
  /\ UNCHANGED <<mono, seq, localMono, sample, published, rpc, locals, wrote, history>>

WriteMono ==
  /\ wpc = "mono"
  /\ localMono' = sample.mono
  /\ wpc' = "end"
  /\ UNCHANGED <<mono, seq, epochNs, sample, published, rpc, locals, wrote, history>>

WriteEnd ==
  /\ wpc = "end"
  /\ seq' = seq + 1
  /\ published' = published \cup {sample}
  /\ wpc' = "idle"
  /\ UNCHANGED <<mono, epochNs, localMono, sample, rpc, locals, wrote, history>>

-----------------------------------------------------------------------------
(* The reader: one call of now_ns() after another.                         *)

Begin ==
  /\ rpc = "idle"
  /\ rpc' = "s1"
  /\ tries' = Tries
  /\ UNCHANGED <<mono, shm, writer, s1, e, m, wrote, history>>

\* The attempt failed: try again, or give up.
Failed ==
  /\ tries' = tries - 1
  /\ rpc' = IF tries > 1 THEN "s1" ELSE "fallback"

BadWriting(s) == FALSE
BadBit(s)     == (s \div 2) % 2 = 1

\* The writer is at work.
Writing(s) == s % 2 = 1

LoadS1 ==
  /\ rpc = "s1"
  /\ s1' = seq
  /\ wrote' = FALSE
  /\ IF Writing(seq) THEN Failed ELSE rpc' = "epoch" /\ tries' = tries
  /\ UNCHANGED <<mono, shm, writer, e, m, history>>

LoadEpoch ==
  /\ rpc = "epoch"
  /\ e' = epochNs
  /\ rpc' = "mono"
  /\ UNCHANGED <<mono, shm, writer, tries, s1, m, wrote, history>>

LoadMono ==
  /\ rpc = "mono"
  /\ m' = localMono
  /\ rpc' = "s2"
  /\ UNCHANGED <<mono, shm, writer, tries, s1, e, wrote, history>>

BadUnchanged(s2) == ~Writing(s2)

Unchanged(s2) == s1 = s2

LoadS2 ==
  /\ rpc = "s2"
  /\ IF Unchanged(seq) THEN rpc' = "now" /\ tries' = tries ELSE Failed
  /\ UNCHANGED <<mono, shm, writer, s1, e, m, wrote, history>>

\* Extrapolate from the sample with the local clock.
Extrapolate ==
  /\ rpc = "now"
  /\ rpc' = "idle"
  /\ last' = e + (mono - m)
  /\ used' = [seq |-> s1, epoch |-> e, mono |-> m]
  /\ UNCHANGED <<mono, shm, writer, locals, wrote>>

\* No attempt succeeded: the raw local clock is returned.
Fallback ==
  /\ rpc = "fallback"
  /\ rpc' = "idle"
  /\ UNCHANGED <<mono, shm, writer, locals, wrote, history>>

-----------------------------------------------------------------------------
\* The daemon has published a first sample before any client maps the object.
Init ==
  /\ mono = 0
  /\ seq = 0
  /\ localMono = 0
  /\ epochNs \in Offsets
  /\ wpc = "idle"
  /\ sample = [seq |-> 0, epoch |-> epochNs, mono |-> 0]
  /\ published = {sample}
  /\ rpc = "idle" /\ tries = 0 /\ s1 = 0 /\ e = 0 /\ m = 0
  /\ wrote = FALSE
  /\ last = 0 /\ used = sample

Writer == WriteBegin \/ WriteEpoch \/ WriteMono \/ WriteEnd
Reader == Begin \/ LoadS1 \/ LoadEpoch \/ LoadMono \/ LoadS2 \/ Extrapolate \/ Fallback

Next == Tick \/ Writer \/ Reader

Spec == Init /\ [][Next]_vars

-----------------------------------------------------------------------------
(* A reader extrapolates only from a sample that was published as a whole, *)
(* never from the epoch of one and the local time of another.              *)
NoTornSample == rpc = "now" => \E x \in published : x.seq = s1 /\ x.epoch = e /\ x.mono = m

\* What is added to the local clock on the strength of a sample.
Offset(x) == x.epoch - x.mono

(* The times one thread reads from the shared clock go back only when the  *)
(* daemon has taken them back: from one sample to a later one, and by no   *)
(* more than the offset has fallen between the two.  A call never returns  *)
(* to a sample older than the one an earlier call has used, so with a      *)
(* shared clock that keeps up with the local one a gate does not see its   *)
(* slot twice.                                                             *)
MonotoneClock ==
  [][last' < last => /\ used'.seq > used.seq
                     /\ last - last' <= Offset(used) - Offset(used')]_vars

(* An attempt fails only if a write overlaps it, so that now_ns falls back *)
(* on the raw local clock, which has nothing to do with the shared epoch,  *)
(* only when writes have overlapped every one of its attempts.             *)
RetryForCause == [][tries' < tries => wpc # "idle" \/ wrote]_vars
=============================================================================
