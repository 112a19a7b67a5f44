-------------------------- MODULE TimeSeqlockProofs --------------------------
(***************************************************************************)
(* Proofs about TimeSeqlock, for any number of samples, clock readings and *)
(* attempts: no torn sample is used, the clock read goes back only with the *)
(* daemon's samples, and an attempt fails only for a write.                *)
(***************************************************************************)
EXTENDS TimeSeqlock, TLAPS

-----------------------------------------------------------------------------
(* The inductive invariant.                                                *)

Samples == [seq : Nat, epoch : Nat, mono : Nat]

Types ==
  /\ {mono, seq, epochNs, localMono, s1, e, m} \subseteq Nat
  /\ last \in Int
  /\ sample \in Samples /\ published \subseteq Samples
  /\ wpc \in {"idle", "epoch", "mono", "end"}
  /\ rpc \in {"idle", "s1", "epoch", "mono", "s2", "now", "fallback"}

\* seq is odd while the writer is at work; in between the shared object holds
\* the sample that was published last.
WriterSound ==
  /\ Writing(seq) <=> wpc # "idle"
  /\ wpc = "idle" => /\ sample \in published /\ sample.seq = seq
                     /\ localMono = sample.mono
  /\ wpc # "idle" => sample.seq = seq + 1
  /\ wpc # "epoch" => epochNs = sample.epoch
  /\ wpc = "end" => localMono = sample.mono

\* As long as seq has not moved, what the reader has loaded is what is there.
ReaderSound ==
  /\ rpc \in {"epoch", "mono", "s2"} /\ seq # s1 => wrote = TRUE
  /\ rpc \in {"epoch", "mono", "s2", "now"} => ~Writing(s1) /\ s1 <= seq
  /\ rpc \in {"mono", "s2"} /\ seq = s1 => e = epochNs
  /\ rpc = "s2" /\ seq = s1 => m = localMono

ReadSound == Types /\ WriterSound /\ ReaderSound /\ NoTornSample

\* Samples are told apart by their sequence numbers.
SamplesApart ==
  /\ \A x \in published : x.seq <= seq
  /\ \A x, y \in published : x.seq = y.seq => x = y

\* The sample used last accounts for the last result, and is no newer than what
\* a read that is under way may use.
LastSound ==
  /\ used \in published
  /\ last <= Offset(used) + mono
  /\ rpc \in {"epoch", "mono", "s2", "now"} => used.seq <= s1

-----------------------------------------------------------------------------
(* A sample is used as a whole.                                            *)

LEMMA Parity == ASSUME NEW n \in Nat PROVE Writing(n + 1) <=> ~Writing(n)
BY DEF Writing

LEMMA WriteSound == ASSUME ReadSound, Writer PROVE ReadSound'
<1> USE DEF ReadSound, Types
<1>1. CASE WriteBegin
  <2>1. PICK off \in Offsets :
          sample' = [seq |-> seq + 2, epoch |-> mono + off, mono |-> mono]
    BY <1>1 DEF WriteBegin
  <2>2. /\ sample' \in Samples /\ sample'.seq = seq' + 1 /\ seq' = seq + 1 /\ wpc = "idle" /\ wpc' = "epoch"
        /\ wrote' = TRUE /\ UNCHANGED <<mono, epochNs, localMono, published, rpc, s1, e, m, last>>
    BY <1>1, <2>1, SeqlockAssumption DEF WriteBegin, Samples, locals, history
  <2>3. Writing(seq') /\ ~Writing(seq)
    BY <2>2, Parity DEF WriterSound
  <2>4. WriterSound'
    BY <2>2, <2>3 DEF WriterSound
  <2>5. ReaderSound' /\ NoTornSample'
    BY <2>2, <2>3 DEF ReaderSound, NoTornSample
  <2> QED BY <2>2, <2>4, <2>5
<1>2. CASE WriteEpoch
  BY <1>2 DEF WriteEpoch, WriterSound, ReaderSound, NoTornSample, Samples, locals, history
<1>3. CASE WriteMono
  BY <1>3 DEF WriteMono, WriterSound, ReaderSound, NoTornSample, Samples, locals, history
<1>4. CASE WriteEnd
  <2>1. /\ seq' = seq + 1 /\ published' = published \cup {sample} /\ wpc = "end" /\ wpc' = "idle"
        /\ UNCHANGED <<mono, epochNs, localMono, sample, rpc, s1, e, m, wrote, last>>
    BY <1>4 DEF WriteEnd, locals, history
  <2>2. ~Writing(seq') /\ Writing(seq)
    BY <2>1, Parity DEF WriterSound
  <2>3. WriterSound'
    BY <2>1, <2>2 DEF WriterSound
  <2>4. rpc \in {"epoch", "mono", "s2", "now"} => s1 # seq + 1 /\ s1 # seq
    BY <2>1, <2>2 DEF ReaderSound
  <2>5. ReaderSound' /\ NoTornSample'
    BY <2>1, <2>4 DEF ReaderSound, NoTornSample
  <2> QED BY <2>1, <2>3, <2>5
<1> QED BY <1>1, <1>2, <1>3, <1>4 DEF Writer

LEMMA ReaderStepSound == ASSUME ReadSound, Reader PROVE ReadSound'
<1> USE DEF ReadSound, Types
<1>1. UNCHANGED <<mono, shm, writer>>
  BY DEF Reader, Begin, LoadS1, LoadEpoch, LoadMono, LoadS2, Extrapolate, Fallback
<1>2. WriterSound'
  BY <1>1 DEF WriterSound, shm, writer
<1>3. CASE Begin \/ Fallback
  BY <1>1, <1>2, <1>3 DEF Begin, Fallback, ReaderSound, NoTornSample, shm, writer, locals, history
<1>4. CASE LoadS1
  BY <1>1, <1>2, <1>4 DEF LoadS1, Failed, ReaderSound, NoTornSample, shm, writer, history
<1>5. CASE LoadEpoch
  BY <1>1, <1>2, <1>5 DEF LoadEpoch, ReaderSound, NoTornSample, shm, writer, history
<1>6. CASE LoadMono
  BY <1>1, <1>2, <1>6 DEF LoadMono, ReaderSound, NoTornSample, shm, writer, history
<1>7. CASE LoadS2
  <2>1. s1' = s1 /\ e' = e /\ m' = m /\ last' = last /\ rpc' \in {"now", "s1", "fallback"}
    BY <1>7 DEF LoadS2, Failed, history
  <2>2. ReaderSound'
    BY <1>1, <1>7, <2>1 DEF ReaderSound, LoadS2, shm
  <2>3. ASSUME rpc' = "now"
        PROVE  sample \in published /\ sample.seq = s1 /\ sample.epoch = e /\ sample.mono = m
    <3>1. s1 = seq
      BY <1>7, <2>3 DEF LoadS2, Failed, Unchanged
    <3>2. wpc = "idle"
      BY <1>7, <3>1 DEF LoadS2, ReaderSound, WriterSound
    <3> QED BY <1>7, <3>1, <3>2 DEF LoadS2, ReaderSound, WriterSound
  <2>4. NoTornSample'
    BY <1>1, <2>1, <2>3 DEF NoTornSample, writer
  <2> QED BY <1>1, <1>2, <2>1, <2>2, <2>4 DEF shm, writer
<1>8. CASE Extrapolate
  BY <1>1, <1>2, <1>8 DEF Extrapolate, ReaderSound, NoTornSample, shm, writer, locals, history
<1> QED BY <1>3, <1>4, <1>5, <1>6, <1>7, <1>8 DEF Reader

LEMMA ReadInvariance == Spec => []ReadSound
<1>1. Init => ReadSound
  <2> SUFFICES ASSUME Init PROVE ReadSound
    OBVIOUS
  <2>1. PICK off \in Offsets : epochNs = off
    BY DEF Init
  <2>2. epochNs \in Nat
    BY <2>1, SeqlockAssumption
  <2> QED BY <2>2 DEF Init, ReadSound, Types, Samples, WriterSound, ReaderSound, NoTornSample, Writing
<1>2. ReadSound /\ [Next]_vars => ReadSound'
  <2> SUFFICES ASSUME ReadSound, [Next]_vars PROVE ReadSound'
    OBVIOUS
  <2>1. CASE Tick \/ UNCHANGED vars
    BY <2>1 DEF Tick, vars, shm, writer, locals, history, ReadSound, Types, WriterSound, ReaderSound, NoTornSample
  <2> QED BY <2>1, WriteSound, ReaderStepSound DEF Next
<1> QED BY <1>1, <1>2, PTL DEF Spec

(* now_ns extrapolates only from a sample the daemon published as a whole, *)
(* wherever in its four loads the writer overtakes it.                     *)
THEOREM NeverTorn == Spec => []NoTornSample
<1>1. ReadSound => NoTornSample
  BY DEF ReadSound
<1> QED BY <1>1, ReadInvariance, PTL

-----------------------------------------------------------------------------
(* The clock read goes back only with the samples.                         *)

LEMMA SamplesStep == ASSUME ReadSound, SamplesApart, [Next]_vars PROVE SamplesApart'
<1> USE DEF ReadSound, Types
<1>1. \A x \in published : x.seq \in Nat
  BY DEF Samples
<1>2. CASE WriteEnd
  <2>1. seq' = seq + 1 /\ published' = published \cup {sample} /\ sample.seq = seq + 1
    BY <1>2 DEF WriteEnd, WriterSound
  <2> QED BY <1>1, <2>1 DEF SamplesApart
<1>3. CASE Tick \/ WriteBegin \/ WriteEpoch \/ WriteMono \/ Reader \/ UNCHANGED vars
  <2>1. UNCHANGED published /\ seq' \in {seq, seq + 1}
    BY <1>3 DEF Tick, WriteBegin, WriteEpoch, WriteMono, Reader, Begin, LoadS1, LoadEpoch, LoadMono,
           LoadS2, Extrapolate, Fallback, vars, shm, writer
  <2> QED BY <1>1, <2>1 DEF SamplesApart
<1> QED BY <1>2, <1>3 DEF Next, Writer

\* What extrapolation returns is the local clock and the offset of the sample.
LEMMA ExtrapolateUses ==
  ASSUME ReadSound, SamplesApart, LastSound, Extrapolate
  PROVE  /\ used' \in published /\ last' = Offset(used') + mono
         /\ used.seq <= used'.seq
         /\ used.seq = used'.seq => used = used'
<1> USE DEF ReadSound, Types
<1>1. PICK y \in published : y.seq = s1 /\ y.epoch = e /\ y.mono = m
  BY DEF Extrapolate, NoTornSample
<1>2. used' = [seq |-> s1, epoch |-> e, mono |-> m] /\ last' = e + (mono - m)
  BY DEF Extrapolate
<1>3. used' = y
  BY <1>1, <1>2 DEF Samples
<1>4. last' = Offset(used') + mono
  BY <1>2 DEF Offset
<1>5. used \in published /\ used.seq <= s1
  BY DEF LastSound, Extrapolate
<1> QED BY <1>1, <1>3, <1>4, <1>5 DEF SamplesApart

LEMMA LastStep == ASSUME ReadSound, SamplesApart, LastSound, [Next]_vars PROVE LastSound'
<1> USE DEF ReadSound, Types
<1>1. \A x \in published : x.seq \in Nat /\ x.seq <= seq /\ Offset(x) \in Int
  BY DEF Samples, Offset, SamplesApart
<1>2. CASE Extrapolate
  <2>1. used' \in published /\ last' = Offset(used') + mono
    BY <1>2, ExtrapolateUses
  <2>2. UNCHANGED <<published, mono>> /\ rpc' = "idle"
    BY <1>2 DEF Extrapolate, shm, writer
  <2>3. Offset(used') \in Int
    BY <1>1, <2>1
  <2>4. Offset(used)' = Offset(used')
    BY DEF Offset
  <2> QED BY <2>1, <2>2, <2>3, <2>4 DEF LastSound
<1>3. CASE LoadS1
  <2>1. UNCHANGED <<published, seq, mono, last, used>> /\ s1' = seq
    BY <1>3 DEF LoadS1, shm, writer, history
  <2> QED BY <1>1, <2>1 DEF LastSound, Offset
<1>4. CASE Tick \/ Writer \/ (Reader /\ ~Extrapolate /\ ~LoadS1) \/ UNCHANGED vars
  <2>1. /\ UNCHANGED <<s1, last, used>> /\ published \subseteq published' /\ mono <= mono'
        /\ mono' \in Nat
        /\ rpc' \in {"epoch", "mono", "s2", "now"} => rpc \in {"epoch", "mono", "s2", "now"}
    BY <1>4 DEF Tick, Writer, WriteBegin, WriteEpoch, WriteMono, WriteEnd, Reader, Begin,
           LoadEpoch, LoadMono, LoadS2, Failed, Fallback, vars, shm, writer, locals, history
  <2>2. used \in published /\ Offset(used) \in Int /\ Offset(used)' = Offset(used)
    BY <1>1, <2>1 DEF LastSound, Offset
  <2> QED BY <2>1, <2>2 DEF LastSound
<1> QED BY <1>2, <1>3, <1>4 DEF Next, Reader

LEMMA ClockInvariance == Spec => [](SamplesApart /\ LastSound)
<1>1. Init => SamplesApart /\ LastSound
  <2> SUFFICES ASSUME Init PROVE SamplesApart /\ LastSound
    OBVIOUS
  <2>1. /\ sample = [seq |-> 0, epoch |-> epochNs, mono |-> 0] /\ published = {sample} /\ used = sample
        /\ seq = 0 /\ last = 0 /\ mono = 0 /\ rpc = "idle" /\ epochNs \in Nat
    BY SeqlockAssumption DEF Init
  <2> QED BY <2>1 DEF SamplesApart, LastSound, Offset
<1>2. ReadSound /\ SamplesApart /\ LastSound /\ [Next]_vars => (SamplesApart /\ LastSound)'
  BY SamplesStep, LastStep
<1> QED BY <1>1, <1>2, ReadInvariance, PTL DEF Spec

(* The times one thread reads from the shared clock go back only from one  *)
(* sample of the daemon to a later one, and by no more than its offset has *)
(* fallen, whatever the offsets and wherever the writer overtakes a call.  *)
THEOREM ClockMonotone == Spec => MonotoneClock
<1> DEFINE Back == last' < last => /\ used'.seq > used.seq
                                   /\ last - last' <= Offset(used) - Offset(used')
<1>1. ReadSound /\ SamplesApart /\ LastSound /\ [Next]_vars => [Back]_vars
  <2> SUFFICES ASSUME ReadSound, SamplesApart, LastSound, Next PROVE Back
    OBVIOUS
  <2>1. last \in Int /\ mono \in Nat /\ \A y \in published : Offset(y) \in Int /\ y.seq \in Nat
    BY DEF ReadSound, Types, Samples, Offset
  <2>2. used \in published /\ last <= Offset(used) + mono
    BY DEF LastSound
  <2>3. CASE Extrapolate
    <3>1. /\ used' \in published /\ last' = Offset(used') + mono
          /\ used.seq <= used'.seq
          /\ used.seq = used'.seq => used = used'
      BY <2>3, ExtrapolateUses
    <3>2. CASE used.seq = used'.seq
      BY <2>1, <2>2, <3>1, <3>2
    <3>3. CASE used.seq # used'.seq
      BY <2>1, <2>2, <3>1, <3>3
    <3> QED BY <3>2, <3>3
  <2>4. CASE ~Extrapolate
    <3>1. last' = last
      BY <2>4 DEF Next, Tick, Writer, WriteBegin, WriteEpoch, WriteMono, WriteEnd, Reader, Begin,
             LoadS1, LoadEpoch, LoadMono, LoadS2, Fallback, history
    <3> QED BY <2>1, <3>1
  <2> QED BY <2>3, <2>4
<1> QED BY <1>1, ReadInvariance, ClockInvariance, PTL DEF Spec, MonotoneClock

LEMMA TriesBounded == Spec => [](tries \in Int /\ tries <= Tries)
<1>1. Init => tries \in Int /\ tries <= Tries
  BY SeqlockAssumption DEF Init
<1>2. tries \in Int /\ tries <= Tries /\ [Next]_vars => (tries \in Int /\ tries <= Tries)'
  BY SeqlockAssumption DEF Next, Tick, Writer, WriteBegin, WriteEpoch, WriteMono, WriteEnd, Reader,
     Begin, LoadS1, LoadEpoch, LoadMono, LoadS2, Failed, Extrapolate, Fallback, vars, locals
<1> QED BY <1>1, <1>2, PTL DEF Spec

(* now_ns gives an attempt up only when a write overlaps it, whatever the  *)
(* number of its attempts.                                                 *)
THEOREM RetriesForCause == Spec => RetryForCause
<1>1. ReadSound /\ tries \in Int /\ tries <= Tries /\ [Next]_vars => [tries' < tries => wpc # "idle" \/ wrote]_vars
  <2> SUFFICES ASSUME ReadSound, tries \in Int, tries <= Tries, Next, tries' < tries
               PROVE  wpc # "idle" \/ wrote
    OBVIOUS
  <2>1. CASE LoadS1
    BY <2>1 DEF LoadS1, ReadSound, WriterSound
  <2>2. CASE LoadS2
    BY <2>2 DEF LoadS2, Unchanged, ReadSound, ReaderSound
  <2>3. CASE Tick \/ Writer \/ LoadEpoch \/ LoadMono \/ Extrapolate \/ Fallback
    BY <2>3 DEF Tick, Writer, WriteBegin, WriteEpoch, WriteMono, WriteEnd, LoadEpoch, LoadMono,
           Extrapolate, Fallback, locals
  <2>4. CASE Begin
    BY <2>4, SeqlockAssumption DEF Begin
  <2> QED BY <2>1, <2>2, <2>3, <2>4 DEF Next, Reader
<1> QED BY <1>1, ReadInvariance, TriesBounded, PTL DEF Spec, RetryForCause
=============================================================================
