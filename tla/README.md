# TLA+ models of the dark-pool MPC code

The repository (`src/code`) is a C++ prototype for secure multi-party computation
over a shared broadcast medium: `nP` computing parties and a dealer (party 0)
evaluate an arithmetic or Boolean circuit with authenticated additive shares, and
every byte they exchange travels as UDP broadcast datagrams that each party may
send only in its own time slots.  This directory holds TLA+ modules translated
from that source, TLC configurations that check them, and TLAPS proofs.

Paths below are relative to `src/code/src/` unless they start with `src/`.

## 1. Inventory of the system

| Component | Source | State it keeps | Operations | Model |
|---|---|---|---|---|
| Pipes of the broadcast bus | `io/bcast_bus.cpp`, `.h` | per peer: `TxState` (sequence number, retransmit buffer, streams in flight, poison flag) and `RxState` (next sequence number, partial streams, NACK attempts, poison flag) | `send`, `recv`, `handle_data_`, `handle_nack_`, `handle_poison_`, `drain_all_nacks_`, the destructor | `BusPipe`, `ReliablePipe` |
| Receive queue | `io/bcast_bus.cpp` | `rx` deque of chunks, `rx_bytes`, mutex, condition variable | `recv`, queueing in `handle_data_`, `mark_recv_poisoned_` | `RxQueue` |
| Witnesses | `io/bcast_bus.cpp` | per foreign pipe: `seen`, `low_walk`, `nacked` | `witness_observe_`, `witness_drain_` | `BusWitness` |
| Start-up barrier | `io/bcast_bus.cpp`, `io/netmp.h` | peers heard, attempts left; pump started or not | `sync`, `start_pump`, `NetIOMP::sync` | `SyncBarrier` |
| Transmit gate | `net/tdma_scheduler.cpp`, `.h` | slot table, in/out-of-slot tallies | `wait_for_slot`, `wait_and_mark_pre`, `mark_post` | `TdmaGate` |
| Shared clock client | `time/time_client.cpp`, `time/time_source.h` | mapped `TimeSrcShared` (seqlock) | `now_ns` | `TimeSeqlock` |
| Online evaluator | `asterisk/online_evaluator_load_balanced.cpp` | masked wire values, opened values, MAC shares; slices in transit | `evaluateCircuit`: `setInputs` or `setRandomInputs`, `evaluateGatesAtDepth`, `eqzEvaluate`, `ltzEvaluate`, `MACVerification`, `getOutputs` | `OnlineRound` (messages), `MaskedEval` (values) |
| Boolean evaluators | same file | wires as bits, pads | `BoolEval` (inside comparison gates), `BoolEvaluator` (exchange through the dealer) | `MaskedEval`, `OnlineRound` |
| Offline evaluator | `asterisk/offline_evaluator.cpp` | PRG positions, preprocessing vectors and read indices | `randomShare`, `randomShareSecret`, `randomShareWithParty`, `setWireMasks*`, `getOutputMasks` | `Dealing` |
| Assisted offline evaluator | `assistedMPC/offline_evaluator.cpp` | one helper stream, each party's vectors and indices | `randomShare*_Helper`, `*_Party`, `setWireMasks*` | `AssistedDealing` |
| Shares | `asterisk/sharing.h`, `utils/types.cpp` | value and tag | `AuthAddShare`, `TPShare`, `BoolRing::pack/unpack` | `Sharing` |
| Circuit builder | `utils/circuit.h` | gates and levels | `addGate`, `orderGatesByLevel`, `evaluate`, prefix circuits, adders, auction | `Circuit` |
| Applications | `utils/liquidity_matching.h`, `utils/darkpool.h`, `utils/neural_network.h` | none | circuit generators | `Gridlock`; the rest in section 9 |
| Pair encryption, legacy channel, benchmarks, scripts | `io/aes_ctr.h`, `io/_legacy/`, `src/code/benchmark`, `src/scripts` | – | – | not modelled (section 9) |

### How the components interact

    application thread                        pump thread
    ------------------                        -----------
    OnlineEvaluator -> NetIOMP::send/recv
        |                    |
        v                    v
     BcastBus::send   BcastBus::recv <--cv--- handle_data_ / handle_poison_
        |   (TxState::mu)   (RxState::mu)     handle_nack_ (TxState::mu)
        v                                     drain_all_nacks_, witness_drain_
     TdmaScheduler::wait_and_mark_pre            |  (on a recvfrom timeout)
        |        reads TimeClient::now_ns        |
        v                                        v
     sendto() ======== UDP broadcast ========= recvfrom()

One process holds one bus.  The application thread and the pump share `TxState`
and `RxState` under their mutexes; parties share nothing but the wire and the
clock page written by the time daemon.

### What is hard, and what makes each part correct

- **Pipes.** NACKs race `send()`, retransmissions cross originals, streams are
  evicted from the retransmit buffer while NACKs for them are on the wire, both
  ends keep budgets and may give up independently.  Correct: delivery is in
  order, exactly once, unmixed; a visible gap does not stay open for ever; the
  pipe is given up only for cause; everyone gets the data or an error.
- **Receive queue.** A lost wakeup; read boundaries that ignore message
  boundaries; poisoning while a reader waits.  Correct: a byte stream, no reader
  left asleep.
- **Witnesses.** Unbounded bookkeeping and a third party that talks about other
  people's pipes.  Correct: every gap reported, and once.
- **Barrier.** Everyone waits for everyone over a lossy wire, then a pump takes
  over the socket; the attempts of a party may run out before another has started.
  Correct: nobody through alone but by a timeout, nobody who misses a party that is
  through, and with nobody timed out everyone through.
- **Gate and clock.** A look at the clock that is stale when `sendto()` runs;
  clocks that differ; sleeps that end early or late; torn reads.  Correct: no
  transmission outside an owned slot, no two parties at once, the gate opens; no
  time from a torn sample, none that the daemon did not take back itself.
- **Online evaluator.** Four phases of all-to-all exchange between parties that do
  not run in step over FIFO pipes, with slices of unequal and of zero length and
  values packed in another order than the gates', then a check by the dealer on
  which everyone must branch alike.  Correct: all parties see the same, correct
  opened values, a wrong product never reaches the outputs, nobody deadlocks, no
  byte stays behind.
- **Offline phase.** Dealer and parties each walk the circuit on their own and draw from
  streams they have in common, in gate order, with vectors for what the last party
  cannot draw.  Correct: the same shares at the same gates,
  streams and indices in step at the end, tags that add up to key times secret.
- **Masked evaluation.** A gate's opening mixes masked values, products of masks with
  alternating signs, and key shares; comparisons run a Boolean circuit inside an
  arithmetic one.  Correct: masked value less mask is what `evaluate()` computes.
- **Circuits.** Generators with index arithmetic over rows and levels; a level must be
  over before a gate that is opened reads it.  Correct: levels in dependency order,
  each generated circuit computes its function.

`PROJECT.json` lists every hazard at its line with the properties that cover it.

## 2. Plan

Order of work; all of it is done except where it says otherwise.

1. `BusPipe` with the abstract `ReliablePipe`, and `BusPipeProofs`.
2. `RxQueue`.  3. `TdmaGate`.  4. `TimeSeqlock`.  5. `SyncBarrier`.
6. `BusWitness` on top of `BusPipe`.
7. `OnlineRound`: `evaluateCircuit` over FIFO pipes; "every wire is opened to the
   sum of the parties' shares".
8. `Circuit`: gates, levels, plain evaluation, generators.  9. `Sharing`: shares, tags,
   bit packing.
10. `Dealing` and 11. `AssistedDealing`: the two offline phases.
12. `MaskedEval`: from the circuit to the outputs, composed of 8-11, with `Gridlock`.
13. A process that exits while its peers still need its retransmissions (`Leave` in
    `BusPipe`).

14. Proofs about the pipe, the witness, the receive queue, the barrier, the gate, the
    clock and the online phase (section 6).

15. Proofs about the circuit, its levels and what the dealer deals (section 6).

Left: proofs about the parties' side of the values (section 7); the remaining gates without an MPC
case (section 9), should the code get one.

## 3. Modules and their correspondence to the code

The modules stack: `BusPipe` implements `ReliablePipe`; `BusWitness` adds a
third party to it; `RxQueue` refines its `recv` to locks; `OnlineRound` assumes
for each pair of parties what `ReliablePipe` promises.  `TdmaGate` reads the clock
of `TimeSeqlock` and decides when the datagrams of the bus leave; `SyncBarrier`
comes before all of them.  `MaskedEval` EXTENDS `AssistedDealing` (which EXTENDS
`Dealing`, which EXTENDS `Circuit` and `Sharing`) and `Gridlock`, and computes the
values that `OnlineRound` sends about.  A module `XProofs` EXTENDS `X` and
holds the theorems about it; `BusPipeProofs` has those about `BusWitness` too, and
`DealingProofs` those about `Circuit`, `Sharing`, `Dealing` and `AssistedDealing`, on which
`MaskedEvalProofs` builds.

Operators named `Bad...` are faulty variants of the definition that follows
them.  They are not part of any specification; a run is shown to notice the
fault when the variant takes that definition's place.

### BusPipe, ReliablePipe

One directed pipe.  An action is one critical section of the code: `SendBegin`
(sequence number and `streams_in_flight`), `SendInsert` (one fragment into
`tx_buf`, eviction), `SendTo` (`sendto`), `SendAgain` (EAGAIN repeats the loop
round), `SendDie` (another errno: `send` throws out of the loop), `SendFinish`; `Leave` (the
destructor stops the sender's pump, after the last message or after an exception);
`HandleNack` with its disjuncts for an ignored, answered, over-budget and evicted
fragment; `HandleData` (store, complete, drain the successors), `HandlePoison`,
`DrainNackState` (recompute the gaps, NACK what is due, poison what is spent), `Recv`,
`RecvThrow`.  A datagram a pump sends after it has released its lock is put on
the wire in the same action; the wire may delay it, so nothing is lost.

Abstractions: the wire is a set of datagrams, a duplicate is a datagram left on
the wire when it is received; a payload is the set of the application
chunks it carries, so that "empty" is distinguishable, as the code's test
`frags[i].empty()` has it; `recv` takes whole messages (byte boundaries are the
business of `RxQueue`); time is the set `elapsed` of entries whose back-off is
over, chosen freely by each drain; encryption, statistics and the socket are
left out.  `IdxSpan` stands for 2^16 and `FragsFit` says that messages fit it.

`ReliablePipe` is what users may rely on: an ordered, exactly-once message pipe
either end of which may break.  `ImplementsPipe` is the refinement.

### RxQueue

The same receiver at the granularity of lock operations: lock, evaluate the
wait predicate, park, wake (spuriously too), copy a piece of a chunk, return,
against the pump's queueing and against `mark_recv_poisoned_`, which sets the
flag and notifies without the mutex.  `Ends` are the places in the stream where the
queued payloads end; the bytes are named by their places, so that a byte out of order shows.

### BusWitness

EXTENDS `BusPipe` with a third party.  Its own copy of a DATA datagram may be lost, late or
doubled, so that it may overhear any stream of which something was sent (`Sent`), any number of
times (`Observe`); `WitnessDrain` NACKs each gap once.  Of the datagram it reads nothing but the
stream number.  Its NACKs end at the sender's origin check (`io/bcast_bus.cpp:569`), which comes before any state of the pipe is
looked at; they are no actions of the model.

### SyncBarrier

`sync()` of every party, called `Rounds` times: emit, listen until everyone is
heard or an attempt times out, trailing emits, drain, start of the pump (once),
and the pump.  Frames are only SYNC or DATA.  A timeout of `recvfrom` is possible when the
party's own receive buffer is empty.  The 1200 attempts are not counted: any of them may be the last, also
while another party has not started yet, and a party that gives up goes on as if it had heard everyone
(`gaveUp` keeps which ones did).  `WithData` lets a party that is through send DATA.

### TdmaGate

Time runs modulo one cycle in units of a fraction of a slot.  Each thread goes
through the gate (look at the clock, pass or sleep), the second clock reading of
`wait_and_mark_pre`, `sendto`, and `mark_post`.  A thread may be late by at most
`MaxLag` units between steps, sleeps end up to `Early` early and
`Oversleep` late, parties' clocks differ by `Ahead`.  `Ungated` is the set of threads
that call `send_poison_to_target_`, which asks no gate.  Slots may be shared or unowned.

### TimeSeqlock

`now_ns()` load by load against a daemon that publishes samples the way the
comment on `TimeSrcShared` describes (the daemon is not in the repository).  The offset between shared
and local clock is arbitrary at each sample: it falls when the shared clock is stepped back or is
the slower of the two.  Loads are taken in program order (see section 8).

### OnlineRound

`evaluateCircuit` of the parties and the dealer.  An action is one `send` or one
`recv` with the local computation that follows it; `peer` is the loop variable of
the loop over the parties that is running.  A level is one round of four loops
(`SendSlice`, `GatherSlice`, `SendSums`, `CollectSums`); the Boolean circuits of a
level's comparison gates are rounds of their own before it (`BoolRounds`), since
`BoolEval::evaluateGatesAtDepth` is the same exchange over bits.  `Packed` is the order the
openings of each round are sent in, `Offset` and `Rank` the index arithmetic of unpacking.  A
node that has thrown is in `threw` and stays where it was.  `OnceAssumption` says what
`orderGatesByLevel` sees to: a gate is in one level.

Abstractions: an opened field element is the bag of shares it is the sum of, so that
"the right value" means "every party's share of this gate, once"; a share is marked
wrong when `Miscompute` made it so, and a party's `omega` is the set of gates
whose opened value is not the one its tags belong to (in the code a random linear
combination, zero by chance with probability 1/p).  The bits of a Boolean slice are not
packed into bytes.  A pipe is what `ReliablePipe` promises, at the granularity of
field elements; `Break` poisons one end, and a node that uses it throws.

### Circuit, Sharing, Gridlock

Pure operators.  A circuit is a sequence of gates, a wire the index of the gate it comes
out of.  `GatesByLevel` is `orderGatesByLevel`, `Evaluate` is `evaluate`; the generators
build the same gates in the same order as the code for a width of 4^`lg` instead of 64
(they need a power of 4; the adders are built for 2^`lg` bits).  A share is a pair `[val, tag]`, a sharing maps the parties whose pair a
node knows to the pairs; rings are given by their modulus.  `Gridlock` is the
settlement circuit of `liquidity_matching.h`.  `InTurn` and `Once` change
nothing but how TLC evaluates a fold.

### Dealing, AssistedDealing

`FieldPass`, `BoolPass`, `HelperPass` and `PartyPass` are `setWireMasks*`: a fold over the gates in
level order that draws from the streams a node has (`pos` counts the draws of each)
and, at the last party or at the assisted parties, reads the vectors that were sent.
One state record per node is what it ends up with.  `Prg` is any function of seed, stream and
position; in the code the seed is the same for all streams, so the runs take one where all
streams are equal (seed 200) and one where they differ (seed 3).

### MaskedEval

A *job* is a circuit with its inputs and a scheme: `field` (asterisk), `bool` (the Boolean
evaluators), `assisted` (offline only, as there is no online phase for it) or `plain`
(`evaluate()` on a generated circuit).  The circuit is built gate by gate
from `Menu`, ordered, dealt node by node (a node's pass is one action: it touches nothing shared but
the message to the last party, which is), and then evaluated by parties that are at most
a round apart.  A party posts its openings of a round (`PostField`,
`PostComparison`, `PostBool`: the `...PartySend` functions) and goes on when the others' are there
(`Close...`: `...PartyRecv`).  Here a round is a board that everybody reads; that the slices of
`OnlineRound` bring every party the same sums is what `OpenedRight` says there.
`RelayInput` and `Aggregate` are the dealer in `BoolEvaluator`, with bits packed into bytes.

`Reference` is `evaluate()` on the plaintext inputs (with `setRandomInputs`, on the plaintexts the
drawn masked inputs stand for).  `Exact` names the gates on which the parties agree with
it: all but an Eqz of a nonzero value and an Ltz of a value between (P+1)/2 and
2^(K-1) (both below), and what depends on these.

## 4. Runs

All bounds are constants of the configurations.

| Run | What it shows | Bounds and why they suffice |
|---|---|---|
| `pipe_safe` | `DeliveredIntact`, `NoStall`, `RetransmitWindow`, `Causality`, `PoisonJustified`, `NackOnlyForLost`, `ImplementsPipe`, and of the witness `ReportsOnce` | three messages, of two fragments, none and one, over a window of one stream, so two evictions, one while `send` is in its loop; one duplicated datagram or NACK; budgets of one; reordering is unlimited, and with it NACKs for what is only late.  Both kinds of completion (immediate and through `pending`) and both kinds of duplicate (before and after delivery) occur, and an empty message waits behind a gap, is NACKed there, and comes twice.  The witness overhears anything that was sent, at any time. |
| `pipe_live` | `PipeSound`, `GapResolved`, `SettledWithoutFault` | a message of two fragments and an empty one, three faults among loss (DATA, NACK, POISON), EAGAIN and a fatal errno, and a sender that may exit when it is through; budgets of one: enough to lose a datagram, its NACK and the POISON |
| `queue_stream` | `StreamInOrder`, `NeverCopiesEmpty`, `ReadsAnswered` | five chunks, six reads; reads span chunks, chunks span reads, a read of zero bytes; poisoning at any time |
| `gate` | `PinnedToSlot`, `NoCollision`, `SpillFree`, `GateOpens` | three slots of which nobody owns one; guard = lag + skew, the least that works; two threads of one party, one of them also able to bypass the gate, and one of another |
| `clock_read` | `NoTornSample`, `MonotoneClock`, `RetryForCause` | three samples, each with any of the offsets; two attempts: the second starts from any phase of the writer |
| `sync_first` | `Barrier`, `FirstSyncHeard`, `FirstSyncOpens` | two parties, two rounds, two lost frames (as many as a party sends trailing ones), DATA of a faster party; a party may give up in any attempt, before the other has started too |
| `online_round` | `OpenedRight`, `OutputsVerified`, `NothingLeft`, `Completes` | three parties; two inputs of different owners; a Boolean round of two circuits (slices 1, 1, 2), a round of four openings in another order than the packing (1, 1, 2), a round of one opening (0, 0, 1); one fault: one of six pipe ends (between parties, to and from the dealer) or any one wrong share |
| `masked_eval` | `MaskedRight`, `InStep`, `MacSound`, `LevelsOrdered`, `GeneratedRight` | three parties (the last differs from the others, and there are two that do not); P = 13, K = 4 bits; inputs 0, 1, P-1 and the values around (P+1)/2 and 2^(K-1), owned by every party and by the dealer; two inputs, one gate of each type, then one that reads it, in the same level where it is linear; generators (all but `generatePrefixAND`) at widths 4 (all inputs) and 16 (two levels of the prefix trees; chosen inputs; the adder of all bits at 8); two and four bids; netting of two and three banks over two iterations |

`TypeOK` is an invariant of each module's run as well (and `WTypeOK`, of `BusWitness`, in
`pipe_safe`).

Configurations turn deadlock checking off where the system may stop: the
traffic is finite and a thread that threw or a pipe that broke stays so.  The gate
run checks for deadlock.

### Runs that are expected to fail

Each checks one statement made by a comment or document of the repository, and
TLC finds the behaviour of the code that contradicts it.

| Run | Finding |
|---|---|
| `pipe_tailloss` | The loss of the last datagrams of a burst is noticed by nobody and the reader waits for ever (`:640`). |
| `queue_poison` | `mark_recv_poisoned_` notifies without the mutex; the wakeup can be lost (`:853`). |
| `eqz_sign` | The test of Eqz on a nonzero value expects what `evaluate()` gives (0); the parties open another value, as `eqzEvaluate` subtracts the product its comment adds (`asterisk/online_evaluator_load_balanced.cpp:165`). |
| `prefix_heads` | `generatePrefixAND` multiplies a block by the first wires of the blocks before it instead of the last (`utils/circuit.h:559`), so that from the second level on the first block's conjunction is left out.  Its test compares with the prefixes of the input and tries only a zero at `input[60]`, one of the few places where the circuit is right.  The run has sixteen bits (the code 64; at four the circuit is right, as there is only one level) with a zero where the last quarter starts, which comes out right, and with a zero in second place, which does not: the circuit says 1, the formula of the test 0.  The parallel versions, which the evaluators use, take the last wires and are in `masked_eval`. |

### Divergences seen while modelling, without a run of their own

- A message of 2^16 fragments or more is announced with its count modulo 2^16
  (`io/bcast_bus.cpp:274`); the proofs assume `FragsFit`.
- With a slot no longer than the guard band the gate never opens
  (`net/tdma_scheduler.cpp:132`); `TdmaGate` assumes the guard is shorter.
- POISON and SYNC datagrams do not pass the gate (`io/bcast_bus.cpp:772`); the gate's
  properties speak of what asked it.
- Slots are compared modulo the cycle, so a send late by a whole cycle is tallied as in
  slot (`net/tdma_scheduler.cpp:99`).
- After eight failed attempts the raw local clock is returned as shared time
  (`time/time_client.cpp:51`).
- The drain at the end of `sync()` throws away DATA of a faster peer
  (`io/bcast_bus.cpp:232`); the NACK machinery has to fetch it again.
- A loop round repeated on EAGAIN enters its stream into `tx_buf_order` twice and
  shrinks the retransmit window; `pipe_safe` has no EAGAIN.
- A zero-length message that waits behind a gap has an empty vector as its only fragment, which
  `compute_missing_locked_` takes for a fragment that is missing: it is NACKed although it has
  arrived (`io/bcast_bus.cpp:650`), and an evaluator sends such messages in every level with fewer openings than parties.
  If that fragment comes twice, `received` is 2 while `frag_total` is 1 (`io/bcast_bus.cpp:502-513`), so that the
  stream does not count as complete when its turn comes.  Then any further copy delivers it at once
  (`io/bcast_bus.cpp:489`), and if none comes the NACKs spend the budget.  `NackOnlyForLost` and `NoStall` say
  exactly this: `HeldBlank` is an empty message in a partial stream, in the latter with `received` above 1.
- A second `sync()` competes with the pump for SYNC frames and can time out with nothing
  lost (`io/bcast_bus.cpp:439`); `io/bcast_bus.h:60-61` documents one call before
  `start_pump()`, the benchmark calls `NetIOMP::sync` twice.  `SyncBarrier` has both rounds.
- All PRG streams of the code are seeded alike (seed 200), so they are equal: what a party takes for
  independent masks is one sequence.  Correctness does not depend on it and `masked_eval`
  checks both cases.
- `ltzEvaluate` and `evaluate()` disagree on values from (p+1)/2 up to 2^63: the former takes
  them to be negative, the latter looks at the highest bit.  `Exact` leaves them out.
- The pads of a Boolean opening are added to a party's tag `nP` times (once for each adder); no
  code verifies the tags of Boolean openings.
- `BoolEvaluator` takes the pads of a Mul4 from random bytes without reducing them modulo 2, as it does
  for the other gates (`asterisk/online_evaluator_load_balanced.cpp:1228`); the parties draw the same bytes, so
  that what is added and what is taken off agree, and the model has the reduced bits.
- The helper of `assistedMPC` shares the product of the first two masks of a Mul3 four times, where
  the other two pair products and the product of all three belong (`assistedMPC/offline_evaluator.cpp:284-296`).
  The dealt values are in step and authenticated, which is what `InStep` and `MacSound` say; there is no online phase whose result would differ.
- An input owned by the dealer (party 0) has no online path: no `setInputs` sends it, and
  `StartOnline` is guarded against it; `num_inp_pid` is indexed by party numbers up to `nP` and has
  `nP` entries (`asterisk/online_evaluator_load_balanced.cpp:1069`).
- `treeMult` of the gridlock circuit on an empty queue counts down from zero.
- Gridlock: a bank's last selected transaction is found by looking at its next one only, which is
  right as long as a bank's selected transactions are a prefix of its queue; this holds from the
  start, where all are selected.
- `MACVerification` has no case for comparison gates and does not see the gates of their
  circuits, so their openings are unchecked when the outputs are given out.

## 5. Fairness

- `BusPipe`: the threads keep running (weak fairness of `Send`, of the handler of
  each key on the wire, of `Recv`); nothing is assumed of faults, which are bounded
  by `MaxFaults`; the receiver's pump gets a `recvfrom` timeout again and again
  (weak fairness of the drain of all entries).  The last is an assumption about
  the traffic: the code looks for gaps only when the socket is silent for one
  timeout (`io/bcast_bus.cpp:408`), which traffic without pauses would prevent.
- `RxQueue`: both threads are scheduled; spurious wakeups are not assumed.
- `TdmaGate`: time passes and threads run; lateness stays within `MaxLag`.
- `SyncBarrier`: every party runs and reads its socket; the step that is possible
  only on a silent socket is taken if the socket is silent again and again.
  `FirstSyncOpens` assumes in its own statement that everybody has read everything again
  and again (`[]<>AllSilent`): attempts are 50 ms apart.
- `TimeSeqlock`, `BusWitness` and `MaskedEval` have safety properties only.
- `OnlineRound`: as long as some node can take a step, some node does.

## 6. What is proved

Eight modules, about 14500 proof obligations, for every value of the constants that the
assumptions of the modules admit.  Every inductive invariant named here was also
run through TLC on the instances of section 4 before it was proved.

### The pipe: `BusPipeProofs`

For every number of streams, every workload, budgets, buffer capacity, set and number of
faults (`PipeAssumption`).  Two further hypotheses occur:
`FragsFit`, no message has more fragments than the 16-bit fields can count (`io/bcast_bus.cpp:274`);
`"again" \notin Faults`, `sendto` does not report EAGAIN, which enters a stream twice into `tx_buf_order`.
None of them is needed where it is not named.

| Theorem | States | Needs | Inductive invariant |
|---|---|---|---|
| `TypeInvariance`, `TypeCorrect` | `TypeOK` | | `TypeInv`: with the range of the loop counter of `send`, without which the datagrams the loop builds have no type |
| `Soundness`, `IntactDelivery` | `PipeSound`, `DeliveredIntact` | `FragsFit` | `PipeSound`: whatever carries a fragment (the wire, `tx_buf`, a `Partial`) carries the right bytes under the right index and count, and `received` counts the filled slots |
| `CausalityHolds` | `Causality` | | `Begun`: all that is on the wire, stored or asked for is of a stream that `send` has begun |
| `NoMessageStuck`, `NacksOnlyLost` | `NoStall`, `NackOnlyForLost` | `FragsFit` | `Receipt`: a fragment that has arrived is held by its `Partial` or delivered, and the next stream is never complete between two steps; an empty message, whose slot does not show it, is held when its `Partial` has `received` above 0 |
| `WindowKept`, `PoisonOnlyForCause` | `RetransmitWindow`, `PoisonJustified` | `FragsFit`, no EAGAIN | `Window`: `tx_buf_order` holds the newest streams in order, `tx_buf` all fragments of those whose `send` has returned, and the current one is in `streams_in_flight` |
| `PipeRefinement` | `ImplementsPipe` | `FragsFit` | `PipeSound` and `TakenSound`: every message that `recv` has handed out was delivered or is empty |

A `Partial` with `received = total` is exactly the message (`CompleteWhole`), a
fragment stored keeps this (`FilledSound`, `StoredSound`), and what
`drain_pending_locked_` queues is sound (`DrainSound`).  For the refinement the initial
state maps to the initial state of `ReliablePipe`, and every action to one of its actions or to a
stutter: `SendBegin` is the abstract send, `Recv` the abstract receive, and an end breaks when its thread
throws (or, at the sender, leaves).

### The witness: `BusPipeProofs`

`WitnessRecord` (`WTypeOK`) and `WitnessReportsOnce` (`ReportsOnce`), for any number of streams and anything the witness
overhears or misses, rest on `Recorded`: what was overheard is `seen` and all below `low_walk`, and what was reported is `nacked`.

### The receive queue: `RxQueueProofs`

`QueueTypes`, `ReadsInOrder` (`StreamInOrder`) and `FrontIsThere` (`NeverCopiesEmpty`), for chunks and reads
of any lengths.  The invariant adds `Covered` (what the wait predicate saw stays queued while the mutex is
held, so the copy loop is covered by `rx_bytes`).  The lemmas `HoldsMore`, `HoldsLess` and `HoldsCut`
say what appending a chunk, dropping the first and cutting it do to a deque that holds a stretch of the stream.

### The barrier: `SyncBarrierProofs`

For any number of parties, rounds, trailing frames and losses, any starting times and any number of attempts.  `BarrierTypes` (`TypeOK`); `BarrierHolds` (`Barrier`):
a frame in a socket buffer and an entry of `seen` come of a party that has spoken in round 1 (`SpokenHeard`), so has
everyone who has left the first emit (`SpokenPast`), and `got = needed` means everyone, by cardinality
(`HeardAllMeans`).  `FirstSyncReaches` (`FirstSyncHeard`) is a count (`Costly`): a party that trails, and has not timed out, has cost
`Trailing - trail` lost frames to whoever waits in the first round and has neither read nor buffered one of
its frames; all of them reach an open socket because of `Barrier`, and the pump, which would eat them, does not run
yet (`PumpLate`).  Of a party that has timed out nothing is claimed: it may have spoken before the other's socket was open.

### The gate: `TdmaGateProofs`

For any schedule, slot length, threads, lateness and clock error.  `GateTypes` needs nothing.  `SlotKept` (`PinnedToSlot`) and `NoSpill` (`SpillFree`)
need `EveryoneOwns` (a party that owns no slot passes at once, `net/tdma_scheduler.cpp:145`) and `GuardCoversLag`
(`MaxLag <= Guard`); `CollisionFree` (`NoCollision`) needs `GuardCoversSkew`: guard at least the lag plus the
disagreement of any two clocks.  These two are what the guard band is for; the code takes it from the
configuration and cannot check it.  `GateSound` says that a thread under way between the gate and `mark_post` is in a slot of its party,
with more than `Guard - lag` of it left; the rest is arithmetic modulo the cycle (`ModShift`, `SlotIs`, `SameSlot`, `NowAgree`).

### The clock: `TimeSeqlockProofs`

`NeverTorn` (`NoTornSample`), `ClockMonotone` (`MonotoneClock`) and `RetriesForCause` (`RetryForCause`), for any
offsets, number of samples and attempts.
`ReadSound` relates the loads already done to the sequence number they were done under: as long as the page's number
is still `s1`, what was loaded is what is there, and a page that is not being written is a published sample.
`MonotoneClock` adds that a sequence number names one sample (`SamplesApart`), and that the sample used last accounts for the
last result and is no newer than what a read under way may use (`LastSound`).
### The online phase: `OnlineRoundProofs`

All four invariants of `OnlineRound`, for any circuit (any inputs, levels, Boolean circuits and kinds), number of parties,
breakable pipe ends and number of faults: `RoundTypes` (`TypeOK`), `OpenedRightly` (`OpenedRight`), `VerifiedOutputs`
(`OutputsVerified`), `NothingLeftOver` (`NothingLeft`).

The lemmas about data come first.  `Concat` is a recursive function, so what it computes is an induction over natural
numbers; the library's induction theorem is out of the provers' reach (it has an operator as a parameter), but a
set of numbers that holds 0 and with each number the next is all of `Nat` (`SetInduction`, from the well-foundedness of `<`), and
the inductions here are about such sets.  They give where the elements of a concatenation are
(`ConcatPicks`, `ConcatPlaces`), hence that the gate at place `i` of a round is packed where unpacking looks for it, at
`Offset + Rank + 1` (`PackedRight`, `UnpackedRight`); and that the slices, with the rest at the last party, cover
what is packed (`SlicesCover`).  Sums are bags of shares; `SumPlus` adds disjoint ones, `WrongShows` says
that a wrong share is seen in a sum.

The inductive invariant is `RoundInv`.  What one party ever sends another is known beforehand: a message for each
input (empty unless it is the owner), then per round its shares of the other's slice and the sums of its own.  `Stream(w, m, n, j)` is the
first `j` messages, as field elements, since the pipe knows no messages.

- `Streams`: what `n` has taken from `m`, followed by what is in the pipe, is what `m` has sent, where both numbers
  of messages follow from where the two are in their loops (`Sent`, `Got`).  This is why a `recv` of a length gets the message meant
  (`ReceiveNext`), although it asks for elements.  `Got` may exceed `Sent`: a message of an empty slice is taken
  before it is sent.  Only such messages can be (`NotBeforeSent`).
- `Stores`: the sums a party has added, the slices it has put into `agg_values` and the gates it has opened hold the sums of the shares of
  exactly the parties that its loops have passed.
- `Dealing`: the same count for the conversation with the dealer, whose verdict is the union of the `Omega`s asked for.
- `Control`, `Faults`: where the nodes are, and that a wrong share is one of a gate that is opened.

There is one lemma per action.  The hard case is `Miscompute`: a share that becomes wrong when its party starts on a round must not
change any sum somebody has already.  Since nobody can have the shares that party has not sent, nobody has sent or collected sums of
that round, but for empty slices (`NoSumsYet`); and no other round opens the gate (`OnceAssumption`).  The four theorems follow from the
invariant: for `OutputsVerified`, a verdict is given only when all parties have opened everything and sent their omegas (`VerdictIsComplete`);
for `NothingLeft`, all counts are equal at the end.

### The values: `DealingProofs`, `MaskedEvalProofs`

| Theorem | States | For |
|---|---|---|
| `LevelsAlwaysOrdered` | `LevelsOrdered` | every circuit that `addGate` can build |
| `ComparisonCircuits` | `generateMultK` and `generateParaPrefixOR` build circuits that `addGate` takes | every width 4^L |
| `DealtAlwaysAuthentic` | `DealtAuthentic`, the offline half of `MacSound` | every circuit, field, number of parties, seed, owners of inputs and PRG whose draws are integers (`PrgTyped`), for all three offline evaluators |

Three assumptions carry them, each evaluated by TLC: `JobsAssumption` (a job starts from what `addGate` has
built, and `setWireMasks` has a case for its gates and an owner for its inputs), `PowersAssumption` (what powers of 2 and
4 the proofs use, as the provers know none) and `DealingAssumption` (two parties or more).

The operators of these modules are folds of the community modules, defined by `CHOOSE` on a set whose elements are taken away
one by one.  Since no induction theorem with an operator as a parameter can be instantiated, each kind of fold is described as a function
on the subsets of a finite set (`Iterates`, `IterExists`, `IterSame`), and the
induction is about the set of cardinalities for which it is right (`SetInduction`).  Sums come out of this as linear
(`SumLinear`) and independent of the order of their terms (`SumPick`); `InTurn` is a loop with a state after each
step (`Loop`, `LoopEnds`), where `Do` names every step that some loop of the offline phase takes, so that what holds at the start of a
loop and is kept by its steps holds at its end.

*Levels.* `IsCircuit` is inductive for `AddGate` (`CircuitGrows`) and `Finish` sets the levels, which gives
`CircuitInv`.  `GateLevelIs`: a gate is not below its inputs, and one that is opened is above them.  Each level lists
its gates in circuit order (`LevelInOrder`), the levels follow one another (`LevelsInOrder`), and an order on finitely many gates that respects
`(level, index)` has each once (`InOrderOnce`).

*Dealing.* `Shares(r, k)` is the set of sharings of ring `r` that are sound under the keys `k`: the sum of the tags is congruent to the key times
the sum of the values.  It is closed under `+=`, `-=` and `*=` (`LinearSound`, so `LinearMaskSound` for the linear gates), and the three ways to
make a sharing make one of it, whatever has been drawn, as the last party's pair is what is missing (`LastSound`).  `Deals(st, k)`
is the state of a dealer with the keys `k`; the invariant of its pass is `DealtGates(st, r, k, W)`: the gates `W` are
dealt, with sound masks, products and Boolean circuits, and nothing is left over from the last gate.  There is a lemma per kind of gate; for the comparisons
an inner loop over the gates of the generated circuit has the invariant `Inner`, and needs that in the order of
its levels every gate comes behind the gates it reads (`OrderIs`), which is the level theorem again, of the circuits of
`ComparisonCircuits`.  `DealerDealt` says it of the whole pass, and `DealtInv` carries it through the
behaviour: the circuit stays as it is once the dealer has dealt.  The keys of the comparison circuits (ring 2) and of the field
are two entries of `k`; the Boolean evaluators have ring 2 alone.

## 7. What is only model-checked

- Liveness (`GapResolved`, `SettledWithoutFault`, `ReadsAnswered`, `GateOpens`,
  `FirstSyncOpens`, `Completes`): reasoning under fairness is out of the prover's reach.
- `TypeOK`, `InStep`, `MaskedRight` and the online half of `MacSound` of `MaskedEval`, on the circuits and fields of section 4.
  They relate the passes of two nodes, or the openings of all parties to the plaintext evaluation; what is proved
  about folds reaches the dealer's pass, not yet these.
- `GeneratedRight`: what the generated circuits compute, beyond that those of the comparisons are circuits.
- `RetransmitWindow` and `PoisonJustified` under EAGAIN are not theorems because they do not hold (section 4).

## 8. Assumptions of the models

- A critical section is atomic; the code between two of them is a thread's own.
- The kernel's receive buffer is part of the wire; an overflow there is a loss.
- `TimeSeqlock` takes the reader's two plain loads in program order.  On
  the hardware the code was built for this is what happens; the C++ memory model does not promise it
  (an acquire load orders what follows it, not what precedes it).
- `local_seq` does not wrap.  After 2^32 messages on one pipe it would, and the receiver would
  drop every later message as old (`io/bcast_bus.cpp:254`).
- Payloads are not altered by the network, and processes follow the code.
- A field of 13 elements and 4 bits stands for the 64-bit prime of the drivers and 64 bits; `CircuitAssumption` states what the
  comparisons need of the two (2^(K-1) <= P <= 2^K, P prime).

## 9. What is not modelled, and why

- `io/aes_ctr.h`: a function of bytes; the models take it as the identity on contents.
- `io/_legacy/udp_channel.cpp`: not compiled.
- Benchmarks, tests and scripts: drivers and measurements; read for how the components are called.
- Statistics counters, logging, JSON output: no property depends on them.
- A disabled scheduler returns at once and has no behaviour of its own.
- The time daemon's choice of samples: not in the repository; modelled as samples with arbitrary offsets to the local clock.
- `utils/darkpool.h`: the circuits the benchmark builds read wires that the circuit never sets, so that
  they are wire 0, the name of the new order, and the outputs promise nothing about a match; they
  measure the cost of a circuit of that shape.  `utils/neural_network.h` occurs in tests only and works
  on fixed-point numbers.
- `kRelu`, `kMsb` and `kTrdotp`: accepted by the circuit builder, no evaluator has a case for them (`Gridlock` uses `kMsb`
  in plain evaluation only).
- `keyGen`, `reconstruct`, `sendBool`, `recvBool`: called by nothing.
- `assistedMPC/sharing.h`: `asterisk/sharing.h` again, without the shifts; the shifts of shares are called by nothing.
