# TLA+ verification of `rate_adjusting_pcm_ring`

The library is a lock-free ring between one producer of PCM samples and one
consumer that renders them at another rate, slowly correcting the ratio to keep
the ring near a target occupancy. This directory models the parts of it whose
correctness depends on orders of events: the shared memory, finite bursts and
resets, the feeding of the converter, source muting, packet-loss concealment,
what the renderer measures, and construction. Paths below are relative to
the repository, which the modules call `src/`; `ring.rs` stands for
`src/src/ring.rs`, and so on.

## Inventory

| Part | State | Operations | Interacts with |
|---|---|---|---|
| Sample FIFO (`ring.rs`) | slots, `written`, `read`, `discarded` | `producer_push_sample`, `producer_push`, `producer_gap`, `producer_publish`, `consumer_take_source_sample`, `available` | two threads share slots and cursors |
| Finite bursts (`ring.rs`) | the `finish` word, `ConsumerState::finite`, `quiet` | `producer_finish`, `finish_status`, `drain_finite`, `complete_finite` | the word is written by producer and consumer in turn |
| Reset (`ring.rs`) | all consumer state, `reset_serial` | `consumer_reset`, `ConsumerState::reset` | host thread of the consumer; the producer sees an epoch |
| Refill (`ring.rs`) | input and output workspaces, `source_taken`, `gaps`, `zero_progress`, padding | `refill_output`, `make_input_space` | FIFO, converter adapter |
| Rate controller (`ring.rs`) | `occupancy_milli`, `ratio` | part of `refill_output` | occupancy of FIFO, workspace, converter |
| Counters (`ring.rs`) | missing, shortfall, errors | `record_shortfall`, `observe` | read from any thread, one writer each |
| Mute mailbox (`mute.rs`) | slots, two cursors | `free`, `publish`, `pop`, `reset` | producer to consumer, like the FIFO |
| Mute history (`mute.rs`) | sorted intervals | `insert`, `muted`, `retire`, `clear` | consumer only |
| Source tagging (`ring.rs`) | `producer_stamp`, `producer_epoch`, `source_base`, `plc_positions` | `producer_push_tagged`, `producer_mute`, `sync_producer_epoch`, `cache_position` | FIFO, mailbox, history, converter delay, PLC delay |
| PLC (`plc.rs`) | history, delay line, oscillator | `process`, `drain_sample`, `reset` | called once for each output |
| Adapter (`samplerate_adapter.rs`) | converter handle | `create_converter`, `process`, `reset`, delay queries | external library |
| C descriptor (`lib.rs`) | none | create, destroy, wrappers | host |

What is hard. The endpoints run concurrently on atomics and on unsafe slots.
A burst is ended by a word that changes owner while samples, intervals and
resets are under way. Interval updates are late by design and must still reach
samples that sit in the converter or in the concealment delay. The PLC
continues from whatever an interrupted loss left behind. `PROJECT.json` lists
these hazards line by line with the properties that cover them, and those that
no property of a run covers, with the reason.

What makes each part correct:

- FIFO: slots never race, samples are neither lost nor reordered, every offered
  sample is accounted for.
- Bursts: the frozen boundary is the accepted prefix; padding comes after it;
  an acknowledgement means that nothing of the burst is left; every finish is
  acknowledged once and in the end.
- Muting: what was asked in time is silent, nothing else is.
- PLC: indices stay inside, samples play in step, no stale waveform sounds.
- Refill: the converter gets the source in order from within the workspace, each
  output knows its source position and whether that was a gap, a call, in a burst or
  an open stream, reports an adapter error only when the adapter failed or kept
  refusing input, a burst is played to its end and not beyond.
- Controller: the average stays among what was measured and comes to rest near a
  level that stays; the ratio leaves nominal only for cause.
- Counters: a loss shows at once and is forgotten in the end, and neither the
  zeros behind a burst nor its completion count as loss.
- Construction: a failure releases what the call acquired and nothing else; the
  out pointer tells the outcome; accepted settings leave concealment its headroom.

## Modules

| Module | Models | Form |
|---|---|---|
| `BoundedFifo` | what the FIFO promises | abstract specification |
| `PcmRing` | FIFO, bursts, reset, the control of a render call | one action for each access to shared memory |
| `MCPcmRing` | | model of `PcmRing` for its three configurations |
| `PcmRingProofs` | | theorems about `PcmRing`: shared memory, then bursts |
| `Refill` | `refill_output` and its caller | one action for each sample taken, query and conversion |
| `RefillProofs` | | theorems about `Refill` |
| `Meters` | occupancy average, correction, shortfall average | one action for each output |
| `MetersProofs` | | theorems about `Meters` |
| `Construction` | `ring_create`, `Ring::create`, `Settings::validate`, `ring_destroy` | one action for each allocation and adapter call |
| `ConstructionProofs` | | theorems about `Construction` |
| `BatchFifo` | what the mailbox promises | abstract specification |
| `MuteMailbox` | `mute::Mailbox` | one action for each access |
| `MuteMailboxProofs` | | theorems about `MuteMailbox` |
| `MuteIntervals` | `mute::History` | operators |
| `MuteHistory` | the history as the renderer drives it | actions deliver, play, reset |
| `MuteHistoryProofs` | | lemmas about `MuteIntervals`, theorems about `MuteHistory` |
| `MuteSync` | tagging, mailbox, mapping and muting end to end | composes `MuteIntervals` with the abstract queues |
| `MuteSyncProofs` | | theorems about `MuteSync` |
| `Plc` | `plc.rs` | actions for each call of the renderer |
| `PlcProofs` | | theorems about `Plc` |

**PcmRing.** `storage`, `written`, `read`, `finish`, `discarded` are the fields
of `Ring` of these names. `ppc` and `cpc` say where a producer or consumer
call stands between two accesses: an `Acquire` load, a slot access and a
`Release` store are separate steps, so everything that can happen between them
does. Every atomic that both threads use has one writer at a time and a
`Release` store is always paired with an `Acquire` load, so interleaving single
accesses covers the executions of the C11 memory model that matter here.
`producer_push` and `producer_gap` take the steps `EntryGate`, `PublishGate`,
`LoadRead`, `WriteSlot`, `StoreWritten`, the last four for each sample. A render
call goes `RenderBegin`, `Freeze`, `CheckQuiet`, `Prime`, then either `Drain` or
`Refill` with `TakeLoad`/`TakeCopy`/`TakeRelease` for each sample, `TakeEnd`,
`Convert` and then `Play` or `ReachEnd`.
`complete_finite` is `Complete`, `RetireLoad`, `RetireStore`, `Ack`;
`consumer_reset` is `ResetBegin` and its five steps. Local variables of a call
and `ConsumerState` keep their names (`cseen` is the cursor just loaded). The
converter is external: a conversion accepts any part of the workspace, also
nothing, and fails, starves, reports a position that went back, or leaves outputs
in the cache. What it does not accept stays in the workspace (`pending`): the next
refill adds to it only what it still wants, all of it and more behind a conversion
that made no progress (`zeroProgress`), and zeros follow a burst only once the
workspace is empty. `position` is the source position of the next output and `Fed`
the frames the converter accepted, zeros included; playing an output moves the
position on or leaves it where it is, and a burst is played until the position that
is reported has reached the boundary, however many outputs that takes. The model asks two things of the converter: that it accepts at most `Holds` frames ahead
of its position, and that it has no output when its position has caught up with them.
Stamps and the epoch are left to `MuteSync`, PLC values to `Plc`.

**Refill.** Where `PcmRing` says only that a conversion fails, starves or leaves
outputs, `Refill` models why. `input`, `offset`, `pending`, `padding` are the
input workspace, `taken`, `accepted`, `padded`, `gaps` the source clock
(`source_taken`, `source_accepted`, `padding_accepted`), and `cacheStart`,
`cacheEnd`, `cacheCount`, `cacheOffset` the output cache with its positions. A
render call goes `RenderBegin`, `RefillBegin` (with `make_input_space`),
`TakeSample`, `TakeEnd`, `Map`, `Convert` and then `Play` or `Lose`, or by
`ReachEnd` to `Complete`. The producer may publish between any two of them. The
queue is a sequence, as `PcmRing` shows it to be. The converter is external:
`Converts` says only that it generates an output when it has the frames for it,
that it holds at most `Backlog` frames beyond its FIR delay, and, unless
`MayStall`, that a call with input does something; its pace may change with
every call. Positions are in ticks, `Grain` to a frame, for the billionths of
the code. `heard` is the true position of the next output to play, kept by the
converter's clock and independent of the cache. `cause` remembers why a call
failed and `refusals` how many conversions with input the converter refused in it;
an adapter error of an open stream stands at `fail` as that of a burst does, and
costs one output instead of ending the burst. The reserve is zero, so every call
primes, and there is no PLC; resets that fail and positions that go back are
left to `PcmRing`. Positions of a spent cache are never read again and are
forgotten, so that states which differ only there are one.

**Meters.** `average` is `occupancy_milli` and is exact, rounding included.
`ratio` is a float with a filter: `correction` may go anywhere between where it
is and where it is steered to, which every filter constant allows, so what holds
holds for the ratio as well up to the rounding of floats. The actions are the
kinds of output: from the cache, after a refill that measured, after one that did
not, and the completion of a burst. `low`, `high` and `level` remember the
occupancies that were measured.

**Construction.** `held` is the set of stores and converters that are alive. The
steps of `Ring::create` stand in `Steps` in the order of the code; each allocates,
or queries the adapter, or fails, and an early return drops what the call owns,
as the destructors do. `RatioLimit` and `Slack` stand for 256 and 1000, and rates
enter as a ratio of small numbers. `HeadroomSuffices` does not repeat the budget
of `Settings::validate` but counts how far a clock can advance in one callback.

**MuteMailbox.** `next` and `left` are the local cursor and the spans left in
`publish`; a span clipped to nothing (`Clip`) takes no slot. Records are
numbered, since what they cover plays no part here.

**MuteIntervals and MuteHistory.** `Insert` is the pass of `insert` as a fold,
with the merge growing as it goes; `Muted` and `Retire` are the searches of
`muted` and `retire`. `MuteHistory` plays positions in ascending order and
delivers intervals in any.

**MuteSync.** Producer calls are split where they read what the consumer
writes: epoch, gate, credit, publication of intervals, each sample. A render
call is split into the drain of the mailbox, the refill and the play, for
samples may arrive in between. Since `PcmRing` and `MuteMailbox` show that the
two queues behave like queues, they are sequences here. The converter stands at
unit ratio with a fixed delay counted in halves of a sample, so that both whole
and fractional positions occur. An interval may begin anywhere from one capacity
before the block it comes with to the block's end, and lie wholly behind the
samples that the ring had room for, where `publish` skips it. The history variables `wanted`, `carried`, `due`
and `verdict` remember what the caller asked for and what was played wrongly;
`moved` says that the epoch differs from the one the producer saw.
Conversions may fail; a failed reset, which silences everything up to the next
one, is left to `PcmRing`, and so are priming and the quiet between bursts.

**Plc.** A history slot records where its value came from instead of the value:
`zero`, `real`, `synth`, `played`, `stale` (outlived a reset) or `rewritten`
(changed after it was played). The pitch search may return any lag that it
searches. Each access to a buffer is tested against the buffer's size in
`inside`.

## Runs

| Run | Shows | Bounds |
|---|---|---|
| `ring` | slot exclusion, refinement of `BoundedFifo`, boundary, padding, acknowledgement, accounting | two slots, four cursor values, four offered samples, blocks up to two, two tokens, a FIR delay of one frame, two frames ahead of it |
| `ring_live` | a pending finish is settled, and the handshake holds, even when resets race with the producer | the same with three samples and resets at any time; positions do not go back and do not stand still for ever |
| `ring_fault_pending` | finding: pending for ever after a mapping fault | smallest sizes |
| `refill` | workspace, positions, gaps, failures and the end of a burst | four slots, quantum of two, FIR delay of one and a half frames, two frames of backlog, paces of half and one and a half frames, bursts up to three frames |
| `meters` | averages and correction | four thousandths of a sample, weight of three, target two of four, unequal limits of the adapter, a window of three outputs |
| `meters_fast` | finding: a loss that does not show | the code's millionths and an output rate of 192 kHz |
| `construction` | leaks, out pointer, headroom of accepted settings | two handles, ratio limit of two, slack of a third, every config from one capacity, four rates, three levels, two block sizes |
| `mailbox` | refinement of `BatchFifo` | batches of two, four slots, nine records |
| `mute_history` | canonical entries, exact muting, retirement | three entries, two generations, four positions |
| `mute_sync` | end-to-end muting | two slots, two mailbox slots, two generations of two samples, delay of half a sample, one PLC position |
| `mute_startup` | finding: no position at a fractional start | the same with a delay of one and a half samples, from source 0 |
| `plc` | index safety and order of playback | 480 Hz: pitches 3 to 8, 10 ms are five samples |

Why these bounds are enough to be interesting. Four samples in two slots carry
the cursors through both laps, and a block of two is cut by a full ring, by a
pending finish and by a reset. Two tokens let a second burst follow a drained, a
failed and a cancelled one, empty or not. Nine records lap the mailbox twice.
In `mute_history` three entries fill the store, so that a fault occurs as well.
In `refill` three frames exceed the quantum and the FIR delay, so a burst takes
several conversions and padding, the workspace of four is compacted, and the
paces leave outputs on both sides of each frame. Its store of spans has room for
twelve, which three frames cannot fill: that this store suffices is
proved below (`GapRoom`). In `meters` a weight of three leaves differences that do not
divide, and the adapter's limits lie inside the steering range on one side only.
In `construction` zero rates, rates at and behind the ratio limit, levels behind
the capacity and settings one short of the budget all occur.
In `mute_sync` the total delay of one and a half samples is close to the least
that the protocol can live with (see below), so that a late interval is as late
as it can be. At 480 Hz all sizes of the PLC are rounded up except the pitch
limit of 15 ms, and a quarter of a period runs from 0 to 2 samples, all of the
lookahead; the counter of lost samples saturates just above twice 10 ms, beyond
which no decision depends on it. For the safety
properties of all passing runs the proofs below remove the bounds altogether.

**What the muting runs assume of the caller**, and why. `AwaitsCompletion`:
nothing is published between a finish and its settlement, as the header asks
(`rate_adjusting_pcm_ring3.h:375`). Without it TLC finds a tagged push that
synchronised its epoch before the completion and passed the gate after it; its
samples lose their stamp and go unmuted. A generation is numbered anew only
behind `consumer_reset`, and a new one may follow a completed burst, as
`README.md:64` and `ring.rs:459-460` say. If a caller numbered the same generation
anew after a mere completion, an interval update that raced the last render
would still be in the mailbox and would silence new samples: `complete_finite`
does not empty it for a drained burst. Finally, the consumer empties the mailbox
before it takes samples, so a sample taken in the same call must not be played
in it: converter delay and PLC lookahead have to sum to one source sample
at least. The FIR filter of the real converter has about eight.

**Fairness.** `ring_live` and `ring_fault_pending` assume weak fairness of the
consumer's steps: the documented use is that the host keeps rendering
(`README.md:81`), and a call that has started goes on. Nothing is assumed of the
producer. Of the converter they assume strong fairness of `Advancing`: if outputs
can be played with its position moving on again and again, the position moves in
the end. Nothing in the code provides this. A converter that accepts nothing,
delivers outputs and reports the same delay for ever is `Ready` each time, and
`finite_refill_limit` counts only starved refills, so the burst would be played for
ever; without the assumption TLC shows just that. It is a fact about a resampler,
whose outputs take up input, and everything else it may do as it likes: accept,
refuse, starve or fail at any pace, so that the code's own limits matter. That resets race with the producer
*and* positions go back in one history is covered by the proofs, not by a run.
`meters` assumes weak fairness of rendering, of measuring a level that stays, and
of `Complete`. This is a stream that goes on: the host keeps rendering, and the
producer keeps the ring from falling quiet, whose silence returns before
`record_shortfall` and would leave the average where it is; the cache runs out
and the next output measures; and a finish is settled, as `ring_live` shows. It
is not assumed that levels stay or losses cease; its two properties start there.

**Deadlock** is checked in every run.

**Mutants.** Every property of a passing run has a mutant: an operator placed in
front of the definition it would replace, named for a plausible bug and marked
as such in its comment.

## Findings

1. `mute_startup`. The comment at `ring.rs:902` says that both neighbours of a
   fractional position are covered. In front of source sample 0 the low neighbour
   is -1, `u64::try_from` fails, and the output has no position at all, so an
   interval over sample 0 does not apply to it. At most one output for each
   frame of delay at the start of a generation that begins at 0 is affected.
2. `ring_fault_pending`. After the converter's position went back outside a finite
   burst (`ring.rs:1108`), `mute_fault` ends every render at 653-656. A finish
   requested then is pending until `consumer_reset`, although `README.md:81` says
   to keep rendering and promises an outcome. For a converter that makes progress
   (see Fairness), `ring_live` shows that positions going back are the only reason.
3. `meters_fast`. The comment at `ring.rs:248` says that the internal precision
   keeps a one-sample update from being rounded to zero. The update is a million
   divided by ten seconds of outputs and cut off to an integer
   (`ring.rs:879-885`): zero for every output rate above 100 kHz, which
   `Settings::validate` accepts. `ShortfallVisibleHolds` proves that it is not zero
   up to that rate.

## Proofs

TLAPS checks every theorem for every value of the constants that the named
assumptions admit. They ask that sizes are natural numbers, that those are positive
which must be, and of `Refill` three things more: that the workspace holds two
quanta, as `MINIMUM_CAPACITY` sees to; that the converter holds no more than
`Capacity` frames beyond its FIR delay, the premise of the comment at `ring.rs:316`; and
that an output takes no more than a quantum of source, as `MINIMUM_RATIO` of 1/256 and
the quantum of 256 imply. The theorem on `SettledLeavesNothing` and those about
`MuteSync` have hypotheses of their own.

Every safety property that a passing run checks is proved. Hardly any is
inductive as it stands; each group below names the invariant that carries it.

**PcmRing**, for every capacity, reserve, quantum, block size, cache size, FIR
delay, lookahead, retry limit and token limit, with neither a quiescent reset (but for
the last theorem) nor positions that only go forward nor progress of the converter.

- `TypeCorrect`, `NoSlotRaceHolds`, `RingImplementsFifo` (`PcmRingProofs`). The
  invariant `IInv` adds `RingInv`: the queue stands
  in the slots from `read` to `written`, and a producer about to write has room;
  `StepInv`: a consumer about to copy has a sample, and a cursor loaded for a
  discard is not ahead of `written`; and `CallInv`: a running call has samples left.
  The other endpoint only ever makes more room or more samples, which is why
  what was checked before an access still holds at the access. Lemmas about
  cursors (`CursorLinear`, `PlacesDiffer`, `PlaceShift`, `DistanceShift`) turn the
  remainders into linear arithmetic once. The refinement then follows step by
  step: `StoreWritten`, `TakeRelease`, `RetireStore` and `ResetStore` map to
  steps of `BoundedFifo`, all others stutter.
- `FinishHandshakeHolds`, `AcknowledgedCleanHolds` (as all that follow, about bursts). `BurstInv` says who owns the finish word: while it is pending the producer
  is outside its slot accesses and the consumer's boundary and acknowledgement carry
  its token.
- `BoundaryFrozenHolds`, `PaddedAfterEndHolds`, `DiscardAccountingHolds`.
  `BoundaryInv`: as long as a boundary stands a finish is
  pending, so the gates keep the producer from growing the queue, and the
  boundary stays what was taken plus what is queued. `ClockInv`: the position
  is at or behind what the converter was fed, that is at or behind what was taken,
  and a refill with an empty workspace wants a sample; so zeros start only when the
  queue was found empty. `AccountInv` splits what was offered into
  accepted, discarded and still in the hands of the running call.
- `DrainedMeansTakenHolds`. `SkipInv` locates every discard
  of a pending burst: behind a failure, whose acknowledgement cannot say drained,
  or inside a reset, which says cancelled.
- `SettledLeavesNothingHolds`. `LeftInv`: from the discard of a failed burst or of a
  reset to its acknowledgement the queue is empty, as it is when the position reaches
  the boundary (`ClockInv`), and outside of a pending finish
  what is unread was accepted behind the last boundary. It assumes `QuiescentReset`,
  the contract of `consumer_reset` in the header: a producer that runs during a reset
  can publish behind the cursor that the reset has loaded.

**Refill**, for every capacity, quantum, FIR delay, backlog and pace, with a
converter that may stall and fail (`RefillProofs`).

- `WorkspaceInOrderHolds`, `PositionExactHolds`. `SpaceInv`: the workspace
  holds the frames between the last accepted and the last taken, or zeros once the
  burst has run out, and what a call still wants fits behind them. `HeldInv` bounds
  what the converter holds from both sides, `CacheInv` ties the cached outputs to the
  converter's clock.
- `ConcealedIffGapHolds`. `SpanInv`: the spans are
  in order, apart, and from the converter's position on exactly the lost frames
  (`SpanExact`), and the flag of the cache is right for each output that is left in it
  (`ConcealInv`), which is why the code makes outputs one at a time near a gap.
- `FailsForCauseHolds`. `GapRoom`: two spans are at least a frame apart and none lies
  further behind the converter than one output, so there are fewer than the store has
  room for. That is the bound that the comment at `ring.rs:316` argues for, and no run
  could be large enough to meet it. `RefillsSuffice`: a retry of a call either
  brings the converter frames or is a refusal, and it can keep only so many frames before
  it has to generate an output, so a call that meets `finite_refill_limit` was refused
  more often than the ring and the FIR have frames. Which spans are
  pruned is a search, and `LeastElement`, the least-number principle for a set, takes
  the place of an induction over the spans.
- `PlayedWholeHolds`, `ExtensionIsNotLossHolds`. `EndInv`: a finite burst ends at the last
  frame published, padding starts behind it, and what was played lies before it.

**Plc**, for every output rate (`PlcProofs`): `TypeCorrect`, `IndexSafeHolds`,
`PlayedInStepHolds`, `LookaheadOnlyHolds`, `PeriodsInStepHolds`. `Sizes` and `Roundings` say what
the sizes, each rounded on its own from the rate, guarantee about each other.
`LineInv`: the `Delay` youngest slots of the history were not played and carry the
flags of the delay line. `WaveInv`: as long as a loss or a recovery sounds, the cycle
is one to three pitches, the phase lies inside it and what is overlapped is not older
than the loss; outside of that the oscillator may hold anything.

**Construction**, for any rings, rates, levels, blocks and limits
(`ConstructionProofs`): `NothingLeaksHolds`, `OutputContractHolds`,
`HeadroomSufficesHolds`. `HeldInv` says that a running creation holds what the steps in
front of its own have made, and the host's rings all their stores. The headroom
rests on `Crossed`, which counts the frames a clock crosses from any phase, and on
`BudgetSuffices`, which compares this with the integer budget of the validation.

**MuteMailbox**, for every batch size and number of records
(`MuteMailboxProofs`): `NoRecordRaceHolds`, `MailboxImplementsBatchFifo`. `MailInv`:
unread records, those of the batch being written and what is left of it stand behind
one another and fit one lap together, although the credit was looked at once.

**MuteHistory**, for stores of any size, any generations and any positions
(`MuteHistoryProofs`): `CanonicalHolds`, `MutedExactHolds`, `PrunedBehindHolds`.
`HistoryInv`: entries are apart, fit the store, and cover, from the position last
played on, what was asked for the playing generation. `PassInv` is the invariant of
the pass through the history: an interval that grows by an entry it touches never
reaches one that was kept before. It is carried along the fold of the
community modules in three steps: `IterExists` and `FoldSteps` show that the fold is the
repeated application of `Absorb`, and `Induction`, again over a set of naturals, takes
the place of the library's schemes, which the provers cannot instantiate.
`InsertExact`, `MutedIffCovered` and `RetireExact` then say what the three operations
do to the samples covered, and nothing below them is looked at again. `InsertWhole`
adds when an insertion fails: exactly when the entries would be too many.

**MuteSync**, for every ring, mailbox, quantum, delay, lookahead and number of
generations (`MuteSyncProofs`), through finishes, failed bursts, resets and new
generations. All assume `AwaitsCompletion`, the contract of the header discussed
above.

- `CoreInvariance`. `CoreInv` ties the three clocks together: the stamp of the
  producer, the stamps of the unread samples and the base of the renderer all
  agree with the position that the caller numbers (`Mapped`, `Based`), the first stamped
  sample of a burst is one that a tagged push stored (`FirstTagged`), and while a
  call publishes nothing completes (`Control`). This is why the consumer's check
  of a stamp against its base never fails.
- `OnlyWantedHolds`, `DueIsMutedHolds`, `CarriedIsMutedHolds`, from `MuteInvariance`.
  `Carries`: each output in the PLC delay line carries the position of what it draws
  on. `OnlyAsked`: what history or mail cover was wanted. `Held`: what is wanted and
  still to play is in the history or in the mail, and during a render call what was
  due is in the history already. The drain of the mailbox is a fold of insertions,
  and the lemmas of `MuteHistoryProofs` are carried along it.
  `DueIsMutedHolds` and `CarriedIsMutedHolds` need `Startup`, that generations begin
  at source 1 or the delay is a whole number of samples; without it the finding
  `mute_startup` contradicts them. `CarriedIsMutedHolds` needs one sample of converter
  delay and lookahead together, so that what a call takes it does not play.
- `NoMuteFaultHolds`, from `RoomInvariance`. The mailbox may bring an interval
  at any time, so the bound on the history is about where intervals can end.
  `Recent`: either less than a capacity before the end of the last burst that
  ended (`Late`), or near the samples still to play (`Fresh`). `Dense`: outputs in the delay line follow one another without a
  gap, so retirement leaves nothing further behind than lookahead and quantum.
  `Settled`: behind a boundary that the renderer has seen, the mail holds only late
  ones. Entries of the history are apart, hence `WindowRoom`, a pigeonhole argument:
  in two stretches of source positions no more than half as many entries end.
  `Ample` asks that the history has that much room. `AllocationAmple` shows that
  what `Ring::create` reserves (`ring.rs:324-325`) is enough whenever quantum and
  lookahead do not exceed capacity and delay. The allocation does not count the
  lookahead of 3.75 ms, so for the smallest ring of 512 samples the theorem covers
  rates up to about 68 kHz (at the unit ratio of the model), and more for larger
  rings. That condition is sufficient; nothing here shows the history to overflow
  beyond it.

**Meters**, for every weight, unit, target, adapter limit and window that
`MeterAssumption` admits (`MetersProofs`): `AverageInHullHolds`,
`CorrectionForCauseHolds`, and `ShortfallVisibleHolds` for `Window <= Micro`.
`SteeringInv` says that the extremes were measured, that the average lies
between them and that the correction has the sign their distance from the
target allows. `StepBetween` is its core: cut off towards zero, a measurement
moves the average towards the occupancy and never past it. `RecordStep` bounds
the shortfall average from below by one while a run lasts.

Only model-checked:

- Liveness: `PendingSettles`, `AverageSettles`, `ShortfallForgotten`. Fairness and
  `ENABLED` are out of the prover's reach.

## Plan

The modules of the first plan are all there, and what they planned to prove is
proved. What would come next:

1. A bound on the history that needs no `Ample` for a small ring at a high input
   rate, from the pace of the converter, or a run that shows the need for it.
2. `MuteSync` with a converter at other ratios, whose positions `Refill` tracks
   without stamps.
3. The C wrappers of `lib.rs`, should they ever keep state.

## Not modelled

- Audio values, gains and the arithmetic of the pitch search.
- The speed of the ratio's filter, float rounding, and the ratio as published in
  parts per million.
- The plain totals `missing` and `adapter_error_count` and the snapshot that copies
  the counters: single relaxed writes of one writer, with no decision behind them.
- The exhaustion of `u64` source positions (`ring.rs:423`): no run lasts 2^64 samples,
  and a bound in its place would show nothing of the code.
- The argument checks of the C wrappers other than `ring_create`, and which defect
  makes an adapter's descriptor unacceptable: they have no state.
- The converter behind the adapter, which appears through what the code asks of it.
- Tests, build and packaging.
