------------------------------ MODULE PcmRing ------------------------------
(***************************************************************************)
(* The memory a ring's producer and consumer share (src/ring.rs): the PCM  *)
(* slots with their two cursors, and the word through which the producer   *)
(* ends a finite burst and the consumer acknowledges it.                   *)
(*                                                                         *)
(* Every access to a shared atomic or to a slot is a step of its own, so   *)
(* the two endpoints interleave wherever the code lets them.  Producer     *)
(* calls push one sample, a block or a counted gap, or end the burst; the  *)
(* consumer renders one output sample at a time or resets.  The converter  *)
(* is external: a conversion accepts any part of the workspace, and fails, *)
(* starves, or leaves outputs in the cache.  Its position, the frames fed  *)
(* to it less the delay it reports, moves with its outputs or stands.      *)
(* Source tags and mute intervals are left to other modules: here no       *)
(* sample carries a stamp, and the reset epoch, which only clears stamps,  *)
(* is left out with them.                                                  *)
(***************************************************************************)
EXTENDS Integers, Sequences

CONSTANTS
  Capacity,        \* slots of the ring (Settings::capacity)
  Reserve,         \* unread samples needed before playout starts
  Quantum,         \* workspace a refill asks for: the ring, at most 256 samples
  MaxBlock,        \* largest producer block (Settings::max_producer)
  CacheMax,        \* most outputs one conversion leaves in the cache
  FirDelay,        \* frames of delay a converter just reset reports
  Holds,           \* most frames the converter accepts ahead of its position
  Lookahead,       \* retained PLC positions (0 when PLC is disabled)
  RefillLimit,     \* Ring::finite_refill_limit
  TokenLimit,      \* first finish token that does not fit (1 << 62)
  MaxOffered,      \* bound: samples the producer ever offers
  QuiescentReset,  \* the producer rests while consumer_reset runs
  PositionRegresses \* the converter may report a position that moves backwards

ASSUME CapacityAssumption == Capacity \in Nat \ {0}
ASSUME SizeAssumption ==
  /\ Reserve \in 0..Capacity
  /\ Quantum \in 1..Capacity /\ MaxBlock \in Nat \ {0}
  /\ CacheMax \in Nat \ {0} /\ FirDelay \in Nat /\ Holds \in Nat /\ Lookahead \in Nat
  /\ RefillLimit \in Nat /\ TokenLimit \in Nat \ {0} /\ MaxOffered \in Nat
  /\ QuiescentReset \in BOOLEAN /\ PositionRegresses \in BOOLEAN

VARIABLES
  storage, written, read,     \* slots and two-lap cursors
  finish,                     \* token * 4 + status, 0 before the first finish
  discarded,                  \* counter of rejected samples
  ppc, call, ptoken,          \* producer: step, running call, new token
  cpc, cseen, citem, ctoken,  \* consumer: step, loaded cursor, copied sample, token
  wanting, retries, failing,  \* consumer: locals of the running render call
  taken, finite, quiet, primed, resetFailed, muteFault, cached, \* ConsumerState
  pending, zeroProgress, padding, padded,  \* its workspace, zeros fed to the converter
  position,                   \* source position of the next output
  \* History variables.  No action of the code reads them.
  queue, out,                 \* unread samples; the sample taken last
  offered, gated,             \* samples offered; refused at a pending boundary
  accepted, boundary,         \* samples accepted; accepted at the last finish
  skipped                     \* a reset dropped an unread sample of the burst

fifoVars     == <<storage, written, read, queue, out, accepted>>
producerVars == <<ppc, call, ptoken, discarded, offered, gated>>
localVars    == <<cseen, citem, ctoken, wanting, retries, failing>>
feedVars     == <<pending, zeroProgress, padding, padded, position>>
stateVars    == <<taken, finite, quiet, primed, resetFailed, muteFault, cached, feedVars>>
burstVars    == <<finish, boundary, skipped>>
vars == <<fifoVars, producerVars, cpc, localVars, stateVars, burstVars>>

-----------------------------------------------------------------------------
(* Cursors run over two laps, so that full and empty differ.               *)

Modulus == 2 * Capacity
Cursor  == 0..(Modulus - 1)
Distance(w, r) == (w + Modulus - r) % Modulus
\* Mutants of Advance: no wrap, and a wrap after one lap.
AdvanceUnwrapped(c) == c + 1
AdvanceOneLap(c) == (c + 1) % Capacity
Advance(c) == (c + 1) % Modulus
SlotOf(c)  == c % Capacity
Available  == LET d == Distance(written, read) IN IF d < Capacity THEN d ELSE Capacity
\* Mutant of Full: one sample too late.
FullOneLate == Distance(written, read) > Capacity
Full       == Distance(written, read) >= Capacity

Item    == [id : 0..MaxOffered, missing : BOOLEAN]
NoItem  == [id |-> 0, missing |-> FALSE]   \* a slot as allocated

(* The finish word packs the token above two bits of FinishStatus.         *)
Drained      == 1
Cancelled    == 2
AdapterError == 3
Pending(word) == word # 0 /\ word % 4 = 0
TokenOf(word) == word \div 4
StatusOf(word) == word % 4

FinishPending == Pending(finish)

NoTail   == -1
NoFinite == [end |-> -1, tail |-> NoTail]
IsFinite == finite # NoFinite

NoCall == [base |-> 0, len |-> 0, done |-> 0, missing |-> FALSE]
Current == [id |-> call.base + call.done + 1, missing |-> call.missing]

Init ==
  /\ storage = [s \in 0..(Capacity - 1) |-> NoItem] /\ written = 0 /\ read = 0
  /\ finish = 0 /\ discarded = 0
  /\ ppc = "idle" /\ call = NoCall /\ ptoken = 0
  /\ cpc = "idle" /\ cseen = 0 /\ citem = NoItem /\ ctoken = 0
  /\ wanting = 0 /\ retries = 0 /\ failing = FALSE
  /\ taken = 0 /\ finite = NoFinite /\ quiet = FALSE /\ primed = FALSE
  /\ resetFailed = FALSE /\ muteFault = FALSE /\ cached = 0
  /\ pending = 0 /\ zeroProgress = FALSE /\ padding = FALSE /\ padded = 0
  /\ position = -FirDelay
  /\ queue = <<>> /\ out = NoItem /\ offered = 0 /\ gated = 0
  /\ accepted = 0 /\ boundary = 0 /\ skipped = FALSE

-----------------------------------------------------------------------------
(* Producer.  A call counts its samples in offered when it starts.         *)

ResetSteps == {"resetLoad", "resetStore", "resetState", "resetCheck", "resetAck"}
ProducerMayCall == ppc = "idle" /\ (QuiescentReset => cpc \notin ResetSteps)

Call(step, n, gap) ==
  /\ ProducerMayCall
  /\ offered + n <= MaxOffered
  /\ call' = [base |-> offered, len |-> n, done |-> 0, missing |-> gap]
  /\ offered' = offered + n
  /\ ppc' = step
  /\ UNCHANGED <<fifoVars, ptoken, discarded, gated, cpc, localVars, stateVars, burstVars>>

PushSample == Call("gate", 1, FALSE)
Push(n)    == Call("entry", n, FALSE)
Gap(n)     == Call("entry", n, TRUE)

\* Mutant of Rest: the rejected sample counts twice.
RestOneMore == call.len - call.done
\* Samples of the running call behind the current one.
Rest == call.len - call.done - 1

ReturnToHost == ppc' = "idle" /\ call' = NoCall

EntryGate ==
  /\ ppc = "entry"
  /\ \/ FinishPending /\ ReturnToHost /\ gated' = gated + call.len
     \/ ~FinishPending /\ ppc' = "gate" /\ UNCHANGED <<call, gated>>
  /\ UNCHANGED <<fifoVars, ptoken, discarded, offered, cpc, localVars, stateVars, burstVars>>

\* Mutant of PublishGate: a single sample is not gated.
PublishUngated ==
  /\ ppc = "gate"
  /\ ppc' = "load"
  /\ UNCHANGED <<call, gated, discarded>>
  /\ UNCHANGED <<fifoVars, ptoken, offered, cpc, localVars, stateVars, burstVars>>
\* Only the first sample of a call can be refused here: the producer itself
\* is the one who starts the next finish.
PublishGate ==
  /\ ppc = "gate"
  /\ \/ /\ FinishPending
        /\ ReturnToHost
        /\ gated' = gated + 1 /\ discarded' = discarded + Rest
     \/ /\ ~FinishPending
        /\ ppc' = "load"
        /\ UNCHANGED <<call, gated, discarded>>
  /\ UNCHANGED <<fifoVars, ptoken, offered, cpc, localVars, stateVars, burstVars>>

LoadRead ==
  /\ ppc = "load"
  /\ \/ Full /\ ReturnToHost /\ discarded' = discarded + 1 + Rest
     \/ ~Full /\ ppc' = "write" /\ UNCHANGED <<call, discarded>>
  /\ UNCHANGED <<fifoVars, ptoken, offered, gated, cpc, localVars, stateVars, burstVars>>

WriteSlot ==
  /\ ppc = "write"
  /\ storage' = [storage EXCEPT ![SlotOf(written)] = Current]
  /\ ppc' = "store"
  /\ UNCHANGED <<written, read, queue, out, accepted, call, ptoken, discarded,
                 offered, gated, cpc, localVars, stateVars, burstVars>>

StoreWritten ==
  /\ ppc = "store"
  /\ written' = Advance(written)
  /\ queue' = Append(queue, Current)
  /\ accepted' = accepted + 1
  /\ \/ Rest = 0 /\ ReturnToHost
     \/ Rest > 0 /\ ppc' = "gate" /\ call' = [call EXCEPT !.done = @ + 1]
  /\ UNCHANGED <<storage, read, out, ptoken, discarded, offered, gated, cpc,
                 localVars, stateVars, burstVars>>

\* producer_finish; its two error returns change nothing.
FinishLoad ==
  /\ ProducerMayCall
  /\ ~Pending(finish) /\ TokenOf(finish) + 1 < TokenLimit
  /\ ptoken' = TokenOf(finish) + 1
  /\ ppc' = "finish"
  /\ UNCHANGED <<fifoVars, call, discarded, offered, gated, cpc, localVars,
                 stateVars, burstVars>>

FinishStore ==
  /\ ppc = "finish"
  /\ finish' = ptoken * 4
  /\ boundary' = accepted /\ skipped' = FALSE
  /\ ptoken' = 0 /\ ppc' = "idle"
  /\ UNCHANGED <<fifoVars, call, discarded, offered, gated, cpc, localVars, stateVars>>

ProducerStep ==
  \/ PushSample
  \/ \E n \in 1..MaxBlock : Push(n) \/ Gap(n)
  \/ EntryGate \/ PublishGate \/ LoadRead \/ WriteSlot \/ StoreWritten
  \/ FinishLoad \/ FinishStore

-----------------------------------------------------------------------------
(* Consumer: rendering one output sample.                                  *)

RenderBegin ==
  /\ cpc = "idle"
  /\ \/ FinishPending /\ ~IsFinite /\ ctoken' = TokenOf(finish) /\ cpc' = "freeze"
     \/ ~(FinishPending /\ ~IsFinite) /\ ctoken' = ctoken /\ cpc' = "quiet"
  /\ UNCHANGED <<fifoVars, producerVars, cseen, citem, wanting, retries, failing,
                 stateVars, burstVars>>

\* Mutant of Freeze: an empty burst behind a completed one stays silent.
FreezeStaysQuiet ==
  /\ cpc = "freeze"
  /\ finite' = [end |-> taken + Available, tail |-> NoTail]
  /\ cpc' = "quiet"
  /\ UNCHANGED <<fifoVars, producerVars, localVars, taken, quiet, primed, resetFailed,
                 muteFault, cached, feedVars, burstVars>>
\* The acknowledgement gates the producer, so this prefix is the whole burst.
Freeze ==
  /\ cpc = "freeze"
  /\ finite' = [end |-> taken + Available, tail |-> NoTail]
  /\ quiet' = FALSE
  /\ cpc' = "quiet"
  /\ UNCHANGED <<fifoVars, producerVars, localVars, taken, primed, resetFailed,
                 muteFault, cached, feedVars, burstVars>>

\* A fault of the source mapping silences output until a reset.
Silent == muteFault \/ (quiet /\ Available = 0)
CheckQuiet ==
  /\ cpc = "quiet"
  /\ \/ Silent /\ quiet' = quiet /\ cpc' = "idle"
     \/ ~Silent /\ quiet' = FALSE /\ cpc' = "prime"
  /\ UNCHANGED <<fifoVars, producerVars, localVars, taken, finite, primed, resetFailed,
                 muteFault, cached, feedVars, burstVars>>

Unprimed == ~primed /\ ~resetFailed /\ Available < Reserve /\ ~IsFinite
Draining == IsFinite /\ (finite.end = 0 \/ finite.tail # NoTail)
Prime ==
  /\ cpc = "prime"
  /\ \/ Unprimed /\ cpc' = "idle" /\ primed' = primed
     \/ /\ ~Unprimed
        /\ primed' = (primed \/ ~resetFailed)
        /\ cpc' = IF Draining THEN "drain" ELSE "refill"
  /\ UNCHANGED <<fifoVars, producerVars, localVars, taken, finite, quiet, resetFailed,
                 muteFault, cached, feedVars, burstVars>>

\* RefillResult::AdapterError ends a finite burst; otherwise it is one silent output.
AdapterFails ==
  /\ retries' = 0
  /\ \/ IsFinite /\ failing' = TRUE /\ cpc' = "complete"
     \/ ~IsFinite /\ failing' = failing /\ cpc' = "idle"

\* RefillResult::Starved is tried again in a finite burst, up to a limit.
GivesUp == retries >= RefillLimit
Starves ==
  \/ ~IsFinite /\ cpc' = "idle" /\ UNCHANGED <<retries, failing>>
  \/ IsFinite /\ ~GivesUp /\ retries' = retries + 1 /\ cpc' = "refill" /\ UNCHANGED failing
  \/ IsFinite /\ GivesUp /\ AdapterFails

\* Behind a conversion without any progress a refill asks for more input.
Desired ==
  IF ~zeroProgress THEN Quantum
  ELSE IF pending + Quantum < Capacity THEN pending + Quantum ELSE Capacity
Refill ==
  /\ cpc = "refill"
  /\ \/ resetFailed /\ AdapterFails /\ wanting' = wanting
     \/ ~resetFailed /\ cached > 0 /\ cpc' = "ready" /\ UNCHANGED <<wanting, retries, failing>>
     \/ /\ ~resetFailed /\ cached = 0
        /\ wanting' = IF pending < Desired THEN Desired - pending ELSE 0
        /\ cpc' = "take" /\ UNCHANGED <<retries, failing>>
  /\ UNCHANGED <<fifoVars, producerVars, cseen, citem, ctoken, stateVars, burstVars>>

Empty == read = written
\* What the converter left is offered again; samples are added while some are
\* wanted and unread, and no zeros have followed the burst.
Takes == wanting > 0 /\ ~padding /\ ~Empty
TakeLoad ==
  /\ cpc = "take" /\ Takes
  /\ cpc' = "copy"
  /\ UNCHANGED <<fifoVars, producerVars, localVars, stateVars, burstVars>>

TakeCopy ==
  /\ cpc = "copy"
  /\ citem' = storage[SlotOf(read)]
  /\ cpc' = "release"
  /\ UNCHANGED <<fifoVars, producerVars, cseen, ctoken, wanting, retries, failing,
                 stateVars, burstVars>>

TakeRelease ==
  /\ cpc = "release"
  /\ read' = Advance(read)
  /\ queue' = Tail(queue) /\ out' = citem
  /\ taken' = taken + 1 /\ pending' = pending + 1 /\ wanting' = wanting - 1
  /\ citem' = NoItem
  /\ cpc' = "take"
  /\ UNCHANGED <<storage, written, accepted, producerVars, cseen, ctoken, retries, failing,
                 finite, quiet, primed, resetFailed, muteFault, cached, zeroProgress, padding,
                 padded, position, burstVars>>

\* Mutant of Pads: live input is padded too.
PadsAlways == pending = 0
\* Zeros follow a finite burst once the workspace is empty.
Pads == pending = 0 /\ IsFinite
TakeEnd ==
  /\ cpc = "take" /\ ~Takes
  /\ wanting' = 0
  /\ IF Pads THEN pending' = Quantum /\ padding' = TRUE ELSE UNCHANGED <<pending, padding>>
  /\ \/ pending' = 0 /\ zeroProgress /\ Starves
     \/ ~(pending' = 0 /\ zeroProgress) /\ cpc' = "convert" /\ UNCHANGED <<retries, failing>>
  /\ UNCHANGED <<fifoVars, producerVars, cseen, citem, ctoken, taken, finite, quiet, primed,
                 resetFailed, muteFault, cached, zeroProgress, padded, position, burstVars>>

\* Frames the converter accepted since its reset, the zeros behind a burst too.
Fed == IF padding THEN taken + padded ELSE taken - pending

\* A query or the conversion fails, or the position moves backwards, which is
\* a fault of the source mapping.  Outputs of a failed call are lost.
ConversionFails ==
  /\ AdapterFails
  /\ \/ muteFault' = muteFault
     \/ PositionRegresses /\ muteFault' = TRUE
  /\ position' \in position..Fed'
  /\ UNCHANGED <<cached, zeroProgress>>

NoOutput(used) ==
  /\ zeroProgress' = (used = 0)
  /\ IF used = 0 /\ pending = Capacity THEN AdapterFails ELSE Starves
  /\ UNCHANGED <<cached, muteFault, position>>

\* A converter that is as far as the frames it accepted has no output.
Delivers ==
  /\ position < Fed'
  /\ cached' \in 1..CacheMax /\ zeroProgress' = FALSE
  /\ cpc' = "ready" /\ retries' = 0
  /\ UNCHANGED <<failing, muteFault, position>>

Convert ==
  /\ cpc = "convert"
  /\ \E used \in 0..pending :
       /\ used > 0 => Fed + used <= position + Holds
       /\ pending' = pending - used
       /\ padded' = IF padding THEN padded + used ELSE padded
       /\ UNCHANGED <<taken, padding>>
       /\ ConversionFails \/ NoOutput(used) \/ Delivers
  /\ UNCHANGED <<fifoVars, producerVars, cseen, citem, ctoken, wanting, finite, quiet,
                 primed, resetFailed, burstVars>>

\* Behind each output the source position moves on, or the converter's clock
\* stands: nothing in the code makes it move.
PastEnd == IsFinite /\ position >= finite.end
Play ==
  /\ cpc = "ready" /\ ~PastEnd
  /\ cached' = cached - 1
  /\ position' \in position..Fed
  /\ cpc' = "idle"
  /\ UNCHANGED <<fifoVars, producerVars, localVars, taken, finite, quiet, primed, resetFailed,
                 muteFault, pending, zeroProgress, padding, padded, burstVars>>
ReachEnd ==
  /\ cpc = "ready" /\ PastEnd
  /\ cpc' = "drain"
  /\ UNCHANGED <<fifoVars, producerVars, localVars, stateVars, burstVars>>

\* drain_finite: the retained lookahead plays first, one position a call.
Remaining == IF finite.tail = NoTail THEN Lookahead ELSE finite.tail
Drain ==
  /\ cpc = "drain"
  /\ \/ /\ Remaining > 0
        /\ finite' = [finite EXCEPT !.tail = Remaining - 1]
        /\ cpc' = "idle"
     \/ Remaining = 0 /\ finite' = finite /\ cpc' = "complete"
  /\ UNCHANGED <<fifoVars, producerVars, localVars, taken, quiet, primed, resetFailed,
                 muteFault, cached, feedVars, burstVars>>

-----------------------------------------------------------------------------
(* Consumer: the reset of its own state, the end of a burst, and the reset *)
(* the host asks for.                                                      *)

\* The workspace and the clocks of the converter, as a reset leaves them.
FeedReset ==
  /\ pending' = 0 /\ zeroProgress' = FALSE /\ padding' = FALSE /\ padded' = 0
  /\ position' = -FirDelay
\* Mutants of StateReset: the boundary or the cache survives.
ResetKeepsFinite(ok) ==
  /\ resetFailed' = ~ok /\ muteFault' = FALSE
  /\ taken' = 0 /\ finite' = finite /\ primed' = FALSE /\ cached' = 0 /\ FeedReset
ResetKeepsCache(ok) ==
  /\ resetFailed' = ~ok /\ muteFault' = FALSE
  /\ taken' = 0 /\ finite' = NoFinite /\ primed' = FALSE /\ cached' = cached /\ FeedReset
\* ConsumerState::reset.  Its result ok is the external converter's.
StateReset(ok) ==
  /\ resetFailed' = ~ok /\ muteFault' = FALSE
  /\ taken' = 0 /\ finite' = NoFinite /\ primed' = FALSE /\ cached' = 0 /\ FeedReset

\* Mutant of Complete: a failed burst keeps its unread samples.
CompleteNeverRetires ==
  /\ cpc = "complete"
  /\ \E ok \in BOOLEAN : StateReset(ok) /\ failing' = (failing \/ ~ok)
  /\ quiet' = TRUE
  /\ cpc' = "ack"
  /\ UNCHANGED <<fifoVars, producerVars, cseen, citem, ctoken, wanting, retries, burstVars>>
Complete ==
  /\ cpc = "complete"
  /\ \E ok \in BOOLEAN : StateReset(ok) /\ failing' = (failing \/ ~ok)
  /\ quiet' = TRUE
  /\ cpc' = IF failing' THEN "retireLoad" ELSE "ack"
  /\ UNCHANGED <<fifoVars, producerVars, cseen, citem, ctoken, wanting, retries, burstVars>>

\* Discard what is unread by moving read to the written cursor just loaded.
LoadWritten(from, to) ==
  /\ cpc = from
  /\ cseen' = written
  /\ cpc' = to
  /\ UNCHANGED <<fifoVars, producerVars, citem, ctoken, wanting, retries, failing,
                 stateVars, burstVars>>

Discard(from, to) ==
  /\ cpc = from
  /\ read' = cseen
  /\ queue' = SubSeq(queue, Distance(cseen, read) + 1, Len(queue))
  /\ skipped' = (skipped \/ (Pending(finish) /\ cseen # read))
  /\ cseen' = 0
  /\ cpc' = to
  /\ UNCHANGED <<storage, written, out, accepted, producerVars, citem, ctoken, wanting,
                 retries, failing, stateVars, finish, boundary>>

RetireLoad  == LoadWritten("retireLoad", "retireStore")
RetireStore == Discard("retireStore", "ack")

\* Mutant of CompletionStatus: failure is reported as playback.
StatusAlwaysDrained == Drained
CompletionStatus == IF failing THEN AdapterError ELSE Drained
Ack ==
  /\ cpc = "ack"
  /\ finish' = ctoken * 4 + CompletionStatus
  /\ failing' = FALSE
  /\ cpc' = "idle"
  /\ UNCHANGED <<fifoVars, producerVars, cseen, citem, ctoken, wanting, retries, stateVars,
                 boundary, skipped>>

\* consumer_reset.  The documented contract keeps the producer at rest
\* meanwhile; without QuiescentReset the two interleave freely.
ResetBegin ==
  /\ cpc = "idle"
  /\ QuiescentReset => ppc = "idle"
  /\ cpc' = "resetLoad"
  /\ UNCHANGED <<fifoVars, producerVars, localVars, stateVars, burstVars>>

ResetLoad  == LoadWritten("resetLoad", "resetStore")
ResetStore == Discard("resetStore", "resetState")

ResetState ==
  /\ cpc = "resetState"
  /\ \E ok \in BOOLEAN : StateReset(ok)
  /\ cpc' = "resetCheck"
  /\ UNCHANGED <<fifoVars, producerVars, localVars, quiet, burstVars>>

ResetCheck ==
  /\ cpc = "resetCheck"
  /\ \/ FinishPending /\ ctoken' = TokenOf(finish) /\ cpc' = "resetAck"
     \/ ~FinishPending /\ ctoken' = ctoken /\ cpc' = "idle"
  /\ UNCHANGED <<fifoVars, producerVars, cseen, citem, wanting, retries, failing,
                 stateVars, burstVars>>

ResetAck ==
  /\ cpc = "resetAck"
  /\ finish' = ctoken * 4 + Cancelled
  /\ cpc' = "idle"
  /\ UNCHANGED <<fifoVars, producerVars, localVars, stateVars, boundary, skipped>>

RenderStep ==
  \/ RenderBegin \/ Freeze \/ CheckQuiet \/ Prime \/ Refill
  \/ TakeLoad \/ TakeCopy \/ TakeRelease \/ TakeEnd \/ Convert \/ Play \/ ReachEnd \/ Drain
  \/ Complete \/ RetireLoad \/ RetireStore \/ Ack
ResetStep == ResetLoad \/ ResetStore \/ ResetState \/ ResetCheck \/ ResetAck

Next == ProducerStep \/ RenderStep \/ ResetBegin \/ ResetStep

Spec == Init /\ [][Next]_vars

\* The host keeps asking for output, and a call that runs goes on.  The converter
\* makes progress: playing its outputs again and again moves its position.
Advancing == Play /\ position' > position
FairSpec == Spec /\ WF_vars(RenderStep \/ ResetStep) /\ SF_vars(Advancing)

-----------------------------------------------------------------------------
(* Properties.                                                             *)

FifoTypes ==
  /\ storage \in [0..(Capacity - 1) -> Item]
  /\ written \in Cursor /\ read \in Cursor
  /\ queue \in Seq(Item) /\ out \in Item /\ accepted \in Nat
ProducerTypes ==
  /\ ppc \in {"idle", "entry", "gate", "load", "write", "store", "finish"}
  /\ call \in [base : 0..MaxOffered, len : 0..MaxOffered, done : 0..MaxOffered,
               missing : BOOLEAN]
  /\ ptoken \in Nat /\ discarded \in Nat /\ offered \in 0..MaxOffered /\ gated \in Nat
LocalTypes ==
  /\ cpc \in ResetSteps \cup
       {"idle", "freeze", "quiet", "prime", "refill", "take", "copy", "release", "convert",
        "ready", "drain", "complete", "retireLoad", "retireStore", "ack"}
  /\ cseen \in Cursor /\ citem \in Item /\ ctoken \in Nat
  /\ wanting \in 0..Capacity /\ retries \in 0..RefillLimit /\ failing \in BOOLEAN
StateTypes ==
  /\ taken \in Nat /\ finite \in [end : Nat \cup {-1}, tail : Nat \cup {NoTail}]
  /\ quiet \in BOOLEAN /\ primed \in BOOLEAN /\ resetFailed \in BOOLEAN
  /\ muteFault \in BOOLEAN /\ cached \in 0..CacheMax
  /\ pending \in 0..Capacity /\ zeroProgress \in BOOLEAN
  /\ padding \in BOOLEAN /\ padded \in Nat /\ position \in Int
BurstTypes == finish \in Nat /\ boundary \in Nat /\ skipped \in BOOLEAN
TypeOK == FifoTypes /\ ProducerTypes /\ LocalTypes /\ StateTypes /\ BurstTypes

\* The producer never writes the slot the consumer is copying: the unsafe
\* accesses of producer_publish and consumer_take_source_sample cannot race.
NoSlotRace == ppc = "write" /\ cpc = "copy" => SlotOf(written) # SlotOf(read)

\* The slots and the two cursors implement a bounded queue: no unread sample
\* is overwritten, reordered, duplicated or invented, whatever interleaves.
Fifo == INSTANCE BoundedFifo
FifoSpec == Fifo!Spec

\* From the freeze until its state is reset, the boundary the consumer froze
\* stays exactly in front of it: what it took plus what is unread.  A sample
\* published behind a pending finish would be taken as part of the burst.
BoundaryFrozen ==
  IsFinite /\ cpc \notin ResetSteps \cup {"retireLoad", "retireStore", "ack"}
    => finite.end = taken + Len(queue)

\* Once finish_status reports a result, no sample accepted before that finish
\* is unread: each was taken or discarded before the acknowledgement.
SettledLeavesNothing ==
  finish # 0 /\ ~Pending(finish) => accepted - Len(queue) >= boundary

\* Drained is reported only when every accepted sample of the burst was
\* taken; a burst that lost a sample to a reset reports another status.
DrainedMeansTaken == finish # 0 /\ StatusOf(finish) = Drained => ~skipped

\* Zero padding starts only when a finite burst has no source sample left:
\* the FIR tail never cuts into the burst, and live input is never padded.
PaddedAfterEnd ==
  padding /\ cpc \notin ResetSteps => IsFinite /\ taken = finite.end /\ Empty

\* Between calls every offered sample was accepted, counted as discarded, or
\* refused at a pending finish without being counted.
DiscardAccounting == ppc = "idle" => offered = accepted + discarded + gated

\* A finish is acknowledged once, under its own token, and the next one takes
\* the next token: the two owners of the word hand it to and fro.
FinishHandshake ==
  [][finish' # finish =>
       \/ Pending(finish) /\ ~Pending(finish') /\ TokenOf(finish') = TokenOf(finish)
       \/ ~Pending(finish) /\ Pending(finish') /\ TokenOf(finish') = TokenOf(finish) + 1]_vars

\* When a burst is acknowledged, nothing of it is left in the consumer: no
\* cached output, no frame or zero of the workspace, no frozen boundary, no count
\* of taken samples.
AcknowledgedClean ==
  [][Pending(finish) /\ ~Pending(finish')
       => cached = 0 /\ pending = 0 /\ ~padding /\ taken = 0 /\ ~IsFinite]_vars

\* A pending finish is settled if the host keeps rendering and the converter's
\* position does not stand still: drained, cancelled or failed, but never pending
\* forever, however the converter accepts, refuses, starves or fails.
PendingSettles == FinishPending ~> ~FinishPending
=============================================================================
