-------------------------------- MODULE Refill --------------------------------
(***************************************************************************)
(* How the renderer feeds its converter (refill_output and its caller in   *)
(* src/ring.rs): the input workspace, the spans of missing source, the     *)
(* cache of outputs with their source positions, zero padding behind a     *)
(* finite burst, and what a call that makes no progress leads to.          *)
(*                                                                         *)
(* The sample queue is the one PcmRing implements; a step here is a query  *)
(* or a sample taken, so the producer may publish between any two of them. *)
(* Frames count from 1 at the start of a burst.  Positions are in ticks,   *)
(* Grain to a frame, for the billionths of the code.  The reserve is zero  *)
(* and concealment disabled; failing resets and positions that go back are *)
(* left to PcmRing.                                                        *)
(***************************************************************************)
EXTENDS Integers, Sequences, SequencesExt

CONSTANTS
  Capacity,     \* slots of the ring and of the workspace
  Quantum,      \* CONVERTER_QUANTUM
  Grain,        \* ticks to a source frame
  Delay,        \* FIR delay of the converter in ticks
  Backlog,      \* most frames the converter holds beyond its FIR delay
  Paces,        \* ticks from one output to the next, as compensation varies them
  MayStall,     \* the converter may refuse a call without an error
  MayFail,      \* its calls may fail
  MaxSource     \* bound: frames of a burst

ASSUME SizeAssumption ==
  /\ Capacity \in Nat /\ Quantum \in Nat \ {0} /\ 2 * Quantum <= Capacity
  /\ Grain \in Nat \ {0} /\ Delay \in Nat /\ Backlog \in 0..Capacity
  /\ Paces \subseteq 1..(Quantum * Grain) /\ Paces # {} /\ MaxSource \in Nat
  /\ MayStall \in BOOLEAN /\ MayFail \in BOOLEAN

VARIABLES
  source, finish,                     \* frames published (missing or not), boundary
  pc, desired, retries, failing,      \* the running render call
  input, offset, pending, padding,    \* input workspace
  taken, accepted, padded, gaps,      \* source timeline
  concealed, cacheStart, cacheEnd, cacheCount, cacheOffset,   \* output cache
  zeroProgress, end, quiet, consecutive,
  fed, next,                          \* the converter: frames held or used, next output
  \* History variables.
  heard, pace, last,                  \* positions of the outputs
  cause, refusals                     \* why this call failed, conversions refused in it

callVars   == <<pc, desired, retries, failing>>
spaceVars  == <<input, offset, pending, padding>>
clockVars  == <<taken, accepted, padded, gaps>>
cacheVars  == <<concealed, cacheStart, cacheEnd, cacheCount, cacheOffset>>
burstVars  == <<zeroProgress, end, quiet, consecutive>>
truthVars  == <<heard, pace, last, cause, refusals>>
vars == <<source, finish, callVars, spaceVars, clockVars, cacheVars, burstVars, fed, next,
          truthVars>>

NoEnd    == -1
IsFinite == end # NoEnd
Unread   == Len(source) - taken
Least(a, b) == IF a < b THEN a ELSE b
Ceil(a, b) == (a + b - 1) \div b

Prefix       == Ceil(Delay, Grain)
GapCapacity  == 2 * Capacity + Prefix + 2
\* Mutant of RefillLimit: a cap that forgets what the adapter may hold.
QuantumLimit == Quantum
RefillLimit  == 2 * Capacity + Prefix + Quantum
CounterMax   == 2    \* stands for u64::MAX, where counters saturate

Init ==
  /\ source = <<>> /\ finish = FALSE
  /\ pc = "idle" /\ desired = 0 /\ retries = 0 /\ failing = FALSE
  /\ input = [i \in 0..(Capacity - 1) |-> 0] /\ offset = 0 /\ pending = 0 /\ padding = FALSE
  /\ taken = 0 /\ accepted = 0 /\ padded = 0 /\ gaps = <<>>
  /\ concealed = FALSE /\ cacheStart = 0 /\ cacheEnd = 0 /\ cacheCount = 0 /\ cacheOffset = 0
  /\ zeroProgress = FALSE /\ end = NoEnd /\ quiet = FALSE /\ consecutive = 0
  /\ fed = 0 /\ next = -Delay
  /\ heard = -Delay /\ pace = 0 /\ last = -Delay /\ cause = "none" /\ refusals = 0

-----------------------------------------------------------------------------
(* Producer.                                                               *)

consumerVars == <<callVars, spaceVars, clockVars, cacheVars, burstVars, fed, next, truthVars>>

Publish(missing) ==
  /\ ~finish /\ Unread < Capacity /\ Len(source) < MaxSource
  /\ source' = Append(source, missing)
  /\ UNCHANGED <<finish, consumerVars>>

Finish ==
  /\ ~finish
  /\ finish' = TRUE
  /\ UNCHANGED <<source, consumerVars>>

-----------------------------------------------------------------------------
(* Preparing a conversion.                                                 *)

RenderBegin ==
  /\ pc = "idle"
  /\ end' = IF finish /\ ~IsFinite THEN Len(source) ELSE end
  /\ LET silent == (quiet /\ end' = end) /\ Unread = 0
     IN  /\ quiet' = silent
         /\ pc' = IF silent THEN "idle" ELSE IF end' = 0 THEN "drain" ELSE "refill"
  /\ UNCHANGED <<source, finish, desired, retries, failing, spaceVars, clockVars, cacheVars,
                 zeroProgress, consecutive, fed, next, truthVars>>

\* The refill returns AdapterError.
Failed(why) == pc' = "fail" /\ cause' = why
\* Mutant of Starved: the tail of a burst goes without input like an open stream.
StarvedAnyway == pc' = "lose" /\ retries' = retries /\ cause' = cause
\* It returns Starved, which is tried again in a finite burst, and fails in the end.
Starved ==
  \/ ~IsFinite /\ pc' = "lose" /\ retries' = retries /\ cause' = cause
  \/ IsFinite /\ retries < RefillLimit /\ pc' = "refill" /\ retries' = retries + 1 /\ cause' = cause
  \/ IsFinite /\ retries = RefillLimit /\ Failed("limit") /\ retries' = retries

\* make_input_space.  Mutant of Compacted: the frames stay where they were.
CompactedNot(additional) ==
  IF offset + pending + additional <= Capacity
  THEN UNCHANGED <<input, offset>>
  ELSE offset' = 0 /\ input' = input
Compacted(additional) ==
  IF offset + pending + additional <= Capacity
  THEN UNCHANGED <<input, offset>>
  ELSE /\ offset' = 0
       /\ input' = [i \in DOMAIN input |->
                      IF i < pending THEN input[offset + i] ELSE input[i]]

Desired == IF zeroProgress THEN Least(pending + Quantum, Capacity) ELSE Quantum

RefillBegin ==
  /\ pc = "refill"
  /\ \/ cacheOffset < cacheCount
        /\ pc' = "ready" /\ UNCHANGED <<desired, input, offset>>
     \/ /\ cacheOffset = cacheCount
        /\ desired' = Desired
        /\ Compacted(IF desired' > pending THEN desired' - pending ELSE 0)
        /\ pc' = "take"
  /\ UNCHANGED <<source, finish, retries, failing, pending, padding, clockVars, cacheVars,
                 burstVars, fed, next, truthVars>>

Wanting == pending < desired /\ ~padding
Continues == gaps # <<>> /\ gaps[Len(gaps)].end = taken

Spanned(missing) ==
  gaps' = IF missing /\ Continues THEN [gaps EXCEPT ![Len(gaps)].end = taken + 1]
          ELSE IF missing THEN Append(gaps, [start |-> taken, end |-> taken + 1])
          ELSE gaps

TakeSample ==
  /\ pc = "take" /\ Wanting /\ Unread > 0
  /\ LET missing == source[taken + 1]
     IN  IF missing /\ ~Continues /\ Len(gaps) = GapCapacity
         THEN /\ Failed("spans")
              /\ source' = RemoveAt(source, taken + 1)
              /\ UNCHANGED <<input, pending, taken, gaps>>
         ELSE /\ Spanned(missing)
              /\ taken' = taken + 1
              /\ input' = [input EXCEPT ![offset + pending] = taken + 1]
              /\ pending' = pending + 1
              /\ UNCHANGED <<pc, source, cause>>
  /\ UNCHANGED <<finish, desired, retries, failing, offset, padding, accepted, padded,
                 cacheVars, burstVars, fed, next, heard, pace, last, refusals>>

\* Zeros follow a finite burst once the workspace has run empty.
Pads == pending = 0 /\ IsFinite
TakeEnd ==
  /\ pc = "take" /\ (~Wanting \/ Unread = 0)
  /\ IF Pads
     THEN /\ input' = [i \in DOMAIN input |-> IF i < Quantum THEN 0 ELSE input[i]]
          /\ offset' = 0 /\ pending' = Quantum /\ padding' = TRUE
     ELSE UNCHANGED spaceVars
  /\ \/ pending' = 0 /\ zeroProgress /\ Starved
     \/ ~(pending' = 0 /\ zeroProgress) /\ pc' = "map" /\ UNCHANGED <<retries, cause>>
  /\ UNCHANGED <<source, finish, desired, failing, clockVars, cacheVars, burstVars, fed, next,
                 heard, pace, last, refusals>>

-----------------------------------------------------------------------------
(* Mapping and converting.                                                 *)

\* What the converter reports as its input delay.
InputDelay == Grain * fed - next

\* Spans in front of a position are popped; in front of the first frame none is.
FirstLive(position) ==
  CHOOSE n \in 1..(Len(gaps) + 1) :
    /\ \A i \in 1..(n - 1) : position >= gaps[i].end
    /\ n <= Len(gaps) => position < gaps[n].end
MappedTo(position) ==
  /\ gaps' = IF position < 0 THEN gaps ELSE SubSeq(gaps, FirstLive(position), Len(gaps))
  /\ concealed' = (position >= 0 /\ gaps' # <<>> /\ position >= gaps'[1].start)

\* Mutant of Mapped: spans are tested where the workspace stands, not the converter.
MappedAtAccepted == MappedTo(accepted + padded)
\* The whole frame the next output lies in.
Mapped == MappedTo(accepted + padded - Ceil(InputDelay, Grain))

\* Any of the queries may fail, before the spans are tested or behind that.
Map ==
  /\ pc = "map"
  /\ \/ Mapped /\ pc' = "convert" /\ cause' = cause
     \/ /\ MayFail /\ Failed("adapter")
        /\ Mapped \/ UNCHANGED <<gaps, concealed>>
  /\ UNCHANGED <<source, finish, desired, retries, failing, spaceVars, taken, accepted, padded,
                 cacheStart, cacheEnd, cacheCount, cacheOffset, burstVars, fed, next, heard,
                 pace, last, refusals>>

\* While spans are pending outputs are converted one by one.
OutputCount == IF gaps = <<>> THEN Quantum ELSE 1

\* The converter accepts frames and generates outputs.  It can generate one
\* when it has the frames for it, and has to when it may hold no more frames.
Converts(used, generated, step) ==
  LET held == Grain * (fed + used) - (next + generated * step)
  IN  /\ generated > 0 => held >= Delay
      /\ held <= Delay + Backlog * Grain + step
      /\ used = 0 /\ generated = 0 => MayStall \/ pending = 0

\* Mutant of Position: the cache holds its first position.
PositionOfCache == cacheStart
\* cache_source_position.
Position == cacheStart + ((cacheEnd - cacheStart) * cacheOffset) \div cacheCount

Accepted(used) ==
  /\ pending' = pending - used
  /\ IF padding THEN padded' = padded + used /\ accepted' = accepted
                ELSE accepted' = accepted + used /\ padded' = padded
  /\ fed' = fed + used

\* Mutant of Cached: the end of the cache leaves the padding out.
CachedWithoutPadding(generated) ==
  /\ cacheStart' = Grain * (accepted + padded) - InputDelay
  /\ cacheEnd' = Grain * accepted' - InputDelay'
  /\ cacheCount' = generated /\ cacheOffset' = 0
Cached(generated) ==
  /\ cacheStart' = Grain * (accepted + padded) - InputDelay
  /\ cacheEnd' = Grain * (accepted' + padded') - InputDelay'
  /\ cacheCount' = generated /\ cacheOffset' = 0

Generate(used, generated, step) ==
  /\ generated > 0
  /\ \/ /\ Cached(generated)
        /\ offset' = IF pending' = 0 THEN 0 ELSE offset + used
        /\ zeroProgress' = FALSE /\ pc' = "ready"
        /\ pace' = step /\ UNCHANGED <<heard, cause>>
     \/ /\ MayFail /\ Failed("adapter")    \* the delay query failed
        /\ offset' = offset + used
        /\ heard' = next' /\ UNCHANGED <<zeroProgress, cacheStart, cacheEnd, cacheCount,
                                         cacheOffset, pace>>
  /\ UNCHANGED <<retries, refusals>>

GenerateNothing(used) ==
  /\ offset' = IF pending' = 0 THEN 0 ELSE offset + used
  /\ zeroProgress' = (used = 0)
  /\ IF used = 0 /\ pending' = Capacity THEN Failed("full") /\ retries' = retries ELSE Starved
  /\ refusals' = refusals + (IF used = 0 /\ pending > 0 THEN 1 ELSE 0)
  /\ UNCHANGED <<cacheStart, cacheEnd, cacheCount, cacheOffset, heard, pace>>

Convert ==
  /\ pc = "convert"
  /\ \E step \in Paces, used \in 0..pending, generated \in 0..OutputCount :
       /\ Converts(used, generated, step)
       /\ Accepted(used)
       /\ next' = next + generated * step
       /\ \/ Generate(used, generated, step)
          \/ generated = 0 /\ GenerateNothing(used)
  /\ UNCHANGED <<source, finish, desired, failing, input, padding, taken, gaps, concealed, end,
                 quiet, consecutive, last>>

ConvertFails ==
  /\ pc = "convert" /\ MayFail
  /\ Failed("adapter")
  /\ UNCHANGED <<source, finish, desired, retries, failing, spaceVars, clockVars, cacheVars,
                 burstVars, fed, next, heard, pace, last, refusals>>

-----------------------------------------------------------------------------
(* Playing an output, and the end of a burst.                              *)

\* record_shortfall, as far as it counts the current run.
Recorded(missing) ==
  consecutive' = IF missing THEN Least(consecutive + 1, CounterMax) ELSE 0

ReturnOutput ==
  pc' = "idle" /\ retries' = 0 /\ desired' = 0 /\ cause' = "none" /\ refusals' = 0

PastEnd == IsFinite /\ Position >= Grain * end

\* A spent cache is not read again, so its positions are forgotten.
Forgotten ==
  /\ concealed' = FALSE /\ cacheStart' = 0 /\ cacheEnd' = 0
  /\ cacheCount' = 0 /\ cacheOffset' = 0

Play ==
  /\ pc = "ready" /\ ~PastEnd
  /\ Recorded(concealed)
  /\ \/ cacheOffset + 1 < cacheCount /\ cacheOffset' = cacheOffset + 1
        /\ UNCHANGED <<concealed, cacheStart, cacheEnd, cacheCount, pace>>
     \/ cacheOffset + 1 = cacheCount /\ Forgotten /\ pace' = 0
  /\ heard' = heard + pace /\ last' = heard
  /\ ReturnOutput
  /\ UNCHANGED <<source, finish, failing, spaceVars, clockVars, zeroProgress, end, quiet, fed, next>>

\* In an open stream a failed call costs one output, as one without input does.
Lose ==
  /\ pc = "lose" \/ (pc = "fail" /\ ~IsFinite)
  /\ Recorded(TRUE)
  /\ Forgotten
  /\ ReturnOutput
  /\ UNCHANGED <<source, finish, failing, spaceVars, clockVars, zeroProgress, end, quiet, fed, next,
                 heard, pace, last>>

ReachEnd ==
  /\ \/ pc = "ready" /\ PastEnd /\ failing' = FALSE
     \/ pc = "fail" /\ IsFinite /\ failing' = TRUE
  /\ pc' = "drain"
  /\ UNCHANGED <<source, finish, desired, retries, spaceVars, clockVars, cacheVars, burstVars,
                 fed, next, truthVars>>

\* ConsumerState::reset.
StateReset ==
  /\ input' = input /\ offset' = 0 /\ pending' = 0 /\ padding' = FALSE
  /\ taken' = 0 /\ accepted' = 0 /\ padded' = 0 /\ gaps' = <<>>
  /\ Forgotten
  /\ zeroProgress' = FALSE /\ end' = NoEnd
  /\ fed' = 0 /\ next' = -Delay
  /\ heard' = -Delay /\ last' = -Delay /\ pace' = 0

Complete ==
  /\ pc = "drain"
  /\ StateReset
  /\ source' = IF failing THEN <<>> ELSE SubSeq(source, taken + 1, Len(source))
  /\ quiet' = TRUE /\ Recorded(FALSE)
  /\ finish' = FALSE /\ failing' = FALSE
  /\ ReturnOutput

ConsumerReset ==
  /\ pc = "idle"
  /\ StateReset
  /\ source' = <<>> /\ finish' = FALSE
  /\ UNCHANGED <<callVars, quiet, consecutive, cause, refusals>>

Next ==
  \/ \E missing \in BOOLEAN : Publish(missing)
  \/ Finish
  \/ RenderBegin \/ RefillBegin \/ TakeSample \/ TakeEnd \/ Map \/ Convert \/ ConvertFails
  \/ Play \/ Lose \/ ReachEnd \/ Complete \/ ConsumerReset

Spec == Init /\ [][Next]_vars

-----------------------------------------------------------------------------
(* Properties.                                                             *)

\* What is handed to the converter lies inside the workspace and is the next
\* frames of the source in order, or zeros behind the last of them.
WorkspaceInOrder ==
  pc = "convert" =>
    /\ offset + pending <= Capacity
    /\ \A i \in 0..(pending - 1) :
         input[offset + i] = IF padding THEN 0 ELSE accepted + i + 1

\* The position the cache gives an output is where the converter made it,
\* through padding, failed calls and every pace.
PositionExact == pc = "ready" => Position = heard

\* An output counts as missing exactly if the source frame it lies in was a gap.
ConcealedIffGap ==
  pc = "ready" /\ ~PastEnd =>
    (concealed <=> heard >= 0 /\ source[heard \div Grain + 1])

\* A burst that ends without failure has handed every frame to the converter,
\* and has played every output before its end and none behind it.
PlayedWhole ==
  [][pc = "ready" /\ pc' = "drain" => accepted = end /\ heard >= Grain * end /\ last < Grain * end]_vars

\* A call reports an adapter error, in a burst or an open stream, only for the
\* adapter: a query or conversion that fails, a full workspace it refuses, or
\* more refused conversions in this one call than the ring and the FIR have
\* frames.  The store of spans never fills, and the limit on refills suffices
\* for every converter that accepts input, however little at a time.
FailsForCause ==
  pc = "fail" =>
    /\ cause \in {"adapter", "full", "limit"}
    /\ cause = "limit" => refusals > Capacity + Prefix

\* The zeros behind a burst are never counted as loss, only its own gaps are.
ExtensionIsNotLoss ==
  [][IsFinite /\ consecutive' > consecutive =>
       0 <= heard /\ heard < Grain * end /\ source[heard \div Grain + 1]]_vars
=============================================================================
