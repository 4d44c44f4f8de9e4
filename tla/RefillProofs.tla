----------------------------- MODULE RefillProofs -----------------------------
(***************************************************************************)
(* Theorems about Refill, for every value of its constants: rings, quanta, *)
(* converters and bursts of any size, and compensation of any pace.  They  *)
(* treat the workspace and the converter's clock, which outputs count as   *)
(* missing, how many spans are kept, and what a finite burst ends with.    *)
(***************************************************************************)
EXTENDS Refill, SequenceTheorems, FiniteSetTheorems, TLAPS

LEMMA Sizes ==
  /\ Capacity \in Nat /\ Quantum \in Nat /\ Grain \in Nat /\ Delay \in Nat
  /\ Backlog \in Nat /\ Backlog <= Capacity
  /\ Quantum > 0 /\ Grain > 0 /\ 2 * Quantum <= Capacity
BY SizeAssumption

-----------------------------------------------------------------------------
(* The workspace.  It holds the frames between the last one accepted and   *)
(* the last one taken, or zeros once the burst has run out of frames.      *)

SpaceTypes ==
  /\ source \in Seq(BOOLEAN) /\ input \in [0..(Capacity - 1) -> Nat]
  /\ offset \in Nat /\ pending \in Nat /\ padding \in BOOLEAN /\ desired \in Nat
  /\ taken \in Nat /\ accepted \in Nat /\ padded \in Nat /\ fed \in Nat
  /\ end \in Nat \cup {NoEnd}

InOrder ==
  \A i \in 0..(pending - 1) : input[offset + i] = IF padding THEN 0 ELSE accepted + i + 1

SpaceInv ==
  /\ SpaceTypes
  /\ offset + pending <= Capacity
  /\ pc = "take" => offset + desired <= Capacity /\ desired > 0
  /\ InOrder
  /\ padding => IsFinite /\ taken = accepted
  /\ ~padding => padded = 0 /\ taken = accepted + pending
  /\ fed = accepted + padded
  /\ taken <= Len(source)

LEMMA RemoveAtProperties ==
  ASSUME NEW S, NEW s \in Seq(S), NEW i \in 1..Len(s)
  PROVE  RemoveAt(s, i) \in Seq(S) /\ Len(RemoveAt(s, i)) = Len(s) - 1
<1> DEFINE front == SubSeq(s, 1, i - 1)
           back == SubSeq(s, i + 1, Len(s))
<1>1. Len(s) \in Nat /\ i \in Nat /\ i >= 1 /\ i <= Len(s)
  OBVIOUS
<1>2. front \in Seq(S) /\ Len(front) = i - 1
  BY <1>1, SubSeqProperties
<1>3. back \in Seq(S) /\ Len(back) = Len(s) - i
  BY <1>1, SubSeqProperties
<1>4. RemoveAt(s, i) = front \o back
  BY DEF RemoveAt
<1> HIDE DEF front, back
<1>5. front \o back \in Seq(S) /\ Len(front \o back) = Len(front) + Len(back)
  BY <1>2, <1>3, ConcatProperties
<1> QED BY <1>1, <1>2, <1>3, <1>4, <1>5

\* Most steps leave the workspace and the timeline alone.
LEMMA SpaceKept ==
  ASSUME SpaceInv, pc' # "take", desired' \in Nat, end' \in Nat \cup {NoEnd},
         IsFinite => IsFinite',
         UNCHANGED <<source, input, offset, pending, padding, taken, accepted, padded, fed>>
  PROVE  SpaceInv'
BY DEF SpaceInv, SpaceTypes, InOrder

LEMMA SpaceReset ==
  ASSUME SpaceInv, StateReset, source' \in Seq(BOOLEAN), desired' \in Nat, pc' # "take"
  PROVE  SpaceInv'
<1>1. /\ input' = input /\ offset' = 0 /\ pending' = 0 /\ padding' = FALSE
      /\ taken' = 0 /\ accepted' = 0 /\ padded' = 0 /\ fed' = 0 /\ end' = NoEnd
  BY DEF StateReset
<1>2. SpaceTypes'
  BY <1>1 DEF SpaceInv, SpaceTypes
<1>3. InOrder'
  BY <1>1 DEF InOrder
<1>4. offset' + pending' <= Capacity /\ fed' = accepted' + padded' /\ taken' <= Len(source')
        /\ padded' = 0 /\ taken' = accepted' + pending' /\ padding' = FALSE
  BY <1>1, Sizes
<1> QED BY <1>2, <1>3, <1>4 DEF SpaceInv

LEMMA RefillBeginSpace ==
  ASSUME SpaceInv, RefillBegin
  PROVE  SpaceInv'
<1>t. /\ offset \in Nat /\ pending \in Nat /\ pending <= Capacity /\ offset + pending <= Capacity
      /\ input \in [0..(Capacity - 1) -> Nat] /\ InOrder
  BY Sizes DEF SpaceInv, SpaceTypes
<1>0. UNCHANGED <<source, pending, padding, taken, accepted, padded, fed, end, IsFinite>>
  BY DEF RefillBegin, clockVars, burstVars, IsFinite
\* Room for what is wanted, and the frames in order, are all that is left to show.
<1>1. ASSUME offset' \in Nat, offset' + pending <= Capacity, InOrder', desired' \in Nat,
             input' \in [0..(Capacity - 1) -> Nat],
             pc' = "take" => offset' + desired' <= Capacity /\ desired' > 0
      PROVE  SpaceInv'
  BY <1>0, <1>1 DEF SpaceInv, SpaceTypes
<1>2. CASE pc' = "ready" /\ UNCHANGED <<desired, input, offset>>
  BY <1>t, <1>0, <1>1, <1>2 DEF InOrder, SpaceInv, SpaceTypes
<1>3. CASE /\ desired' = Desired
           /\ Compacted(IF desired' > pending THEN desired' - pending ELSE 0)
           /\ pc' = "take"
  <2>1. desired' \in Nat /\ desired' > 0 /\ desired' <= Capacity
    BY <1>t, <1>3, Sizes DEF Desired, Least
  <2>2. PICK additional \in Nat :
          /\ Compacted(additional)
          /\ desired' <= pending + additional /\ pending + additional <= Capacity
    BY <1>t, <1>3, <2>1
  <2>3. CASE offset + pending + additional <= Capacity
    <3>1. UNCHANGED <<input, offset>>
      BY <2>2, <2>3 DEF Compacted
    <3>2. offset + desired' <= Capacity
      <4>1. \A wanted \in Nat : wanted <= pending + additional => offset + wanted <= Capacity
        BY <1>t, <2>3, Sizes
      <4> QED BY <2>1, <2>2, <4>1
    <3>3. InOrder'
      BY <1>t, <1>0, <3>1 DEF InOrder
    <3> QED BY <1>t, <1>1, <2>1, <3>1, <3>2, <3>3
  <2>4. CASE ~(offset + pending + additional <= Capacity)
    <3>1. /\ offset' = 0
          /\ input' = [i \in DOMAIN input |->
                         IF i < pending THEN input[offset + i] ELSE input[i]]
      BY <2>2, <2>4 DEF Compacted
    <3>2. input' \in [0..(Capacity - 1) -> Nat]
      BY <1>t, <3>1, Sizes
    <3>3. InOrder'
      <4> SUFFICES ASSUME NEW i \in 0..(pending - 1)
                   PROVE  input'[0 + i] = IF padding THEN 0 ELSE accepted + i + 1
        BY <1>0, <3>1 DEF InOrder
      <4>1. input'[i] = input[offset + i]
        BY <1>t, <3>1, Sizes
      <4> QED BY <1>t, <4>1 DEF InOrder
    <3> QED BY <1>t, <1>1, <2>1, <3>1, <3>2, <3>3
  <2> QED BY <2>3, <2>4
<1> QED BY <1>2, <1>3 DEF RefillBegin

LEMMA TakeSampleSpace ==
  ASSUME SpaceInv, TakeSample
  PROVE  SpaceInv'
<1> USE Sizes DEF SpaceInv, SpaceTypes
<1>0. /\ pc = "take" /\ pending < desired /\ ~padding /\ Len(source) - taken > 0
      /\ UNCHANGED <<desired, offset, padding, accepted, padded, fed, end>>
  BY DEF TakeSample, Wanting, Unread, burstVars
<1>1. CASE Failed("spans") /\ source' = RemoveAt(source, taken + 1) /\ UNCHANGED <<input, pending, taken>>
  <2>1. taken + 1 \in 1..Len(source)
    BY <1>0
  <2>2. source' \in Seq(BOOLEAN) /\ Len(source') = Len(source) - 1
    BY <1>1, <2>1, RemoveAtProperties
  <2>3. pc' # "take" /\ taken' <= Len(source')
    BY <1>0, <1>1, <2>2 DEF Failed
  <2> QED BY <1>0, <1>1, <2>2, <2>3 DEF InOrder, IsFinite
<1>2. CASE /\ taken' = taken + 1 /\ pending' = pending + 1
           /\ input' = [input EXCEPT ![offset + pending] = taken + 1]
           /\ UNCHANGED <<pc, source>>
  <2>1. offset + pending \in 0..(Capacity - 1)
    BY <1>0
  <2>2. input' \in [0..(Capacity - 1) -> Nat]
    BY <1>2, <2>1
  <2>3. InOrder'
    <3> SUFFICES ASSUME NEW i \in 0..pending
                 PROVE  input'[offset + i] = accepted + i + 1
      <4>1. 0..(pending' - 1) = 0..pending
        BY <1>2
      <4> QED BY <1>0, <4>1 DEF InOrder
    <3>1. CASE i = pending
      BY <1>0, <1>2, <2>1, <3>1
    <3>2. CASE i # pending
      <4>1. i \in 0..(pending - 1) /\ offset + i # offset + pending
        BY <3>2
      <4>2. input[offset + i] = accepted + i + 1
        BY <1>0, <4>1 DEF InOrder
      <4>3. input'[offset + i] = input[offset + i]
        BY <1>2, <2>1, <4>1
      <4> QED BY <4>2, <4>3
    <3> QED BY <3>1, <3>2
  <2> QED BY <1>0, <1>2, <2>2, <2>3 DEF IsFinite
<1> QED BY <1>1, <1>2 DEF TakeSample

LEMMA TakeEndSpace ==
  ASSUME SpaceInv, TakeEnd
  PROVE  SpaceInv'
<1> USE Sizes DEF SpaceInv, SpaceTypes
<1>0. /\ pc' # "take"
      /\ UNCHANGED <<source, desired, taken, accepted, padded, fed, end>>
  BY DEF TakeEnd, Starved, Failed, clockVars, burstVars
<1>1. IsFinite' = IsFinite
  BY <1>0 DEF IsFinite
<1>2. CASE UNCHANGED spaceVars
  BY <1>0, <1>1, <1>2, SpaceKept DEF spaceVars
<1>3. CASE /\ Pads
           /\ input' = [i \in DOMAIN input |-> IF i < Quantum THEN 0 ELSE input[i]]
           /\ offset' = 0 /\ pending' = Quantum /\ padding' = TRUE
  <2>1. input' \in [0..(Capacity - 1) -> Nat]
    BY <1>3
  <2>2. InOrder'
    <3> SUFFICES ASSUME NEW i \in 0..(Quantum - 1) PROVE input'[0 + i] = 0
      BY <1>3 DEF InOrder
    <3> QED BY <1>3
  <2>3. IsFinite /\ taken = accepted
    BY <1>3 DEF Pads
  <2> QED BY <1>0, <1>1, <1>3, <2>1, <2>2, <2>3
<1> QED BY <1>2, <1>3 DEF TakeEnd

LEMMA ConvertSpace ==
  ASSUME SpaceInv, Convert
  PROVE  SpaceInv'
<1> USE Sizes DEF SpaceInv, SpaceTypes
<1>1. PICK used \in 0..pending :
        /\ Accepted(used)
        /\ offset' = offset + used \/ (offset' = 0 /\ pending' = 0)
        /\ pc' # "take"
        /\ UNCHANGED <<source, desired, input, padding, taken, end>>
  <2>1. PICK step \in Paces, used \in 0..pending, generated \in 0..OutputCount :
          /\ Accepted(used)
          /\ \/ Generate(used, generated, step)
             \/ generated = 0 /\ GenerateNothing(used)
          /\ UNCHANGED <<source, desired, input, padding, taken, end>>
    BY DEF Convert
  <2>2. CASE Generate(used, generated, step)
    BY <2>1, <2>2 DEF Generate, Failed
  <2>3. CASE GenerateNothing(used)
    BY <2>1, <2>3 DEF GenerateNothing, Failed, Starved
  <2> QED BY <2>1, <2>2, <2>3
<1>2. IsFinite' = IsFinite
  BY <1>1 DEF IsFinite
<1>3. pending' = pending - used /\ fed' = fed + used
  BY <1>1 DEF Accepted
<1>4. IF padding THEN padded' = padded + used /\ accepted' = accepted
                 ELSE accepted' = accepted + used /\ padded' = padded
  BY <1>1 DEF Accepted
<1>5. SpaceTypes' /\ offset' + pending' <= Capacity
  BY <1>1, <1>3, <1>4
<1>6. InOrder'
  <2> SUFFICES ASSUME NEW i \in 0..(pending' - 1)
               PROVE  input[offset' + i] = IF padding THEN 0 ELSE accepted' + i + 1
    BY <1>1 DEF InOrder
  <2>1. offset' = offset + used /\ used + i \in 0..(pending - 1)
    BY <1>1, <1>3
  <2>2. input[offset + (used + i)] = IF padding THEN 0 ELSE accepted + (used + i) + 1
    BY <2>1 DEF InOrder
  <2>3. offset + (used + i) = offset' + i
    BY <2>1
  <2>4. ~padding => accepted + (used + i) + 1 = accepted' + i + 1
    BY <1>4, <2>1
  <2> QED BY <2>2, <2>3, <2>4
<1>7. fed' = accepted' + padded'
  <2>1. CASE padding
    BY <1>3, <1>4, <2>1
  <2>2. CASE ~padding
    BY <1>3, <1>4, <2>2
  <2> QED BY <2>1, <2>2
<1>8. /\ padding' => IsFinite' /\ taken' = accepted'
      /\ ~padding' => padded' = 0 /\ taken' = accepted' + pending'
  BY <1>1, <1>2, <1>3, <1>4
<1> QED BY <1>1, <1>5, <1>6, <1>7, <1>8

LEMMA SpaceStep ==
  ASSUME SpaceInv, Next
  PROVE  SpaceInv'
<1> USE DEF callVars, spaceVars, clockVars, burstVars
<1>1. ASSUME NEW missing \in BOOLEAN, Publish(missing)
      PROVE  SpaceInv'
  <2>1. /\ source' = Append(source, missing)
        /\ UNCHANGED <<pc, desired, input, offset, pending, padding, taken, accepted, padded,
                       fed, end>>
    BY <1>1 DEF Publish, consumerVars
  <2>2. source' \in Seq(BOOLEAN) /\ Len(source') = Len(source) + 1
    BY <2>1, AppendProperties DEF SpaceInv, SpaceTypes
  <2> QED BY <2>1, <2>2 DEF SpaceInv, SpaceTypes, InOrder, IsFinite
<1>2. CASE Finish
  BY <1>2 DEF Finish, consumerVars, SpaceInv, SpaceTypes, InOrder, IsFinite
<1>3. CASE RenderBegin
  <2>1. end' \in Nat \cup {NoEnd} /\ (IsFinite => IsFinite')
    BY <1>3 DEF RenderBegin, IsFinite, SpaceInv, SpaceTypes
  <2>2. pc' # "take" /\ desired' \in Nat
    BY <1>3 DEF RenderBegin, SpaceInv, SpaceTypes
  <2> QED BY <1>3, <2>1, <2>2, SpaceKept DEF RenderBegin
<1>4. CASE Map \/ ConvertFails \/ Play \/ Lose \/ ReachEnd
  <2>1. /\ pc' # "take" /\ desired' \in Nat /\ end' = end
        /\ UNCHANGED <<source, input, offset, pending, padding, taken, accepted, padded, fed>>
    <3>1. CASE Map
      BY <1>4, <3>1 DEF Map, Failed, SpaceInv, SpaceTypes
    <3>2. CASE ConvertFails \/ ReachEnd
      BY <1>4, <3>2 DEF ConvertFails, Failed, ReachEnd, SpaceInv, SpaceTypes
    <3>3. CASE Play \/ Lose
      <4>1. /\ pc' = "idle" /\ desired' = 0 /\ end' = end
            /\ UNCHANGED <<source, input, offset, pending, padding, taken, accepted, padded, fed>>
        BY <3>3 DEF Play, Lose, ReturnOutput
      <4> QED BY <4>1
    <3> QED BY <1>4, <3>1, <3>2, <3>3
  <2>2. end' \in Nat \cup {NoEnd} /\ IsFinite' = IsFinite
    BY <2>1 DEF IsFinite, SpaceInv, SpaceTypes
  <2> QED BY <2>1, <2>2, SpaceKept
<1>5. CASE Complete
  <2>1. StateReset /\ pc' # "take" /\ desired' = 0
    BY <1>5 DEF Complete, ReturnOutput
  <2>2. source' \in Seq(BOOLEAN)
    <3>1. SubSeq(source, taken + 1, Len(source)) \in Seq(BOOLEAN)
      BY SubSeqProperties DEF SpaceInv, SpaceTypes
    <3>2. <<>> \in Seq(BOOLEAN)
      OBVIOUS
    <3> QED BY <1>5, <3>1, <3>2 DEF Complete
  <2> QED BY <2>1, <2>2, SpaceReset
<1>6. CASE ConsumerReset
  <2>1. StateReset /\ pc' # "take" /\ desired' = desired /\ source' = <<>>
    BY <1>6 DEF ConsumerReset
  <2>2. desired' \in Nat /\ source' \in Seq(BOOLEAN)
    BY <2>1 DEF SpaceInv, SpaceTypes
  <2> QED BY <2>1, <2>2, SpaceReset
<1> QED
  BY <1>1, <1>2, <1>3, <1>4, <1>5, <1>6, RefillBeginSpace, TakeSampleSpace, TakeEndSpace,
     ConvertSpace DEF Next

\* In every reachable state the workspace holds, in order, what was taken and not
\* yet accepted, zeros last, and never more than the quantum asked for.
THEOREM SpaceInvariance == Spec => []SpaceInv
<1>1. Init => SpaceInv
  <2> SUFFICES ASSUME Init PROVE SpaceInv
    OBVIOUS
  <2>1. SpaceTypes
    <3>1. [i \in 0..(Capacity - 1) |-> 0] \in [0..(Capacity - 1) -> Nat]
      OBVIOUS
    <3>2. <<>> \in Seq(BOOLEAN)
      OBVIOUS
    <3> QED BY <3>1, <3>2 DEF Init, SpaceTypes
  <2>2. InOrder
    BY DEF Init, InOrder
  <2> QED BY <2>1, <2>2, Sizes DEF Init, SpaceInv
<1>2. SpaceInv /\ [Next]_vars => SpaceInv'
  <2>1. SpaceInv /\ UNCHANGED vars => SpaceInv'
    BY DEF vars, callVars, spaceVars, clockVars, burstVars, SpaceInv, SpaceTypes, InOrder,
       IsFinite
  <2> QED BY <2>1, SpaceStep
<1> QED BY <1>1, <1>2, PTL DEF Spec

\* The converter is handed the frames of the source in order and without a
\* hole, or zeros behind the last of them, from inside the workspace.
THEOREM WorkspaceInOrderHolds == Spec => []WorkspaceInOrder
<1>1. SpaceInv => WorkspaceInOrder
  BY DEF SpaceInv, InOrder, WorkspaceInOrder
<1> QED BY <1>1, SpaceInvariance, PTL

-----------------------------------------------------------------------------
(* Arithmetic of ticks.                                                    *)

LEMMA Distributes ==
  ASSUME NEW a \in Int, NEW b \in Int, NEW c \in Int
  PROVE  a * (b + c) = a * b + a * c /\ (b + c) * a = b * a + c * a
OBVIOUS

LEMMA Cancels ==
  ASSUME NEW a \in Int, NEW b \in Int
  PROVE  a - (a - b) = b
OBVIOUS

LEMMA ProductMonotone ==
  ASSUME NEW a \in Nat, NEW b \in Int, NEW c \in Int, b <= c
  PROVE  a * b <= a * c
OBVIOUS

LEMMA ProductDivided ==
  ASSUME NEW a \in Nat, a > 0, NEW b \in Int, NEW c \in Int
  PROVE  ((a * b) * c) \div a = c * b
<1>1. (a * b) * c = a * (c * b)
  OBVIOUS
<1>2. \A d \in Int : (a * d) \div a = d
  OBVIOUS
<1> QED BY <1>1, <1>2

-----------------------------------------------------------------------------
(* The converter.  Between two outputs it holds at least the frames of its *)
(* FIR delay, and at most its backlog and one output more.  While a call   *)
(* goes on without an output, each retry has brought it a frame more or is *)
(* a conversion it refused.                                                *)

ClockTypes ==
  /\ retries \in Nat /\ refusals \in Nat
  /\ next \in Int /\ heard \in Int /\ pace \in Nat
  /\ cacheStart \in Int /\ cacheEnd \in Int /\ cacheCount \in Nat /\ cacheOffset \in Nat

HeldInv ==
  /\ InputDelay >= Delay
  /\ InputDelay <= Delay + Grain * (Backlog + Quantum)
  /\ pc \notin {"ready", "drain", "fail"} =>
       InputDelay + Grain * refusals >= Delay + Grain * retries
  /\ pc = "idle" => retries = 0 /\ refusals = 0
  /\ pc \in {"map", "convert"} /\ IsFinite => pending > 0

CacheInv ==
  /\ pc \in {"take", "map", "convert", "lose", "fail"} => cacheCount = 0
  /\ pc = "ready" => cacheCount > 0
  /\ cacheCount = 0 => cacheOffset = 0 /\ heard = next
  /\ cacheCount > 0 =>
       /\ cacheOffset < cacheCount
       /\ cacheEnd = next /\ next = cacheStart + cacheCount * pace
       /\ heard = cacheStart + cacheOffset * pace /\ pace > 0

ClockInv == ClockTypes /\ HeldInv /\ CacheInv

\* What a conversion does to the converter, whatever comes of its outputs.
LEMMA ConvertedBy ==
  ASSUME SpaceInv, ClockInv, Convert
  PROVE  \E used \in Nat, generated \in Nat, step \in Nat :
           /\ step > 0 /\ step <= Grain * Quantum /\ used <= pending
           /\ generated <= OutputCount /\ step \in Paces
           /\ Accepted(used)
           /\ next' = next + generated * step
           /\ generated > 0 => InputDelay' >= Delay
           /\ InputDelay' <= Delay + Grain * Backlog + step
           /\ \/ generated > 0 /\ Generate(used, generated, step)
              \/ generated = 0 /\ GenerateNothing(used)
           /\ pc = "convert"
           /\ UNCHANGED <<source, finish, taken, gaps, concealed, end, last>>
<1>1. PICK step \in Paces, used \in 0..pending, generated \in 0..OutputCount :
        /\ Converts(used, generated, step)
        /\ Accepted(used)
        /\ next' = next + generated * step
        /\ \/ Generate(used, generated, step)
           \/ generated = 0 /\ GenerateNothing(used)
  BY DEF Convert
<1>2. /\ step \in Nat /\ step > 0 /\ step <= Grain * Quantum
      /\ used \in Nat /\ used <= pending
      /\ generated \in Nat /\ generated <= OutputCount
  <2>1. step \in 1..(Quantum * Grain)
    BY SizeAssumption
  <2>2. pending \in Nat /\ OutputCount \in Nat
    BY Sizes DEF SpaceInv, SpaceTypes, OutputCount
  <2>3. Quantum * Grain = Grain * Quantum /\ Quantum * Grain \in Nat
    BY Sizes
  <2> QED BY <2>1, <2>2, <2>3
<1>3. InputDelay' = Grain * (fed + used) - (next + generated * step)
  BY <1>1 DEF InputDelay, Accepted
<1>4. Backlog * Grain = Grain * Backlog
  BY Sizes
<1>5. /\ generated > 0 => InputDelay' >= Delay
      /\ InputDelay' <= Delay + Grain * Backlog + step
  BY <1>1, <1>3, <1>4 DEF Converts
<1>6. /\ pc = "convert"
      /\ UNCHANGED <<source, finish, taken, gaps, concealed, end, last>>
  BY DEF Convert
<1>7. \/ generated > 0 /\ Generate(used, generated, step)
      \/ generated = 0 /\ GenerateNothing(used)
  BY <1>1 DEF Generate
<1> QED BY <1>1, <1>2, <1>5, <1>6, <1>7

LEMMA ClockKept ==
  ASSUME ClockInv, HeldInv', CacheInv', UNCHANGED <<retries, refusals, next, heard, pace>>,
         UNCHANGED <<cacheStart, cacheEnd, cacheCount, cacheOffset>>
  PROVE  ClockInv'
BY DEF ClockInv, ClockTypes

\* Steps that let the converter rest, by the steps they lead to.
LEMMA HeldKept ==
  ASSUME HeldInv, UNCHANGED <<fed, next, retries, refusals>>,
         pc \in {"ready", "drain", "fail"} => pc' \in {"ready", "drain", "fail"},
         pc' = "idle" => pc = "idle",
         pc' \in {"map", "convert"} /\ IsFinite' => pending' > 0
  PROVE  HeldInv'
<1>1. InputDelay' = InputDelay
  BY DEF InputDelay
<1> QED BY <1>1 DEF HeldInv

LEMMA CacheKept ==
  ASSUME CacheInv, UNCHANGED <<cacheStart, cacheEnd, cacheCount, cacheOffset>>,
         UNCHANGED <<next, heard, pace>>,
         pc' \in {"take", "map", "convert", "lose", "fail"} => cacheCount = 0,
         pc' = "ready" => cacheCount > 0
  PROVE  CacheInv'
BY DEF CacheInv

\* A converter as it was reset, or as it starts.
LEMMA ConverterReset ==
  ASSUME StateReset, pc' = "idle", retries' = 0, refusals' = 0
  PROVE  ClockInv'
<1>1. /\ fed' = 0 /\ next' = -Delay /\ heard' = -Delay /\ pace' = 0
      /\ cacheStart' = 0 /\ cacheEnd' = 0 /\ cacheCount' = 0 /\ cacheOffset' = 0
  BY DEF StateReset, Forgotten
<1>2. InputDelay' = Delay
  BY <1>1, Sizes DEF InputDelay
<1>3. Grain * (Backlog + Quantum) \in Nat /\ Grain * 0 = 0
  BY Sizes
<1>4. HeldInv'
  <2>1. Delay <= Delay + Grain * (Backlog + Quantum) /\ Delay + Grain * 0 >= Delay + Grain * 0
    BY <1>3, Sizes
  <2> QED BY <1>2, <2>1, Sizes DEF HeldInv
<1>5. ClockTypes'
  <2>1. -Delay \in Int
    BY Sizes
  <2> QED BY <1>1, <2>1 DEF ClockTypes
<1>6. CacheInv'
  BY <1>1 DEF CacheInv
<1> QED BY <1>4, <1>5, <1>6 DEF ClockInv

LEMMA PlayedClock ==
  ASSUME SpaceInv, ClockInv, Play \/ Lose
  PROVE  ClockInv'
<1>0. ClockTypes /\ fed \in Nat
  BY DEF ClockInv, SpaceInv, SpaceTypes
<1>1. /\ pc' = "idle" /\ retries' = 0 /\ refusals' = 0 /\ UNCHANGED <<fed, next>>
  BY DEF Play, Lose, ReturnOutput
<1>2. HeldInv'
  <2>1. InputDelay' = InputDelay /\ Grain * 0 = 0
    BY <1>1, Sizes DEF InputDelay
  <2>2. InputDelay \in Int
    BY <1>0, Sizes DEF InputDelay, ClockTypes
  <2>3. InputDelay + 0 >= Delay + 0
    BY <2>2, Sizes DEF ClockInv, HeldInv
  <2> QED BY <1>1, <2>1, <2>2, <2>3, Sizes DEF ClockInv, HeldInv
<1>3. CASE Lose
  <2>1. cacheCount = 0 /\ heard = next
    BY <1>3 DEF Lose, ClockInv, CacheInv
  <2>2. /\ cacheStart' = 0 /\ cacheEnd' = 0 /\ cacheCount' = 0 /\ cacheOffset' = 0
        /\ UNCHANGED <<heard, pace>>
    BY <1>3 DEF Lose, Forgotten
  <2>3. CacheInv'
    BY <1>1, <2>1, <2>2 DEF CacheInv
  <2>4. ClockTypes'
    BY <1>0, <1>1, <2>2 DEF ClockTypes
  <2> QED BY <1>2, <2>3, <2>4 DEF ClockInv
<1>4. CASE Play
  <2>1. /\ cacheCount > 0 /\ cacheOffset < cacheCount /\ cacheEnd = next
        /\ next = cacheStart + cacheCount * pace /\ pace > 0
        /\ heard = cacheStart + cacheOffset * pace
    BY <1>4 DEF Play, ClockInv, CacheInv
  <2>2. (cacheOffset + 1) * pace = cacheOffset * pace + 1 * pace
    BY <1>0, Distributes DEF ClockTypes
  <2>3. heard' = cacheStart + (cacheOffset + 1) * pace
    BY <1>0, <1>4, <2>1, <2>2 DEF Play, ClockTypes
  <2>4. CASE /\ cacheOffset + 1 < cacheCount /\ cacheOffset' = cacheOffset + 1
             /\ UNCHANGED <<cacheStart, cacheEnd, cacheCount, pace>>
    <3>1. CacheInv'
      BY <1>1, <2>1, <2>3, <2>4 DEF CacheInv
    <3>2. ClockTypes'
      BY <1>0, <1>1, <2>3, <2>4 DEF ClockTypes
    <3> QED BY <1>2, <3>1, <3>2 DEF ClockInv
  <2>5. CASE cacheOffset + 1 = cacheCount /\ Forgotten /\ pace' = 0
    <3>1. heard' = next'
      BY <1>1, <2>1, <2>3, <2>5
    <3>2. CacheInv'
      BY <1>1, <2>5, <3>1 DEF CacheInv, Forgotten
    <3>3. ClockTypes'
      BY <1>0, <1>1, <2>5, <3>1 DEF ClockTypes, Forgotten
    <3> QED BY <1>2, <3>2, <3>3 DEF ClockInv
  <2> QED BY <1>4, <2>4, <2>5 DEF Play
<1> QED BY <1>3, <1>4

\* A conversion without output takes a frame, unless it is refused.
LEMMA TakesOrRefused ==
  ASSUME SpaceInv, ClockInv, pc = "convert", NEW used \in Nat, Accepted(used), next' = next,
         refusals' = refusals + (IF used = 0 /\ pending > 0 THEN 1 ELSE 0)
  PROVE  /\ InputDelay' \in Int /\ InputDelay' >= InputDelay
         /\ InputDelay' + Grain * refusals' >= Delay + Grain * retries
         /\ IsFinite => InputDelay' + Grain * refusals' >= Delay + Grain * (retries + 1)
<1>0. /\ retries \in Nat /\ refusals \in Nat /\ fed \in Nat /\ pending \in Nat /\ next \in Int
      /\ InputDelay + Grain * refusals >= Delay + Grain * retries
      /\ IsFinite => pending > 0
      /\ fed' = fed + used /\ refusals' \in Nat
  BY DEF ClockInv, ClockTypes, HeldInv, SpaceInv, SpaceTypes, Accepted
<1>1. InputDelay' = InputDelay + Grain * used
  <2>1. Grain * (fed + used) = Grain * fed + Grain * used
    BY <1>0, Sizes, Distributes
  <2>2. Grain * fed \in Int /\ Grain * used \in Int
    BY <1>0, Sizes
  <2>3. InputDelay' = (Grain * fed + Grain * used) - next
    BY <1>0, <2>1 DEF InputDelay
  <2> QED BY <1>0, <2>2, <2>3 DEF InputDelay
<1>2. /\ InputDelay \in Int /\ Grain * used \in Nat /\ Grain * refusals \in Nat
      /\ Grain * refusals' \in Nat /\ Grain * retries \in Nat
  BY <1>0, Sizes DEF InputDelay
<1>3. Grain * refusals <= Grain * refusals'
  BY <1>0, Sizes, ProductMonotone
<1>4. IsFinite => Grain * (retries + 1) <= Grain * retries + (Grain * used + (Grain * refusals' - Grain * refusals))
  <2> SUFFICES ASSUME IsFinite
               PROVE  Grain * (retries + 1) <= Grain * retries + (Grain * used + (Grain * refusals' - Grain * refusals))
    OBVIOUS
  <2>1. Grain * (retries + 1) = Grain * retries + Grain
    BY <1>0, Sizes
  <2>2. CASE used = 0
    <3>1. refusals' = refusals + 1
      BY <1>0, <2>2
    <3>2. Grain * (refusals + 1) = Grain * refusals + Grain
      BY <1>0, Sizes
    <3> QED BY <1>2, <2>1, <3>1, <3>2, Sizes
  <2>3. CASE used # 0
    <3>1. Grain * 1 <= Grain * used /\ Grain * 1 = Grain
      BY <2>3, Sizes, ProductMonotone
    <3> QED BY <1>2, <1>3, <2>1, <3>1, Sizes
  <2> QED BY <2>2, <2>3
<1>5. Grain * (retries + 1) \in Nat
  BY <1>0, Sizes
<1> QED BY <1>0, <1>1, <1>2, <1>3, <1>4, <1>5, Sizes

LEMMA ConvertClock ==
  ASSUME SpaceInv, SpaceInv', ClockInv, Convert
  PROVE  ClockInv'
<1>0. /\ ClockTypes /\ fed \in Nat /\ pending \in Nat /\ taken \in Nat
      /\ fed = accepted + padded /\ fed' = accepted' + padded'
      /\ fed' \in Nat /\ accepted' \in Nat /\ padded' \in Nat
      /\ accepted \in Nat /\ padded \in Nat /\ pending' \in Nat
  BY DEF ClockInv, SpaceInv, SpaceTypes
<1>1. PICK used \in Nat, generated \in Nat, step \in Nat :
        /\ step > 0 /\ step <= Grain * Quantum
        /\ Accepted(used)
        /\ next' = next + generated * step
        /\ generated > 0 => InputDelay' >= Delay
        /\ InputDelay' <= Delay + Grain * Backlog + step
        /\ \/ generated > 0 /\ Generate(used, generated, step)
           \/ generated = 0 /\ GenerateNothing(used)
        /\ pc = "convert" /\ end' = end
  BY ConvertedBy
<1>2. /\ cacheCount = 0 /\ cacheOffset = 0 /\ heard = next
      /\ InputDelay >= Delay /\ (IsFinite => pending > 0)
  BY <1>1 DEF ClockInv, CacheInv, HeldInv
<1>3. IsFinite' = IsFinite /\ pending' = pending - used /\ fed' = fed + used
  BY <1>1 DEF IsFinite, Accepted
<1>4. InputDelay \in Int /\ InputDelay' \in Int /\ next' \in Int
  <2>1. next' \in Int
    BY <1>0, <1>1 DEF ClockTypes
  <2> QED BY <1>0, <2>1, Sizes DEF InputDelay, ClockTypes
<1>5. InputDelay' <= Delay + Grain * (Backlog + Quantum)
  <2>1. Grain * (Backlog + Quantum) = Grain * Backlog + Grain * Quantum
    BY Sizes, Distributes
  <2>2. Grain * Backlog \in Nat /\ Grain * Quantum \in Nat
    BY Sizes
  <2> QED BY <1>1, <1>4, <2>1, <2>2, Sizes
<1>6. CASE generated > 0 /\ Generate(used, generated, step)
  <2>1. InputDelay' >= Delay /\ retries' = retries /\ refusals' = refusals
    BY <1>1, <1>6 DEF Generate
  <2>2. CASE /\ Cached(generated) /\ pc' = "ready" /\ pace' = step
             /\ UNCHANGED heard
    <3>1. cacheStart' = next
      <4>1. cacheStart' = Grain * fed - (Grain * fed - next)
        BY <1>0, <2>2 DEF Cached, InputDelay
      <4>2. Grain * fed \in Int /\ next \in Int
        BY <1>0, Sizes DEF ClockTypes
      <4> QED BY <4>1, <4>2, Cancels
    <3>2. cacheEnd' = next'
      <4>1. cacheEnd' = Grain * fed' - (Grain * fed' - next')
        BY <1>0, <2>2 DEF Cached, InputDelay
      <4>2. Grain * fed' \in Int
        BY <1>0, Sizes
      <4> QED BY <1>4, <4>1, <4>2, Cancels
    <3>3. cacheCount' = generated /\ cacheOffset' = 0
      BY <2>2 DEF Cached
    <3>4. 0 * step = 0
      OBVIOUS
    <3>5. CacheInv'
      BY <1>0, <1>1, <1>2, <1>6, <2>2, <3>1, <3>2, <3>3, <3>4 DEF CacheInv, ClockTypes
    <3>6. ClockTypes'
      BY <1>0, <1>1, <1>4, <2>1, <2>2, <3>1, <3>2, <3>3 DEF ClockTypes
    <3>7. HeldInv'
      BY <1>5, <2>1, <2>2 DEF HeldInv
    <3> QED BY <3>5, <3>6, <3>7 DEF ClockInv
  <2>3. CASE /\ Failed("adapter") /\ heard' = next'
             /\ UNCHANGED <<cacheStart, cacheEnd, cacheCount, cacheOffset, pace>>
    <3>1. pc' = "fail"
      BY <2>3 DEF Failed
    <3>2. CacheInv'
      BY <1>2, <2>3, <3>1 DEF CacheInv
    <3>3. ClockTypes'
      BY <1>0, <1>4, <2>1, <2>3 DEF ClockTypes
    <3>4. HeldInv'
      BY <1>5, <2>1, <2>3, <3>1 DEF HeldInv
    <3> QED BY <3>2, <3>3, <3>4 DEF ClockInv
  <2> QED BY <1>6, <2>2, <2>3 DEF Generate
<1>7. CASE generated = 0 /\ GenerateNothing(used)
  <2>1. /\ UNCHANGED <<cacheStart, cacheEnd, cacheCount, cacheOffset, heard, pace>>
        /\ refusals' = refusals + (IF used = 0 /\ pending > 0 THEN 1 ELSE 0)
        /\ pc' \in {"fail", "lose", "refill"}
        /\ retries' = retries \/ (IsFinite /\ retries' = retries + 1)
    BY <1>7 DEF GenerateNothing, Failed, Starved
  <2>2. next' = next
    BY <1>0, <1>1, <1>7 DEF ClockTypes
  <2>3. CacheInv'
    BY <1>2, <2>1, <2>2 DEF CacheInv
  <2>4. ClockTypes'
    <3>1. refusals' \in Nat
      BY <1>0, <2>1 DEF ClockTypes
    <3> QED BY <1>0, <2>1, <2>2, <3>1 DEF ClockTypes
  <2>5. InputDelay' >= InputDelay
    BY <1>1, <2>1, <2>2, TakesOrRefused
  <2>6. InputDelay' + Grain * refusals' >= Delay + Grain * retries'
    BY <1>1, <2>1, <2>2, TakesOrRefused
  <2>7. InputDelay' >= Delay
    BY <1>2, <1>4, <2>5, Sizes
  <2>8. HeldInv'
    BY <1>5, <2>1, <2>6, <2>7 DEF HeldInv
  <2> QED BY <2>3, <2>4, <2>8 DEF ClockInv
<1> QED BY <1>1, <1>6, <1>7

LEMMA ClockStep ==
  ASSUME SpaceInv, SpaceInv', ClockInv, Next
  PROVE  ClockInv'
<1> USE DEF callVars, cacheVars, burstVars, truthVars
<1>0. HeldInv /\ CacheInv /\ ClockTypes
  BY DEF ClockInv
\* A step that does not touch the converter or its cache.
<1>1. ASSUME UNCHANGED <<fed, next, retries, refusals, heard, pace>>,
             UNCHANGED <<cacheStart, cacheEnd, cacheCount, cacheOffset>>,
             pc \in {"ready", "drain", "fail"} => pc' \in {"ready", "drain", "fail"},
             pc' = "idle" => pc = "idle",
             pc' \in {"map", "convert"} /\ IsFinite' => pending' > 0,
             pc' \in {"take", "map", "convert", "lose", "fail"} => cacheCount = 0,
             pc' = "ready" => cacheCount > 0
      PROVE  ClockInv'
  BY <1>0, <1>1, HeldKept, CacheKept, ClockKept
<1>2. CASE (\E missing \in BOOLEAN : Publish(missing)) \/ Finish
  <2>1. UNCHANGED consumerVars
    BY <1>2 DEF Publish, Finish
  <2>2. /\ UNCHANGED <<fed, next, retries, refusals, heard, pace, pc, pending, end>>
        /\ UNCHANGED <<cacheStart, cacheEnd, cacheCount, cacheOffset>>
    BY <2>1 DEF consumerVars, spaceVars
  <2>3. IsFinite' = IsFinite
    BY <2>2 DEF IsFinite
  <2> QED BY <1>0, <1>1, <2>2, <2>3 DEF HeldInv, CacheInv
<1>3. CASE RenderBegin
  <2>1. /\ pc = "idle" /\ pc' \in {"idle", "drain", "refill"}
        /\ UNCHANGED <<fed, next, retries, refusals, heard, pace>>
        /\ UNCHANGED <<cacheStart, cacheEnd, cacheCount, cacheOffset>>
    BY <1>3 DEF RenderBegin
  <2> QED BY <1>1, <2>1
<1>4. CASE RefillBegin
  <2>1. /\ pc = "refill" /\ pc' \in {"ready", "take"}
        /\ UNCHANGED <<fed, next, retries, refusals, heard, pace>>
        /\ UNCHANGED <<cacheStart, cacheEnd, cacheCount, cacheOffset>>
    BY <1>4 DEF RefillBegin
  <2>2. /\ pc' = "ready" => cacheOffset < cacheCount
        /\ pc' = "take" => cacheOffset = cacheCount
    BY <1>4 DEF RefillBegin
  <2>3. cacheOffset = cacheCount => cacheCount = 0
    BY <1>0 DEF CacheInv, ClockTypes
  <2>4. cacheOffset < cacheCount => cacheCount > 0
    BY <1>0 DEF ClockTypes
  <2> QED BY <1>1, <2>1, <2>2, <2>3, <2>4
<1>5. CASE TakeSample
  <2>1. /\ pc = "take" /\ pc' \in {"take", "fail"}
        /\ UNCHANGED <<fed, next, retries, refusals, heard, pace>>
        /\ UNCHANGED <<cacheStart, cacheEnd, cacheCount, cacheOffset>>
    BY <1>5 DEF TakeSample, Failed
  <2> QED BY <1>0, <1>1, <2>1 DEF CacheInv
<1>6. CASE TakeEnd
  <2>1. /\ pc = "take" /\ end' = end
        /\ UNCHANGED <<fed, next, refusals, heard, pace>>
        /\ UNCHANGED <<cacheStart, cacheEnd, cacheCount, cacheOffset>>
    BY <1>6 DEF TakeEnd
  <2>2. IsFinite' = IsFinite
    BY <2>1 DEF IsFinite
  <2>3. IsFinite => pending' > 0
    <3>1. CASE pending = 0 /\ IsFinite
      BY <1>6, <3>1, Sizes DEF TakeEnd, Pads
    <3>2. CASE pending # 0
      BY <1>6, <3>2 DEF TakeEnd, Pads, spaceVars, SpaceInv, SpaceTypes
    <3> QED BY <3>1, <3>2
  <2>4. \/ pc' = "map" /\ retries' = retries
        \/ pc' = "lose" /\ retries' = retries
    BY <1>6, <2>3 DEF TakeEnd, Starved
  <2> QED BY <1>0, <1>1, <2>1, <2>2, <2>3, <2>4 DEF CacheInv
<1>7. CASE Map \/ ConvertFails
  <2>1. /\ pc \in {"map", "convert"} /\ pc' \in {"convert", "fail"}
        /\ UNCHANGED <<fed, next, retries, refusals, heard, pace, pending, end>>
        /\ UNCHANGED <<cacheStart, cacheEnd, cacheCount, cacheOffset>>
    BY <1>7 DEF Map, ConvertFails, Failed, spaceVars
  <2>2. IsFinite' = IsFinite
    BY <2>1 DEF IsFinite
  <2> QED BY <1>0, <1>1, <2>1, <2>2 DEF HeldInv, CacheInv
<1>8. CASE ReachEnd
  <2>1. /\ pc' = "drain"
        /\ UNCHANGED <<fed, next, retries, refusals, heard, pace>>
        /\ UNCHANGED <<cacheStart, cacheEnd, cacheCount, cacheOffset>>
    BY <1>8 DEF ReachEnd
  <2> QED BY <1>1, <2>1
<1>9. CASE Complete \/ ConsumerReset
  <2>1. StateReset /\ pc' = "idle"
    BY <1>9 DEF Complete, ConsumerReset, ReturnOutput
  <2>2. retries' = 0 /\ refusals' = 0
    BY <1>0, <1>9 DEF Complete, ConsumerReset, ReturnOutput, HeldInv
  <2> QED BY <2>1, <2>2, ConverterReset
<1> QED
  BY <1>2, <1>3, <1>4, <1>5, <1>6, <1>7, <1>8, <1>9, PlayedClock, ConvertClock DEF Next

\* The converter's clock agrees with what it was given and with the positions the
\* cache was filled at, in every reachable state.
THEOREM ClockInvariance == Spec => []ClockInv
<1>1. Init => ClockInv
  <2> SUFFICES ASSUME Init PROVE ClockInv
    OBVIOUS
  <2>1. /\ fed = 0 /\ next = -Delay /\ heard = next /\ retries = 0 /\ refusals = 0
        /\ cacheCount = 0 /\ cacheOffset = 0 /\ pc = "idle"
    BY DEF Init
  <2>2. InputDelay = Delay
    BY <2>1, Sizes DEF InputDelay
  <2>3. Grain * (Backlog + Quantum) \in Nat /\ Grain * 0 = 0
    BY Sizes
  <2>4. HeldInv
    BY <2>1, <2>2, <2>3, Sizes DEF HeldInv
  <2>5. CacheInv
    BY <2>1 DEF CacheInv
  <2>6. ClockTypes
    <3>1. -Delay \in Int
      BY Sizes
    <3> QED BY <2>1, <3>1 DEF Init, ClockTypes
  <2> QED BY <2>4, <2>5, <2>6 DEF ClockInv
<1>2. ClockInv /\ UNCHANGED vars => ClockInv'
  BY DEF vars, callVars, spaceVars, cacheVars, burstVars, truthVars, ClockInv, ClockTypes, HeldInv,
     CacheInv, InputDelay, IsFinite
<1>3. SpaceInv /\ SpaceInv' /\ ClockInv /\ [Next]_vars => ClockInv'
  BY <1>2, ClockStep
<1> QED BY <1>1, <1>3, SpaceInvariance, PTL DEF Spec

\* What the cache says of an output, computed as the code computes it.
LEMMA ExactPosition ==
  ASSUME ClockInv, pc = "ready"
  PROVE  Position = heard
<1>1. /\ cacheCount \in Nat /\ cacheOffset \in Nat /\ pace \in Nat
      /\ cacheStart \in Int /\ cacheEnd \in Int
  BY DEF ClockInv, ClockTypes
<1>2. /\ cacheCount > 0 /\ cacheEnd = cacheStart + cacheCount * pace
      /\ heard = cacheStart + cacheOffset * pace
  BY DEF ClockInv, CacheInv
<1>3. cacheEnd - cacheStart = cacheCount * pace
  <2>1. cacheCount * pace \in Int
    BY <1>1
  <2> QED BY <1>1, <1>2, <2>1
<1>4. ((cacheCount * pace) * cacheOffset) \div cacheCount = cacheOffset * pace
  BY <1>1, <1>2, ProductDivided
<1> QED BY <1>2, <1>3, <1>4 DEF Position

\* The position that decides what an output belongs to is the place of the
\* source it was made at, at every pace and across padding and failed calls.
THEOREM PositionExactHolds == Spec => []PositionExact
<1>1. ClockInv => PositionExact
  BY ExactPosition DEF PositionExact
<1> QED BY <1>1, ClockInvariance, PTL

-----------------------------------------------------------------------------
(* The library's least-number principle takes an operator; this is the one *)
(* for a set, from the well-founded inclusion of the intervals 1..k.       *)

LEMMA LeastElement ==
  ASSUME NEW T, T \subseteq Nat, T # {}
  PROVE  \E m \in T : \A k \in T : m <= k
<1> DEFINE R == StrictSubsetOrdering(Nat)
           F == {1..k : k \in T}
<1>1. IsWellFoundedOn(R, FiniteSubsetsOf(Nat))
  BY FS_StrictSubsetOrderingWellFounded
<1>2. F \subseteq FiniteSubsetsOf(Nat)
  <2> SUFFICES ASSUME NEW k \in T PROVE 1..k \in FiniteSubsetsOf(Nat)
    OBVIOUS
  <2>1. k \in Nat /\ IsFiniteSet(1..k)
    BY FS_Interval
  <2> QED BY <2>1 DEF FiniteSubsetsOf
<1>3. F # {}
  OBVIOUS
<1> HIDE DEF R
<1>4. \E x \in F : \A y \in F : <<y, x>> \notin R
  BY <1>1, <1>2, <1>3, WFMin
<1>5. PICK m \in T : \A y \in F : <<y, 1..m>> \notin R
  BY <1>4
<1>6. ASSUME NEW k \in T PROVE m <= k
  <2> SUFFICES ASSUME k < m PROVE FALSE
    OBVIOUS
  <2>1. k \in Nat /\ m \in Nat
    OBVIOUS
  <2>2. m \in 1..m /\ m \notin 1..k /\ 1..k \subseteq 1..m /\ 1..m \subseteq Nat
    BY <2>1
  <2>3. <<1..k, 1..m>> \in R
    BY <2>2 DEF R, StrictSubsetOrdering
  <2> QED BY <1>5, <2>3
<1> QED BY <1>5, <1>6

-----------------------------------------------------------------------------
(* The spans.  They name the missing frames between the frame the next     *)
(* output lies in and the last one taken; in order, apart from each other, *)
(* and none of them further behind the converter than one output.          *)

Span == [start : Nat, end : Nat]
Here == next \div Grain
InSpan(spans, f) == \E k \in 1..Len(spans) : spans[k].start <= f /\ f < spans[k].end

Ordered(spans) ==
  /\ spans \in Seq(Span)
  /\ \A k \in 1..Len(spans) : spans[k].start < spans[k].end
  /\ \A j, k \in 1..Len(spans) :
       j < k => /\ spans[j].end < spans[k].start
                /\ spans[j].end + 2 * (k - j) <= spans[k].end

SpanOrder == Ordered(gaps) /\ \A k \in 1..Len(gaps) : gaps[k].end <= taken

SpanAhead ==
  /\ \A k \in 1..Len(gaps) : next - Grain * Quantum < Grain * gaps[k].end
  /\ pc = "convert" => \A k \in 1..Len(gaps) : Here < gaps[k].end

SpanExact == \A f \in 0..(taken - 1) : Here <= f => (source[f + 1] <=> InSpan(gaps, f))

\* Whether an output at a position is made of a missing frame.
Missing(position) == 0 <= position /\ source[(position \div Grain) + 1]

ConcealInv ==
  /\ pc = "convert" => (concealed <=> 0 <= next /\ InSpan(gaps, Here))
  /\ cacheCount > 0 =>
       \A k \in cacheOffset..(cacheCount - 1) :
         cacheStart + k * pace < Grain * taken
           => (concealed <=> Missing(cacheStart + k * pace))

SpanInv == SpanOrder /\ SpanAhead /\ SpanExact /\ ConcealInv

LEMMA SpanTypes ==
  ASSUME NEW spans, Ordered(spans)
  PROVE  /\ Len(spans) \in Nat /\ spans \in Seq(Span)
         /\ \A k \in 1..Len(spans) :
              spans[k] \in Span /\ spans[k].start \in Nat /\ spans[k].end \in Nat
<1>1. spans \in Seq(Span)
  BY DEF Ordered
<1>2. \A k \in 1..Len(spans) : spans[k] \in Span
  BY <1>1, ElementOfSeq
<1>3. \A s \in Span : s.start \in Nat /\ s.end \in Nat
  BY DEF Span
<1> QED BY <1>1, <1>2, <1>3, LenProperties

\* Spans in front of a position are dropped: the first that stays ends behind it.
LEMMA FirstLiveExists ==
  ASSUME Ordered(gaps), NEW position \in Nat
  PROVE  /\ FirstLive(position) \in 1..(Len(gaps) + 1)
         /\ \A i \in 1..(FirstLive(position) - 1) : gaps[i].end <= position
         /\ FirstLive(position) <= Len(gaps) => position < gaps[FirstLive(position)].end
<1>0. Len(gaps) \in Nat /\ \A k \in 1..Len(gaps) : gaps[k].end \in Nat
  BY SpanTypes
<1> DEFINE Live == {k \in 1..Len(gaps) : position < gaps[k].end}
           First(n) == /\ \A i \in 1..(n - 1) : position >= gaps[i].end
                       /\ n <= Len(gaps) => position < gaps[n].end
<1>1. \E n \in 1..(Len(gaps) + 1) : First(n)
  <2>1. CASE Live = {}
    <3>1. \A i \in 1..Len(gaps) : position >= gaps[i].end
      BY <1>0, <2>1
    <3>2. (Len(gaps) + 1) - 1 = Len(gaps) /\ ~(Len(gaps) + 1 <= Len(gaps))
      BY <1>0
    <3>3. First(Len(gaps) + 1)
      BY <3>1, <3>2
    <3> QED BY <1>0, <3>3
  <2>2. CASE Live # {}
    <3>1. Live \subseteq Nat
      BY <1>0
    <3>2. PICK n \in Live : \A k \in Live : n <= k
      BY <2>2, <3>1, LeastElement
    <3>3. \A i \in 1..(n - 1) : i \in 1..Len(gaps) /\ i \notin Live
      BY <1>0, <3>2
    <3>4. First(n)
      BY <1>0, <3>2, <3>3
    <3> QED BY <1>0, <3>2, <3>4
  <2> QED BY <2>1, <2>2
<1>2. FirstLive(position) = CHOOSE n \in 1..(Len(gaps) + 1) : First(n)
  BY DEF FirstLive
<1>3. FirstLive(position) \in 1..(Len(gaps) + 1) /\ First(FirstLive(position))
  BY <1>1, <1>2
<1> QED BY <1>0, <1>3

LEMMA DropSpans ==
  ASSUME NEW spans, Ordered(spans), NEW n \in 1..(Len(spans) + 1)
  PROVE  LET rest == SubSeq(spans, n, Len(spans))
         IN  /\ Ordered(rest) /\ Len(rest) = Len(spans) - n + 1
             /\ \A k \in 1..Len(rest) : rest[k] = spans[n + k - 1]
<1> DEFINE rest == SubSeq(spans, n, Len(spans))
<1>0. Len(spans) \in Nat /\ spans \in Seq(Span) /\ n \in Nat
  BY SpanTypes
<1>1. rest \in Seq(Span) /\ Len(rest) = Len(spans) - n + 1
  BY <1>0, SubSeqProperties
<1>2. \A k \in 1..Len(rest) : rest[k] = spans[n + k - 1] /\ n + k - 1 \in 1..Len(spans)
  BY <1>0, <1>1, SubSeqProperties
<1> HIDE DEF rest
<1>3. \A k \in 1..Len(rest) : rest[k].start < rest[k].end
  BY <1>2 DEF Ordered
<1>4. ASSUME NEW j \in 1..Len(rest), NEW k \in 1..Len(rest), j < k
      PROVE  rest[j].end < rest[k].start /\ rest[j].end + 2 * (k - j) <= rest[k].end
  <2>1. n + j - 1 < n + k - 1 /\ (n + k - 1) - (n + j - 1) = k - j
    BY <1>0, <1>1, <1>4
  <2> QED BY <1>2, <1>4, <2>1 DEF Ordered
<1>5. Ordered(rest)
  BY <1>1, <1>3, <1>4 DEF Ordered
<1> QED BY <1>1, <1>2, <1>5 DEF rest

\* A span of one frame behind all others.
LEMMA AppendSpan ==
  ASSUME NEW spans, Ordered(spans), NEW t \in Nat, \A k \in 1..Len(spans) : spans[k].end < t
  PROVE  LET more == Append(spans, [start |-> t, end |-> t + 1])
         IN  /\ Ordered(more) /\ Len(more) = Len(spans) + 1
             /\ \A k \in 1..Len(spans) : more[k] = spans[k]
             /\ more[Len(spans) + 1].start = t /\ more[Len(spans) + 1].end = t + 1
<1> DEFINE new == [start |-> t, end |-> t + 1]
           more == Append(spans, new)
           n == Len(spans)
<1>0. n \in Nat /\ spans \in Seq(Span) /\ \A k \in 1..n : spans[k].end \in Nat
  BY SpanTypes
<1>1. new \in Span /\ new.start = t /\ new.end = t + 1
  BY DEF Span
<1>2. /\ more \in Seq(Span) /\ Len(more) = n + 1
      /\ \A k \in 1..n : more[k] = spans[k]
      /\ more[n + 1] = new
  BY <1>0, <1>1, AppendProperties
<1>3. \A k \in 1..n : spans[k].end < t
  OBVIOUS
<1>4. /\ \A k \in 1..n : spans[k].start < spans[k].end
      /\ \A j, k \in 1..n : j < k => /\ spans[j].end < spans[k].start
                                     /\ spans[j].end + 2 * (k - j) <= spans[k].end
  BY DEF Ordered
<1>5. \A j \in 1..n : spans[j].end + 2 * (n - j) <= spans[n].end
  <2> SUFFICES ASSUME NEW j \in 1..n PROVE spans[j].end + 2 * (n - j) <= spans[n].end
    OBVIOUS
  <2>1. CASE j = n
    BY <1>0, <2>1
  <2>2. CASE j # n
    <3>1. j < n /\ n \in 1..n
      BY <1>0, <2>2
    <3> QED BY <1>4, <3>1
  <2> QED BY <2>1, <2>2
<1> HIDE DEF new, more, n
<1>6. \A k \in 1..(n + 1) : more[k].start < more[k].end
  <2> SUFFICES ASSUME NEW k \in 1..(n + 1) PROVE more[k].start < more[k].end
    OBVIOUS
  <2>1. CASE k \in 1..n
    BY <1>2, <1>4, <2>1
  <2>2. CASE k = n + 1
    BY <1>1, <1>2, <2>2
  <2> QED BY <1>0, <2>1, <2>2
<1>7. ASSUME NEW j \in 1..(n + 1), NEW k \in 1..(n + 1), j < k
      PROVE  more[j].end < more[k].start /\ more[j].end + 2 * (k - j) <= more[k].end
  <2>1. j \in 1..n /\ more[j] = spans[j]
    BY <1>0, <1>2, <1>7
  <2>2. CASE k \in 1..n
    BY <1>2, <1>4, <1>7, <2>1, <2>2
  <2>3. CASE k = n + 1
    <3>1. more[j].end < more[k].start
      BY <1>1, <1>2, <1>3, <2>1, <2>3
    <3>2. spans[j].end + 2 * (n - j) <= spans[n].end /\ spans[n].end < t /\ n \in 1..n
      BY <1>0, <1>3, <1>5, <2>1
    <3>3. \A a, b \in Nat : a + 2 * (n - j) <= b /\ b < t => a + 2 * (n + 1 - j) <= t + 1
      BY <1>0
    <3>4. spans[j].end \in Nat /\ spans[n].end \in Nat
      BY <1>0, <2>1, <3>2
    <3>5. spans[j].end + 2 * (n + 1 - j) <= t + 1
      BY <3>2, <3>3, <3>4
    <3>6. more[j].end = spans[j].end /\ more[k].end = t + 1
      BY <1>1, <1>2, <2>1, <2>3
    <3>7. 2 * (k - j) = 2 * (n + 1 - j)
      BY <1>0, <2>3
    <3>8. more[j].end + 2 * (k - j) <= more[k].end
      BY <3>5, <3>6, <3>7
    <3> QED BY <3>1, <3>8
  <2> QED BY <1>0, <2>2, <2>3
<1>8. Ordered(more)
  BY <1>2, <1>6, <1>7 DEF Ordered
<1> QED BY <1>1, <1>2, <1>8 DEF new, more, n

LEMMA GrowSpan ==
  ASSUME NEW s \in Span, NEW t \in Nat
  PROVE  /\ [s EXCEPT !.end = t + 1] \in Span
         /\ [s EXCEPT !.end = t + 1].start = s.start /\ [s EXCEPT !.end = t + 1].end = t + 1
BY DEF Span

\* The last span grown by the frame behind it.
LEMMA ExtendSpan ==
  ASSUME Ordered(gaps), gaps # <<>>, taken \in Nat, gaps[Len(gaps)].end = taken,
         gaps' = [gaps EXCEPT ![Len(gaps)].end = taken + 1]
  PROVE  /\ Ordered(gaps') /\ Len(gaps') = Len(gaps)
         /\ \A k \in 1..(Len(gaps) - 1) : gaps'[k] = gaps[k]
         /\ gaps'[Len(gaps)].start = gaps[Len(gaps)].start
         /\ gaps'[Len(gaps)].end = taken + 1
<1> DEFINE n == Len(gaps)
           new == [gaps[n] EXCEPT !.end = taken + 1]
<1>0. /\ n \in Nat /\ gaps \in Seq(Span) /\ n > 0 /\ n \in 1..n
      /\ \A k \in 1..n : gaps[k] \in Span /\ gaps[k].start \in Nat /\ gaps[k].end \in Nat
  BY SpanTypes, EmptySeq
<1>1. new \in Span /\ new.start = gaps[n].start /\ new.end = taken + 1
  BY <1>0, GrowSpan
<1>3. gaps' = [gaps EXCEPT ![n] = new]
  OBVIOUS
<1>2. /\ gaps' \in Seq(Span) /\ Len(gaps') = n /\ gaps'[n] = new
      /\ \A k \in 1..n : k # n => gaps'[k] = gaps[k]
  BY <1>0, <1>1, <1>3, ExceptSeq
<1>4. /\ \A k \in 1..n : gaps[k].start < gaps[k].end
      /\ \A j, k \in 1..n : j < k => /\ gaps[j].end < gaps[k].start
                                     /\ gaps[j].end + 2 * (k - j) <= gaps[k].end
      /\ gaps[n].end = taken
  BY DEF Ordered
<1> HIDE DEF new, n
<1>5. \A k \in 1..n : gaps'[k].start = gaps[k].start /\ (k # n => gaps'[k].end = gaps[k].end)
  BY <1>1, <1>2
<1>6. gaps'[n].end = taken + 1 /\ \A k \in 1..n : gaps[k].end <= gaps'[k].end /\ gaps'[k].end \in Nat
  BY <1>0, <1>1, <1>2, <1>4, <1>5
<1>7. ASSUME NEW k \in 1..n
      PROVE  gaps'[k].start < gaps'[k].end
  <2>1. gaps[k].start < gaps[k].end /\ gaps[k].end <= gaps'[k].end
    BY <1>4, <1>6
  <2>2. gaps[k].start \in Nat /\ gaps[k].end \in Nat /\ gaps'[k].end \in Nat
    BY <1>0, <1>6
  <2>3. gaps'[k].start = gaps[k].start
    BY <1>5
  <2> QED BY <2>1, <2>2, <2>3
<1>8. ASSUME NEW j \in 1..n, NEW k \in 1..n, j < k
      PROVE  gaps'[j].end < gaps'[k].start /\ gaps'[j].end + 2 * (k - j) <= gaps'[k].end
  <2>1. j # n /\ gaps'[j].end = gaps[j].end
    BY <1>0, <1>5, <1>8
  <2>2. gaps[j].end + 2 * (k - j) <= gaps[k].end /\ gaps[j].end < gaps[k].start
    BY <1>4, <1>8
  <2>3. gaps[k].end <= gaps'[k].end /\ gaps'[k].start = gaps[k].start
    BY <1>5, <1>6
  <2>4. gaps[j].end \in Nat /\ gaps[k].end \in Nat /\ gaps'[k].end \in Nat
    BY <1>0, <1>6
  <2>5. gaps'[j].end < gaps'[k].start
    BY <2>1, <2>2, <2>3
  <2>6. gaps[j].end + 2 * (k - j) <= gaps'[k].end
    BY <2>2, <2>3, <2>4
  <2> QED BY <2>1, <2>5, <2>6
<1>9. Ordered(gaps')
  BY <1>2, <1>7, <1>8 DEF Ordered
<1>10. \A k \in 1..(n - 1) : gaps'[k] = gaps[k]
  BY <1>0, <1>2
<1> QED BY <1>1, <1>2, <1>9, <1>10 DEF n

LEMMA TicksOfFrame ==
  ASSUME NEW x \in Int
  PROVE  /\ x \div Grain \in Int
         /\ Grain * (x \div Grain) <= x /\ x < Grain * (x \div Grain) + Grain
         /\ 0 <= x => x \div Grain \in Nat
         /\ x < 0 => x \div Grain < 0
BY Sizes

\* Dividing by the grain keeps the order of positions.
LEMMA FrameMonotone ==
  ASSUME NEW x \in Int, NEW y \in Int, x <= y
  PROVE  x \div Grain <= y \div Grain
BY Sizes

LEMMA FrameBelow ==
  ASSUME NEW x \in Int, NEW f \in Int
  PROVE  x < Grain * f <=> x \div Grain < f
BY Sizes

LEMMA PrefixCovers == Prefix \in Nat /\ Delay <= Grain * Prefix
<1>1. Prefix = (Delay + Grain - 1) \div Grain
  BY DEF Prefix, Ceil
<1>2. Delay + Grain - 1 \in Int
  BY Sizes
<1>3. /\ Prefix \in Int
      /\ Delay + Grain - 1 < Grain * Prefix + Grain
      /\ 0 <= Delay + Grain - 1 => Prefix \in Nat
  BY <1>1, <1>2, TicksOfFrame
<1>4. Grain * Prefix \in Int
  BY <1>3, Sizes
<1> QED BY <1>3, <1>4, Sizes

\* The store of spans never fills while frames are taken: the spans lie
\* between what the converter is at and what the workspace can hold.
LEMMA GapRoom ==
  ASSUME SpaceInv, ClockInv, SpanOrder, SpanAhead, ~padding
  PROVE  Len(gaps) < GapCapacity
<1>0. /\ taken \in Nat /\ accepted \in Nat /\ pending \in Nat /\ next \in Int /\ Len(gaps) \in Nat
      /\ fed = accepted + padded /\ padded = 0 /\ taken = accepted + pending
      /\ offset \in Nat /\ offset + pending <= Capacity
      /\ InputDelay <= Delay + Grain * (Backlog + Quantum)
  BY SpanTypes DEF SpanOrder, SpaceInv, SpaceTypes, ClockInv, ClockTypes, HeldInv
<1>1. taken <= fed + Capacity /\ fed \in Nat
  BY <1>0, Sizes
<1>2. GapCapacity = 2 * Capacity + Prefix + 2 /\ GapCapacity \in Nat /\ GapCapacity > 0
  BY Sizes, PrefixCovers DEF GapCapacity
<1>3. CASE Len(gaps) = 0
  BY <1>2, <1>3
<1>4. CASE Len(gaps) > 0
  <2> DEFINE n == Len(gaps)
             e == gaps[1].end
  <2>1. e \in Nat /\ n \in Nat /\ n > 0
    BY <1>0, <1>4, SpanTypes DEF SpanOrder
  <2>2. next - Grain * Quantum < Grain * e
    BY <1>0, <1>4 DEF SpanAhead
  <2>3. e + 2 * (n - 1) <= taken
    <3>1. gaps[n].end \in Nat /\ gaps[n].end <= taken
      BY <1>4, SpanTypes, <2>1 DEF SpanOrder
    <3>2. 1 < n => e + 2 * (n - 1) <= gaps[n].end
      <4>1. 1 \in 1..n /\ n \in 1..n
        BY <2>1
      <4>2. \A j, k \in 1..n : j < k => gaps[j].end + 2 * (k - j) <= gaps[k].end
        BY DEF SpanOrder, Ordered
      <4> QED BY <4>1, <4>2
    <3>3. n = 1 => e <= taken
      BY <3>1
    <3> HIDE DEF n, e
    <3> QED BY <1>0, <2>1, <3>1, <3>2, <3>3
  <2> HIDE DEF n, e
  <2>4. fed - Prefix - Backlog - 2 * Quantum < e
    <3>1. Grain * fed - InputDelay = next
      BY <1>0, <1>1, Sizes DEF InputDelay
    <3>2. Grain * (Backlog + Quantum) = Grain * Backlog + Grain * Quantum
      BY Sizes, Distributes
    <3>3. /\ Grain * Backlog \in Int /\ Grain * Quantum \in Int /\ Grain * fed \in Int
          /\ Grain * Prefix \in Int /\ Grain * e \in Int /\ InputDelay \in Int
      BY <1>0, <1>1, <2>1, Sizes, PrefixCovers DEF InputDelay
    <3>4. Grain * fed - Grain * Prefix - Grain * Backlog - 2 * (Grain * Quantum) < Grain * e
      BY <1>0, <2>2, <3>1, <3>2, <3>3, PrefixCovers, Sizes
    <3>5. Grain * (fed - Prefix - Backlog - 2 * Quantum)
            = Grain * fed - Grain * Prefix - Grain * Backlog - 2 * (Grain * Quantum)
      BY <1>1, Sizes, PrefixCovers
    <3>6. fed - Prefix - Backlog - 2 * Quantum \in Int
      BY <1>1, Sizes, PrefixCovers
    <3>7. ~(e <= fed - Prefix - Backlog - 2 * Quantum)
      BY <2>1, <3>3, <3>4, <3>5, <3>6, ProductMonotone, Sizes
    <3> QED BY <2>1, <3>6, <3>7
  <2>5. 2 * (n - 1) < Capacity + Prefix + Backlog + 2 * Quantum
    BY <1>0, <1>1, <2>1, <2>3, <2>4, Sizes, PrefixCovers
  <2>6. 2 * (n - 1) < 3 * Capacity + Prefix
    BY <2>1, <2>5, Sizes, PrefixCovers
  <2>7. n < GapCapacity
    BY <1>2, <2>1, <2>6, Sizes, PrefixCovers
  <2> QED BY <2>7 DEF n
<1> QED BY <1>0, <1>3, <1>4

-----------------------------------------------------------------------------
(* The steps that read, cut or extend the spans.                           *)

\* A position in front of what was taken lies in a frame that was taken.
LEMMA FrameTaken ==
  ASSUME NEW t \in Nat, NEW p \in Int, 0 <= p, p < Grain * t
  PROVE  p \div Grain \in 0..(t - 1)
<1>1. p \div Grain < t
  BY FrameBelow
<1>2. p \div Grain \in Nat
  BY TicksOfFrame
<1> QED BY <1>1, <1>2

\* The position that is mapped is the frame the next output lies in.
LEMMA MapsHere ==
  ASSUME NEW f \in Nat, NEW n \in Int
  PROVE  Ceil(Grain * f - n, Grain) \in Int /\ f - Ceil(Grain * f - n, Grain) = n \div Grain
<1> DEFINE q == n \div Grain
           d == Grain * f - n + Grain - 1
<1>1. q \in Int /\ Grain * q <= n /\ n < Grain * q + Grain
  BY TicksOfFrame
<1>2. Ceil(Grain * f - n, Grain) = d \div Grain
  BY DEF Ceil
<1>3. d \in Int /\ Grain * f \in Int
  BY Sizes
<1>4. /\ d \div Grain \in Int
      /\ Grain * (d \div Grain) <= d /\ d < Grain * (d \div Grain) + Grain
  BY <1>3, TicksOfFrame
<1> DEFINE c == d \div Grain
<1>5. d = Grain * f - n + Grain - 1
  OBVIOUS
<1> HIDE DEF q, d, c
<1>6. c \in Int /\ Grain * c <= d /\ d < Grain * c + Grain
  BY <1>4 DEF c
<1>7. f - c = q
  <2>1. Grain * (f - q) = Grain * f - Grain * q /\ Grain * q \in Int
    BY <1>1, Sizes
  <2>2. Grain * (f - q) <= d /\ d < Grain * (f - q) + Grain
    BY <1>1, <1>3, <1>5, <2>1, Sizes
  <2>3. \A a, b \in Int : Grain * a <= d /\ d < Grain * b + Grain => a <= b
    <3> SUFFICES ASSUME NEW a \in Int, NEW b \in Int,
                        Grain * a <= d, d < Grain * b + Grain, b + 1 <= a
                 PROVE  FALSE
      OBVIOUS
    <3>1. Grain * (b + 1) <= Grain * a
      BY Sizes, ProductMonotone
    <3>2. Grain * (b + 1) = Grain * b + Grain
      BY Sizes
    <3> QED BY <1>3, <3>1, <3>2, Sizes
  <2>4. f - q \in Int
    BY <1>1
  <2>5. f - q <= c /\ c <= f - q
    BY <1>6, <2>2, <2>3, <2>4
  <2> QED BY <1>1, <1>6, <2>5
<1> QED BY <1>2, <1>6, <1>7 DEF c, q

\* The converter is not ahead of the frames it was given.
LEMMA NextBehind ==
  ASSUME SpaceInv, ClockInv
  PROVE  /\ next <= Grain * fed - Delay /\ next <= Grain * fed
         /\ ~padding => next <= Grain * taken
<1>1. /\ fed \in Nat /\ next \in Int /\ accepted \in Nat /\ pending \in Nat /\ taken \in Nat
      /\ InputDelay >= Delay /\ fed = accepted + padded
      /\ ~padding => padded = 0 /\ taken = accepted + pending
  BY DEF SpaceInv, SpaceTypes, ClockInv, ClockTypes, HeldInv
<1>2. Grain * fed \in Int /\ Grain * taken \in Int
  BY <1>1, Sizes
<1>3. Grain * fed - next >= Delay
  BY <1>1 DEF InputDelay
<1>4. next <= Grain * fed - Delay /\ next <= Grain * fed
  BY <1>1, <1>2, <1>3, Sizes
<1>5. ~padding => Grain * fed <= Grain * taken
  <2>1. ~padding => fed <= taken
    BY <1>1
  <2> QED BY <1>1, <2>1, Sizes, ProductMonotone
<1> QED BY <1>1, <1>2, <1>4, <1>5

LEMMA SpanKept ==
  ASSUME SpanInv, UNCHANGED <<source, gaps, taken, next, concealed>>,
         UNCHANGED <<cacheStart, cacheCount, cacheOffset, pace>>,
         pc' = "convert" => pc = "convert"
  PROVE  SpanInv'
BY DEF SpanInv, SpanOrder, SpanAhead, SpanExact, ConcealInv, Here, Missing

\* With the cache spent nothing is left to say of its positions.
LEMMA SpentCache ==
  ASSUME cacheCount' = 0, pc' # "convert"
  PROVE  ConcealInv'
BY DEF ConcealInv

LEMMA SpanReset ==
  ASSUME StateReset, pc' # "convert"
  PROVE  SpanInv'
<1>1. gaps' = <<>> /\ taken' = 0 /\ cacheCount' = 0
  BY DEF StateReset, Forgotten
<1>2. SpanOrder' /\ SpanAhead'
  BY <1>1 DEF SpanOrder, Ordered, SpanAhead
<1>3. SpanExact'
  BY <1>1 DEF SpanExact
<1>4. ConcealInv'
  BY <1>1, SpentCache
<1> QED BY <1>2, <1>3, <1>4 DEF SpanInv

LEMMA PublishSpan ==
  ASSUME SpaceInv, ClockInv, SpanInv, NEW missing \in BOOLEAN, Publish(missing)
  PROVE  SpanInv'
<1>0. /\ taken \in Nat /\ taken <= Len(source) /\ source \in Seq(BOOLEAN)
      /\ cacheStart \in Int /\ cacheCount \in Nat /\ cacheOffset \in Nat /\ pace \in Nat
  BY DEF SpaceInv, SpaceTypes, ClockInv, ClockTypes
<1>1. /\ source' = Append(source, missing)
      /\ UNCHANGED <<gaps, taken, next, concealed, pc>>
      /\ UNCHANGED <<cacheStart, cacheCount, cacheOffset, pace>>
  BY DEF Publish, consumerVars, callVars, clockVars, cacheVars, truthVars
<1>2. \A f \in 0..(taken - 1) : source'[f + 1] = source[f + 1]
  <2> SUFFICES ASSUME NEW f \in 0..(taken - 1) PROVE source'[f + 1] = source[f + 1]
    OBVIOUS
  <2>1. f + 1 \in 1..Len(source)
    BY <1>0
  <2> QED BY <1>0, <1>1, <2>1, AppendProperties
<1>3. SpanOrder' /\ SpanAhead'
  BY <1>1 DEF SpanInv, SpanOrder, SpanAhead, Here
<1>4. SpanExact'
  BY <1>1, <1>2 DEF SpanInv, SpanExact, Here
<1>5. \A p \in Int : p < Grain * taken => (Missing(p)' <=> Missing(p))
  BY <1>0, <1>2, FrameTaken DEF Missing
<1>6. ConcealInv'
  <2>1. pc' = "convert" => (concealed' <=> 0 <= next' /\ InSpan(gaps', Here'))
    BY <1>1 DEF SpanInv, ConcealInv, Here
  <2>2. ASSUME cacheCount > 0, NEW k \in cacheOffset..(cacheCount - 1),
               cacheStart + k * pace < Grain * taken
        PROVE  concealed' <=> Missing(cacheStart + k * pace)'
    <3>1. cacheStart + k * pace \in Int
      <4>1. k \in Int /\ \A a, b \in Int : a * b \in Int
        BY <1>0
      <4> QED BY <1>0, <4>1
    <3>2. concealed <=> Missing(cacheStart + k * pace)
      BY <2>2 DEF SpanInv, ConcealInv
    <3>3. Missing(cacheStart + k * pace)' <=> Missing(cacheStart + k * pace)
      BY <1>1, <1>5, <2>2, <3>1 DEF Missing
    <3> QED BY <1>1, <3>2, <3>3
  <2> QED BY <1>1, <2>1, <2>2 DEF ConcealInv, Missing
<1> QED BY <1>3, <1>4, <1>6 DEF SpanInv

\* The store of spans has room, so a frame that can be taken is.
LEMMA SampleTaken ==
  ASSUME SpaceInv, ClockInv, SpanInv, TakeSample
  PROVE  /\ Spanned(source[taken + 1])
         /\ taken' = taken + 1 /\ pending' = pending + 1 /\ pc = "take"
         /\ source[taken + 1] \in BOOLEAN /\ taken < Len(source) /\ ~padding
         /\ UNCHANGED <<pc, source, finish, retries, padding, accepted, padded, fed, next, end>>
         /\ UNCHANGED <<concealed, cacheStart, cacheEnd, cacheCount, cacheOffset, consecutive>>
         /\ UNCHANGED <<heard, pace, last, cause, refusals>>
<1>1. ~padding /\ Unread > 0
  BY DEF TakeSample, Wanting
<1>2. Len(gaps) # GapCapacity
  <2>1. Len(gaps) < GapCapacity
    BY <1>1, GapRoom DEF SpanInv
  <2>2. Len(gaps) \in Nat
    BY SpanTypes DEF SpanInv, SpanOrder
  <2>3. GapCapacity \in Nat
    BY Sizes, PrefixCovers DEF GapCapacity
  <2> QED BY <2>1, <2>2, <2>3
<1>3. taken < Len(source) /\ source[taken + 1] \in BOOLEAN
  <2>1. taken \in Nat /\ source \in Seq(BOOLEAN)
    BY DEF SpaceInv, SpaceTypes
  <2>2. taken < Len(source)
    BY <1>1, <2>1 DEF Unread
  <2>3. taken + 1 \in 1..Len(source)
    BY <2>1, <2>2
  <2> QED BY <2>1, <2>2, <2>3, ElementOfSeq
<1> QED BY <1>1, <1>2, <1>3 DEF TakeSample, cacheVars, burstVars, truthVars

LEMMA TakeSampleSpan ==
  ASSUME SpaceInv, ClockInv, SpanInv, TakeSample
  PROVE  SpanInv'
<1>0. /\ taken \in Nat /\ next \in Int /\ Ordered(gaps) /\ Len(gaps) \in Nat
      /\ \A k \in 1..Len(gaps) : gaps[k].end <= taken /\ gaps[k].end \in Nat
  BY SpanTypes DEF SpaceInv, SpaceTypes, ClockInv, ClockTypes, SpanInv, SpanOrder
<1>1. /\ Spanned(source[taken + 1])
      /\ taken' = taken + 1 /\ pc = "take" /\ source[taken + 1] \in BOOLEAN /\ ~padding
      /\ UNCHANGED <<pc, source, next, cacheCount>>
  BY SampleTaken
<1>2. cacheCount' = 0 /\ pc' # "convert"
  BY <1>1 DEF ClockInv, CacheInv
<1>3. ConcealInv'
  BY <1>2, SpentCache
<1>4. Here' = Here
  BY <1>1 DEF Here
\* What the new spans have to be.
<1>5. ASSUME Ordered(gaps'),
             \A k \in 1..Len(gaps') : gaps'[k].end <= taken + 1,
             \A k \in 1..Len(gaps') : next - Grain * Quantum < Grain * gaps'[k].end,
             \A f \in 0..(taken - 1) : InSpan(gaps', f) <=> InSpan(gaps, f),
             InSpan(gaps', taken) <=> source[taken + 1]
      PROVE  SpanInv'
  <2>1. SpanOrder' /\ SpanAhead'
    BY <1>1, <1>5 DEF SpanOrder, SpanAhead
  <2>2. SpanExact'
    <3> SUFFICES ASSUME NEW f \in 0..taken, Here <= f
                 PROVE  source[f + 1] <=> InSpan(gaps', f)
      <4>1. 0..(taken' - 1) = 0..taken
        BY <1>0, <1>1
      <4> QED BY <1>1, <1>4, <4>1 DEF SpanExact
    <3>1. CASE f = taken
      BY <1>5, <3>1
    <3>2. CASE f # taken
      <4>1. f \in 0..(taken - 1)
        BY <1>0, <3>2
      <4> QED BY <1>5, <4>1 DEF SpanInv, SpanExact
    <3> QED BY <3>1, <3>2
  <2> QED BY <1>3, <2>1, <2>2 DEF SpanInv
<1>6. \A k \in 1..Len(gaps) : next - Grain * Quantum < Grain * gaps[k].end
  BY DEF SpanInv, SpanAhead
<1>7. next - Grain * Quantum < Grain * (taken + 1)
  <2>1. next <= Grain * taken
    BY <1>1, NextBehind
  <2>2. Grain * (taken + 1) = Grain * taken + Grain /\ Grain * taken \in Int
    BY <1>0, Sizes
  <2>3. Grain * Quantum \in Nat
    BY Sizes
  <2> QED BY <1>0, <2>1, <2>2, <2>3, Sizes
<1>8. CASE source[taken + 1] = FALSE
  <2>1. gaps' = gaps
    BY <1>1, <1>8 DEF Spanned
  <2>2. ~InSpan(gaps, taken)
    BY <1>0 DEF InSpan
  <2>3. \A k \in 1..Len(gaps) : gaps[k].end <= taken + 1
    BY <1>0
  <2> QED BY <1>0, <1>5, <1>6, <1>8, <2>1, <2>2, <2>3
<1>9. CASE source[taken + 1] = TRUE /\ Continues
  <2> DEFINE n == Len(gaps)
  <2>1. gaps # <<>> /\ gaps[n].end = taken
    BY <1>9 DEF Continues
  <2>2. gaps' = [gaps EXCEPT ![n].end = taken + 1]
    BY <1>1, <1>9 DEF Spanned
  <2>3. /\ Ordered(gaps') /\ Len(gaps') = n
        /\ \A k \in 1..(n - 1) : gaps'[k] = gaps[k]
        /\ gaps'[n].start = gaps[n].start /\ gaps'[n].end = taken + 1
    <3>1. /\ Ordered(gaps) /\ gaps # <<>> /\ taken \in Nat /\ gaps[Len(gaps)].end = taken
          /\ gaps' = [gaps EXCEPT ![Len(gaps)].end = taken + 1]
      BY <1>0, <2>1, <2>2
    <3> HIDE DEF n
    <3>2. /\ Ordered(gaps') /\ Len(gaps') = Len(gaps)
          /\ \A k \in 1..(Len(gaps) - 1) : gaps'[k] = gaps[k]
          /\ gaps'[Len(gaps)].start = gaps[Len(gaps)].start
          /\ gaps'[Len(gaps)].end = taken + 1
      BY <3>1, ExtendSpan
    <3> QED BY <3>2 DEF n
  <2>4. n \in 1..n /\ gaps[n].start < gaps[n].end
    BY <1>0, <2>1, EmptySeq DEF Ordered
  <2>5. gaps[n].start \in Nat
    BY <1>0, <2>4, SpanTypes
  <2> HIDE DEF n
  <2>6. \A k \in 1..n : k \in 1..(n - 1) \/ k = n
    BY <2>4
  <2>7. \A k \in 1..n : gaps'[k].end <= taken + 1
    BY <1>0, <2>3, <2>6 DEF n
  <2>8. \A k \in 1..n : next - Grain * Quantum < Grain * gaps'[k].end
    BY <1>6, <1>7, <2>3, <2>6 DEF n
  <2>9. InSpan(gaps', taken)
    BY <1>0, <2>1, <2>3, <2>4, <2>5 DEF InSpan
  <2>10. \A f \in 0..(taken - 1) : InSpan(gaps', f) <=> InSpan(gaps, f)
    <3> SUFFICES ASSUME NEW f \in 0..(taken - 1) PROVE InSpan(gaps', f) <=> InSpan(gaps, f)
      OBVIOUS
    <3>1. f < taken /\ f < taken + 1
      BY <1>0
    <3>2. \A k \in 1..n : (gaps'[k].start <= f /\ f < gaps'[k].end)
                             <=> (gaps[k].start <= f /\ f < gaps[k].end)
      BY <2>1, <2>3, <2>6, <3>1
    <3> QED BY <2>3, <3>2 DEF InSpan, n
  <2> QED BY <1>5, <1>9, <2>3, <2>7, <2>8, <2>9, <2>10
<1>10. CASE source[taken + 1] = TRUE /\ ~Continues
  <2> DEFINE n == Len(gaps)
  <2>1. gaps' = Append(gaps, [start |-> taken, end |-> taken + 1])
    BY <1>1, <1>10 DEF Spanned
  <2>2. \A k \in 1..n : gaps[k].end < taken
    <3> SUFFICES ASSUME NEW k \in 1..n PROVE gaps[k].end < taken
      OBVIOUS
    <3>1. n \in 1..n /\ gaps # <<>>
      BY <1>0
    <3>2. gaps[n].end <= taken /\ gaps[n].end # taken /\ gaps[n].end \in Nat
      BY <1>0, <1>10, <3>1 DEF Continues
    <3>3. CASE k = n
      BY <1>0, <3>2, <3>3
    <3>4. CASE k # n
      <4>1. k < n
        BY <1>0, <3>4
      <4>2. gaps[k].end < gaps[n].start /\ gaps[n].start < gaps[n].end /\ gaps[n].start \in Nat
        BY <1>0, <3>1, <4>1, SpanTypes DEF Ordered
      <4> QED BY <1>0, <3>2, <4>2
    <3> QED BY <3>3, <3>4
  <2>3. /\ Ordered(gaps') /\ Len(gaps') = n + 1
        /\ \A k \in 1..n : gaps'[k] = gaps[k]
        /\ gaps'[n + 1].start = taken /\ gaps'[n + 1].end = taken + 1
    BY <1>0, <2>1, <2>2, AppendSpan
  <2>4. n \in Nat /\ \A k \in 1..(n + 1) : k \in 1..n \/ k = n + 1
    BY <1>0
  <2> HIDE DEF n
  <2>5. \A k \in 1..(n + 1) : gaps'[k].end <= taken + 1
    BY <1>0, <2>3, <2>4 DEF n
  <2>6. \A k \in 1..(n + 1) : next - Grain * Quantum < Grain * gaps'[k].end
    BY <1>6, <1>7, <2>3, <2>4 DEF n
  <2>7. InSpan(gaps', taken)
    <3>1. n + 1 \in 1..(n + 1)
      BY <2>4
    <3> QED BY <1>0, <2>3, <3>1 DEF InSpan
  <2>8. \A f \in 0..(taken - 1) : InSpan(gaps', f) <=> InSpan(gaps, f)
    <3> SUFFICES ASSUME NEW f \in 0..(taken - 1) PROVE InSpan(gaps', f) <=> InSpan(gaps, f)
      OBVIOUS
    <3>1. ~(taken <= f) /\ 1..n \subseteq 1..(n + 1)
      BY <1>0, <2>4
    <3> QED BY <2>3, <2>4, <3>1 DEF InSpan, n
  <2> QED BY <1>5, <1>10, <2>3, <2>5, <2>6, <2>7, <2>8
<1> QED BY <1>1, <1>8, <1>9, <1>10

\* Dropping the spans in front of a position, as the mapping does.
LEMMA MappedSpans ==
  ASSUME Ordered(gaps), NEW p \in Int, MappedTo(p)
  PROVE  /\ Ordered(gaps')
         /\ \A k \in 1..Len(gaps') : p < gaps'[k].end
         /\ \A k \in 1..Len(gaps') : \E j \in 1..Len(gaps) : gaps'[k] = gaps[j]
         /\ \A f \in Nat : p <= f => (InSpan(gaps', f) <=> InSpan(gaps, f))
         /\ concealed' <=> 0 <= p /\ InSpan(gaps', p)
<1>0. /\ Len(gaps) \in Nat
      /\ \A k \in 1..Len(gaps) : gaps[k].start \in Nat /\ gaps[k].end \in Nat
  BY SpanTypes
<1>1. CASE p < 0
  <2>1. ~(0 <= p) /\ ~(p >= 0)
    BY <1>1
  <2>2. gaps' = gaps /\ concealed' = (p >= 0 /\ gaps' # <<>> /\ p >= gaps'[1].start)
    BY <1>1 DEF MappedTo
  <2>3. ~concealed'
    BY <2>1, <2>2, Zenon
  <2> QED BY <1>0, <1>1, <2>1, <2>2, <2>3
<1>2. CASE 0 <= p
  <2> DEFINE n == FirstLive(p)
             rest == SubSeq(gaps, n, Len(gaps))
  <2>0. p \in Nat
    BY <1>2
  <2>1. /\ n \in 1..(Len(gaps) + 1)
        /\ \A i \in 1..(n - 1) : gaps[i].end <= p
        /\ n <= Len(gaps) => p < gaps[n].end
    BY <2>0, FirstLiveExists
  <2>2. gaps' = rest /\ (concealed' <=> gaps' # <<>> /\ p >= gaps'[1].start)
    <3>1. ~(p < 0) /\ p >= 0
      BY <1>2
    <3>2. gaps' = rest /\ concealed' = (p >= 0 /\ gaps' # <<>> /\ p >= gaps'[1].start)
      BY <3>1 DEF MappedTo
    <3> QED BY <3>1, <3>2, Zenon
  <2>3. /\ Ordered(rest) /\ Len(rest) = Len(gaps) - n + 1
        /\ \A k \in 1..Len(rest) : rest[k] = gaps[n + k - 1]
    BY <2>1, DropSpans
  <2> HIDE DEF n, rest
  <2>4. \A k \in 1..Len(rest) : n + k - 1 \in 1..Len(gaps)
    BY <1>0, <2>1, <2>3
  <2>5. /\ Len(rest) \in Nat
        /\ \A k \in 1..Len(rest) : rest[k].start \in Nat /\ rest[k].end \in Nat
    BY <2>3, SpanTypes
  <2>6. \A k \in 1..Len(rest) : p < rest[k].end
    <3> SUFFICES ASSUME NEW k \in 1..Len(rest) PROVE p < rest[k].end
      OBVIOUS
    <3>1. 1 \in 1..Len(rest) /\ n <= Len(gaps) /\ rest[1] = gaps[n]
      BY <1>0, <2>1, <2>3, <2>5
    <3>2. p < rest[1].end
      BY <2>1, <3>1
    <3>3. 1 < k => rest[1].end < rest[k].start /\ rest[k].start < rest[k].end
      BY <2>3, <3>1 DEF Ordered
    <3>4. k = 1 \/ 1 < k
      BY <2>5
    <3> QED BY <2>0, <2>5, <3>1, <3>2, <3>3, <3>4
  <2>7. ASSUME NEW f \in Nat, p <= f
        PROVE  InSpan(rest, f) <=> InSpan(gaps, f)
    <3>1. InSpan(rest, f) => InSpan(gaps, f)
      BY <2>3, <2>4 DEF InSpan
    <3>2. ASSUME NEW j \in 1..Len(gaps), gaps[j].start <= f, f < gaps[j].end
          PROVE  InSpan(rest, f)
      <4>1. ~(j \in 1..(n - 1))
        BY <1>0, <2>0, <2>1, <2>7, <3>2
      <4>2. j - n + 1 \in 1..Len(rest) /\ n + (j - n + 1) - 1 = j
        BY <1>0, <2>1, <2>3, <4>1
      <4>3. rest[j - n + 1] = gaps[n + (j - n + 1) - 1]
        BY <2>3, <4>2
      <4>4. rest[j - n + 1] = gaps[j]
        BY <4>2, <4>3
      <4> QED BY <3>2, <4>2, <4>4 DEF InSpan
    <3> QED BY <3>1, <3>2 DEF InSpan
  <2>8. concealed' <=> InSpan(rest, p)
    <3>1. rest # <<>> <=> 1 \in 1..Len(rest)
      <4>1. rest = <<>> <=> Len(rest) = 0
        BY <2>3, SpanTypes, EmptySeq
      <4> QED BY <2>5, <4>1
    <3>2. ASSUME 1 \in 1..Len(rest), p >= rest[1].start
          PROVE  InSpan(rest, p)
      BY <2>6, <3>2 DEF InSpan
    <3>3. ASSUME NEW k \in 1..Len(rest), rest[k].start <= p
          PROVE  1 \in 1..Len(rest) /\ p >= rest[1].start
      <4>1. 1 \in 1..Len(rest) /\ (k = 1 \/ 1 < k)
        BY <2>5
      <4>2. 1 < k => rest[1].end < rest[k].start
        BY <2>3, <4>1 DEF Ordered
      <4>3. p < rest[1].end
        BY <2>6, <4>1
      <4> QED BY <2>0, <2>5, <3>3, <4>1, <4>2, <4>3
    <3> QED BY <2>2, <3>1, <3>2, <3>3 DEF InSpan
  <2> QED BY <1>2, <2>2, <2>3, <2>4, <2>6, <2>7, <2>8
<1> QED BY <1>1, <1>2

LEMMA MapSpan ==
  ASSUME SpaceInv, ClockInv, SpanInv, Map
  PROVE  SpanInv'
<1>0. /\ fed \in Nat /\ next \in Int /\ fed = accepted + padded /\ taken \in Nat
      /\ Ordered(gaps) /\ pc = "map" /\ cacheCount = 0
  BY DEF SpaceInv, SpaceTypes, ClockInv, ClockTypes, CacheInv, SpanInv, SpanOrder, Map
<1>1. UNCHANGED <<source, taken, next, cacheStart, cacheCount, cacheOffset, pace>>
  BY DEF Map
<1>2. CASE UNCHANGED <<gaps, concealed>> /\ pc' # "convert"
  BY <1>1, <1>2, SpanKept
<1>3. CASE Mapped
  <2>1. MappedTo(Here)
    <3>1. accepted + padded - Ceil(InputDelay, Grain) = Here
      <4>1. /\ Ceil(Grain * fed - next, Grain) \in Int
            /\ fed - Ceil(Grain * fed - next, Grain) = next \div Grain
        BY <1>0, MapsHere
      <4>2. accepted \in Int /\ padded \in Int
        BY DEF SpaceInv, SpaceTypes
      <4>3. accepted + padded - Ceil(Grain * fed - next, Grain) = next \div Grain
        BY <1>0, <4>1, <4>2
      <4> QED BY <4>3 DEF InputDelay, Here
    <3> QED BY <1>3, <3>1 DEF Mapped
  <2>2. Here \in Int /\ (0 <= Here <=> 0 <= next) /\ Here' = Here
    BY <1>0, <1>1, TicksOfFrame DEF Here
  <2>3. /\ Ordered(gaps')
        /\ \A k \in 1..Len(gaps') : Here < gaps'[k].end
        /\ \A k \in 1..Len(gaps') : \E j \in 1..Len(gaps) : gaps'[k] = gaps[j]
        /\ \A f \in Nat : Here <= f => (InSpan(gaps', f) <=> InSpan(gaps, f))
        /\ concealed' <=> 0 <= Here /\ InSpan(gaps', Here)
    BY <1>0, <2>1, <2>2, MappedSpans
  <2>4. SpanOrder'
    BY <1>1, <2>3 DEF SpanInv, SpanOrder
  <2>5. SpanAhead'
    BY <1>1, <2>2, <2>3 DEF SpanInv, SpanAhead
  <2>6. SpanExact'
    BY <1>0, <1>1, <2>2, <2>3 DEF SpanInv, SpanExact
  <2>7. ConcealInv'
    <3>1. concealed' <=> 0 <= next' /\ InSpan(gaps', Here')
      BY <1>1, <2>2, <2>3
    <3> QED BY <1>0, <1>1, <3>1 DEF ConcealInv
  <2> QED BY <2>4, <2>5, <2>6, <2>7 DEF SpanInv
<1>4. pc' # "convert" \/ Mapped
  BY DEF Map, Failed
<1>5. Mapped \/ UNCHANGED <<gaps, concealed>>
  BY DEF Map
<1> QED BY <1>2, <1>3, <1>4, <1>5

LEMMA ConvertSpan ==
  ASSUME SpaceInv, ClockInv, ClockInv', SpanInv, Convert
  PROVE  SpanInv'
<1>0. /\ next \in Int /\ next' \in Int /\ taken \in Nat /\ pc = "convert" /\ cacheCount = 0
      /\ Len(gaps) \in Nat /\ \A k \in 1..Len(gaps) : gaps[k].end \in Nat
      /\ concealed <=> 0 <= next /\ InSpan(gaps, Here)
      /\ \A k \in 1..Len(gaps) : Here < gaps[k].end
  BY SpanTypes DEF SpaceInv, SpaceTypes, ClockInv, ClockTypes, CacheInv, SpanInv, SpanOrder,
     SpanAhead, ConcealInv, Convert
<1>1. PICK used \in Nat, generated \in Nat, step \in Nat :
        /\ step > 0 /\ step <= Grain * Quantum
        /\ generated <= OutputCount
        /\ next' = next + generated * step
        /\ \/ generated > 0 /\ Generate(used, generated, step)
           \/ generated = 0 /\ GenerateNothing(used)
        /\ UNCHANGED <<source, taken, gaps, concealed>>
  BY ConvertedBy
<1>2. gaps # <<>> => generated <= 1
  BY <1>1 DEF OutputCount
<1>3. \/ /\ generated > 0 /\ pc' = "ready" /\ pace' = step
         /\ cacheStart' = next /\ cacheCount' = generated /\ cacheOffset' = 0
      \/ pc' # "convert" /\ cacheCount' = 0
  <2>1. CASE generated > 0 /\ Generate(used, generated, step)
    <3>1. CASE Cached(generated) /\ pc' = "ready" /\ pace' = step
      <4>1. cacheStart' = next
        <5>1. cacheStart' = Grain * fed - (Grain * fed - next)
          BY <3>1 DEF Cached, InputDelay, SpaceInv
        <5>2. Grain * fed \in Int
          BY Sizes DEF SpaceInv, SpaceTypes
        <5> QED BY <1>0, <5>1, <5>2, Cancels
      <4> QED BY <2>1, <3>1, <4>1 DEF Cached
    <3>2. CASE Failed("adapter") /\ UNCHANGED <<cacheStart, cacheEnd, cacheCount, cacheOffset, pace>>
      BY <1>0, <3>2 DEF Failed
    <3> QED BY <2>1, <3>1, <3>2 DEF Generate
  <2>2. CASE generated = 0 /\ GenerateNothing(used)
    BY <1>0, <2>2 DEF GenerateNothing, Failed, Starved
  <2> QED BY <1>1, <2>1, <2>2
<1>4. next <= next' /\ Here <= Here' /\ Here \in Int /\ Here' \in Int
  <2>1. generated * step \in Nat
    BY <1>1
  <2>2. next <= next'
    BY <1>0, <1>1, <2>1
  <2> QED BY <1>0, <2>2, FrameMonotone, TicksOfFrame DEF Here
<1>5. SpanOrder'
  BY <1>1 DEF SpanInv, SpanOrder
<1>6. SpanAhead'
  <2> SUFFICES ASSUME NEW k \in 1..Len(gaps)
               PROVE  next' - Grain * Quantum < Grain * gaps[k].end
    BY <1>1, <1>3 DEF SpanAhead
  <2>1. gaps # <<>>
    BY <1>0
  <2>2. next' <= next + step
    <3>1. generated = 0 \/ generated = 1
      BY <1>1, <1>2, <2>1
    <3>2. 0 * step = 0 /\ 1 * step = step
      OBVIOUS
    <3> QED BY <1>0, <1>1, <3>1, <3>2
  <2>3. next < Grain * gaps[k].end
    BY <1>0, FrameBelow DEF Here
  <2>4. Grain * Quantum \in Nat /\ Grain * gaps[k].end \in Int
    BY <1>0, Sizes
  <2> QED BY <1>0, <1>1, <2>2, <2>3, <2>4
<1>7. SpanExact'
  <2> SUFFICES ASSUME NEW f \in 0..(taken - 1), Here' <= f
               PROVE  source[f + 1] <=> InSpan(gaps, f)
    BY <1>1 DEF SpanExact
  <2>1. Here <= f
    BY <1>4
  <2> QED BY <2>1 DEF SpanInv, SpanExact
<1>8. ConcealInv'
  <2>1. CASE pc' # "convert" /\ cacheCount' = 0
    BY <2>1, SpentCache
  <2>2. CASE /\ generated > 0 /\ pc' = "ready" /\ pace' = step
             /\ cacheStart' = next /\ cacheCount' = generated /\ cacheOffset' = 0
    <3> SUFFICES ASSUME NEW k \in 0..(generated - 1), next + k * step < Grain * taken
                 PROVE  concealed <=> Missing(next + k * step)
      BY <1>1, <2>2 DEF ConcealInv, Missing
    <3> DEFINE p == next + k * step
               f == p \div Grain
    <3>1. p \in Int /\ next <= p
      <4>1. k * step \in Nat
        BY <1>1
      <4> QED BY <1>0, <4>1
    <3>2. f \in Int /\ Here <= f /\ (0 <= p <=> 0 <= f)
      <4>1. next \in Int
        BY <1>0
      <4> HIDE DEF p
      <4>2. Here <= f
        BY <3>1, <4>1, FrameMonotone DEF Here
      <4>3. f \in Int /\ (0 <= p <=> 0 <= f)
        BY <3>1, TicksOfFrame
      <4> QED BY <4>2, <4>3
    <3>3. ASSUME 0 <= p PROVE f \in 0..(taken - 1) /\ (source[f + 1] <=> InSpan(gaps, f))
      <4>1. f \in 0..(taken - 1)
        BY <1>0, <3>1, <3>3, FrameTaken
      <4> QED BY <3>2, <4>1 DEF SpanInv, SpanExact
    <3>4. Missing(p) <=> 0 <= p /\ InSpan(gaps, f)
      BY <3>3 DEF Missing
    <3>5. CASE gaps = <<>>
      <4>1. \A g \in Int : ~InSpan(gaps, g)
        BY <3>5 DEF InSpan
      <4> QED BY <1>0, <1>4, <3>2, <3>4, <4>1
    <3>6. CASE gaps # <<>>
      <4>1. k = 0
        BY <1>1, <1>2, <3>6
      <4>2. p = next
        <5>1. 0 * step = 0
          OBVIOUS
        <5> QED BY <1>0, <4>1, <5>1
      <4>3. f = Here
        BY <4>2 DEF Here
      <4> QED BY <1>0, <3>4, <4>2, <4>3
    <3> QED BY <3>5, <3>6
  <2> QED BY <1>3, <2>1, <2>2
<1> QED BY <1>5, <1>6, <1>7, <1>8 DEF SpanInv

LEMMA PlaySpan ==
  ASSUME ClockInv, SpanInv, Play \/ Lose
  PROVE  SpanInv'
<1>1. pc' # "convert" /\ UNCHANGED <<source, gaps, taken, next>>
  BY DEF Play, Lose, ReturnOutput, clockVars
<1>2. SpanOrder' /\ SpanAhead' /\ SpanExact'
  BY <1>1 DEF SpanInv, SpanOrder, SpanAhead, SpanExact, Here
<1>3. CASE cacheCount' = 0
  BY <1>1, <1>2, <1>3, SpentCache DEF SpanInv
<1>4. CASE cacheOffset' = cacheOffset + 1 /\ UNCHANGED <<concealed, cacheStart, cacheCount, pace>>
  <2>1. cacheOffset \in Nat /\ cacheCount \in Nat
    BY DEF ClockInv, ClockTypes
  <2>2. cacheOffset'..(cacheCount' - 1) \subseteq cacheOffset..(cacheCount - 1)
    BY <1>4, <2>1
  <2>3. ConcealInv'
    BY <1>1, <1>4, <2>2 DEF SpanInv, ConcealInv, Missing
  <2> QED BY <1>2, <2>3 DEF SpanInv
<1> QED BY <1>3, <1>4 DEF Play, Lose, Forgotten

LEMMA SpanStep ==
  ASSUME SpaceInv, ClockInv, ClockInv', SpanInv, Next
  PROVE  SpanInv'
<1> USE DEF callVars, spaceVars, clockVars, cacheVars, burstVars, truthVars
<1>1. CASE \E missing \in BOOLEAN : Publish(missing)
  BY <1>1, PublishSpan
<1>2. CASE Finish \/ RenderBegin \/ RefillBegin \/ TakeEnd \/ ConvertFails \/ ReachEnd
  <2>1. /\ UNCHANGED <<source, gaps, taken, next, concealed>>
        /\ UNCHANGED <<cacheStart, cacheCount, cacheOffset, pace>>
    <3>1. CASE Finish
      BY <3>1 DEF Finish, consumerVars
    <3>2. CASE RenderBegin
      BY <3>2 DEF RenderBegin
    <3>3. CASE RefillBegin
      BY <3>3 DEF RefillBegin
    <3>4. CASE TakeEnd
      BY <3>4 DEF TakeEnd
    <3>5. CASE ConvertFails
      BY <3>5 DEF ConvertFails
    <3>6. CASE ReachEnd
      BY <3>6 DEF ReachEnd
    <3> QED BY <1>2, <3>1, <3>2, <3>3, <3>4, <3>5, <3>6
  <2>2. pc' = "convert" => pc = "convert"
    BY <1>2 DEF Finish, consumerVars, RenderBegin, RefillBegin, TakeEnd, Starved, ConvertFails,
       Failed, ReachEnd
  <2> QED BY <2>1, <2>2, SpanKept
<1>3. CASE Complete \/ ConsumerReset
  <2>1. StateReset /\ pc' # "convert"
    BY <1>3 DEF Complete, ConsumerReset, ReturnOutput
  <2> QED BY <2>1, SpanReset
<1> QED BY <1>1, <1>2, <1>3, TakeSampleSpan, MapSpan, ConvertSpan, PlaySpan DEF Next

\* The spans are in order and are exactly the lost frames from the converter's
\* position on, in every reachable state.
THEOREM SpanInvariance == Spec => []SpanInv
<1>1. Init => SpanInv
  <2> SUFFICES ASSUME Init PROVE SpanInv
    OBVIOUS
  <2>1. gaps = <<>> /\ taken = 0 /\ cacheCount = 0 /\ pc = "idle"
    BY DEF Init
  <2>2. SpanOrder /\ SpanAhead
    BY <2>1 DEF SpanOrder, Ordered, SpanAhead
  <2>3. SpanExact /\ ConcealInv
    BY <2>1 DEF SpanExact, ConcealInv
  <2> QED BY <2>2, <2>3 DEF SpanInv
<1>2. SpanInv /\ UNCHANGED vars => SpanInv'
  BY SpanKept DEF vars, callVars, clockVars, cacheVars, truthVars
<1>3. SpaceInv /\ ClockInv /\ ClockInv' /\ SpanInv /\ [Next]_vars => SpanInv'
  BY <1>2, SpanStep
<1> QED BY <1>1, <1>3, SpaceInvariance, ClockInvariance, PTL DEF Spec

-----------------------------------------------------------------------------
(* The end of a burst.  Padding starts behind its last frame, the outputs  *)
(* played lie in front of its end, and a call fails for a cause in the     *)
(* adapter: neither the spans nor the refills run out by themselves.       *)

EndTypes == last \in Int /\ consecutive \in Nat /\ end \in Nat \cup {NoEnd}

EndInv ==
  /\ EndTypes
  /\ IsFinite => finish /\ end = Len(source)
  /\ padding => taken = end
  /\ pc = "lose" => ~IsFinite
  /\ pc \in {"refill", "take", "map", "convert", "ready"} => end # 0
  /\ last < next \/ last = -Delay
  /\ IsFinite /\ end # 0 => last < Grain * end
  /\ FailsForCause

LEMMA NotFailed == ASSUME pc' # "fail" PROVE FailsForCause'
BY DEF FailsForCause
LEMMA CauseKept == ASSUME FailsForCause, UNCHANGED <<pc, cause, refusals>> PROVE FailsForCause'
BY DEF FailsForCause, Prefix, Ceil

\* Steps inside a call that play no output, by the steps they lead to.
LEMMA EndKept ==
  ASSUME EndInv, UNCHANGED <<source, end, last, consecutive>>, finish => finish',
         next \in Int, next' \in Int, next <= next', padding' => padding \/ taken' = end, taken' = taken,
         pc' = "lose" => pc = "lose" \/ ~IsFinite,
         pc' \in {"refill", "take", "map", "convert", "ready"} =>
           pc \in {"refill", "take", "map", "convert", "ready"},
         FailsForCause'
  PROVE  EndInv'
<1>1. EndTypes' /\ IsFinite' = IsFinite
  BY DEF EndInv, EndTypes, IsFinite
<1>2. last' < next' \/ last' = -Delay
  BY DEF EndInv, EndTypes
<1> QED BY <1>1, <1>2 DEF EndInv

LEMMA EndReset ==
  ASSUME EndInv, StateReset, consecutive' \in Nat, pc' = "idle"
  PROVE  EndInv'
<1>1. last' = -Delay /\ end' = NoEnd /\ padding' = FALSE
  BY DEF StateReset
<1>2. EndTypes' /\ ~IsFinite'
  <2>1. -Delay \in Int
    BY Sizes
  <2> QED BY <1>1, <2>1 DEF EndTypes, IsFinite
<1> QED BY <1>1, <1>2, NotFailed DEF EndInv

\* An output that is played lies in front of what the converter does next,
\* and in front of the frames taken unless it is behind the end of the burst.
LEMMA HeardTaken ==
  ASSUME SpaceInv, ClockInv, EndInv, pc = "ready"
  PROVE  /\ Position = heard /\ heard \in Int /\ heard < next
         /\ cacheOffset \in cacheOffset..(cacheCount - 1) /\ cacheCount > 0
         /\ heard = cacheStart + cacheOffset * pace
         /\ ~PastEnd => heard < Grain * taken
<1>0. /\ cacheCount \in Nat /\ cacheOffset \in Nat /\ pace \in Nat /\ pace > 0
      /\ cacheStart \in Int /\ heard \in Int /\ next \in Int /\ taken \in Nat
      /\ cacheCount > 0 /\ cacheOffset < cacheCount
      /\ next = cacheStart + cacheCount * pace /\ heard = cacheStart + cacheOffset * pace
  BY DEF SpaceInv, SpaceTypes, ClockInv, ClockTypes, CacheInv
<1>1. Position = heard
  BY ExactPosition
<1>2. heard < next
  <2>1. (cacheOffset + 1) * pace = cacheOffset * pace + pace
    BY <1>0
  <2>2. pace * (cacheOffset + 1) <= pace * cacheCount
    BY <1>0, ProductMonotone
  <2>3. /\ pace * (cacheOffset + 1) = (cacheOffset + 1) * pace
        /\ pace * cacheCount = cacheCount * pace
    BY <1>0
  <2>4. cacheOffset * pace \in Int /\ cacheCount * pace \in Int
    BY <1>0
  <2> QED BY <1>0, <2>1, <2>2, <2>3, <2>4
<1>3. ~PastEnd => heard < Grain * taken
  <2> SUFFICES ASSUME ~PastEnd PROVE heard < Grain * taken
    OBVIOUS
  <2>1. Grain * taken \in Int
    BY <1>0, Sizes
  <2>2. CASE ~padding
    BY <1>0, <1>2, <2>1, <2>2, NextBehind
  <2>3. CASE padding
    <3>1. IsFinite /\ taken = end
      BY <2>3 DEF SpaceInv, EndInv
    <3>2. ~(heard >= Grain * end)
      BY <1>1, <3>1 DEF PastEnd
    <3> QED BY <1>0, <2>1, <3>1, <3>2
  <2> QED BY <2>2, <2>3
<1> QED BY <1>0, <1>1, <1>2, <1>3

\* Retries that are not refused bring the converter a frame each, and it can
\* hold only so many before it has to generate an output.
LEMMA RefillsSuffice ==
  ASSUME SpaceInv, ClockInv, ClockInv', pc = "convert", NEW used \in Nat, Accepted(used),
         next' = next, refusals' = refusals + (IF used = 0 /\ pending > 0 THEN 1 ELSE 0),
         IsFinite, retries = RefillLimit
  PROVE  refusals' > Capacity + Prefix
<1>1. /\ InputDelay' + Grain * refusals' >= Delay + Grain * (retries + 1)
      /\ InputDelay' <= Delay + Grain * (Backlog + Quantum)
      /\ retries \in Nat /\ refusals' \in Nat /\ InputDelay' \in Int
  BY TakesOrRefused DEF ClockInv, ClockTypes, HeldInv
<1>2. retries + 1 <= Backlog + Quantum + refusals'
  <2> SUFFICES ASSUME Backlog + Quantum + refusals' + 1 <= retries + 1 PROVE FALSE
    BY <1>1, Sizes
  <2> DEFINE most == Backlog + Quantum
  <2>1. most \in Nat /\ most + refusals' + 1 \in Int /\ retries + 1 \in Int
    BY <1>1, Sizes
  <2>2. Grain * (most + refusals' + 1) <= Grain * (retries + 1)
    BY <2>1, Sizes, ProductMonotone
  <2>3. Grain * (most + refusals' + 1) = Grain * most + Grain * refusals' + Grain
    BY <1>1, <2>1, Sizes
  <2>4. /\ Grain * (retries + 1) \in Int /\ Grain * most \in Int /\ Grain * refusals' \in Int
    BY <1>1, <2>1, Sizes
  <2>5. InputDelay' <= Delay + Grain * most
    BY <1>1
  <2> HIDE DEF most
  <2> QED BY <1>1, <2>2, <2>3, <2>4, <2>5, Sizes
<1> QED BY <1>1, <1>2, Sizes, PrefixCovers DEF RefillLimit

LEMMA RenderBeginEnd ==
  ASSUME SpaceInv, ClockInv, EndInv, RenderBegin
  PROVE  EndInv'
<1>0. /\ end' = IF finish /\ ~IsFinite THEN Len(source) ELSE end
      /\ pc' \in {"idle", "drain", "refill"} /\ (pc' = "refill" => end' # 0)
      /\ UNCHANGED <<source, finish, padding, taken, next, last, consecutive, cause, refusals>>
  BY DEF RenderBegin, spaceVars, clockVars, truthVars
<1>1. /\ Len(source) \in Nat /\ taken \in Nat /\ taken <= Len(source) /\ next \in Int
      /\ last \in Int /\ end \in Nat \cup {NoEnd} /\ (padding => IsFinite)
  BY DEF SpaceInv, SpaceTypes, ClockInv, ClockTypes, EndInv, EndTypes
<1>2. CASE ~(finish /\ ~IsFinite)
  <2>1. end' = end /\ IsFinite' = IsFinite
    BY <1>0, <1>2 DEF IsFinite
  <2> QED BY <1>0, <2>1, NotFailed DEF EndInv, EndTypes
<1>3. CASE finish /\ ~IsFinite
  <2>1. end' = Len(source) /\ IsFinite' /\ ~padding /\ finish'
    BY <1>0, <1>1, <1>3 DEF IsFinite, NoEnd
  <2>2. end' # 0 => last < Grain * end'
    <3> SUFFICES ASSUME Len(source) # 0 PROVE last < Grain * Len(source)
      BY <2>1
    <3>1. Grain * taken <= Grain * Len(source) /\ Grain * 1 <= Grain * Len(source)
      BY <1>1, Sizes, ProductMonotone
    <3>2. Grain * taken \in Int /\ Grain * Len(source) \in Int /\ Grain * 1 = Grain
      BY <1>1, Sizes
    <3>3. CASE last < next
      BY <1>1, <2>1, <3>1, <3>2, <3>3, NextBehind
    <3>4. CASE last = -Delay
      BY <3>1, <3>2, <3>4, Sizes
    <3> QED BY <3>3, <3>4 DEF EndInv
  <2>3. EndTypes'
    BY <1>0, <1>1, <2>1 DEF EndInv, EndTypes
  <2> QED BY <1>0, <2>1, <2>2, <2>3, NotFailed DEF EndInv
<1> QED BY <1>2, <1>3

LEMMA TakeEndEnd ==
  ASSUME SpaceInv, ClockInv, EndInv, TakeEnd
  PROVE  EndInv'
<1>0. /\ UNCHANGED <<source, finish, end, last, consecutive, next, taken>>
      /\ pc = "take" /\ desired > 0 /\ desired \in Nat /\ pending \in Nat /\ next \in Int
      /\ taken \in Nat /\ Len(source) \in Nat /\ taken <= Len(source)
  BY DEF TakeEnd, clockVars, burstVars, truthVars, SpaceInv, SpaceTypes, ClockInv, ClockTypes
<1>1. pc' \in {"lose", "map"} /\ (pc' = "lose" => ~IsFinite)
  <2>1. CASE Pads
    <3>1. pending' > 0
      BY <2>1, Sizes DEF TakeEnd
    <3> QED BY <3>1 DEF TakeEnd
  <2>2. CASE ~Pads
    <3>1. pending' = pending
      BY <2>2 DEF TakeEnd, spaceVars
    <3>2. CASE IsFinite
      <4>1. pending' # 0
        BY <2>2, <3>1, <3>2 DEF Pads
      <4> QED BY <4>1 DEF TakeEnd
    <3>3. CASE ~IsFinite
      BY <3>3 DEF TakeEnd, Starved
    <3> QED BY <3>2, <3>3
  <2> QED BY <2>1, <2>2
<1>2. padding' => padding \/ taken = end
  <2>1. CASE Pads /\ ~padding
    <3>1. Wanting
      BY <1>0, <2>1 DEF Pads, Wanting
    <3>2. Unread = 0
      BY <3>1 DEF TakeEnd
    <3>3. end = Len(source)
      BY <2>1 DEF Pads, EndInv
    <3> QED BY <1>0, <3>2, <3>3 DEF Unread
  <2>2. CASE ~Pads
    BY <2>2 DEF TakeEnd, spaceVars
  <2> QED BY <2>1, <2>2
<1> QED BY <1>0, <1>1, <1>2, EndKept, NotFailed

LEMMA ConvertEnd ==
  ASSUME SpaceInv, ClockInv, ClockInv', EndInv, Convert
  PROVE  EndInv'
<1>0. /\ next \in Int /\ next' \in Int /\ pending \in Nat /\ pc = "convert"
      /\ UNCHANGED <<source, finish, end, last, consecutive, padding, taken>>
  BY DEF Convert, ClockInv, ClockTypes, SpaceInv, SpaceTypes
<1>1. PICK used \in Nat, generated \in Nat, step \in Nat :
        /\ next' = next + generated * step /\ Accepted(used)
        /\ \/ generated > 0 /\ Generate(used, generated, step)
           \/ generated = 0 /\ GenerateNothing(used)
  BY ConvertedBy
<1>2. next <= next'
  <2>1. generated * step \in Nat
    OBVIOUS
  <2> QED BY <1>0, <1>1, <2>1
<1>3. /\ pc' \in {"ready", "refill", "lose", "fail"}
      /\ pc' = "lose" => ~IsFinite
      /\ FailsForCause'
  <2>1. CASE Generate(used, generated, step)
    BY <2>1 DEF Generate, Failed, FailsForCause
  <2>2. CASE generated = 0 /\ GenerateNothing(used)
    <3>1. pc' \in {"refill", "lose", "fail"} /\ (pc' = "lose" => ~IsFinite)
      BY <2>2 DEF GenerateNothing, Failed, Starved
    <3>2. refusals' = refusals + (IF used = 0 /\ pending > 0 THEN 1 ELSE 0)
      BY <2>2 DEF GenerateNothing
    <3>3. next' = next
      BY <1>0, <1>1, <2>2
    <3>4. CASE Failed("full") \/ pc' # "fail"
      <4>1. FailsForCause'
        BY <3>4 DEF Failed, FailsForCause
      <4> QED BY <3>1, <4>1
    <3>5. CASE IsFinite /\ retries = RefillLimit /\ Failed("limit")
      <4>1. refusals' > Capacity + Prefix
        BY <1>0, <1>1, <3>2, <3>3, <3>5, RefillsSuffice
      <4>2. FailsForCause'
        BY <3>5, <4>1 DEF Failed, FailsForCause, Prefix, Ceil
      <4> QED BY <3>1, <4>2
    <3>6. Failed("full") \/ pc' # "fail" \/ (IsFinite /\ retries = RefillLimit /\ Failed("limit"))
      BY <2>2 DEF GenerateNothing, Starved
    <3> QED BY <3>1, <3>4, <3>5, <3>6
  <2> QED BY <1>1, <2>1, <2>2
<1> QED BY <1>0, <1>2, <1>3, EndKept

LEMMA PlayEnd ==
  ASSUME SpaceInv, ClockInv, EndInv, Play \/ Lose
  PROVE  EndInv'
<1>0. /\ pc' = "idle" /\ UNCHANGED <<source, finish, end, padding, taken, next>>
  BY DEF Play, Lose, ReturnOutput, spaceVars, clockVars
<1>1. consecutive' \in Nat
  <2>1. \A missing : Recorded(missing) => consecutive' \in Nat
    BY DEF EndInv, EndTypes, Recorded, Least, CounterMax
  <2> QED BY <2>1 DEF Play, Lose
<1>2. IsFinite' = IsFinite
  BY <1>0 DEF IsFinite
<1>3. CASE Lose
  <2>1. last' = last
    BY <1>3 DEF Lose
  <2> QED BY <1>0, <1>1, <1>2, <2>1, NotFailed DEF EndInv, EndTypes
<1>4. CASE Play
  <2>1. pc = "ready" /\ ~PastEnd /\ last' = heard
    BY <1>4 DEF Play
  <2>2. Position = heard /\ heard \in Int /\ heard < next
    BY <2>1, HeardTaken
  <2>3. IsFinite /\ end # 0 => heard < Grain * end
    <3>1. IsFinite => ~(heard >= Grain * end) /\ end \in Nat
      BY <2>1, <2>2 DEF PastEnd, EndInv, EndTypes, IsFinite
    <3>2. \A e \in Nat : ~(heard >= Grain * e) => heard < Grain * e
      <4>1. \A e \in Nat : Grain * e \in Int
        BY Sizes
      <4> QED BY <2>2, <4>1
    <3> QED BY <3>1, <3>2
  <2>4. EndTypes'
    BY <1>0, <1>1, <2>1, <2>2 DEF EndInv, EndTypes
  <2> QED BY <1>0, <1>2, <2>1, <2>2, <2>3, <2>4, NotFailed DEF EndInv
<1> QED BY <1>3, <1>4

LEMMA EndStep ==
  ASSUME SpaceInv, ClockInv, ClockInv', SpanInv, EndInv, Next
  PROVE  EndInv'
<1> USE DEF callVars, spaceVars, clockVars, burstVars, truthVars
<1>0. next \in Int /\ taken \in Nat /\ consecutive \in Nat
  BY DEF ClockInv, ClockTypes, SpaceInv, SpaceTypes, EndInv, EndTypes
<1>1. ASSUME NEW missing \in BOOLEAN, Publish(missing)
      PROVE  EndInv'
  <2>1. /\ ~finish /\ UNCHANGED <<finish, end, last, consecutive, next, padding, taken, pc, cause, refusals>>
    BY <1>1 DEF Publish, consumerVars
  <2>2. ~IsFinite /\ ~IsFinite'
    BY <2>1 DEF EndInv, IsFinite
  <2> QED BY <2>1, <2>2, CauseKept DEF EndInv, EndTypes
<1>2. CASE Finish
  <2>1. /\ UNCHANGED <<source, padding, taken, next, end, last, consecutive, pc, cause, refusals>>
        /\ finish'
    BY <1>2 DEF Finish, consumerVars
  <2> QED BY <1>0, <2>1, CauseKept, EndKept DEF EndInv
<1>3. CASE RefillBegin
  <2>1. pc = "refill" /\ pc' \in {"ready", "take"}
    BY <1>3 DEF RefillBegin
  <2>2. UNCHANGED <<source, finish, padding, taken, next, end, last, consecutive>>
    BY <1>3 DEF RefillBegin
  <2> QED BY <1>0, <2>1, <2>2, EndKept, NotFailed
<1>4. CASE TakeSample
  <2>1. /\ UNCHANGED <<source, finish, padding, next, end, last, consecutive, pc, cause, refusals>>
        /\ taken' = taken + 1 /\ ~padding
    BY <1>4, SampleTaken
  <2> QED BY <2>1, CauseKept DEF EndInv, EndTypes, IsFinite
<1>5. CASE Map \/ ConvertFails
  <2>1. /\ UNCHANGED <<source, finish, padding, taken, next, end, last, consecutive>>
        /\ pc \in {"map", "convert"} /\ pc' \in {"convert", "fail"}
        /\ FailsForCause'
    BY <1>5 DEF Map, ConvertFails, Failed, FailsForCause
  <2> QED BY <1>0, <2>1, EndKept
<1>6. CASE ReachEnd
  <2>1. /\ UNCHANGED <<source, finish, padding, taken, next, end, last, consecutive>>
        /\ pc' = "drain"
    BY <1>6 DEF ReachEnd
  <2> QED BY <1>0, <2>1, EndKept, NotFailed
<1>7. CASE Complete \/ ConsumerReset
  <2>1. StateReset /\ pc' = "idle" /\ consecutive' \in Nat
    BY <1>0, <1>7 DEF Complete, ConsumerReset, ReturnOutput, Recorded
  <2> QED BY <2>1, EndReset
<1> QED
  BY <1>1, <1>2, <1>3, <1>4, <1>5, <1>6, <1>7, RenderBeginEnd, TakeEndEnd, ConvertEnd, PlayEnd
  DEF Next

\* The end of a burst, the output played last and the refills of a call agree, in
\* every reachable state.
THEOREM EndInvariance == Spec => []EndInv
<1>1. Init => EndInv
  <2> SUFFICES ASSUME Init PROVE EndInv
    OBVIOUS
  <2>1. /\ last = -Delay /\ consecutive = 0 /\ end = NoEnd /\ padding = FALSE /\ pc = "idle"
    BY DEF Init
  <2>2. -Delay \in Int
    BY Sizes
  <2>3. FailsForCause
    BY <2>1 DEF FailsForCause
  <2> QED BY <2>1, <2>2, <2>3 DEF EndInv, EndTypes, IsFinite
<1>2. EndInv /\ UNCHANGED vars => EndInv'
  BY CauseKept DEF vars, callVars, spaceVars, clockVars, burstVars, truthVars, EndInv, EndTypes, IsFinite
<1>3. SpaceInv /\ ClockInv /\ ClockInv' /\ SpanInv /\ EndInv /\ [Next]_vars => EndInv'
  BY <1>2, EndStep
<1> QED BY <1>1, <1>3, SpaceInvariance, ClockInvariance, SpanInvariance, PTL DEF Spec

-----------------------------------------------------------------------------
(* What follows for the outputs and for the end of a burst.                *)

\* A render call fails only when the adapter did: the store of spans and the
\* limit on refills in one call never run out under a converter that accepts
\* frames, whatever its backlog and however slowly it generates outputs.
THEOREM FailsForCauseHolds == Spec => []FailsForCause
<1>1. EndInv => FailsForCause
  BY DEF EndInv, FailsForCause
<1> QED BY <1>1, EndInvariance, PTL

LEMMA ConcealedExactly ==
  ASSUME SpaceInv, ClockInv, SpanInv, EndInv, pc = "ready", ~PastEnd
  PROVE  concealed <=> heard >= 0 /\ source[heard \div Grain + 1]
<1>1. /\ heard = cacheStart + cacheOffset * pace /\ heard < Grain * taken /\ heard \in Int
      /\ cacheOffset \in cacheOffset..(cacheCount - 1) /\ cacheCount > 0
  BY HeardTaken
<1>2. concealed <=> Missing(cacheStart + cacheOffset * pace)
  BY <1>1 DEF SpanInv, ConcealInv
<1>3. concealed <=> Missing(heard)
  BY <1>1, <1>2
<1>4. 0 <= heard <=> heard >= 0
  BY <1>1
<1> QED BY <1>3, <1>4 DEF Missing

\* An output is counted as missing exactly if the frame it lies in was lost:
\* at every ratio, with any FIR delay, and however outputs are batched.
THEOREM ConcealedIffGapHolds == Spec => []ConcealedIffGap
<1>1. SpaceInv /\ ClockInv /\ SpanInv /\ EndInv => ConcealedIffGap
  BY ConcealedExactly DEF ConcealedIffGap
<1> QED BY <1>1, SpaceInvariance, ClockInvariance, SpanInvariance, EndInvariance, PTL

\* A burst that ends without failure was handed to the converter to the last
\* frame, and every output in front of its end was played and none behind it.
THEOREM PlayedWholeHolds == Spec => PlayedWhole
<1>1. ASSUME SpaceInv, ClockInv, EndInv, Next, pc = "ready", pc' = "drain"
      PROVE  accepted = end /\ heard >= Grain * end /\ last < Grain * end
  <2>1. PastEnd
    <3>1. ReachEnd \/ ~ReachEnd
      OBVIOUS
    <3>2. CASE ReachEnd
      BY <1>1, <3>2 DEF ReachEnd
    <3>3. CASE ~ReachEnd
      BY <1>1, <3>3 DEF Next, Publish, Finish, consumerVars, callVars, RenderBegin, RefillBegin,
         TakeSample, TakeEnd, Map, Convert, ConvertFails, Play, Lose, Complete, ConsumerReset,
         ReturnOutput
    <3> QED BY <3>2, <3>3
  <2>2. Position = heard /\ heard \in Int /\ heard < next
    BY <1>1, HeardTaken
  <2>3. IsFinite /\ heard >= Grain * end /\ end \in Nat
    BY <1>1, <2>1, <2>2 DEF PastEnd, EndInv, EndTypes, IsFinite
  <2>4. last < Grain * end /\ end = Len(source)
    BY <1>1, <2>3 DEF EndInv
  <2>5. padding
    <3> SUFFICES ASSUME ~padding PROVE FALSE
      OBVIOUS
    <3>1. next <= Grain * taken /\ taken \in Nat /\ taken <= end
      BY <1>1, <2>4, NextBehind DEF SpaceInv, SpaceTypes
    <3>2. Grain * taken <= Grain * end
      BY <2>3, <3>1, Sizes, ProductMonotone
    <3>3. Grain * taken \in Int /\ Grain * end \in Int /\ next \in Int
      BY <1>1, <2>3, <3>1, Sizes DEF ClockInv, ClockTypes
    <3> QED BY <2>2, <2>3, <3>1, <3>2, <3>3
  <2>6. accepted = end
    BY <1>1, <2>3, <2>5 DEF SpaceInv, EndInv
  <2> QED BY <2>3, <2>4, <2>6
<1>2. SpaceInv /\ ClockInv /\ EndInv /\ [Next]_vars
        => [pc = "ready" /\ pc' = "drain"
              => accepted = end /\ heard >= Grain * end /\ last < Grain * end]_vars
  BY <1>1
<1> QED
  BY <1>2, SpaceInvariance, ClockInvariance, EndInvariance, PTL DEF Spec, PlayedWhole

\* The zeros that follow a burst through the converter are never counted as
\* loss: what is counted lies in front of its end, in a frame that was lost.
THEOREM ExtensionIsNotLossHolds == Spec => ExtensionIsNotLoss
<1>1. ASSUME SpaceInv, ClockInv, SpanInv, EndInv, Next, IsFinite, consecutive' > consecutive
      PROVE  0 <= heard /\ heard < Grain * end /\ source[heard \div Grain + 1]
  <2>0. consecutive \in Nat /\ end \in Nat
    BY <1>1 DEF EndInv, EndTypes, IsFinite
  <2>1. Play \/ Lose \/ Complete
    <3> SUFFICES ASSUME ~(Play \/ Lose \/ Complete) PROVE FALSE
      OBVIOUS
    <3>1. consecutive' = consecutive
      BY <1>1 DEF Next, Publish, Finish, consumerVars, burstVars, RenderBegin, RefillBegin,
         TakeSample, TakeEnd, Map, Convert, ConvertFails, ReachEnd, ConsumerReset
    <3> QED BY <1>1, <2>0, <3>1
  <2>2. ~Lose
    BY <1>1 DEF Lose, EndInv
  <2>3. ~Complete
    <3>1. Complete => consecutive' = 0
      BY DEF Complete, Recorded
    <3> QED BY <1>1, <2>0, <3>1
  <2>4. pc = "ready" /\ ~PastEnd /\ Recorded(concealed)
    BY <2>1, <2>2, <2>3 DEF Play
  <2>5. concealed
    <3>1. ~concealed => consecutive' = 0
      BY <2>4 DEF Recorded
    <3> QED BY <1>1, <2>0, <3>1
  <2>6. heard >= 0 /\ source[heard \div Grain + 1]
    BY <1>1, <2>4, <2>5, ConcealedExactly
  <2>7. Position = heard /\ heard \in Int
    BY <1>1, <2>4, HeardTaken
  <2>8. ~(heard >= Grain * end)
    BY <1>1, <2>4, <2>7 DEF PastEnd
  <2>9. Grain * end \in Int
    BY <2>0, Sizes
  <2> QED BY <2>6, <2>7, <2>8, <2>9
<1>2. SpaceInv /\ ClockInv /\ SpanInv /\ EndInv /\ [Next]_vars
        => [IsFinite /\ consecutive' > consecutive
              => 0 <= heard /\ heard < Grain * end /\ source[heard \div Grain + 1]]_vars
  BY <1>1
<1> QED
  BY <1>2, SpaceInvariance, ClockInvariance, SpanInvariance, EndInvariance, PTL
  DEF Spec, ExtensionIsNotLoss
=============================================================================
