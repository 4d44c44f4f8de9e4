--------------------------- MODULE PcmRingProofs ---------------------------
(***************************************************************************)
(* Theorems about PcmRing, for every value of its constants: rings of any  *)
(* capacity, blocks, bursts and converters of any size.                    *)
(***************************************************************************)
EXTENDS PcmRing, SequenceTheorems, TLAPS

-----------------------------------------------------------------------------
(* Two-lap cursors as linear arithmetic.                                   *)

\* Where the i-th unread sample behind cursor r stands.
Place(r, i) == IF r + i - 1 < Modulus THEN r + i - 1 ELSE r + i - 1 - Modulus

LEMMA CursorLinear ==
  /\ \A c \in Cursor : SlotOf(c) = IF c < Capacity THEN c ELSE c - Capacity
  /\ \A w, r \in Cursor :
       Distance(w, r) = IF w >= r THEN w - r ELSE w + Modulus - r
  /\ \A c \in Cursor : Advance(c) = IF c + 1 < Modulus THEN c + 1 ELSE 0
<1> USE CapacityAssumption DEF Cursor, Modulus
<1>1. \A c \in Cursor : SlotOf(c) = IF c < Capacity THEN c ELSE c - Capacity
  BY DEF SlotOf
<1>2. \A w, r \in Cursor : Distance(w, r) = IF w >= r THEN w - r ELSE w + Modulus - r
  BY DEF Distance
<1>3. \A c \in Cursor : Advance(c) = IF c + 1 < Modulus THEN c + 1 ELSE 0
  BY DEF Advance
<1> QED BY <1>1, <1>2, <1>3

LEMMA CursorTypes ==
  /\ \A c \in Cursor : SlotOf(c) \in 0..(Capacity - 1) /\ Advance(c) \in Cursor
  /\ \A w, r \in Cursor : Distance(w, r) \in 0..(Modulus - 1)
  /\ 0 \in Cursor
<1> USE CapacityAssumption DEF Cursor, Modulus
<1>1. \A c \in Cursor : SlotOf(c) \in 0..(Capacity - 1)
  BY CursorLinear
<1>2. \A c \in Cursor : Advance(c) \in Cursor
  BY CursorLinear
<1>3. ASSUME NEW w \in Cursor, NEW r \in Cursor
      PROVE  Distance(w, r) \in 0..(Modulus - 1)
  <2>1. Distance(w, r) = IF w >= r THEN w - r ELSE w + Modulus - r
    BY CursorLinear
  <2> QED BY <2>1
<1>4. 0 \in Cursor
  OBVIOUS
<1> QED BY <1>1, <1>2, <1>3, <1>4

\* Unread samples stand in different slots, and in front of the next free one.
LEMMA PlacesDiffer ==
  ASSUME NEW r \in Cursor, NEW i \in 1..Capacity, NEW j \in 1..Capacity, i # j
  PROVE  SlotOf(Place(r, i)) # SlotOf(Place(r, j))
<1>1. Place(r, i) \in Cursor /\ Place(r, j) \in Cursor
  BY CapacityAssumption DEF Place, Cursor, Modulus
<1>2. \A c \in Cursor : SlotOf(c) = IF c < Capacity THEN c ELSE c - Capacity
  BY CursorLinear
<1>3. SlotOf(Place(r, i)) = IF Place(r, i) < Capacity THEN Place(r, i) ELSE Place(r, i) - Capacity
  BY <1>1, <1>2
<1>4. SlotOf(Place(r, j)) = IF Place(r, j) < Capacity THEN Place(r, j) ELSE Place(r, j) - Capacity
  BY <1>1, <1>2
<1> QED BY <1>3, <1>4, CapacityAssumption DEF Place, Cursor, Modulus

LEMMA PlaceOfWritten ==
  ASSUME NEW w \in Cursor, NEW r \in Cursor
  PROVE  Place(r, Distance(w, r) + 1) = w
<1>1. Distance(w, r) = IF w >= r THEN w - r ELSE w + Modulus - r
  BY CursorLinear
<1> QED BY <1>1, CapacityAssumption DEF Place, Cursor, Modulus

\* Discarding d samples moves every place by d.
LEMMA PlaceShift ==
  ASSUME NEW c \in Cursor, NEW r \in Cursor, NEW i \in 1..Capacity,
         Distance(c, r) + i <= Capacity
  PROVE  Place(c, i) = Place(r, Distance(c, r) + i)
<1>1. Distance(c, r) = IF c >= r THEN c - r ELSE c + Modulus - r
  BY CursorLinear
<1> QED BY <1>1, CapacityAssumption DEF Place, Cursor, Modulus

LEMMA DistanceShift ==
  ASSUME NEW c \in Cursor, NEW r \in Cursor, NEW w \in Cursor,
         Distance(c, r) <= Distance(w, r)
  PROVE  Distance(w, c) = Distance(w, r) - Distance(c, r)
<1>1. Distance(c, r) = IF c >= r THEN c - r ELSE c + Modulus - r
  BY CursorLinear
<1>2. Distance(w, r) = IF w >= r THEN w - r ELSE w + Modulus - r
  BY CursorLinear
<1>3. Distance(w, c) = IF w >= c THEN w - c ELSE w + Modulus - c
  BY CursorLinear
<1> QED BY <1>1, <1>2, <1>3, CapacityAssumption DEF Cursor, Modulus

-----------------------------------------------------------------------------
(* The inductive invariant of the shared memory.  The queue stands in the  *)
(* slots from read to written; whoever is about to touch a slot or to move *)
(* a cursor has checked what allows it, and the other endpoint has since   *)
(* only made more room, or more samples.                                   *)

CallInv ==
  ppc \in {"entry", "gate", "load", "write", "store"}
    => call.base + call.len <= MaxOffered /\ call.done < call.len

StepInv ==
  /\ cpc \in {"copy", "release"} => queue # <<>> /\ wanting > 0
  /\ cpc \in {"take", "copy", "release"} => pending + wanting <= Capacity
  /\ cpc = "release" => citem = Head(queue)
  /\ cpc = "ready" => cached > 0
  /\ cpc \in {"retireStore", "resetStore"} => Distance(cseen, read) <= Len(queue)

RingInv ==
  /\ Len(queue) <= Capacity
  /\ Distance(written, read) = Len(queue)
  /\ \A i \in 1..Len(queue) : storage[SlotOf(Place(read, i))] = queue[i]
  /\ ppc \in {"write", "store"} => Len(queue) < Capacity
  /\ ppc = "store" => storage[SlotOf(written)] = Current

IInv == TypeOK /\ CallInv /\ StepInv /\ RingInv

LEMMA CurrentIsItem ==
  ASSUME TypeOK, CallInv, ppc \in {"entry", "gate", "load", "write", "store"}
  PROVE  Current \in Item
<1>1. call.base + call.done + 1 \in 0..MaxOffered /\ call.missing \in BOOLEAN
  BY SizeAssumption DEF TypeOK, ProducerTypes, CallInv
<1> QED BY <1>1 DEF Current, Item

LEMMA InitTypes == Init => TypeOK
<1> SUFFICES ASSUME Init PROVE TypeOK
  OBVIOUS
<1> USE CapacityAssumption, SizeAssumption DEF Init
<1>1. FifoTypes
  BY CursorTypes DEF FifoTypes, NoItem, Item
<1>2. ProducerTypes
  BY DEF ProducerTypes, NoCall
<1>3. LocalTypes
  <2>1. NoItem \in Item /\ 0 \in Cursor
    BY CursorTypes DEF NoItem, Item
  <2>2. cseen \in Cursor /\ citem \in Item
    BY <2>1
  <2>3. wanting \in 0..Capacity /\ retries \in 0..RefillLimit /\ ctoken \in Nat
    OBVIOUS
  <2> QED BY <2>2, <2>3 DEF LocalTypes
<1>4. StateTypes
  <2>1. finite \in [end : Nat \cup {-1}, tail : Nat \cup {NoTail}]
    BY DEF NoFinite, NoTail
  <2>2. cached \in 0..CacheMax /\ pending \in 0..Capacity /\ -FirDelay \in Int
    OBVIOUS
  <2> QED BY <2>1, <2>2 DEF StateTypes
<1>5. BurstTypes
  BY DEF BurstTypes
<1> QED BY <1>1, <1>2, <1>3, <1>4, <1>5 DEF TypeOK

\* Types survive in the groups of variables that a step leaves alone.
LEMMA Frame ==
  /\ FifoTypes /\ UNCHANGED fifoVars => FifoTypes'
  /\ ProducerTypes /\ UNCHANGED producerVars => ProducerTypes'
  /\ LocalTypes /\ UNCHANGED <<cpc, localVars>> => LocalTypes'
  /\ StateTypes /\ UNCHANGED stateVars => StateTypes'
  /\ BurstTypes /\ UNCHANGED burstVars => BurstTypes'
<1>1. FifoTypes /\ UNCHANGED fifoVars => FifoTypes'
  BY DEF FifoTypes, fifoVars
<1>2. ProducerTypes /\ UNCHANGED producerVars => ProducerTypes'
  BY DEF ProducerTypes, producerVars
<1>3. LocalTypes /\ UNCHANGED <<cpc, localVars>> => LocalTypes'
  BY DEF LocalTypes, localVars
<1>4. StateTypes /\ UNCHANGED stateVars => StateTypes'
  BY DEF StateTypes, stateVars, feedVars
<1>5. BurstTypes /\ UNCHANGED burstVars => BurstTypes'
  BY DEF BurstTypes, burstVars
<1> QED BY <1>1, <1>2, <1>3, <1>4, <1>5

LEMMA ProducerTypeStep ==
  ASSUME IInv, ProducerStep
  PROVE  TypeOK'
<1>0. FifoTypes /\ ProducerTypes /\ LocalTypes /\ StateTypes /\ BurstTypes /\ CallInv
  BY DEF IInv, TypeOK
<1>h. MaxOffered \in Nat /\ MaxBlock \in Nat
  BY SizeAssumption
<1>t. ASSUME FifoTypes', ProducerTypes', LocalTypes', StateTypes', BurstTypes'
      PROVE  TypeOK'
  BY <1>t DEF TypeOK
<1>1. ASSUME NEW step \in {"entry", "gate"}, NEW n \in Nat, NEW gap \in BOOLEAN,
             Call(step, n, gap)
      PROVE  TypeOK'
  <2>1. offered + n \in 0..MaxOffered /\ n \in 0..MaxOffered /\ offered \in 0..MaxOffered
    BY <1>0, <1>1, <1>h DEF Call, ProducerTypes
  <2>2. call' \in [base : 0..MaxOffered, len : 0..MaxOffered, done : 0..MaxOffered,
                   missing : BOOLEAN]
    BY <1>1, <1>h, <2>1 DEF Call
  <2>3. ProducerTypes'
    BY <1>0, <1>1, <2>1, <2>2 DEF Call, ProducerTypes
  <2>4. UNCHANGED <<fifoVars, cpc, localVars, stateVars, burstVars>>
    BY <1>1 DEF Call
  <2> QED BY <1>0, <1>t, <2>3, <2>4, Frame
<1>2. CASE PushSample
  BY <1>1, <1>2 DEF PushSample
<1>3. ASSUME NEW n \in 1..MaxBlock, Push(n) \/ Gap(n)
      PROVE  TypeOK'
  <2>1. n \in Nat
    BY <1>h
  <2>2. Call("entry", n, FALSE) \/ Call("entry", n, TRUE)
    BY <1>3 DEF Push, Gap
  <2> QED BY <1>1, <2>1, <2>2
<1>4. NoCall \in [base : 0..MaxOffered, len : 0..MaxOffered, done : 0..MaxOffered,
                  missing : BOOLEAN]
  BY <1>h DEF NoCall
<1>5. CASE EntryGate
  <2>1. ProducerTypes'
    BY <1>0, <1>4, <1>5, <1>h DEF EntryGate, ReturnToHost, ProducerTypes
  <2>2. UNCHANGED <<fifoVars, cpc, localVars, stateVars, burstVars>>
    BY <1>5 DEF EntryGate
  <2> QED BY <1>0, <1>t, <2>1, <2>2, Frame
<1>6. ppc \in {"gate", "load", "store"}
        => Rest \in Nat /\ Rest = call.len - (call.done + 1) /\ call.len \in 0..MaxOffered
             /\ call.done \in 0..MaxOffered
  BY <1>0 DEF ProducerTypes, CallInv, Rest
<1>7. CASE PublishGate
  <2>1. ProducerTypes'
    BY <1>0, <1>4, <1>6, <1>7 DEF PublishGate, ReturnToHost, ProducerTypes
  <2>2. UNCHANGED <<fifoVars, cpc, localVars, stateVars, burstVars>>
    BY <1>7 DEF PublishGate
  <2> QED BY <1>0, <1>t, <2>1, <2>2, Frame
<1>8. CASE LoadRead
  <2>1. ProducerTypes'
    BY <1>0, <1>4, <1>6, <1>8 DEF LoadRead, ReturnToHost, ProducerTypes
  <2>2. UNCHANGED <<fifoVars, cpc, localVars, stateVars, burstVars>>
    BY <1>8 DEF LoadRead
  <2> QED BY <1>0, <1>t, <2>1, <2>2, Frame
<1>9. CASE WriteSlot
  <2>1. Current \in Item
    BY <1>9, CurrentIsItem DEF WriteSlot, IInv
  <2>2. FifoTypes'
    BY <1>0, <1>9, <2>1, CursorTypes DEF WriteSlot, FifoTypes
  <2>3. ProducerTypes'
    BY <1>0, <1>9 DEF WriteSlot, ProducerTypes
  <2>4. UNCHANGED <<cpc, localVars, stateVars, burstVars>>
    BY <1>9 DEF WriteSlot
  <2> QED BY <1>0, <1>t, <2>2, <2>3, <2>4, Frame
<1>10. CASE StoreWritten
  <2>1. Current \in Item /\ Advance(written) \in Cursor
    BY <1>0, <1>10, CurrentIsItem, CursorTypes DEF StoreWritten, IInv, FifoTypes
  <2>2. Append(queue, Current) \in Seq(Item) /\ accepted + 1 \in Nat
    BY <1>0, <2>1 DEF FifoTypes
  <2>3. FifoTypes'
    BY <1>0, <1>10, <2>1, <2>2 DEF StoreWritten, FifoTypes
  <2>4. Rest > 0 => call.done + 1 \in 0..MaxOffered
    BY <1>6, <1>10, <1>h DEF StoreWritten
  <2>5. call' \in [base : 0..MaxOffered, len : 0..MaxOffered, done : 0..MaxOffered,
                   missing : BOOLEAN]
    BY <1>0, <1>4, <1>10, <2>4 DEF StoreWritten, ReturnToHost, ProducerTypes
  <2>6. ProducerTypes'
    BY <1>0, <1>10, <2>5 DEF StoreWritten, ReturnToHost, ProducerTypes
  <2>7. UNCHANGED <<cpc, localVars, stateVars, burstVars>>
    BY <1>10 DEF StoreWritten
  <2> QED BY <1>0, <1>t, <2>3, <2>6, <2>7, Frame
<1>11. CASE FinishLoad
  <2>1. TokenOf(finish) + 1 \in Nat
    BY <1>0 DEF TokenOf, BurstTypes
  <2>2. ProducerTypes'
    BY <1>0, <1>11, <2>1 DEF FinishLoad, ProducerTypes
  <2>3. UNCHANGED <<fifoVars, cpc, localVars, stateVars, burstVars>>
    BY <1>11 DEF FinishLoad
  <2> QED BY <1>0, <1>t, <2>2, <2>3, Frame
<1>12. CASE FinishStore
  <2>1. ptoken * 4 \in Nat /\ accepted \in Nat
    BY <1>0 DEF ProducerTypes, FifoTypes
  <2>2. BurstTypes'
    BY <1>12, <2>1 DEF FinishStore, BurstTypes
  <2>3. ProducerTypes'
    BY <1>0, <1>12 DEF FinishStore, ProducerTypes
  <2>4. UNCHANGED <<fifoVars, cpc, localVars, stateVars>>
    BY <1>12 DEF FinishStore
  <2> QED BY <1>0, <1>t, <2>2, <2>3, <2>4, Frame
<1> QED
  BY <1>2, <1>3, <1>5, <1>7, <1>8, <1>9, <1>10, <1>11, <1>12 DEF ProducerStep

LEMMA ConsumerTypeStep ==
  ASSUME IInv, RenderStep \/ ResetBegin \/ ResetStep
  PROVE  TypeOK'
<1>0. FifoTypes /\ ProducerTypes /\ LocalTypes /\ StateTypes /\ BurstTypes /\ StepInv
  BY DEF IInv, TypeOK
<1>h. /\ Capacity \in Nat \ {0} /\ Quantum \in 1..Capacity /\ CacheMax \in Nat
      /\ -FirDelay \in Int /\ RefillLimit \in Nat /\ Lookahead \in Nat
  BY CapacityAssumption, SizeAssumption
<1>t. ASSUME FifoTypes', ProducerTypes', LocalTypes', StateTypes', BurstTypes'
      PROVE  TypeOK'
  BY <1>t DEF TypeOK
<1>f. TokenOf(finish) \in Nat
  BY <1>0 DEF TokenOf, BurstTypes
<1>n. NoItem \in Item
  BY SizeAssumption DEF NoItem, Item
<1>a. AdapterFails => /\ cpc' \in {"complete", "idle"} /\ retries' \in 0..RefillLimit
                     /\ failing' \in BOOLEAN
  <2> SUFFICES ASSUME AdapterFails
               PROVE  /\ cpc' \in {"complete", "idle"} /\ retries' \in 0..RefillLimit
                      /\ failing' \in BOOLEAN
    OBVIOUS
  <2>1. failing' \in BOOLEAN
    <3>1. failing' = TRUE \/ failing' = failing
      BY DEF AdapterFails
    <3> QED BY <1>0, <3>1 DEF LocalTypes
  <2>2. cpc' \in {"complete", "idle"} /\ retries' \in 0..RefillLimit
    BY <1>h DEF AdapterFails
  <2> QED BY <2>1, <2>2
<1>s. Starves => /\ cpc' \in {"complete", "idle", "refill"}
                /\ retries' \in 0..RefillLimit /\ failing' \in BOOLEAN
  <2>1. ~GivesUp => retries + 1 \in 0..RefillLimit
    BY <1>0, <1>h DEF GivesUp, LocalTypes
  <2> QED BY <1>0, <1>a, <1>h, <2>1 DEF Starves, LocalTypes
<1>1. CASE RenderBegin
  <2>1. LocalTypes'
    BY <1>0, <1>1, <1>f DEF RenderBegin, LocalTypes
  <2>2. UNCHANGED <<fifoVars, producerVars, stateVars, burstVars>>
    BY <1>1 DEF RenderBegin
  <2> QED BY <1>0, <1>t, <2>1, <2>2, Frame
<1>2. CASE Freeze
  <2>1. LocalTypes'
    BY <1>0, <1>2 DEF Freeze, LocalTypes, localVars
  <2>2. Available \in Nat
    BY <1>0, CursorTypes, CapacityAssumption DEF Available, FifoTypes
  <2>3. finite' \in [end : Nat \cup {-1}, tail : Nat \cup {NoTail}]
    BY <1>0, <1>2, <2>2 DEF Freeze, StateTypes, NoTail
  <2>4. StateTypes'
    BY <1>0, <1>2, <2>3 DEF Freeze, StateTypes, feedVars
  <2>5. UNCHANGED <<fifoVars, producerVars, burstVars>>
    BY <1>2 DEF Freeze
  <2> QED BY <1>0, <1>t, <2>1, <2>4, <2>5, Frame
<1>3. CASE CheckQuiet
  <2>1. LocalTypes'
    BY <1>0, <1>3 DEF CheckQuiet, LocalTypes, localVars
  <2>2. StateTypes'
    BY <1>0, <1>3 DEF CheckQuiet, StateTypes, feedVars
  <2>3. UNCHANGED <<fifoVars, producerVars, burstVars>>
    BY <1>3 DEF CheckQuiet
  <2> QED BY <1>0, <1>t, <2>1, <2>2, <2>3, Frame
<1>4. CASE Prime
  <2>1. LocalTypes'
    BY <1>0, <1>4 DEF Prime, LocalTypes, localVars
  <2>2. StateTypes'
    BY <1>0, <1>4 DEF Prime, StateTypes, feedVars
  <2>3. UNCHANGED <<fifoVars, producerVars, burstVars>>
    BY <1>4 DEF Prime
  <2> QED BY <1>0, <1>t, <2>1, <2>2, <2>3, Frame
<1>5. CASE Refill
  <2>0. Desired \in 0..Capacity /\ pending \in Nat
    BY <1>0, <1>h DEF Desired, StateTypes
  <2>1. /\ cpc' \in {"complete", "idle", "ready", "take"} /\ wanting' \in 0..Capacity
        /\ retries' \in 0..RefillLimit /\ failing' \in BOOLEAN
    <3>1. CASE AdapterFails /\ wanting' = wanting
      BY <1>0, <1>a, <3>1 DEF LocalTypes
    <3>2. CASE cpc' = "ready" /\ UNCHANGED <<wanting, retries, failing>>
      BY <1>0, <3>2 DEF LocalTypes
    <3>3. CASE /\ wanting' = IF pending < Desired THEN Desired - pending ELSE 0
               /\ cpc' = "take" /\ UNCHANGED <<retries, failing>>
      <4>1. wanting' \in 0..Capacity
        BY <1>h, <2>0, <3>3
      <4> QED BY <1>0, <3>3, <4>1 DEF LocalTypes
    <3> QED BY <1>5, <3>1, <3>2, <3>3 DEF Refill
  <2>2. LocalTypes'
    BY <1>0, <1>5, <2>1 DEF Refill, LocalTypes
  <2>3. UNCHANGED <<fifoVars, producerVars, stateVars, burstVars>>
    BY <1>5 DEF Refill
  <2> QED BY <1>0, <1>t, <2>2, <2>3, Frame
<1>6. CASE TakeLoad
  <2>1. LocalTypes'
    BY <1>0, <1>6 DEF TakeLoad, LocalTypes, localVars
  <2>2. UNCHANGED <<fifoVars, producerVars, stateVars, burstVars>>
    BY <1>6 DEF TakeLoad
  <2> QED BY <1>0, <1>t, <2>1, <2>2, Frame
<1>7. CASE TakeCopy
  <2>1. storage[SlotOf(read)] \in Item
    BY <1>0, CursorTypes DEF FifoTypes
  <2>2. LocalTypes'
    BY <1>0, <1>7, <2>1 DEF TakeCopy, LocalTypes
  <2>3. UNCHANGED <<fifoVars, producerVars, stateVars, burstVars>>
    BY <1>7 DEF TakeCopy
  <2> QED BY <1>0, <1>t, <2>2, <2>3, Frame
<1>8. CASE TakeRelease
  <2>1. /\ queue # <<>> /\ wanting \in 0..Capacity /\ wanting > 0
        /\ pending \in 0..Capacity /\ pending + wanting <= Capacity
    BY <1>0, <1>8 DEF TakeRelease, StepInv, LocalTypes, StateTypes
  <2>2. Tail(queue) \in Seq(Item) /\ Advance(read) \in Cursor
    BY <1>0, <2>1, CursorTypes DEF FifoTypes
  <2>3. FifoTypes'
    BY <1>0, <1>8, <2>2 DEF TakeRelease, FifoTypes, LocalTypes
  <2>4. wanting - 1 \in 0..Capacity /\ pending + 1 \in 0..Capacity
    BY <1>h, <2>1
  <2>5. LocalTypes'
    BY <1>0, <1>8, <1>n, <2>4 DEF TakeRelease, LocalTypes
  <2>6. StateTypes'
    BY <1>0, <1>8, <2>4 DEF TakeRelease, StateTypes
  <2>7. UNCHANGED <<producerVars, burstVars>>
    BY <1>8 DEF TakeRelease
  <2> QED BY <1>0, <1>t, <2>3, <2>5, <2>6, <2>7, Frame
<1>9. CASE Convert
  <2>1. PICK used \in 0..pending :
          /\ pending' = pending - used
          /\ padded' = IF padding THEN padded + used ELSE padded
          /\ UNCHANGED <<taken, padding>>
          /\ ConversionFails \/ NoOutput(used) \/ Delivers
    BY <1>9 DEF Convert
  <2>2. pending \in 0..Capacity /\ used \in Nat /\ padded \in Nat /\ taken \in Nat
    BY <1>0, <1>h DEF StateTypes
  <2>3. pending' \in 0..Capacity /\ padded' \in Nat
    BY <1>h, <2>1, <2>2
  <2>4. /\ cpc' \in {"complete", "idle", "refill", "ready"}
        /\ retries' \in 0..RefillLimit /\ failing' \in BOOLEAN
    BY <1>0, <1>a, <1>s, <1>h, <2>1 DEF ConversionFails, NoOutput, Delivers, LocalTypes
  <2>5. Fed' \in Int
    BY <2>1, <2>2, <2>3 DEF Fed
  <2>6. position' \in Int
    BY <1>0, <2>1, <2>5 DEF ConversionFails, NoOutput, Delivers, StateTypes
  <2>7. cached' \in 0..CacheMax /\ muteFault' \in BOOLEAN /\ zeroProgress' \in BOOLEAN
    <3>1. CASE ConversionFails
      BY <1>0, <3>1 DEF ConversionFails, StateTypes
    <3>2. CASE NoOutput(used)
      BY <1>0, <3>2 DEF NoOutput, StateTypes
    <3>3. CASE Delivers
      <4>1. cached' \in 0..CacheMax
        BY <1>h, <3>3 DEF Delivers
      <4>2. muteFault' \in BOOLEAN
        BY <1>0, <3>3 DEF Delivers, StateTypes
      <4>3. zeroProgress' \in BOOLEAN
        BY <3>3 DEF Delivers
      <4> QED BY <4>1, <4>2, <4>3
    <3> QED BY <2>1, <3>1, <3>2, <3>3
  <2>8. LocalTypes'
    BY <1>0, <1>9, <2>4 DEF Convert, LocalTypes
  <2>9. StateTypes'
    BY <1>0, <1>9, <2>1, <2>3, <2>6, <2>7 DEF Convert, StateTypes
  <2>10. UNCHANGED <<fifoVars, producerVars, burstVars>>
    BY <1>9 DEF Convert
  <2> QED BY <1>0, <1>t, <2>8, <2>9, <2>10, Frame
<1>10. CASE Play
  <2>1. LocalTypes'
    BY <1>0, <1>10 DEF Play, LocalTypes, localVars
  <2>2. cached' \in 0..CacheMax
    BY <1>0, <1>10, <1>h DEF Play, StateTypes, StepInv
  <2>3. position' \in Int
    <3>1. Fed \in Int
      BY <1>0, <1>h DEF Fed, StateTypes
    <3> QED BY <1>0, <1>10, <3>1 DEF Play, StateTypes
  <2>4. StateTypes'
    BY <1>0, <1>10, <2>2, <2>3 DEF Play, StateTypes
  <2>5. UNCHANGED <<fifoVars, producerVars, burstVars>>
    BY <1>10 DEF Play
  <2> QED BY <1>0, <1>t, <2>1, <2>4, <2>5, Frame
<1>21. CASE ReachEnd
  <2>1. LocalTypes'
    BY <1>0, <1>21 DEF ReachEnd, LocalTypes, localVars
  <2>2. UNCHANGED <<fifoVars, producerVars, stateVars, burstVars>>
    BY <1>21 DEF ReachEnd
  <2> QED BY <1>0, <1>t, <2>1, <2>2, Frame
<1>22. CASE TakeEnd
  <2>1. pending' \in 0..Capacity /\ padding' \in BOOLEAN
    <3>1. CASE pending' = Quantum /\ padding' = TRUE
      BY <1>h, <3>1
    <3>2. CASE UNCHANGED <<pending, padding>>
      BY <1>0, <3>2 DEF StateTypes
    <3> QED BY <1>22, <3>1, <3>2 DEF TakeEnd
  <2>2. /\ cpc' \in {"complete", "idle", "refill", "convert"}
        /\ retries' \in 0..RefillLimit /\ failing' \in BOOLEAN /\ wanting' = 0
    BY <1>0, <1>22, <1>s DEF TakeEnd, LocalTypes
  <2>3. LocalTypes'
    BY <1>0, <1>22, <1>h, <2>2 DEF TakeEnd, LocalTypes
  <2>4. StateTypes'
    BY <1>0, <1>22, <2>1 DEF TakeEnd, StateTypes
  <2>5. UNCHANGED <<fifoVars, producerVars, burstVars>>
    BY <1>22 DEF TakeEnd
  <2> QED BY <1>0, <1>t, <2>3, <2>4, <2>5, Frame
<1>11. CASE Drain
  <2>1. LocalTypes'
    BY <1>0, <1>11 DEF Drain, LocalTypes, localVars
  <2>2. Remaining > 0 => Remaining - 1 \in Nat
    BY <1>0, <1>h DEF Remaining, StateTypes, NoTail
  <2>3. finite' \in [end : Nat \cup {-1}, tail : Nat \cup {NoTail}]
    BY <1>0, <1>11, <2>2 DEF Drain, StateTypes, feedVars
  <2>4. StateTypes'
    BY <1>0, <1>11, <2>3 DEF Drain, StateTypes, feedVars
  <2>5. UNCHANGED <<fifoVars, producerVars, burstVars>>
    BY <1>11 DEF Drain
  <2> QED BY <1>0, <1>t, <2>1, <2>4, <2>5, Frame
<1>12. ASSUME NEW ok \in BOOLEAN, StateReset(ok), quiet' \in BOOLEAN
       PROVE  StateTypes'
  <2>1. NoFinite \in [end : Nat \cup {-1}, tail : Nat \cup {NoTail}]
    BY DEF NoFinite, NoTail
  <2>2. 0 \in 0..CacheMax /\ 0 \in 0..Capacity
    BY <1>h
  <2> QED BY <1>h, <1>12, <2>1, <2>2 DEF StateReset, FeedReset, StateTypes
<1>13. CASE Complete
  <2>1. StateTypes'
    BY <1>12, <1>13 DEF Complete
  <2>2. failing' \in BOOLEAN
    BY <1>0, <1>13 DEF Complete, LocalTypes
  <2>3. LocalTypes'
    BY <1>0, <1>13, <2>2 DEF Complete, LocalTypes
  <2>4. UNCHANGED <<fifoVars, producerVars, burstVars>>
    BY <1>13 DEF Complete
  <2> QED BY <1>0, <1>t, <2>1, <2>3, <2>4, Frame
<1>14. CASE RetireLoad \/ ResetLoad
  <2>1. LocalTypes'
    BY <1>0, <1>14 DEF RetireLoad, ResetLoad, LoadWritten, LocalTypes, FifoTypes, ResetSteps
  <2>2. UNCHANGED <<fifoVars, producerVars, stateVars, burstVars>>
    BY <1>14 DEF RetireLoad, ResetLoad, LoadWritten
  <2> QED BY <1>0, <1>t, <2>1, <2>2, Frame
<1>15. CASE RetireStore \/ ResetStore
  <2> DEFINE d == Distance(cseen, read)
  <2>0. d \in Nat /\ Len(queue) \in Nat
    BY <1>0, CursorTypes DEF FifoTypes, LocalTypes
  <2>1. SubSeq(queue, d + 1, Len(queue)) \in Seq(Item)
    <3>1. d + 1 \in 1..(Len(queue) + 1) \/ d + 1 > Len(queue)
      BY <2>0
    <3> QED BY <1>0, <2>0, <3>1, SubSeqProperties DEF FifoTypes
  <2>2. FifoTypes'
    BY <1>0, <1>15, <2>1 DEF RetireStore, ResetStore, Discard, FifoTypes, LocalTypes
  <2>3. LocalTypes'
    BY <1>0, <1>15, CursorTypes DEF RetireStore, ResetStore, Discard, LocalTypes, ResetSteps
  <2>4. finish' \in Nat /\ boundary' \in Nat /\ skipped' \in BOOLEAN
    BY <1>0, <1>15 DEF RetireStore, ResetStore, Discard, BurstTypes
  <2>5. UNCHANGED <<producerVars, stateVars>>
    BY <1>15 DEF RetireStore, ResetStore, Discard
  <2> QED BY <1>0, <1>t, <2>2, <2>3, <2>4, <2>5, Frame DEF BurstTypes
<1>16. CASE Ack
  <2>1. LocalTypes'
    BY <1>0, <1>16 DEF Ack, LocalTypes
  <2>2. ctoken * 4 + CompletionStatus \in Nat
    BY <1>0 DEF CompletionStatus, AdapterError, Drained, LocalTypes
  <2>3. BurstTypes'
    BY <1>0, <1>16, <2>2 DEF Ack, BurstTypes
  <2>4. UNCHANGED <<fifoVars, producerVars, stateVars>>
    BY <1>16 DEF Ack
  <2> QED BY <1>0, <1>t, <2>1, <2>3, <2>4, Frame
<1>17. CASE ResetBegin
  <2>1. LocalTypes'
    BY <1>0, <1>17 DEF ResetBegin, LocalTypes, localVars, ResetSteps
  <2>2. UNCHANGED <<fifoVars, producerVars, stateVars, burstVars>>
    BY <1>17 DEF ResetBegin
  <2> QED BY <1>0, <1>t, <2>1, <2>2, Frame
<1>18. CASE ResetState
  <2>1. StateTypes'
    BY <1>0, <1>12, <1>18 DEF ResetState, StateTypes
  <2>2. LocalTypes'
    BY <1>0, <1>18 DEF ResetState, LocalTypes, localVars, ResetSteps
  <2>3. UNCHANGED <<fifoVars, producerVars, burstVars>>
    BY <1>18 DEF ResetState
  <2> QED BY <1>0, <1>t, <2>1, <2>2, <2>3, Frame
<1>19. CASE ResetCheck
  <2>1. LocalTypes'
    BY <1>0, <1>19, <1>f DEF ResetCheck, LocalTypes, ResetSteps
  <2>2. UNCHANGED <<fifoVars, producerVars, stateVars, burstVars>>
    BY <1>19 DEF ResetCheck
  <2> QED BY <1>0, <1>t, <2>1, <2>2, Frame
<1>20. CASE ResetAck
  <2>1. LocalTypes'
    BY <1>0, <1>20 DEF ResetAck, LocalTypes, localVars
  <2>2. ctoken * 4 + Cancelled \in Nat
    BY <1>0 DEF Cancelled, LocalTypes
  <2>3. BurstTypes'
    BY <1>0, <1>20, <2>2 DEF ResetAck, BurstTypes
  <2>4. UNCHANGED <<fifoVars, producerVars, stateVars>>
    BY <1>20 DEF ResetAck
  <2> QED BY <1>0, <1>t, <2>1, <2>3, <2>4, Frame
<1> QED
  BY <1>1, <1>2, <1>3, <1>4, <1>5, <1>6, <1>7, <1>8, <1>9, <1>10, <1>11, <1>13, <1>14,
     <1>15, <1>16, <1>17, <1>18, <1>19, <1>20, <1>21, <1>22
  DEF RenderStep, ResetStep

-----------------------------------------------------------------------------
(* What one endpoint's steps leave of the other's.                         *)

LEMMA ProducerFrame ==
  ASSUME ProducerStep
  PROVE  UNCHANGED <<read, out, cpc, localVars, stateVars>>
<1> USE ProducerStep DEF ProducerStep, fifoVars, producerVars
<1>1. CASE PushSample \/ \E n \in 1..MaxBlock : Push(n) \/ Gap(n)
  BY <1>1 DEF PushSample, Push, Gap, Call
<1>2. CASE EntryGate \/ PublishGate \/ LoadRead
  BY <1>2 DEF EntryGate, PublishGate, LoadRead
<1>3. CASE WriteSlot \/ StoreWritten \/ FinishLoad \/ FinishStore
  BY <1>3 DEF WriteSlot, StoreWritten, FinishLoad, FinishStore
<1> QED BY <1>1, <1>2, <1>3

LEMMA ConsumerFrame ==
  ASSUME RenderStep \/ ResetBegin \/ ResetStep
  PROVE  UNCHANGED <<storage, written, accepted, producerVars>>
<1> USE DEF fifoVars
<1>1. CASE RenderBegin \/ Freeze \/ CheckQuiet \/ Prime \/ Refill
  BY <1>1 DEF RenderBegin, Freeze, CheckQuiet, Prime, Refill
<1>2. CASE TakeLoad \/ TakeCopy \/ TakeRelease \/ TakeEnd \/ Convert \/ Play \/ ReachEnd \/ Drain
  BY <1>2 DEF TakeLoad, TakeCopy, TakeRelease, TakeEnd, Convert, Play, ReachEnd, Drain
<1>3. CASE Complete \/ RetireLoad \/ RetireStore \/ Ack \/ ResetBegin \/ ResetLoad
  BY <1>3 DEF Complete, RetireLoad, RetireStore, LoadWritten, Discard, Ack, ResetBegin,
     ResetLoad
<1>4. CASE ResetStore \/ ResetState \/ ResetCheck \/ ResetAck
  BY <1>4 DEF ResetStore, Discard, ResetState, ResetCheck, ResetAck
<1> QED BY <1>1, <1>2, <1>3, <1>4 DEF RenderStep, ResetStep

\* Only two consumer steps move the read cursor.
LEMMA QueueFrame ==
  ASSUME RenderStep \/ ResetBegin \/ ResetStep,
         ~TakeRelease, ~RetireStore, ~ResetStore
  PROVE  UNCHANGED fifoVars
<1>1. CASE RenderBegin \/ Freeze \/ CheckQuiet \/ Prime \/ Refill
  BY <1>1 DEF RenderBegin, Freeze, CheckQuiet, Prime, Refill
<1>2. CASE TakeLoad \/ TakeCopy \/ TakeEnd \/ Convert \/ Play \/ ReachEnd \/ Drain
  BY <1>2 DEF TakeLoad, TakeCopy, TakeEnd, Convert, Play, ReachEnd, Drain
<1>3. CASE Complete \/ RetireLoad \/ Ack \/ ResetBegin \/ ResetLoad
  BY <1>3 DEF Complete, RetireLoad, LoadWritten, Ack, ResetBegin, ResetLoad
<1>4. CASE ResetState \/ ResetCheck \/ ResetAck
  BY <1>4 DEF ResetState, ResetCheck, ResetAck
<1> QED BY <1>1, <1>2, <1>3, <1>4 DEF RenderStep, ResetStep

-----------------------------------------------------------------------------
(* The other parts of the invariant, step by step.                         *)

LEMMA CallStep ==
  ASSUME IInv, [Next]_vars
  PROVE  CallInv'
<1>0. ProducerTypes /\ CallInv
  BY DEF IInv, TypeOK
<1>1. CASE ProducerStep
  <2>1. ASSUME NEW step, NEW n \in Nat \ {0}, NEW gap, Call(step, n, gap)
        PROVE  CallInv'
    BY <1>0, <2>1, SizeAssumption DEF Call, CallInv, ProducerTypes
  <2>2. CASE PushSample
    <3>1. Call("gate", 1, FALSE)
      BY <2>2 DEF PushSample
    <3>2. 1 \in Nat \ {0}
      OBVIOUS
    <3> QED BY <2>1, <3>1, <3>2
  <2>3. ASSUME NEW n \in 1..MaxBlock, Push(n) \/ Gap(n)
        PROVE  CallInv'
    <3>1. n \in Nat \ {0}
      BY SizeAssumption
    <3>2. Call("entry", n, FALSE) \/ Call("entry", n, TRUE)
      BY <2>3 DEF Push, Gap
    <3> QED BY <2>1, <3>1, <3>2
  <2>4. CASE EntryGate
    BY <1>0, <2>4 DEF EntryGate, ReturnToHost, CallInv
  <2>5. CASE PublishGate
    BY <1>0, <2>5 DEF PublishGate, ReturnToHost, CallInv
  <2>6. CASE LoadRead
    BY <1>0, <2>6 DEF LoadRead, ReturnToHost, CallInv
  <2>7. CASE WriteSlot
    BY <1>0, <2>7 DEF WriteSlot, CallInv
  <2>8. CASE StoreWritten
    <3>1. CASE ReturnToHost
      BY <3>1 DEF ReturnToHost, CallInv
    <3>2. CASE Rest > 0 /\ call' = [call EXCEPT !.done = @ + 1]
      <4>1. call'.base = call.base /\ call'.len = call.len /\ call'.done = call.done + 1
        BY <1>0, <3>2 DEF ProducerTypes
      <4>2. call.done + 1 < call.len /\ call.base + call.len <= MaxOffered
        BY <1>0, <2>8, <3>2 DEF Rest, ProducerTypes, CallInv, StoreWritten
      <4> QED BY <4>1, <4>2 DEF CallInv
    <3> QED BY <2>8, <3>1, <3>2 DEF StoreWritten
  <2>9. CASE FinishLoad \/ FinishStore
    BY <1>0, <2>9 DEF FinishLoad, FinishStore, CallInv
  <2> QED BY <1>1, <2>2, <2>3, <2>4, <2>5, <2>6, <2>7, <2>8, <2>9 DEF ProducerStep
<1>2. CASE RenderStep \/ ResetBegin \/ ResetStep
  BY <1>0, <1>2, ConsumerFrame DEF CallInv, producerVars
<1>3. CASE UNCHANGED vars
  BY <1>0, <1>3 DEF vars, producerVars, CallInv
<1> QED BY <1>1, <1>2, <1>3 DEF Next

LEMMA RingKept ==
  ASSUME RingInv, UNCHANGED <<fifoVars, producerVars>>
  PROVE  RingInv'
BY DEF RingInv, fifoVars, producerVars, Current

LEMMA ProducerRingStep ==
  ASSUME IInv, ProducerStep
  PROVE  RingInv'
<1>0. FifoTypes /\ ProducerTypes /\ CallInv /\ RingInv /\ TypeOK
  BY DEF IInv, TypeOK
<1>1. ASSUME UNCHANGED fifoVars, ppc' \notin {"write", "store"}
      PROVE  RingInv'
  BY <1>0, <1>1 DEF RingInv, fifoVars
<1>2. CASE PushSample \/ \E n \in 1..MaxBlock : Push(n) \/ Gap(n)
  BY <1>1, <1>2 DEF PushSample, Push, Gap, Call
<1>3. CASE EntryGate
  BY <1>1, <1>3 DEF EntryGate, ReturnToHost
<1>4. CASE PublishGate
  BY <1>1, <1>4 DEF PublishGate, ReturnToHost
<1>5. CASE LoadRead
  <2>1. ~Full => Len(queue) < Capacity
    BY <1>0, CapacityAssumption DEF Full, RingInv, FifoTypes
  <2> QED BY <1>0, <1>5, <2>1 DEF LoadRead, ReturnToHost, RingInv, fifoVars
<1>6. CASE FinishLoad \/ FinishStore
  BY <1>1, <1>6 DEF FinishLoad, FinishStore
<1>7. /\ Len(queue) \in Nat /\ written \in Cursor /\ read \in Cursor
      /\ SlotOf(written) \in 0..(Capacity - 1)
      /\ Place(read, Len(queue) + 1) = written
  <2>1. /\ queue \in Seq(Item) /\ written \in Cursor /\ read \in Cursor
        /\ Distance(written, read) = Len(queue)
    BY <1>0, Zenon DEF RingInv, FifoTypes
  <2>2. Len(queue) \in Nat
    BY <2>1
  <2>3. SlotOf(written) \in 0..(Capacity - 1)
    BY <2>1, CursorTypes, Zenon
  <2>4. Place(read, Len(queue) + 1) = written
    BY <2>1, PlaceOfWritten, Zenon
  <2> QED BY <2>1, <2>2, <2>3, <2>4
<1>8. CASE WriteSlot
  <2>1. Current' = Current /\ ppc' = "store" /\ UNCHANGED <<written, read, queue>>
    BY <1>8 DEF WriteSlot, Current
  <2>2. storage'[SlotOf(written)] = Current
    BY <1>0, <1>7, <1>8 DEF WriteSlot, FifoTypes
  <2>3. Len(queue) < Capacity
    BY <1>0, <1>8 DEF RingInv, WriteSlot
  <2>4. ASSUME NEW i \in 1..Len(queue)
        PROVE  storage'[SlotOf(Place(read, i))] = queue[i]
    <3>1. i \in 1..Capacity /\ Len(queue) + 1 \in 1..Capacity /\ i # Len(queue) + 1
      BY <1>7, <2>3, CapacityAssumption
    <3>2. SlotOf(Place(read, i)) # SlotOf(written)
      BY <1>7, <3>1, PlacesDiffer
    <3>3. storage'[SlotOf(Place(read, i))] = storage[SlotOf(Place(read, i))]
      <4>1. Place(read, i) \in Cursor
        BY <1>7, <3>1, CapacityAssumption DEF Place, Cursor, Modulus
      <4>2. SlotOf(Place(read, i)) \in 0..(Capacity - 1)
        BY <4>1, CursorTypes
      <4> QED BY <1>0, <1>8, <3>2, <4>2 DEF WriteSlot, FifoTypes
    <3> QED BY <1>0, <3>3 DEF RingInv
  <2> QED BY <1>0, <2>1, <2>2, <2>3, <2>4 DEF RingInv
<1>9. CASE StoreWritten
  <2>1. /\ queue' = Append(queue, Current) /\ written' = Advance(written)
        /\ UNCHANGED <<storage, read>> /\ ppc' \in {"idle", "gate"}
    BY <1>9 DEF StoreWritten, ReturnToHost
  <2>2. Len(queue) < Capacity /\ storage[SlotOf(written)] = Current
    BY <1>0, <1>9 DEF RingInv, StoreWritten
  <2>3. Len(queue') = Len(queue) + 1 /\ queue'[Len(queue) + 1] = Current
          /\ \A i \in 1..Len(queue) : queue'[i] = queue[i]
    BY <1>0, <1>7, <2>1 DEF FifoTypes
  <2>4. Distance(written', read) = Len(queue) + 1
    <3>1. Distance(written, read) = Len(queue)
      BY <1>0 DEF RingInv
    <3>2. Distance(written, read) = IF written >= read THEN written - read
                                    ELSE written + Modulus - read
      BY <1>7, CursorLinear
    <3>3. written' = IF written + 1 < Modulus THEN written + 1 ELSE 0
      BY <1>7, <2>1, CursorLinear
    <3>4. written' \in Cursor
      BY <1>7, <2>1, CursorTypes
    <3>5. Distance(written', read) = IF written' >= read THEN written' - read
                                     ELSE written' + Modulus - read
      BY <1>7, <3>4, CursorLinear
    <3> QED BY <1>7, <2>2, <3>1, <3>2, <3>3, <3>4, <3>5, CapacityAssumption
            DEF Cursor, Modulus
  <2>5. ASSUME NEW i \in 1..Len(queue')
        PROVE  storage[SlotOf(Place(read, i))] = queue'[i]
    <3>1. i \in 1..Len(queue) \/ i = Len(queue) + 1
      BY <1>7, <2>3
    <3> QED BY <1>0, <1>7, <2>2, <2>3, <3>1 DEF RingInv
  <2>6. Len(queue') <= Capacity
    BY <1>7, <2>2, <2>3, CapacityAssumption
  <2> QED BY <2>1, <2>3, <2>4, <2>5, <2>6 DEF RingInv
<1> QED
  BY <1>2, <1>3, <1>4, <1>5, <1>6, <1>8, <1>9 DEF ProducerStep

LEMMA TakenRing ==
  ASSUME FifoTypes, RingInv, queue # <<>>,
         read' = Advance(read), queue' = Tail(queue),
         UNCHANGED <<storage, written, producerVars>>
  PROVE  RingInv'
<1>1. /\ Len(queue) \in Nat \ {0} /\ Len(queue) <= Capacity
      /\ Len(queue') = Len(queue) - 1
      /\ \A i \in 1..Len(queue') : queue'[i] = queue[i + 1]
  BY DEF FifoTypes, RingInv
<1>2. read' \in Cursor /\ read \in Cursor /\ written \in Cursor
  BY CursorTypes DEF FifoTypes
<1>3. read' = IF read + 1 < Modulus THEN read + 1 ELSE 0
  BY <1>2, CursorLinear
<1>4. Distance(written, read') = Len(queue')
  <2>1. Distance(written, read) = Len(queue)
    BY DEF RingInv
  <2>2. Distance(written, read) = IF written >= read THEN written - read
                                  ELSE written + Modulus - read
    BY <1>2, CursorLinear
  <2>3. Distance(written, read') = IF written >= read' THEN written - read'
                                   ELSE written + Modulus - read'
    BY <1>2, CursorLinear
  <2> QED BY <1>1, <1>2, <1>3, <2>1, <2>2, <2>3, CapacityAssumption DEF Cursor, Modulus
<1>5. ASSUME NEW i \in 1..Len(queue')
      PROVE  storage[SlotOf(Place(read', i))] = queue'[i]
  <2>1. i + 1 \in 1..Len(queue)
    BY <1>1
  <2>2. Place(read', i) = Place(read, i + 1)
    BY <1>1, <1>2, <1>3, <2>1, CapacityAssumption DEF Place, Cursor, Modulus
  <2> QED BY <1>1, <2>1, <2>2 DEF RingInv
<1> QED BY <1>1, <1>4, <1>5, CapacityAssumption DEF RingInv, producerVars, Current

LEMMA DiscardedRing ==
  ASSUME FifoTypes, RingInv, cseen \in Cursor, Distance(cseen, read) <= Len(queue),
         read' = cseen,
         queue' = SubSeq(queue, Distance(cseen, read) + 1, Len(queue)),
         UNCHANGED <<storage, written, producerVars>>
  PROVE  RingInv'
<1> DEFINE d == Distance(cseen, read)
           n == Len(queue)
<1>1. /\ n \in Nat /\ n <= Capacity /\ d \in Nat /\ d <= n
      /\ read \in Cursor /\ written \in Cursor
  BY CursorTypes DEF FifoTypes, RingInv
<1>2. Len(queue') = n - d /\ \A i \in 1..(n - d) : queue'[i] = queue[d + i]
  <2>1. \A i \in (d + 1)..n : queue[i] \in Item
    BY <1>1 DEF FifoTypes
  <2>2. /\ Len(queue') = IF d + 1 <= n THEN n - (d + 1) + 1 ELSE 0
        /\ \A i \in 1..(n - (d + 1) + 1) : queue'[i] = queue[(d + 1) + i - 1]
    BY <1>1, <2>1, SubSeqProperties
  <2>3. \A i \in 1..(n - d) : i \in 1..(n - (d + 1) + 1) /\ (d + 1) + i - 1 = d + i
    BY <1>1
  <2> QED BY <1>1, <2>2, <2>3
<1>3. Distance(written, read') = n - d
  BY <1>1, DistanceShift DEF RingInv
<1>4. ASSUME NEW i \in 1..Len(queue')
      PROVE  storage[SlotOf(Place(read', i))] = queue'[i]
  <2>0. i \in 1..(n - d)
    BY <1>2
  <2>1. i \in 1..(n - d) /\ d + i \in 1..n /\ i \in 1..Capacity /\ d + i <= Capacity
    <3> HIDE DEF d, n
    <3> QED BY <1>1, <2>0, CapacityAssumption
  <2>2. Place(read', i) = Place(read, d + i)
    BY <1>1, <2>1, PlaceShift
  <2> QED BY <1>2, <2>1, <2>2 DEF RingInv
<1>5. Len(queue') <= Capacity /\ (Len(queue) < Capacity => Len(queue') < Capacity)
  BY <1>1, <1>2, CapacityAssumption
<1> HIDE DEF d, n
<1> QED BY <1>2, <1>3, <1>4, <1>5 DEF RingInv, producerVars, Current

LEMMA ConsumerRingStep ==
  ASSUME IInv, RenderStep \/ ResetBegin \/ ResetStep
  PROVE  RingInv'
<1>0. FifoTypes /\ LocalTypes /\ StepInv /\ RingInv
  BY DEF IInv, TypeOK
<1>1. UNCHANGED <<storage, written, producerVars>>
  BY ConsumerFrame
<1>2. CASE TakeRelease
  <2>1. queue # <<>>
    BY <1>0, <1>2 DEF TakeRelease, StepInv
  <2> QED BY <1>0, <1>1, <1>2, <2>1, TakenRing DEF TakeRelease
<1>3. CASE RetireStore \/ ResetStore
  <2>1. Distance(cseen, read) <= Len(queue) /\ cseen \in Cursor
    BY <1>0, <1>3 DEF RetireStore, ResetStore, Discard, StepInv, LocalTypes
  <2>2. read' = cseen /\ queue' = SubSeq(queue, Distance(cseen, read) + 1, Len(queue))
    BY <1>3 DEF RetireStore, ResetStore, Discard
  <2> QED BY <1>0, <1>1, <2>1, <2>2, DiscardedRing
<1>4. CASE ~TakeRelease /\ ~RetireStore /\ ~ResetStore
  BY <1>0, <1>1, <1>4, QueueFrame, RingKept
<1> QED BY <1>2, <1>3, <1>4

LEMMA ProducerStepKept ==
  ASSUME IInv, ProducerStep
  PROVE  StepInv'
<1>0. FifoTypes /\ StepInv /\ TypeOK /\ CallInv
  BY DEF IInv, TypeOK
<1>1. UNCHANGED <<read, cpc, wanting, pending, citem, cached, cseen>>
  BY ProducerFrame DEF localVars, stateVars, feedVars
<1>2. /\ queue # <<>> => queue' # <<>> /\ Head(queue') = Head(queue)
      /\ Len(queue) <= Len(queue')
  <2>1. CASE StoreWritten
    <3>1. Current \in Item /\ queue' = Append(queue, Current)
      BY <1>0, <2>1, CurrentIsItem DEF StoreWritten
    <3> QED BY <1>0, <3>1 DEF FifoTypes
  <2>2. CASE ~StoreWritten
    <3>1. queue' = queue
      BY <2>2 DEF ProducerStep, PushSample, Push, Gap, Call, EntryGate, PublishGate, LoadRead,
         WriteSlot, FinishLoad, FinishStore, fifoVars
    <3> QED BY <1>0, <3>1 DEF FifoTypes
  <2> QED BY <2>1, <2>2
<1>3. cpc \in {"retireStore", "resetStore"} => Distance(cseen, read) \in Nat /\ Len(queue) \in Nat
  BY <1>0, CursorTypes DEF TypeOK, LocalTypes, FifoTypes
<1>4. Len(queue') \in Nat
  <2>1. FifoTypes'
    BY ProducerTypeStep DEF TypeOK
  <2> QED BY <2>1 DEF FifoTypes
<1> QED BY <1>0, <1>1, <1>2, <1>3, <1>4 DEF StepInv

LEMMA ConsumerStepKept ==
  ASSUME IInv, RenderStep \/ ResetBegin \/ ResetStep
  PROVE  StepInv'
<1>0. FifoTypes /\ LocalTypes /\ StateTypes /\ StepInv /\ RingInv
  BY DEF IInv, TypeOK
<1>1. ASSUME cpc' \notin {"take", "copy", "release", "ready", "retireStore", "resetStore"}
      PROVE  StepInv'
  BY <1>1 DEF StepInv
<1>2. CASE RenderBegin \/ Freeze \/ CheckQuiet \/ Prime
  BY <1>1, <1>2 DEF RenderBegin, Freeze, CheckQuiet, Prime
<1>3. CASE Refill
  <2>1. \/ cpc' \in {"complete", "idle"}
        \/ cpc' = "ready" /\ cached > 0
        \/ cpc' = "take" /\ wanting' = IF pending < Desired THEN Desired - pending ELSE 0
    BY <1>3 DEF Refill, AdapterFails
  <2>2. cached' = cached /\ pending' = pending
    BY <1>3 DEF Refill, stateVars, feedVars
  <2>3. pending \in 0..Capacity /\ Desired \in 0..Capacity /\ Capacity \in Nat
    BY <1>0, CapacityAssumption, SizeAssumption DEF Desired, StateTypes
  <2>4. cpc' = "take" => pending' + wanting' <= Capacity
    BY <2>1, <2>2, <2>3
  <2> QED BY <2>1, <2>2, <2>4 DEF StepInv
<1>4. CASE TakeLoad
  <2>1. cpc = "take" /\ cpc' = "copy" /\ wanting > 0 /\ ~Empty
    BY <1>4 DEF TakeLoad, Takes
  <2>2. ~Empty => queue # <<>>
    <3>1. queue = <<>> => Distance(written, read) = 0
      BY <1>0 DEF RingInv
    <3>2. Distance(written, read) = IF written >= read THEN written - read
                                    ELSE written + Modulus - read
      BY <1>0, CursorLinear DEF FifoTypes
    <3> QED BY <1>0, <3>1, <3>2, CapacityAssumption DEF Empty, FifoTypes, Cursor, Modulus
  <2>3. UNCHANGED <<queue, wanting, pending>>
    BY <1>4 DEF TakeLoad, fifoVars, localVars, stateVars, feedVars
  <2> QED BY <1>0, <2>1, <2>2, <2>3 DEF StepInv
<1>5. CASE TakeCopy
  <2>1. /\ queue # <<>> /\ wanting > 0 /\ pending + wanting <= Capacity
        /\ UNCHANGED <<queue, wanting, pending>> /\ cpc' = "release"
    BY <1>0, <1>5 DEF TakeCopy, StepInv, fifoVars, stateVars, feedVars
  <2>2. Place(read, 1) = read /\ 1 \in 1..Len(queue)
    BY <1>0, <2>1, CapacityAssumption DEF Place, Cursor, Modulus, FifoTypes
  <2>3. storage[SlotOf(read)] = queue[1]
    BY <1>0, <2>2 DEF RingInv
  <2>4. citem' = Head(queue')
    BY <1>0, <1>5, <2>1, <2>3 DEF TakeCopy, FifoTypes
  <2> QED BY <2>1, <2>4 DEF StepInv
<1>6. CASE TakeRelease
  <2>1. /\ pending + wanting <= Capacity /\ cpc' = "take"
        /\ pending' = pending + 1 /\ wanting' = wanting - 1
    BY <1>0, <1>6 DEF TakeRelease, StepInv
  <2>2. pending \in Int /\ wanting \in Int
    BY <1>0 DEF LocalTypes, StateTypes
  <2>3. pending' + wanting' <= Capacity
    BY <2>1, <2>2
  <2> QED BY <2>1, <2>3 DEF StepInv
<1>11. CASE TakeEnd
  BY <1>1, <1>11 DEF TakeEnd, Starves, AdapterFails
<1>12. CASE Drain \/ Complete \/ Ack \/ ResetBegin \/ ResetState
  BY <1>1, <1>12 DEF Drain, Complete, Ack, ResetBegin, ResetState
<1>7. CASE Convert
  <2>1. \/ cpc' \in {"complete", "idle", "refill"}
        \/ cpc' = "ready" /\ cached' \in 1..CacheMax
    BY <1>7 DEF Convert, ConversionFails, NoOutput, Delivers, AdapterFails, Starves
  <2> QED BY <2>1, SizeAssumption DEF StepInv
<1>8. CASE Play \/ ReachEnd
  BY <1>1, <1>8 DEF Play, ReachEnd
<1>9. CASE RetireLoad \/ ResetLoad
  <2>1. cseen' = written /\ read' = read /\ queue' = queue
          /\ cpc' \in {"retireStore", "resetStore"}
    BY <1>9 DEF RetireLoad, ResetLoad, LoadWritten, fifoVars
  <2>2. Distance(cseen', read') = Len(queue')
    BY <1>0, <2>1 DEF RingInv
  <2>3. Distance(cseen', read') <= Len(queue')
    BY <1>0, <2>1, <2>2 DEF FifoTypes
  <2> QED BY <2>1, <2>3 DEF StepInv
<1>10. CASE RetireStore \/ ResetStore \/ ResetCheck \/ ResetAck
  BY <1>1, <1>10 DEF RetireStore, ResetStore, Discard, ResetCheck, ResetAck
<1> QED
  BY <1>2, <1>3, <1>4, <1>5, <1>6, <1>7, <1>8, <1>9, <1>10, <1>11, <1>12
  DEF RenderStep, ResetStep

-----------------------------------------------------------------------------

LEMMA InitInvariant == Init => IInv
<1> SUFFICES ASSUME Init PROVE IInv
  OBVIOUS
<1>1. CallInv /\ StepInv
  BY DEF Init, CallInv, StepInv
<1>2. Distance(written, read) = 0
  BY CursorLinear, CursorTypes DEF Init
<1>3. RingInv
  BY <1>2, CapacityAssumption DEF Init, RingInv
<1> QED BY <1>1, <1>3, InitTypes DEF IInv

LEMMA NextInvariant == IInv /\ [Next]_vars => IInv'
<1> SUFFICES ASSUME IInv, [Next]_vars PROVE IInv'
  OBVIOUS
<1>1. CallInv'
  BY CallStep
<1>2. CASE ProducerStep
  BY <1>1, <1>2, ProducerTypeStep, ProducerStepKept, ProducerRingStep DEF IInv
<1>3. CASE RenderStep \/ ResetBegin \/ ResetStep
  BY <1>1, <1>3, ConsumerTypeStep, ConsumerStepKept, ConsumerRingStep DEF IInv
<1>4. CASE UNCHANGED vars
  <2>1. UNCHANGED <<fifoVars, producerVars, cpc, localVars, stateVars, burstVars>>
    BY <1>4 DEF vars
  <2>2. TypeOK'
    BY <2>1, Frame DEF IInv, TypeOK
  <2>3. StepInv'
    BY <2>1 DEF IInv, StepInv, fifoVars, localVars, stateVars, feedVars
  <2> QED BY <1>1, <2>1, <2>2, <2>3, RingKept DEF IInv
<1> QED BY <1>2, <1>3, <1>4 DEF Next

\* Queue, slots and cursors agree, and a running call still has what it checked,
\* in every reachable state.
THEOREM Invariance == Spec => []IInv
BY InitInvariant, NextInvariant, PTL DEF Spec

\* Every variable keeps its type.
THEOREM TypeCorrect == Spec => []TypeOK
BY Invariance, PTL DEF IInv

\* The producer never writes the slot the consumer copies: a slot is written
\* only in front of the unread samples, and copied only from among them.
THEOREM NoSlotRaceHolds == Spec => []NoSlotRace
<1>1. IInv => NoSlotRace
  <2> SUFFICES ASSUME IInv, ppc = "write", cpc = "copy"
               PROVE  SlotOf(written) # SlotOf(read)
    BY DEF NoSlotRace
  <2>1. FifoTypes /\ StepInv /\ RingInv
    BY DEF IInv, TypeOK
  <2>2. /\ Len(queue) \in 1..(Capacity - 1) /\ read \in Cursor /\ written \in Cursor
        /\ Distance(written, read) = Len(queue)
    BY <2>1, CapacityAssumption DEF FifoTypes, StepInv, RingInv
  <2>3. Place(read, Len(queue) + 1) = written
    BY <2>2, PlaceOfWritten
  <2>4. Place(read, 1) = read
    BY <2>2, CapacityAssumption DEF Place, Cursor, Modulus
  <2>5. 1 \in 1..Capacity /\ Len(queue) + 1 \in 1..Capacity /\ 1 # Len(queue) + 1
    BY <2>2, CapacityAssumption
  <2> QED BY <2>2, <2>3, <2>4, <2>5, PlacesDiffer
<1> QED BY <1>1, Invariance, PTL

\* The slots and cursors implement a bounded queue: a step appends an accepted
\* sample, takes the oldest one, drops a prefix, or is no queue step at all.
THEOREM RingImplementsFifo == Spec => FifoSpec
<1>1. Init => Fifo!Init
  BY DEF Init, Fifo!Init
<1>2. IInv /\ [Next]_vars => [Fifo!Next]_(Fifo!vars)
  <2> SUFFICES ASSUME IInv, [Next]_vars
               PROVE  Fifo!Next \/ UNCHANGED <<queue, out>>
    BY DEF Fifo!vars
  <2>0. FifoTypes /\ LocalTypes /\ StepInv /\ RingInv /\ CallInv /\ TypeOK
    BY DEF IInv, TypeOK
  <2>1. CASE StoreWritten
    <3>1. Len(queue) < Capacity /\ Current \in Item
      BY <2>0, <2>1, CurrentIsItem DEF StoreWritten, RingInv
    <3>2. queue' = Append(queue, Current) /\ out' = out
      BY <2>1 DEF StoreWritten
    <3>3. Fifo!Put(Current)
      BY <3>1, <3>2 DEF Fifo!Put
    <3> QED BY <3>1, <3>3 DEF Fifo!Next
  <2>2. CASE TakeRelease
    <3>1. Fifo!Take
      BY <2>0, <2>2 DEF TakeRelease, StepInv, Fifo!Take
    <3> QED BY <3>1 DEF Fifo!Next
  <2>3. CASE RetireStore \/ ResetStore
    <3> DEFINE d == Distance(cseen, read)
    <3>1. d \in Nat /\ d <= Len(queue) /\ Len(queue) \in Nat
      <4>1. cpc \in {"retireStore", "resetStore"}
        BY <2>3 DEF RetireStore, ResetStore, Discard
      <4>2. d <= Len(queue)
        BY <2>0, <4>1 DEF StepInv
      <4>3. cseen \in Cursor /\ read \in Cursor /\ queue \in Seq(Item)
        BY <2>0 DEF FifoTypes, LocalTypes
      <4>4. d \in 0..(Modulus - 1)
        BY <4>3, CursorTypes
      <4>5. Modulus \in Nat
        BY CapacityAssumption DEF Modulus
      <4>6. d \in Nat
        BY <4>4, <4>5
      <4> HIDE DEF d
      <4> QED BY <4>2, <4>3, <4>6
    <3>2. queue' = SubSeq(queue, d + 1, Len(queue)) /\ out' = out
      BY <2>3 DEF RetireStore, ResetStore, Discard
    <3>3. CASE d = 0
      <4>1. SubSeq(queue, 1, Len(queue)) = queue
        BY <2>0 DEF FifoTypes
      <4> QED BY <3>2, <3>3, <4>1
    <3>4. CASE d # 0
      <4>1. d \in 1..Len(queue) /\ Fifo!Drop(d)
        BY <3>1, <3>2, <3>4 DEF Fifo!Drop
      <4> QED BY <4>1 DEF Fifo!Next
    <3> QED BY <3>3, <3>4
  <2>4. CASE ProducerStep /\ ~StoreWritten
    BY <2>4 DEF ProducerStep, PushSample, Push, Gap, Call, EntryGate, PublishGate, LoadRead,
       WriteSlot, FinishLoad, FinishStore, fifoVars
  <2>5. CASE (RenderStep \/ ResetBegin \/ ResetStep) /\ ~TakeRelease /\ ~RetireStore
               /\ ~ResetStore
    BY <2>5, QueueFrame DEF fifoVars
  <2>6. CASE UNCHANGED vars
    BY <2>6 DEF vars, fifoVars
  <2> QED BY <2>1, <2>2, <2>3, <2>4, <2>5, <2>6 DEF Next
<1> QED BY <1>1, <1>2, Invariance, PTL DEF Spec, FifoSpec, Fifo!Spec

-----------------------------------------------------------------------------
(***************************************************************************)
(* The finite bursts: how the two owners of the finish word hand it over,  *)
(* what belongs to a burst, where its samples are accounted for, and what  *)
(* a settled finish tells of them.                                         *)
(***************************************************************************)

-----------------------------------------------------------------------------
(* The packed word.                                                        *)

LEMMA PendingWord ==
  ASSUME NEW t \in Nat, t # 0
  PROVE  Pending(t * 4) /\ TokenOf(t * 4) = t
BY DEF Pending, TokenOf

LEMMA SettledWord ==
  ASSUME NEW t \in Nat, NEW status \in 1..3
  PROVE  ~Pending(t * 4 + status) /\ TokenOf(t * 4 + status) = t
BY DEF Pending, TokenOf

-----------------------------------------------------------------------------
(* A pending finish keeps the producer out of the slots, and belongs to    *)
(* whatever boundary or acknowledgement the consumer is working on.        *)

Completing == {"retireLoad", "retireStore", "ack"}

BurstInv ==
  /\ Pending(finish) => ppc \notin {"load", "write", "store", "finish"}
  /\ ppc = "finish" => ptoken = TokenOf(finish) + 1
  /\ IsFinite \/ cpc \in Completing \cup {"freeze", "resetAck"}
       => Pending(finish) /\ TokenOf(finish) = ctoken
  /\ cpc \in {"drain", "complete"} => IsFinite
  /\ cpc \in Completing \cup {"resetCheck", "resetAck"}
       => ~IsFinite /\ cached = 0 /\ pending = 0 /\ ~padding /\ taken = 0

\* Where a render or reset step leaves the word, and which steps settle it.
LEMMA FinishFrame ==
  ASSUME RenderStep \/ ResetBegin \/ ResetStep, ~Ack, ~ResetAck
  PROVE  finish' = finish
<1> USE DEF burstVars
<1>1. CASE RenderBegin \/ Freeze \/ CheckQuiet \/ Prime \/ Refill
  BY <1>1 DEF RenderBegin, Freeze, CheckQuiet, Prime, Refill
<1>2. CASE TakeLoad \/ TakeCopy \/ TakeRelease \/ TakeEnd \/ Convert \/ Play \/ ReachEnd \/ Drain
  BY <1>2 DEF TakeLoad, TakeCopy, TakeRelease, TakeEnd, Convert, Play, ReachEnd, Drain
<1>3. CASE Complete \/ RetireLoad \/ RetireStore \/ ResetBegin \/ ResetLoad
  BY <1>3 DEF Complete, RetireLoad, RetireStore, LoadWritten, Discard, ResetBegin, ResetLoad
<1>4. CASE ResetStore \/ ResetState \/ ResetCheck
  BY <1>4 DEF ResetStore, Discard, ResetState, ResetCheck
<1> QED BY <1>1, <1>2, <1>3, <1>4 DEF RenderStep, ResetStep

LEMMA ProducerBurstStep ==
  ASSUME TypeOK, BurstInv, ProducerStep
  PROVE  BurstInv'
<1>0. ProducerTypes /\ BurstTypes /\ LocalTypes
  BY DEF TypeOK
<1>1. UNCHANGED <<cpc, ctoken, finite, cached, pending, padding, taken>>
  BY ProducerFrame DEF localVars, stateVars, feedVars
<1>2. IsFinite' = IsFinite
  BY <1>1 DEF IsFinite
<1>3. ASSUME finish' = finish,
             ppc' \in {"load", "write", "store"} => ~Pending(finish),
             ppc' = "finish" => ~Pending(finish) /\ ptoken' = TokenOf(finish) + 1
      PROVE  BurstInv'
  BY <1>1, <1>2, <1>3 DEF BurstInv
<1>4. CASE PushSample \/ \E n \in 1..MaxBlock : Push(n) \/ Gap(n)
  BY <1>3, <1>4 DEF PushSample, Push, Gap, Call, burstVars
<1>5. CASE EntryGate
  BY <1>3, <1>5 DEF EntryGate, ReturnToHost, burstVars
<1>6. CASE PublishGate
  BY <1>3, <1>6 DEF PublishGate, ReturnToHost, FinishPending, burstVars
<1>7. CASE LoadRead
  <2>1. ~Pending(finish)
    BY <1>7 DEF LoadRead, BurstInv
  <2> QED BY <1>3, <1>7, <2>1 DEF LoadRead, ReturnToHost, burstVars
<1>8. CASE WriteSlot
  <2>1. ~Pending(finish)
    BY <1>8 DEF WriteSlot, BurstInv
  <2> QED BY <1>3, <1>8, <2>1 DEF WriteSlot, burstVars
<1>9. CASE StoreWritten
  BY <1>3, <1>9 DEF StoreWritten, ReturnToHost, burstVars
<1>10. CASE FinishLoad
  BY <1>3, <1>10 DEF FinishLoad, burstVars
<1>11. CASE FinishStore
  <2>1. ~Pending(finish) /\ ~IsFinite
          /\ cpc \notin Completing \cup {"freeze", "resetAck"}
    BY <1>11 DEF FinishStore, BurstInv
  <2>2. ppc' = "idle"
    BY <1>11 DEF FinishStore
  <2> QED BY <1>1, <1>2, <2>1, <2>2 DEF BurstInv
<1> QED
  BY <1>4, <1>5, <1>6, <1>7, <1>8, <1>9, <1>10, <1>11 DEF ProducerStep

LEMMA ConsumerBurstStep ==
  ASSUME TypeOK, BurstInv, RenderStep \/ ResetBegin \/ ResetStep
  PROVE  BurstInv'
<1>0. LocalTypes /\ StateTypes /\ BurstTypes
  BY DEF TypeOK
<1>1. UNCHANGED <<ppc, ptoken>>
  BY ConsumerFrame DEF producerVars
\* Most steps leave the word alone and keep or give up the boundary.
<1>2. ASSUME finish' = finish, ctoken' = ctoken, finite' = finite,
             cpc' \notin Completing \cup {"freeze", "resetCheck", "resetAck"},
             cpc' \in {"drain", "complete"} => IsFinite
      PROVE  BurstInv'
  <2>1. IsFinite' = IsFinite
    BY <1>2 DEF IsFinite
  <2> QED BY <1>1, <1>2, <2>1 DEF BurstInv
<1>3. CASE RenderBegin
  <2>1. finish' = finish /\ UNCHANGED stateVars
    BY <1>3 DEF RenderBegin, burstVars
  <2>2. IsFinite' = IsFinite
    BY <2>1 DEF IsFinite, stateVars
  <2>3. CASE FinishPending /\ ~IsFinite /\ ctoken' = TokenOf(finish) /\ cpc' = "freeze"
    BY <1>1, <2>1, <2>2, <2>3 DEF BurstInv, FinishPending, Completing
  <2>4. CASE ctoken' = ctoken /\ cpc' = "quiet"
    BY <1>2, <2>1, <2>4 DEF Completing, stateVars
  <2> QED BY <1>3, <2>3, <2>4 DEF RenderBegin
<1>4. CASE Freeze
  <2>1. Pending(finish) /\ TokenOf(finish) = ctoken /\ finish' = finish /\ ctoken' = ctoken
          /\ cpc' = "quiet"
    BY <1>4 DEF Freeze, BurstInv, burstVars, localVars
  <2> QED BY <1>1, <2>1 DEF BurstInv, Completing
<1>5. CASE CheckQuiet
  BY <1>2, <1>5 DEF CheckQuiet, localVars, burstVars, Completing
<1>6. CASE Prime
  BY <1>2, <1>6 DEF Prime, Draining, localVars, burstVars, Completing
<1>7. CASE Refill
  BY <1>2, <1>7 DEF Refill, AdapterFails, stateVars, burstVars, Completing
<1>8. CASE TakeLoad
  BY <1>2, <1>8 DEF TakeLoad, localVars, stateVars, burstVars, Completing
<1>9. CASE TakeCopy
  BY <1>2, <1>9 DEF TakeCopy, stateVars, burstVars, Completing
<1>10. CASE TakeRelease
  BY <1>2, <1>10 DEF TakeRelease, burstVars, Completing
<1>11. CASE TakeEnd \/ Convert
  <2>1. UNCHANGED <<finish, ctoken, finite>>
    BY <1>11 DEF TakeEnd, Convert, burstVars
  <2>2. /\ cpc' \in {"idle", "refill", "convert", "ready", "complete"}
        /\ cpc' = "complete" => IsFinite
    BY <1>11 DEF TakeEnd, Convert, ConversionFails, NoOutput, Delivers, AdapterFails, Starves
  <2> QED BY <1>2, <2>1, <2>2 DEF Completing
<1>12. CASE Play \/ ReachEnd
  BY <1>2, <1>12 DEF Play, ReachEnd, PastEnd, localVars, stateVars, burstVars, Completing
<1>13. CASE Drain
  <2>1. IsFinite /\ Pending(finish) /\ TokenOf(finish) = ctoken
    BY <1>13 DEF Drain, BurstInv
  <2>2. UNCHANGED <<finish, ctoken>> /\ cpc' \in {"idle", "complete"}
    BY <1>13 DEF Drain, localVars, burstVars
  <2>3. cpc' = "complete" => finite' = finite
    BY <1>13 DEF Drain
  <2> QED BY <1>1, <2>1, <2>2, <2>3 DEF BurstInv, IsFinite, Completing
<1>14. CASE Complete
  <2>1. IsFinite /\ Pending(finish) /\ TokenOf(finish) = ctoken
    BY <1>14 DEF Complete, BurstInv
  <2>2. UNCHANGED <<finish, ctoken>> /\ cpc' \in {"retireLoad", "ack"}
          /\ finite' = NoFinite /\ cached' = 0 /\ pending' = 0 /\ padding' = FALSE
          /\ taken' = 0
    BY <1>14 DEF Complete, StateReset, FeedReset, burstVars
  <2> QED BY <1>1, <2>1, <2>2 DEF BurstInv, IsFinite, Completing
<1>15. CASE RetireLoad
  <2>1. /\ cpc = "retireLoad" /\ cpc' = "retireStore"
        /\ UNCHANGED <<finish, ctoken, stateVars>>
    BY <1>15 DEF RetireLoad, LoadWritten, burstVars
  <2> QED BY <1>1, <2>1 DEF BurstInv, IsFinite, Completing, stateVars, feedVars
<1>16. CASE RetireStore
  <2>1. /\ cpc = "retireStore" /\ cpc' = "ack"
        /\ UNCHANGED <<finish, ctoken, stateVars>>
    BY <1>16 DEF RetireStore, Discard
  <2> QED BY <1>1, <2>1 DEF BurstInv, IsFinite, Completing, stateVars, feedVars
\* An acknowledgement settles the word under its own token.
<1>17. ASSUME NEW status \in 1..3, finish' = ctoken * 4 + status, cpc' = "idle",
              UNCHANGED stateVars, ~IsFinite, Pending(finish), TokenOf(finish) = ctoken
       PROVE  BurstInv'
  <2>1. ~Pending(finish') /\ TokenOf(finish') = ctoken
    BY <1>0, <1>17, SettledWord DEF LocalTypes
  <2>2. ~IsFinite'
    BY <1>17 DEF IsFinite, stateVars
  <2>3. ppc' # "finish"
    BY <1>1, <1>17 DEF BurstInv
  <2> QED BY <1>17, <2>1, <2>2, <2>3 DEF BurstInv, Completing
<1>18. CASE Ack
  <2>1. CompletionStatus \in 1..3
    BY DEF CompletionStatus, AdapterError, Drained
  <2>2. ~IsFinite /\ Pending(finish) /\ TokenOf(finish) = ctoken
    BY <1>18 DEF Ack, BurstInv, Completing
  <2> QED BY <1>17, <1>18, <2>1, <2>2 DEF Ack
<1>19. CASE ResetBegin
  BY <1>2, <1>19 DEF ResetBegin, localVars, stateVars, burstVars, Completing
<1>20. CASE ResetLoad
  BY <1>2, <1>20 DEF ResetLoad, LoadWritten, stateVars, burstVars, Completing
<1>21. CASE ResetStore
  BY <1>2, <1>21 DEF ResetStore, Discard, stateVars, Completing
<1>22. CASE ResetState
  <2>1. UNCHANGED <<finish, ctoken>> /\ cpc' = "resetCheck"
          /\ finite' = NoFinite /\ cached' = 0 /\ pending' = 0 /\ padding' = FALSE
          /\ taken' = 0
    BY <1>22 DEF ResetState, StateReset, FeedReset, localVars, burstVars
  <2> QED BY <1>1, <2>1 DEF BurstInv, IsFinite, Completing
<1>23. CASE ResetCheck
  <2>1. finish' = finish /\ UNCHANGED stateVars
          /\ ~IsFinite /\ cached = 0 /\ pending = 0 /\ ~padding /\ taken = 0
    BY <1>23 DEF ResetCheck, BurstInv, burstVars
  <2>2. \/ Pending(finish) /\ ctoken' = TokenOf(finish) /\ cpc' = "resetAck"
        \/ cpc' = "idle"
    BY <1>23 DEF ResetCheck, FinishPending
  <2> QED BY <1>1, <2>1, <2>2 DEF BurstInv, IsFinite, Completing, stateVars, feedVars
<1>24. CASE ResetAck
  <2>1. ~IsFinite /\ Pending(finish) /\ TokenOf(finish) = ctoken
    BY <1>24 DEF ResetAck, BurstInv
  <2> QED BY <1>17, <1>24, <2>1 DEF ResetAck, Cancelled
<1> QED
  BY <1>3, <1>4, <1>5, <1>6, <1>7, <1>8, <1>9, <1>10, <1>11, <1>12, <1>13, <1>14, <1>15,
     <1>16, <1>18, <1>19, <1>20, <1>21, <1>22, <1>23, <1>24
  DEF RenderStep, ResetStep

\* Who owns the finish word, and under which token the consumer settles it, is
\* clear in every reachable state.
THEOREM BurstInvariance == Spec => []BurstInv
<1>1. Init => BurstInv
  BY DEF Init, BurstInv, IsFinite, Pending, Completing
<1>2. IInv /\ BurstInv /\ [Next]_vars => BurstInv'
  <2> SUFFICES ASSUME IInv, BurstInv, [Next]_vars PROVE BurstInv'
    OBVIOUS
  <2>1. CASE ProducerStep
    BY <2>1, ProducerBurstStep DEF IInv
  <2>2. CASE RenderStep \/ ResetBegin \/ ResetStep
    BY <2>2, ConsumerBurstStep DEF IInv
  <2>3. CASE UNCHANGED vars
    BY <2>3 DEF vars, BurstInv, IsFinite, producerVars, localVars, stateVars, feedVars,
       burstVars
  <2> QED BY <2>1, <2>2, <2>3 DEF Next
<1> QED BY <1>1, <1>2, Invariance, PTL DEF Spec

-----------------------------------------------------------------------------
(* Only the three steps that store the word change it.                     *)

LEMMA ProducerFinishFrame ==
  ASSUME ProducerStep, ~FinishStore
  PROVE  finish' = finish
BY DEF ProducerStep, PushSample, Push, Gap, Call, EntryGate, PublishGate, LoadRead,
   WriteSlot, StoreWritten, FinishLoad, burstVars

LEMMA FinishStored ==
  ASSUME TypeOK, BurstInv, FinishStore
  PROVE  ~Pending(finish) /\ Pending(finish') /\ TokenOf(finish') = TokenOf(finish) + 1
<1>1. ~Pending(finish) /\ finish' = ptoken * 4 /\ ptoken = TokenOf(finish) + 1
  BY DEF FinishStore, BurstInv
<1>2. ptoken \in Nat /\ finish \in Nat
  BY DEF TypeOK, ProducerTypes, BurstTypes
<1>3. ptoken # 0
  BY <1>1, <1>2 DEF TokenOf
<1> QED BY <1>1, <1>2, <1>3, PendingWord

LEMMA Acknowledged ==
  ASSUME TypeOK, BurstInv, Ack \/ ResetAck
  PROVE  /\ Pending(finish) /\ ~Pending(finish') /\ TokenOf(finish') = TokenOf(finish)
         /\ cached = 0 /\ pending = 0 /\ ~padding /\ taken = 0 /\ ~IsFinite
<1>0. ctoken \in Nat
  BY DEF TypeOK, LocalTypes
<1>1. cpc \in {"ack", "resetAck"}
  BY DEF Ack, ResetAck
<1>2. Pending(finish) /\ TokenOf(finish) = ctoken
        /\ cached = 0 /\ pending = 0 /\ ~padding /\ taken = 0 /\ ~IsFinite
  BY <1>1 DEF BurstInv, Completing
<1>3. PICK status \in 1..3 : finish' = ctoken * 4 + status
  BY DEF Ack, ResetAck, CompletionStatus, AdapterError, Drained, Cancelled
<1> QED BY <1>0, <1>2, <1>3, SettledWord

\* A finish is acknowledged once and under its own token, and the next one
\* takes the next token, however the two endpoints and a reset interleave.
THEOREM FinishHandshakeHolds == Spec => FinishHandshake
<1> DEFINE Handed ==
      finish' # finish =>
        \/ Pending(finish) /\ ~Pending(finish') /\ TokenOf(finish') = TokenOf(finish)
        \/ ~Pending(finish) /\ Pending(finish') /\ TokenOf(finish') = TokenOf(finish) + 1
<1>1. IInv /\ BurstInv /\ [Next]_vars => [Handed]_vars
  <2> SUFFICES ASSUME TypeOK, BurstInv, [Next]_vars PROVE Handed \/ UNCHANGED vars
    BY DEF IInv
  <2>1. CASE FinishStore
    BY <2>1, FinishStored
  <2>2. CASE Ack \/ ResetAck
    BY <2>2, Acknowledged
  <2>3. CASE Next /\ ~FinishStore /\ ~Ack /\ ~ResetAck
    BY <2>3, ProducerFinishFrame, FinishFrame DEF Next
  <2> QED BY <2>1, <2>2, <2>3
<1> QED BY <1>1, Invariance, BurstInvariance, PTL DEF Spec, FinishHandshake

\* The acknowledgement is stored only after the consumer has let go of the
\* burst: its cache, its padding, its boundary and its count are gone.
THEOREM AcknowledgedCleanHolds == Spec => AcknowledgedClean
<1> DEFINE Clean ==
      Pending(finish) /\ ~Pending(finish')
        => cached = 0 /\ pending = 0 /\ ~padding /\ taken = 0 /\ ~IsFinite
<1>1. IInv /\ BurstInv /\ [Next]_vars => [Clean]_vars
  <2> SUFFICES ASSUME TypeOK, BurstInv, [Next]_vars PROVE Clean \/ UNCHANGED vars
    BY DEF IInv
  <2>1. CASE FinishStore
    BY <2>1, FinishStored
  <2>2. CASE Ack \/ ResetAck
    BY <2>2, Acknowledged
  <2>3. CASE Next /\ ~FinishStore /\ ~Ack /\ ~ResetAck
    BY <2>3, ProducerFinishFrame, FinishFrame DEF Next
  <2> QED BY <2>1, <2>2, <2>3
<1> QED BY <1>1, Invariance, BurstInvariance, PTL DEF Spec, AcknowledgedClean

-----------------------------------------------------------------------------
(* The clock of the converter.  What it has put out is never ahead of what *)
(* it was fed, and what it was fed is never ahead of what was taken from   *)
(* the ring; and every refill wants a sample if its workspace is empty.    *)

ClockInv ==
  /\ position <= Fed
  /\ ~padding => pending <= taken
  /\ cpc \in {"take", "copy", "release"} => pending + wanting >= 1

LEMMA ConsumerClockStep ==
  ASSUME TypeOK, ClockInv, RenderStep \/ ResetBegin \/ ResetStep
  PROVE  ClockInv'
<1>0. /\ taken \in Nat /\ pending \in 0..Capacity /\ padding \in BOOLEAN /\ padded \in Nat
      /\ position \in Int /\ wanting \in 0..Capacity /\ zeroProgress \in BOOLEAN
      /\ pending \in Nat /\ wanting \in Nat
  BY CapacityAssumption DEF TypeOK, StateTypes, LocalTypes
\* Where the workspace and the clock stand still.
<1>1. ASSUME UNCHANGED <<taken, pending, padding, padded, position>>,
             cpc' \notin {"take", "copy", "release"} \/ UNCHANGED <<wanting>>,
             cpc' \in {"take", "copy", "release"} => cpc \in {"take", "copy", "release"}
      PROVE  ClockInv'
  BY <1>1 DEF ClockInv, Fed
<1>2. CASE RenderBegin \/ Freeze \/ CheckQuiet \/ Prime
  BY <1>1, <1>2 DEF RenderBegin, Freeze, CheckQuiet, Prime, stateVars, feedVars
<1>3. CASE Refill
  <2>1. UNCHANGED <<taken, pending, padding, padded, position>>
    BY <1>3 DEF Refill, stateVars, feedVars
  <2>2. CASE cpc' = "take"
    <3>1. wanting' = IF pending < Desired THEN Desired - pending ELSE 0
      BY <1>3, <2>2 DEF Refill, AdapterFails
    <3>2. Desired \in Nat /\ Desired >= 1
      BY <1>0, CapacityAssumption, SizeAssumption DEF Desired
    <3>3. pending + wanting' >= 1
      BY <1>0, <3>1, <3>2
    <3> QED BY <2>1, <3>3 DEF ClockInv, Fed
  <2>3. CASE cpc' # "take"
    BY <1>1, <1>3, <2>1, <2>3 DEF Refill, AdapterFails
  <2> QED BY <2>2, <2>3
<1>4. CASE TakeLoad \/ TakeCopy
  BY <1>1, <1>4 DEF TakeLoad, TakeCopy, localVars, stateVars, feedVars
<1>5. CASE TakeRelease
  <2>1. /\ taken' = taken + 1 /\ pending' = pending + 1 /\ wanting' = wanting - 1
        /\ cpc = "release" /\ UNCHANGED <<padding, padded, position>>
    BY <1>5 DEF TakeRelease
  <2>2. Fed' >= Fed
    BY <1>0, <2>1 DEF Fed
  <2>3. position' <= Fed'
    BY <1>0, <2>1, <2>2 DEF ClockInv, Fed
  <2>4. pending' + wanting' >= 1 /\ (~padding' => pending' <= taken')
    BY <1>0, <2>1 DEF ClockInv
  <2> QED BY <2>3, <2>4 DEF ClockInv
<1>6. CASE TakeEnd
  <2>1. /\ cpc' \notin {"take", "copy", "release"}
        /\ UNCHANGED <<taken, padded, position>>
        /\ \/ UNCHANGED <<pending, padding>>
           \/ pending = 0 /\ padding' = TRUE
    BY <1>6 DEF TakeEnd, Pads, Starves, AdapterFails
  <2>2. CASE UNCHANGED <<pending, padding>>
    BY <1>1, <2>1, <2>2
  <2>3. CASE pending = 0 /\ padding' = TRUE
    <3>1. Fed <= taken + padded
      BY <1>0, <2>3 DEF Fed
    <3>2. Fed' = taken + padded
      BY <2>1, <2>3 DEF Fed
    <3>3. Fed \in Int
      BY <1>0 DEF Fed
    <3>4. position' <= Fed'
      BY <1>0, <2>1, <3>1, <3>2, <3>3 DEF ClockInv
    <3> QED BY <2>1, <2>3, <3>4 DEF ClockInv
  <2> QED BY <2>1, <2>2, <2>3
<1>7. CASE Convert
  <2>1. PICK used \in 0..pending :
          /\ pending' = pending - used
          /\ padded' = (IF padding THEN padded + used ELSE padded)
          /\ UNCHANGED <<taken, padding>>
          /\ ConversionFails \/ NoOutput(used) \/ Delivers
    BY <1>7 DEF Convert
  <2>2. Fed \in Int /\ Fed' = Fed + used
    BY <1>0, <2>1 DEF Fed
  <2>3. position' \in position..Fed' \/ position' = position
    BY <2>1 DEF ConversionFails, NoOutput, Delivers
  <2>4. position' <= Fed'
    BY <1>0, <2>2, <2>3 DEF ClockInv
  <2>5. ~padding' => pending' <= taken'
    BY <1>0, <2>1 DEF ClockInv
  <2>6. cpc' \notin {"take", "copy", "release"}
    BY <2>1 DEF ConversionFails, NoOutput, Delivers, AdapterFails, Starves
  <2> QED BY <2>4, <2>5, <2>6 DEF ClockInv
<1>8. CASE Play
  <2>1. /\ UNCHANGED <<taken, pending, padding, padded>> /\ cpc' = "idle"
        /\ position' \in position..Fed
    BY <1>8 DEF Play
  <2>2. Fed' = Fed /\ Fed \in Int
    BY <1>0, <2>1 DEF Fed
  <2>3. position' <= Fed'
    BY <1>0, <2>1, <2>2
  <2> QED BY <2>1, <2>3 DEF ClockInv
<1>9. CASE ReachEnd \/ Drain \/ RetireLoad \/ RetireStore \/ Ack
  BY <1>1, <1>9 DEF ReachEnd, Drain, RetireLoad, LoadWritten, RetireStore, Discard, Ack,
     stateVars, feedVars
<1>10. CASE Complete \/ ResetState
  <2>1. /\ taken' = 0 /\ pending' = 0 /\ padding' = FALSE /\ position' = -FirDelay
        /\ cpc' \in {"retireLoad", "ack", "resetCheck"}
    BY <1>10 DEF Complete, ResetState, StateReset, FeedReset
  <2>2. Fed' = 0
    BY <2>1 DEF Fed
  <2> QED BY <2>1, <2>2, SizeAssumption DEF ClockInv
<1>11. CASE ResetBegin \/ ResetLoad \/ ResetStore \/ ResetCheck \/ ResetAck
  BY <1>1, <1>11 DEF ResetBegin, ResetLoad, LoadWritten, ResetStore, Discard, ResetCheck,
     ResetAck, stateVars, feedVars
<1> QED
  BY <1>2, <1>3, <1>4, <1>5, <1>6, <1>7, <1>8, <1>9, <1>10, <1>11 DEF RenderStep, ResetStep

\* The converter's clock is at or behind the frames it was fed, on every path
\* of a refill, of a padded tail and of a reset.
THEOREM ClockInvariance == Spec => []ClockInv
<1>1. Init => ClockInv
  BY SizeAssumption DEF Init, ClockInv, Fed
<1>2. IInv /\ ClockInv /\ [Next]_vars => ClockInv'
  <2> SUFFICES ASSUME IInv, ClockInv, [Next]_vars PROVE ClockInv'
    OBVIOUS
  <2>1. CASE ProducerStep
    <3>1. UNCHANGED <<cpc, wanting, taken, pending, padding, padded, position>>
      BY <2>1, ProducerFrame DEF localVars, stateVars, feedVars
    <3> QED BY <3>1 DEF ClockInv, Fed
  <2>2. CASE RenderStep \/ ResetBegin \/ ResetStep
    BY <2>2, ConsumerClockStep DEF IInv
  <2>3. CASE UNCHANGED vars
    BY <2>3 DEF vars, localVars, stateVars, feedVars, ClockInv, Fed
  <2> QED BY <2>1, <2>2, <2>3 DEF Next
<1> QED BY <1>1, <1>2, Invariance, PTL DEF Spec

-----------------------------------------------------------------------------
(* The boundary.  While it stands a finish is pending, which keeps the     *)
(* producer from adding to the queue; so what the consumer takes is all    *)
(* that moves, and padding finds the queue empty for good.                 *)

BoundaryInv ==
  /\ IsFinite /\ cpc \notin ResetSteps => finite.end = taken + Len(queue)
  /\ padding /\ cpc \notin ResetSteps => IsFinite /\ queue = <<>>

\* Only a published sample grows the queue.
LEMMA ProducerQueueFrame ==
  ASSUME ProducerStep, ~StoreWritten
  PROVE  queue' = queue
<1> USE DEF fifoVars
<1>1. CASE PushSample \/ \E n \in 1..MaxBlock : Push(n) \/ Gap(n)
  BY <1>1 DEF PushSample, Push, Gap, Call
<1>2. CASE EntryGate \/ PublishGate \/ LoadRead
  BY <1>2 DEF EntryGate, PublishGate, LoadRead
<1>3. CASE WriteSlot \/ FinishLoad \/ FinishStore
  BY <1>3 DEF WriteSlot, FinishLoad, FinishStore
<1> QED BY <1>1, <1>2, <1>3 DEF ProducerStep

LEMMA ProducerBoundaryStep ==
  ASSUME BurstInv, BoundaryInv, ProducerStep
  PROVE  BoundaryInv'
<1>1. UNCHANGED <<cpc, finite, taken, padding>>
  BY ProducerFrame DEF stateVars, feedVars
<1>2. IsFinite' = IsFinite
  BY <1>1 DEF IsFinite
<1>3. IsFinite => queue' = queue
  <2>1. IsFinite => ppc # "store"
    BY DEF BurstInv
  <2> QED BY <2>1, ProducerQueueFrame DEF StoreWritten
<1> QED BY <1>1, <1>2, <1>3 DEF BoundaryInv

\* An empty queue and equal cursors are the same thing.
LEMMA EmptyQueue ==
  ASSUME IInv
  PROVE  Empty <=> queue = <<>>
<1>1. written \in Cursor /\ read \in Cursor /\ queue \in Seq(Item)
        /\ Distance(written, read) = Len(queue)
  BY DEF IInv, TypeOK, FifoTypes, RingInv
<1>2. Distance(written, read)
        = IF written >= read THEN written - read ELSE written + Modulus - read
  BY <1>1, CursorLinear
<1>3. Len(queue) = 0 <=> written = read
  BY <1>1, <1>2, CapacityAssumption DEF Cursor, Modulus
<1>4. Len(queue) = 0 <=> queue = <<>>
  BY <1>1, EmptySeq
<1> QED BY <1>3, <1>4 DEF Empty

LEMMA AvailableQueue ==
  ASSUME IInv
  PROVE  Available = Len(queue)
BY CapacityAssumption DEF IInv, TypeOK, FifoTypes, RingInv, Available

LEMMA ConsumerBoundaryStep ==
  ASSUME IInv, BurstInv, ClockInv, BoundaryInv, RenderStep \/ ResetBegin \/ ResetStep
  PROVE  BoundaryInv'
<1>0. /\ queue \in Seq(Item) /\ Len(queue) \in Nat /\ taken \in Nat
      /\ padding \in BOOLEAN /\ pending \in Nat /\ wanting \in Nat
      /\ finite \in [end : Nat \cup {-1}, tail : Nat \cup {NoTail}]
  BY CapacityAssumption DEF IInv, TypeOK, FifoTypes, StateTypes, LocalTypes
\* Most steps move neither the queue nor the boundary.
<1>1. ASSUME cpc \notin ResetSteps, UNCHANGED <<queue, taken, finite, padding>>
      PROVE  BoundaryInv'
  <2>1. IsFinite' = IsFinite
    BY <1>1 DEF IsFinite
  <2> QED BY <1>1, <2>1 DEF BoundaryInv
<1>2. ASSUME cpc' \in ResetSteps
      PROVE  BoundaryInv'
  BY <1>2 DEF BoundaryInv, ResetSteps
<1>3. ASSUME ~IsFinite', padding' = FALSE
      PROVE  BoundaryInv'
  BY <1>3 DEF BoundaryInv
<1>4. CASE RenderBegin \/ CheckQuiet \/ Prime
  BY <1>1, <1>4 DEF RenderBegin, CheckQuiet, Prime, fifoVars, stateVars, feedVars, ResetSteps
<1>5. CASE Refill \/ TakeLoad \/ TakeCopy \/ Convert \/ Play \/ ReachEnd
  BY <1>1, <1>5 DEF Refill, TakeLoad, TakeCopy, Convert, Play, ReachEnd, fifoVars, stateVars,
     feedVars, ResetSteps
<1>6. CASE Freeze
  <2>1. /\ cpc = "freeze" /\ cpc' = "quiet"
        /\ UNCHANGED <<queue, taken, padding>>
        /\ finite' = [end |-> taken + Len(queue), tail |-> NoTail]
    BY <1>6, AvailableQueue DEF Freeze, fifoVars, feedVars
  <2>2. finite'.end = taken + Len(queue)
    BY <2>1
  <2>3. IsFinite'
    BY <1>0, <2>2 DEF IsFinite, NoFinite
  <2>4. padding => queue = <<>>
    BY <2>1 DEF BoundaryInv, ResetSteps
  <2> QED BY <2>1, <2>2, <2>3, <2>4 DEF BoundaryInv
<1>7. CASE TakeEnd
  <2>1. /\ cpc = "take" /\ ~Takes /\ UNCHANGED <<queue, taken, finite>>
        /\ IF Pads THEN padding' = TRUE ELSE padding' = padding
    BY <1>7 DEF TakeEnd, fifoVars
  <2>2. CASE padding' = padding
    BY <1>1, <2>1, <2>2 DEF ResetSteps
  <2>3. CASE Pads /\ ~padding
    <3>1. IsFinite /\ wanting > 0
      BY <1>0, <2>1, <2>3 DEF ClockInv, Pads
    <3>2. queue = <<>>
      BY <2>1, <2>3, <3>1, EmptyQueue DEF Takes
    <3>3. finite.end = taken + Len(queue)
      BY <2>1, <3>1 DEF BoundaryInv, ResetSteps
    <3>4. IsFinite' = IsFinite
      BY <2>1 DEF IsFinite
    <3> QED BY <2>1, <3>1, <3>2, <3>3, <3>4 DEF BoundaryInv
  <2> QED BY <1>0, <2>1, <2>2, <2>3
<1>8. CASE TakeRelease
  <2>1. /\ cpc = "release" /\ cpc' = "take" /\ queue' = Tail(queue) /\ taken' = taken + 1
        /\ UNCHANGED <<finite, padding>>
    BY <1>8 DEF TakeRelease
  <2>2. queue # <<>>
    BY <2>1 DEF IInv, StepInv
  <2>3. Len(queue') = Len(queue) - 1
    BY <1>0, <2>1, <2>2, HeadTailProperties
  <2>4. ~padding
    BY <1>0, <2>1, <2>2 DEF BoundaryInv, ResetSteps
  <2>5. IsFinite => finite.end = taken + Len(queue)
    BY <2>1 DEF BoundaryInv, ResetSteps
  <2>6. IsFinite' = IsFinite
    BY <2>1 DEF IsFinite
  <2>7. IsFinite' => finite'.end = taken' + Len(queue')
    <3>1. ASSUME IsFinite PROVE finite.end = (taken + 1) + (Len(queue) - 1)
      BY <1>0, <2>5, <3>1
    <3> QED BY <2>1, <2>3, <2>6, <3>1
  <2> QED BY <2>1, <2>4, <2>7 DEF BoundaryInv
<1>10. CASE Drain
  <2>1. cpc = "drain" /\ UNCHANGED <<queue, taken, padding>>
    BY <1>10 DEF Drain, fifoVars, feedVars
  <2>2. finite'.end = finite.end
    BY <1>0, <1>10 DEF Drain
  <2>3. IsFinite /\ finite.end = taken + Len(queue)
    BY <2>1 DEF BoundaryInv, BurstInv, ResetSteps
  <2>4. IsFinite'
    BY <1>0, <2>2, <2>3 DEF IsFinite, NoFinite
  <2> QED BY <2>1, <2>2, <2>3, <2>4 DEF BoundaryInv, ResetSteps
<1>11. CASE Complete
  BY <1>3, <1>11 DEF Complete, StateReset, FeedReset, IsFinite
<1>12. CASE RetireLoad \/ RetireStore \/ Ack
  <2>1. cpc \in Completing /\ UNCHANGED <<finite, padding>>
    BY <1>12 DEF RetireLoad, LoadWritten, RetireStore, Discard, Ack, stateVars, feedVars,
       Completing
  <2>2. ~IsFinite' /\ padding' = FALSE
    BY <1>0, <2>1 DEF BurstInv, IsFinite
  <2> QED BY <1>3, <2>1, <2>2
<1>13. CASE ResetBegin \/ ResetLoad \/ ResetStore \/ ResetState
  BY <1>2, <1>13 DEF ResetBegin, ResetLoad, LoadWritten, ResetStore, Discard, ResetState,
     ResetSteps
<1>14. CASE ResetCheck \/ ResetAck
  <2>1. cpc \in {"resetCheck", "resetAck"} /\ UNCHANGED <<finite, padding>>
    BY <1>14 DEF ResetCheck, ResetAck, stateVars, feedVars
  <2>2. ~IsFinite' /\ padding' = FALSE
    BY <1>0, <2>1 DEF BurstInv, IsFinite
  <2> QED BY <1>3, <2>1, <2>2
<1> QED
  BY <1>4, <1>5, <1>6, <1>7, <1>8, <1>10, <1>11, <1>12, <1>13, <1>14
  DEF RenderStep, ResetStep

\* The consumer knows its boundary exactly, and pads only behind it.
THEOREM BoundaryInvariance == Spec => []BoundaryInv
<1>1. Init => BoundaryInv
  BY DEF Init, BoundaryInv, IsFinite
<1>2. IInv /\ BurstInv /\ ClockInv /\ BoundaryInv /\ [Next]_vars => BoundaryInv'
  <2> SUFFICES ASSUME IInv, BurstInv, ClockInv, BoundaryInv, [Next]_vars PROVE BoundaryInv'
    OBVIOUS
  <2>1. CASE ProducerStep
    BY <2>1, ProducerBoundaryStep
  <2>2. CASE RenderStep \/ ResetBegin \/ ResetStep
    BY <2>2, ConsumerBoundaryStep
  <2>3. CASE UNCHANGED vars
    BY <2>3 DEF vars, fifoVars, stateVars, feedVars, BoundaryInv, IsFinite
  <2> QED BY <2>1, <2>2, <2>3 DEF Next
<1> QED BY <1>1, <1>2, Invariance, BurstInvariance, ClockInvariance, PTL DEF Spec

\* The frozen boundary is what was taken plus what is unread until the end of
\* the burst: nothing accepted behind it joins the burst.
THEOREM BoundaryFrozenHolds == Spec => []BoundaryFrozen
<1>1. BoundaryInv => BoundaryFrozen
  BY DEF BoundaryInv, BoundaryFrozen
<1> QED BY <1>1, BoundaryInvariance, PTL

\* Padding comes behind the last sample of a finite burst only.
THEOREM PaddedAfterEndHolds == Spec => []PaddedAfterEnd
<1>1. IInv /\ BoundaryInv => PaddedAfterEnd
  <2> SUFFICES ASSUME IInv, BoundaryInv, padding, cpc \notin ResetSteps
               PROVE  IsFinite /\ taken = finite.end /\ Empty
    BY DEF PaddedAfterEnd
  <2>1. IsFinite /\ queue = <<>> /\ finite.end = taken + Len(queue)
    BY DEF BoundaryInv
  <2>2. taken \in Nat /\ Len(queue) = 0
    BY <2>1 DEF IInv, TypeOK, StateTypes
  <2>3. taken = finite.end
    BY <2>1, <2>2
  <2> QED BY <2>1, <2>3, EmptyQueue
<1> QED BY <1>1, Invariance, BoundaryInvariance, PTL

-----------------------------------------------------------------------------
(* The account of offered samples.                                         *)

\* Samples of the running call that have not been decided yet.
Open == IF ppc \in {"entry", "gate", "load", "write", "store"}
        THEN call.len - call.done ELSE 0

AccountInv ==
  /\ offered = accepted + discarded + gated + Open
  /\ ppc = "entry" => call.done = 0

LEMMA ProducerAccountStep ==
  ASSUME IInv, AccountInv, ProducerStep
  PROVE  AccountInv'
<1>0. /\ accepted \in Nat /\ discarded \in Nat /\ gated \in Nat /\ offered \in Nat
      /\ call \in [base : 0..MaxOffered, len : 0..MaxOffered, done : 0..MaxOffered,
                   missing : BOOLEAN]
      /\ call.len \in Nat /\ call.done \in Nat
  BY SizeAssumption DEF IInv, TypeOK, FifoTypes, ProducerTypes
<1>1. ASSUME NEW step \in {"entry", "gate"}, NEW n \in Nat, NEW gap, Call(step, n, gap)
      PROVE  AccountInv'
  <2>1. /\ ppc = "idle" /\ ppc' = step /\ offered' = offered + n
        /\ call' = [base |-> offered, len |-> n, done |-> 0, missing |-> gap]
        /\ UNCHANGED <<accepted, discarded, gated>>
    BY <1>1 DEF Call, ProducerMayCall, fifoVars
  <2>2. Open = 0
    BY <2>1 DEF Open
  <2>3. Open' = n
    BY <2>1 DEF Open
  <2>4. offered = accepted + discarded + gated
    BY <1>0, <2>2 DEF AccountInv
  <2> QED BY <1>0, <2>1, <2>3, <2>4 DEF AccountInv
<1>2. CASE PushSample \/ \E n \in 1..MaxBlock : Push(n) \/ Gap(n)
  <2>1. CASE PushSample
    BY <1>1, <2>1 DEF PushSample
  <2>2. ASSUME NEW n \in 1..MaxBlock, Push(n) \/ Gap(n)
        PROVE  AccountInv'
    <3>1. n \in Nat
      BY SizeAssumption
    <3>2. CASE Call("entry", n, FALSE)
      BY <1>1, <3>1, <3>2
    <3>3. CASE Call("entry", n, TRUE)
      BY <1>1, <3>1, <3>3
    <3> QED BY <2>2, <3>2, <3>3 DEF Push, Gap
  <2> QED BY <1>2, <2>1, <2>2
<1>3. CASE EntryGate
  <2>1. ppc = "entry" /\ UNCHANGED <<accepted, discarded, offered>>
    BY <1>3 DEF EntryGate, fifoVars
  <2>2. call.done = 0 /\ Open = call.len
    BY <1>0, <2>1 DEF AccountInv, Open
  <2>3. CASE ppc' = "idle" /\ gated' = gated + call.len
    <3>1. Open' = 0
      BY <2>3 DEF Open
    <3> QED BY <1>0, <2>1, <2>2, <2>3, <3>1 DEF AccountInv
  <2>4. CASE ppc' = "gate" /\ UNCHANGED <<call, gated>>
    <3>1. Open' = Open
      BY <2>1, <2>4 DEF Open
    <3> QED BY <2>1, <2>4, <3>1 DEF AccountInv
  <2> QED BY <1>3, <2>3, <2>4 DEF EntryGate, ReturnToHost
<1>4. CASE PublishGate
  <2>1. ppc = "gate" /\ UNCHANGED <<accepted, offered>>
    BY <1>4 DEF PublishGate, fifoVars
  <2>2. Open = call.len - call.done
    BY <2>1 DEF Open
  <2>3. CASE ppc' = "idle" /\ gated' = gated + 1 /\ discarded' = discarded + Rest
    <3>1. Open' = 0
      BY <2>3 DEF Open
    <3> QED BY <1>0, <2>1, <2>2, <2>3, <3>1 DEF AccountInv, Rest
  <2>4. CASE ppc' = "load" /\ UNCHANGED <<call, gated, discarded>>
    <3>1. Open' = Open
      BY <2>1, <2>4 DEF Open
    <3> QED BY <2>1, <2>4, <3>1 DEF AccountInv
  <2> QED BY <1>4, <2>3, <2>4 DEF PublishGate, ReturnToHost
<1>5. CASE LoadRead
  <2>1. ppc = "load" /\ UNCHANGED <<accepted, offered, gated>>
    BY <1>5 DEF LoadRead, fifoVars
  <2>2. Open = call.len - call.done
    BY <2>1 DEF Open
  <2>3. CASE ppc' = "idle" /\ discarded' = discarded + 1 + Rest
    <3>1. Open' = 0
      BY <2>3 DEF Open
    <3> QED BY <1>0, <2>1, <2>2, <2>3, <3>1 DEF AccountInv, Rest
  <2>4. CASE ppc' = "write" /\ UNCHANGED <<call, discarded>>
    <3>1. Open' = Open
      BY <2>1, <2>4 DEF Open
    <3> QED BY <2>1, <2>4, <3>1 DEF AccountInv
  <2> QED BY <1>5, <2>3, <2>4 DEF LoadRead, ReturnToHost
<1>6. CASE WriteSlot
  <2>1. /\ ppc = "write" /\ ppc' = "store"
        /\ UNCHANGED <<call, accepted, discarded, gated, offered>>
    BY <1>6 DEF WriteSlot
  <2>2. Open' = Open
    BY <2>1 DEF Open
  <2> QED BY <2>1, <2>2 DEF AccountInv
<1>7. CASE StoreWritten
  <2>1. ppc = "store" /\ accepted' = accepted + 1 /\ UNCHANGED <<discarded, gated, offered>>
    BY <1>7 DEF StoreWritten
  <2>2. Open = call.len - call.done
    BY <2>1 DEF Open
  <2>3. CASE Rest = 0 /\ ppc' = "idle"
    <3>1. Open' = 0
      BY <2>3 DEF Open
    <3> QED BY <1>0, <2>1, <2>2, <2>3, <3>1 DEF AccountInv, Rest
  <2>4. CASE ppc' = "gate" /\ call' = [call EXCEPT !.done = @ + 1]
    <3>1. call'.len = call.len /\ call'.done = call.done + 1
      BY <1>0, <2>4
    <3>2. Open' = call.len - (call.done + 1)
      BY <2>4, <3>1 DEF Open
    <3> QED BY <1>0, <2>1, <2>2, <2>4, <3>2 DEF AccountInv
  <2> QED BY <1>7, <2>3, <2>4 DEF StoreWritten, ReturnToHost
<1>8. CASE FinishLoad \/ FinishStore
  <2>1. /\ ppc \in {"idle", "finish"} /\ ppc' \in {"idle", "finish"}
        /\ UNCHANGED <<accepted, discarded, gated, offered>>
    BY <1>8 DEF FinishLoad, ProducerMayCall, FinishStore, fifoVars
  <2>2. Open = 0 /\ Open' = 0
    BY <2>1 DEF Open
  <2> QED BY <2>1, <2>2 DEF AccountInv
<1> QED BY <1>2, <1>3, <1>4, <1>5, <1>6, <1>7, <1>8 DEF ProducerStep

\* Every sample the host ever offered was accepted, counted as discarded, or
\* refused at a pending finish, wherever in a block that happened.
THEOREM DiscardAccountingHolds == Spec => []DiscardAccounting
<1>1. Init => AccountInv
  BY DEF Init, AccountInv, Open
<1>2. IInv /\ AccountInv /\ [Next]_vars => AccountInv'
  <2> SUFFICES ASSUME IInv, AccountInv, [Next]_vars PROVE AccountInv'
    OBVIOUS
  <2>1. CASE ProducerStep
    BY <2>1, ProducerAccountStep
  <2>2. CASE RenderStep \/ ResetBegin \/ ResetStep \/ UNCHANGED vars
    <3>1. UNCHANGED <<accepted, ppc, call, discarded, offered, gated>>
      BY <2>2, ConsumerFrame DEF producerVars, vars, fifoVars
    <3>2. Open' = Open
      BY <3>1 DEF Open
    <3> QED BY <3>1, <3>2 DEF AccountInv
  <2> QED BY <2>1, <2>2 DEF Next
<1>3. IInv /\ AccountInv => DiscardAccounting
  BY SizeAssumption DEF IInv, TypeOK, FifoTypes, ProducerTypes, AccountInv, Open, DiscardAccounting
<1> QED BY <1>1, <1>2, <1>3, Invariance, PTL DEF Spec

-----------------------------------------------------------------------------
(* Drained is never reported for a burst that lost a sample.  A sample is  *)
(* lost in a discard, which only a failed burst or a reset performs.       *)

SkipInv ==
  /\ cpc \in {"retireLoad", "retireStore"} => failing
  /\ skipped /\ Pending(finish)
       => \/ cpc = "ack" /\ failing
          \/ cpc \in {"resetState", "resetCheck", "resetAck"}
  /\ DrainedMeansTaken

LEMMA StatusWord ==
  ASSUME NEW t \in Nat, NEW status \in 0..3
  PROVE  StatusOf(t * 4 + status) = status
BY DEF StatusOf

LEMMA ProducerSkipStep ==
  ASSUME TypeOK, SkipInv, ProducerStep
  PROVE  SkipInv'
<1>1. UNCHANGED <<cpc, failing>>
  BY ProducerFrame DEF localVars
<1>2. CASE FinishStore
  <2>1. skipped' = FALSE
    BY <1>2 DEF FinishStore
  <2> QED BY <1>1, <2>1 DEF SkipInv, DrainedMeansTaken
<1>3. CASE ~FinishStore
  <2>1. UNCHANGED <<finish, skipped>>
    BY <1>3 DEF ProducerStep, PushSample, Push, Gap, Call, EntryGate, PublishGate,
       LoadRead, WriteSlot, StoreWritten, FinishLoad, burstVars
  <2> QED BY <1>1, <2>1 DEF SkipInv, DrainedMeansTaken
<1> QED BY <1>2, <1>3

LEMMA ConsumerSkipStep ==
  ASSUME TypeOK, BurstInv, SkipInv, RenderStep \/ ResetBegin \/ ResetStep
  PROVE  SkipInv'
<1>0. ctoken \in Nat /\ skipped \in BOOLEAN /\ failing \in BOOLEAN
  BY DEF TypeOK, LocalTypes, BurstTypes
\* Where nothing is discarded and nothing acknowledged.
<1>1. ASSUME UNCHANGED <<finish, skipped>>,
             cpc \notin {"ack", "resetState", "resetCheck", "resetAck"},
             cpc' \in {"retireLoad", "retireStore"} => failing'
      PROVE  SkipInv'
  BY <1>1 DEF SkipInv, DrainedMeansTaken
<1>2. CASE RenderBegin \/ Freeze \/ CheckQuiet \/ Prime \/ Refill
  BY <1>1, <1>2 DEF RenderBegin, Freeze, CheckQuiet, Prime, Refill, AdapterFails, burstVars
<1>3. CASE TakeLoad \/ TakeCopy \/ TakeRelease \/ Play \/ ReachEnd \/ Drain
  BY <1>1, <1>3 DEF TakeLoad, TakeCopy, TakeRelease, Play, ReachEnd, Drain, burstVars
<1>4. CASE TakeEnd \/ Convert
  <2>1. cpc \in {"take", "convert"} /\ UNCHANGED <<finish, skipped>>
    BY <1>4 DEF TakeEnd, Convert, burstVars
  <2>2. cpc' \in {"idle", "refill", "convert", "ready", "complete"}
    BY <1>4 DEF TakeEnd, Convert, ConversionFails, NoOutput, Delivers, AdapterFails, Starves
  <2> QED BY <1>1, <2>1, <2>2
<1>5. CASE Complete
  <2>1. /\ cpc = "complete" /\ UNCHANGED <<finish, skipped>>
        /\ cpc' = IF failing' THEN "retireLoad" ELSE "ack"
    BY <1>5 DEF Complete, burstVars
  <2> QED BY <1>1, <2>1
<1>6. CASE RetireLoad
  <2>1. /\ cpc = "retireLoad" /\ cpc' = "retireStore" /\ UNCHANGED <<finish, skipped, failing>>
    BY <1>6 DEF RetireLoad, LoadWritten, burstVars
  <2> QED BY <1>1, <2>1 DEF SkipInv
<1>7. CASE RetireStore
  <2>1. /\ cpc = "retireStore" /\ cpc' = "ack" /\ UNCHANGED <<finish, failing>>
    BY <1>7 DEF RetireStore, Discard
  <2>2. failing /\ Pending(finish)
    BY <2>1 DEF SkipInv, BurstInv, Completing
  <2>3. ~(finish # 0 /\ StatusOf(finish) = Drained)
    BY <2>2 DEF Pending, StatusOf, Drained
  <2> QED BY <2>1, <2>2, <2>3 DEF SkipInv, DrainedMeansTaken
\* A settled word leaves only the report to look at.
<1>8. ASSUME NEW status \in 1..3, finish' = ctoken * 4 + status, skipped' = skipped,
             cpc' = "idle", status = Drained => ~skipped
      PROVE  SkipInv'
  <2>0. ~Pending(ctoken * 4 + status) /\ StatusOf(ctoken * 4 + status) = status
    <3>1. status \in 0..3
      OBVIOUS
    <3>2. StatusOf(ctoken * 4 + status) = status
      BY <1>0, <3>1, StatusWord
    <3>3. ~Pending(ctoken * 4 + status)
      BY <1>0, SettledWord
    <3> QED BY <3>2, <3>3
  <2>1. ~Pending(finish') /\ StatusOf(finish') = status
    BY <1>8, <2>0
  <2> QED BY <1>8, <2>1 DEF SkipInv, DrainedMeansTaken
<1>9. CASE Ack
  <2>1. /\ cpc = "ack" /\ cpc' = "idle" /\ finish' = ctoken * 4 + CompletionStatus
        /\ skipped' = skipped
    BY <1>9 DEF Ack
  <2>2. CompletionStatus \in 1..3 /\ (CompletionStatus = Drained => ~failing)
    BY <1>0 DEF CompletionStatus, AdapterError, Drained
  <2>3. skipped => failing
    BY <2>1 DEF SkipInv, BurstInv, Completing
  <2> QED BY <1>8, <2>1, <2>2, <2>3
<1>10. CASE ResetBegin \/ ResetLoad
  BY <1>1, <1>10 DEF ResetBegin, ResetLoad, LoadWritten, burstVars
<1>11. CASE ResetStore
  <2>1. /\ cpc = "resetStore" /\ cpc' = "resetState" /\ finish' = finish
        /\ ~Pending(finish) => skipped' = skipped
    BY <1>0, <1>11 DEF ResetStore, Discard
  <2>2. Pending(finish) => ~(finish # 0 /\ StatusOf(finish) = Drained)
    BY DEF Pending, StatusOf, Drained
  <2> QED BY <2>1, <2>2 DEF SkipInv, DrainedMeansTaken
<1>12. CASE ResetState
  <2>1. cpc' = "resetCheck" /\ UNCHANGED <<finish, skipped>>
    BY <1>12 DEF ResetState, burstVars
  <2> QED BY <2>1 DEF SkipInv, DrainedMeansTaken
<1>13. CASE ResetCheck
  <2>1. /\ UNCHANGED <<finish, skipped>>
        /\ cpc' = "resetAck" \/ (cpc' = "idle" /\ ~Pending(finish))
    BY <1>13 DEF ResetCheck, FinishPending, burstVars
  <2> QED BY <2>1 DEF SkipInv, DrainedMeansTaken
<1>14. CASE ResetAck
  BY <1>8, <1>14 DEF ResetAck, Cancelled, Drained
<1> QED
  BY <1>2, <1>3, <1>4, <1>5, <1>6, <1>7, <1>9, <1>10, <1>11, <1>12, <1>13, <1>14
  DEF RenderStep, ResetStep

\* A burst is reported as drained only if every sample of it was taken, even
\* if resets race the producer against their contract.
THEOREM DrainedMeansTakenHolds == Spec => []DrainedMeansTaken
<1>1. Init => SkipInv
  BY DEF Init, SkipInv, DrainedMeansTaken
<1>2. IInv /\ BurstInv /\ SkipInv /\ [Next]_vars => SkipInv'
  <2> SUFFICES ASSUME IInv, BurstInv, SkipInv, [Next]_vars PROVE SkipInv'
    OBVIOUS
  <2>1. CASE ProducerStep
    BY <2>1, ProducerSkipStep DEF IInv
  <2>2. CASE RenderStep \/ ResetBegin \/ ResetStep
    BY <2>2, ConsumerSkipStep DEF IInv
  <2>3. CASE UNCHANGED vars
    BY <2>3 DEF vars, localVars, burstVars, SkipInv, DrainedMeansTaken
  <2> QED BY <2>1, <2>2, <2>3 DEF Next
<1>3. SkipInv => DrainedMeansTaken
  BY DEF SkipInv
<1> QED BY <1>1, <1>2, <1>3, Invariance, BurstInvariance, PTL DEF Spec

-----------------------------------------------------------------------------
(* Nothing of a settled burst is unread.  A burst ends with an empty queue *)
(* on every path: it was padded, it drains its tail, or it was discarded.  *)
(* A reset has to find the producer at rest: otherwise the cursor it       *)
(* loaded may be behind a sample that a finish then counts.                *)

LeftInv ==
  /\ boundary <= accepted
  /\ ~Pending(finish) => boundary + Len(queue) <= accepted
  /\ cpc \in {"retireStore", "resetStore"} => Distance(cseen, read) = Len(queue)
  /\ cpc \in {"drain", "ack", "resetState", "resetCheck", "resetAck"} => queue = <<>>
  /\ cpc = "complete" /\ ~failing => queue = <<>>
  /\ finite.tail # NoTail /\ cpc \notin ResetSteps => queue = <<>>
  /\ cpc \in ResetSteps => ppc = "idle"

\* The account moves only when a sample is published or a burst ends.
LEMMA ProducerAccountFrame ==
  ASSUME ProducerStep, ~StoreWritten, ~FinishStore
  PROVE  UNCHANGED <<accepted, boundary>>
<1> USE DEF fifoVars, burstVars
<1>1. CASE PushSample \/ \E n \in 1..MaxBlock : Push(n) \/ Gap(n)
  BY <1>1 DEF PushSample, Push, Gap, Call
<1>2. CASE EntryGate \/ PublishGate \/ LoadRead \/ WriteSlot \/ FinishLoad
  BY <1>2 DEF EntryGate, PublishGate, LoadRead, WriteSlot, FinishLoad
<1> QED BY <1>1, <1>2 DEF ProducerStep

LEMMA ConsumerAccountFrame ==
  ASSUME RenderStep \/ ResetBegin \/ ResetStep
  PROVE  boundary' = boundary
<1> USE DEF burstVars
<1>1. CASE RenderBegin \/ Freeze \/ CheckQuiet \/ Prime \/ Refill
  BY <1>1 DEF RenderBegin, Freeze, CheckQuiet, Prime, Refill
<1>2. CASE TakeLoad \/ TakeCopy \/ TakeRelease \/ TakeEnd \/ Convert \/ Play \/ ReachEnd \/ Drain
  BY <1>2 DEF TakeLoad, TakeCopy, TakeRelease, TakeEnd, Convert, Play, ReachEnd, Drain
<1>3. CASE Complete \/ RetireLoad \/ RetireStore \/ Ack \/ ResetBegin \/ ResetLoad
  BY <1>3 DEF Complete, RetireLoad, RetireStore, LoadWritten, Discard, Ack, ResetBegin,
     ResetLoad
<1>4. CASE ResetStore \/ ResetState \/ ResetCheck \/ ResetAck
  BY <1>4 DEF ResetStore, Discard, ResetState, ResetCheck, ResetAck
<1> QED BY <1>1, <1>2, <1>3, <1>4 DEF RenderStep, ResetStep

LEMMA ProducerLeftStep ==
  ASSUME IInv, BurstInv, LeftInv, QuiescentReset, ProducerStep
  PROVE  LeftInv'
<1>0. accepted \in Nat /\ boundary \in Nat /\ queue \in Seq(Item) /\ Len(queue) \in Nat
  BY DEF IInv, TypeOK, FifoTypes, BurstTypes
<1>1. UNCHANGED <<cpc, cseen, read, finite, failing>>
  BY ProducerFrame DEF localVars, stateVars
<1>2. cpc \notin ResetSteps
  BY DEF LeftInv, ProducerStep, PushSample, Push, Gap, Call, ProducerMayCall, EntryGate,
     PublishGate, LoadRead, WriteSlot, StoreWritten, FinishLoad, FinishStore
<1>3. cpc # "resetStore" /\ cpc \notin {"resetState", "resetCheck", "resetAck"}
  BY <1>2 DEF ResetSteps
<1>4. CASE StoreWritten
  <2>1. /\ queue' = Append(queue, Current) /\ accepted' = accepted + 1
        /\ UNCHANGED <<finish, boundary>>
    BY <1>4 DEF StoreWritten, burstVars
  <2>2. Len(queue') = Len(queue) + 1
    BY <1>0, <2>1, CurrentIsItem, AppendProperties, <1>4 DEF IInv, StoreWritten
  <2>3. ~Pending(finish)
    BY <1>4 DEF BurstInv, StoreWritten
  <2>4. ~IsFinite /\ cpc \notin {"retireStore", "drain", "ack", "complete"}
    BY <2>3 DEF BurstInv, Completing
  <2>5. finite.tail = NoTail
    BY <2>4 DEF IsFinite, NoFinite
  <2>6. boundary' + Len(queue') <= accepted' /\ boundary' <= accepted'
    BY <1>0, <2>1, <2>2, <2>3 DEF LeftInv
  <2> QED BY <1>1, <1>2, <1>3, <2>4, <2>5, <2>6 DEF LeftInv
<1>5. CASE FinishStore
  <2>1. boundary' = accepted /\ UNCHANGED <<queue, accepted>>
    BY <1>5 DEF FinishStore, fifoVars
  <2>3. Pending(finish')
    BY <1>5, FinishStored DEF IInv
  <2>4. boundary' <= accepted'
    BY <1>0, <2>1
  <2> QED BY <1>1, <1>2, <2>1, <2>3, <2>4 DEF LeftInv
<1>6. CASE ~StoreWritten /\ ~FinishStore
  <2>1. UNCHANGED <<queue, accepted, boundary>>
    BY <1>6, ProducerQueueFrame, ProducerAccountFrame
  <2>2. finish' = finish
    BY <1>6, ProducerFinishFrame
  <2> QED BY <1>1, <1>2, <2>1, <2>2 DEF LeftInv
<1> QED BY <1>4, <1>5, <1>6

LEMMA ConsumerLeftStep ==
  ASSUME IInv, BurstInv, ClockInv, BoundaryInv, LeftInv, QuiescentReset,
         RenderStep \/ ResetBegin \/ ResetStep
  PROVE  LeftInv'
<1>0. /\ accepted \in Nat /\ boundary \in Nat /\ queue \in Seq(Item) /\ Len(queue) \in Nat
      /\ Distance(written, read) = Len(queue) /\ taken \in Nat
      /\ pending \in 0..Capacity /\ padding \in BOOLEAN /\ position \in Int
      /\ finite \in [end : Nat \cup {-1}, tail : Nat \cup {NoTail}]
  BY DEF IInv, TypeOK, FifoTypes, BurstTypes, StateTypes, RingInv
<1>1. UNCHANGED <<written, accepted, boundary, ppc>>
  BY ConsumerFrame, ConsumerAccountFrame DEF producerVars
\* Most steps leave the word and the queue alone.
<1>2. ASSUME UNCHANGED <<finish, queue>>,
             cpc' \in {"retireStore", "resetStore"}
               => Distance(cseen', read') = Len(queue),
             cpc' \in {"drain", "ack", "resetState", "resetCheck", "resetAck"}
               => queue = <<>>,
             cpc' = "complete" /\ ~failing' => queue = <<>>,
             finite'.tail # NoTail /\ cpc' \notin ResetSteps => queue = <<>>,
             cpc' \in ResetSteps => ppc = "idle"
      PROVE  LeftInv'
  BY <1>1, <1>2 DEF LeftInv
\* Inside a render call that keeps the boundary as it is.
<1>3. ASSUME UNCHANGED <<finish, queue, finite>>, cpc \notin ResetSteps,
             cpc' \notin ResetSteps \cup {"retireStore", "drain", "ack"},
             cpc' = "complete" /\ ~failing' => queue = <<>>
      PROVE  LeftInv'
  BY <1>2, <1>3 DEF LeftInv, ResetSteps
<1>4. CASE RenderBegin \/ CheckQuiet \/ Refill \/ TakeLoad \/ TakeCopy
  BY <1>3, <1>4 DEF RenderBegin, CheckQuiet, Refill, AdapterFails, TakeLoad, TakeCopy,
     fifoVars, stateVars, burstVars, ResetSteps
<1>5. CASE Freeze
  <2>1. /\ cpc = "freeze" /\ cpc' = "quiet" /\ UNCHANGED <<finish, queue>>
        /\ finite'.tail = NoTail
    BY <1>5 DEF Freeze, fifoVars, burstVars
  <2> QED BY <1>2, <2>1 DEF ResetSteps
<1>6. CASE Prime
  <2>1. /\ cpc = "prime" /\ cpc' \in {"idle", "drain", "refill"}
        /\ UNCHANGED <<finish, queue, finite>> /\ (cpc' = "drain" => Draining)
    BY <1>6 DEF Prime, fifoVars, burstVars
  <2>2. Draining => queue = <<>>
    <3>1. CASE IsFinite /\ finite.end = 0
      <4>1. 0 = taken + Len(queue)
        BY <2>1, <3>1 DEF BoundaryInv, ResetSteps
      <4>2. Len(queue) = 0
        BY <1>0, <4>1
      <4> QED BY <1>0, <4>2, EmptySeq
    <3>2. CASE finite.tail # NoTail
      BY <2>1, <3>2 DEF LeftInv, ResetSteps
    <3> QED BY <3>1, <3>2 DEF Draining
  <2> QED BY <1>2, <2>1, <2>2 DEF LeftInv, ResetSteps
<1>7. CASE TakeRelease
  <2>1. /\ cpc = "release" /\ cpc' = "take" /\ queue' = Tail(queue)
        /\ UNCHANGED <<finish, finite>>
    BY <1>7 DEF TakeRelease, burstVars
  <2>2. queue # <<>>
    BY <2>1 DEF IInv, StepInv
  <2>3. Len(queue') = Len(queue) - 1
    BY <1>0, <2>1, <2>2, HeadTailProperties
  <2>4. finite.tail = NoTail
    BY <2>1, <2>2 DEF LeftInv, ResetSteps
  <2>5. ~Pending(finish) => boundary + (Len(queue) - 1) <= accepted
    BY <1>0 DEF LeftInv
  <2> QED BY <1>1, <2>1, <2>3, <2>4, <2>5 DEF LeftInv, ResetSteps
<1>8. CASE TakeEnd \/ Convert \/ Play
  <2>1. cpc \in {"take", "convert", "ready"} /\ UNCHANGED <<finish, queue, finite>>
    BY <1>8 DEF TakeEnd, Convert, Play, fifoVars, burstVars
  <2>2. /\ cpc' \in {"idle", "complete", "refill", "convert", "ready"}
        /\ cpc' = "complete" => failing'
    BY <1>8 DEF TakeEnd, Convert, Play, ConversionFails, NoOutput, Delivers, AdapterFails,
       Starves
  <2> QED BY <1>3, <2>1, <2>2 DEF ResetSteps
<1>9. CASE ReachEnd
  <2>1. /\ cpc = "ready" /\ cpc' = "drain" /\ UNCHANGED <<finish, queue, finite>>
        /\ IsFinite /\ position >= finite.end
    BY <1>9 DEF ReachEnd, PastEnd, fifoVars, stateVars, burstVars
  <2>2. finite.end = taken + Len(queue)
    BY <2>1 DEF BoundaryInv, ResetSteps
  <2>3. CASE padding
    BY <1>2, <2>1, <2>3 DEF BoundaryInv, LeftInv, ResetSteps
  \* Without padding the clock has not passed what was taken.
  <2>4. CASE ~padding
    <3>1. position <= taken - pending
      BY <2>4 DEF ClockInv, Fed
    <3>2. Len(queue) = 0
      BY <1>0, <2>1, <2>2, <3>1
    <3>3. queue = <<>>
      BY <1>0, <3>2, EmptySeq
    <3> QED BY <1>2, <2>1, <3>3 DEF ResetSteps
  <2> QED BY <1>0, <2>3, <2>4
<1>10. CASE Drain
  <2>1. cpc = "drain" /\ cpc' \in {"idle", "complete"} /\ UNCHANGED <<finish, queue>>
    BY <1>10 DEF Drain, fifoVars, burstVars
  <2>2. queue = <<>>
    BY <2>1 DEF LeftInv
  <2> QED BY <1>2, <2>1, <2>2 DEF ResetSteps
<1>11. CASE Complete
  <2>1. /\ cpc = "complete" /\ UNCHANGED <<finish, queue>> /\ finite'.tail = NoTail
        /\ cpc' = (IF failing' THEN "retireLoad" ELSE "ack")
    BY <1>11 DEF Complete, StateReset, NoFinite, fifoVars, burstVars
  <2>2. ~failing' => ~failing
    BY <1>11 DEF Complete, IInv, TypeOK, LocalTypes
  <2>3. ~failing' => queue = <<>>
    BY <2>1, <2>2 DEF LeftInv
  <2> QED BY <1>2, <2>1, <2>3 DEF ResetSteps
<1>12. CASE RetireLoad \/ ResetLoad
  <2>1. /\ cpc \in {"retireLoad", "resetLoad"} /\ cpc' \in {"retireStore", "resetStore"}
        /\ cpc' \in ResetSteps <=> cpc \in ResetSteps
        /\ cseen' = written /\ UNCHANGED <<finish, queue, finite, read>>
    BY <1>12 DEF RetireLoad, ResetLoad, LoadWritten, fifoVars, stateVars, burstVars,
       ResetSteps
  <2>2. Distance(cseen', read') = Len(queue)
    BY <1>0, <2>1
  <2>3. finite.tail # NoTail /\ cpc' \notin ResetSteps => queue = <<>>
    BY <2>1 DEF LeftInv, ResetSteps
  <2>4. cpc' \in ResetSteps => ppc = "idle"
    BY <2>1 DEF LeftInv
  <2> QED BY <1>2, <2>1, <2>2, <2>3, <2>4
<1>13. CASE RetireStore \/ ResetStore
  <2>1. /\ cpc \in {"retireStore", "resetStore"} /\ cpc' \in {"ack", "resetState"}
        /\ cpc' \in ResetSteps => cpc \in ResetSteps
        /\ queue' = SubSeq(queue, Distance(cseen, read) + 1, Len(queue))
        /\ finish' = finish
    BY <1>13 DEF RetireStore, ResetStore, Discard, ResetSteps
  <2>2. queue' = <<>>
    BY <1>0, <2>1, SubSeqProperties DEF LeftInv
  <2>3. Len(queue') = 0 /\ Len(queue') <= Len(queue)
    BY <1>0, <2>2
  <2>4. cpc' \in ResetSteps => ppc = "idle"
    BY <2>1 DEF LeftInv
  <2>5. ~Pending(finish) => boundary + 0 <= accepted
    BY <1>0 DEF LeftInv
  <2> QED BY <1>1, <2>1, <2>2, <2>3, <2>4, <2>5 DEF LeftInv
<1>14. CASE Ack \/ ResetAck
  <2>1. /\ cpc \in {"ack", "resetAck"} /\ cpc' = "idle" /\ UNCHANGED <<queue, finite>>
    BY <1>14 DEF Ack, ResetAck, fifoVars, stateVars
  <2>2. queue = <<>> /\ Len(queue) = 0
    BY <2>1 DEF LeftInv
  <2>3. boundary + Len(queue) <= accepted
    BY <1>0, <2>2 DEF LeftInv
  <2> QED BY <1>1, <2>1, <2>2, <2>3 DEF LeftInv, ResetSteps
<1>15. CASE ResetBegin \/ ResetState \/ ResetCheck
  <2>1. /\ cpc \in {"idle", "resetState", "resetCheck"}
        /\ cpc' \in {"resetLoad", "resetCheck", "resetAck", "idle"}
        /\ cpc' = "resetLoad" => cpc = "idle" /\ ppc = "idle"
        /\ cpc = "idle" => cpc' = "resetLoad"
        /\ UNCHANGED <<finish, queue>>
    BY <1>15 DEF ResetBegin, ResetState, ResetCheck, fifoVars, burstVars
  <2>2. cpc # "idle" => queue = <<>>
    BY <2>1 DEF LeftInv
  <2>3. cpc # "idle" => ppc = "idle"
    <3>1. cpc # "idle" => cpc \in ResetSteps
      BY <2>1 DEF ResetSteps
    <3> QED BY <3>1 DEF LeftInv
  <2> QED BY <1>2, <2>1, <2>2, <2>3 DEF ResetSteps
<1> QED
  BY <1>4, <1>5, <1>6, <1>7, <1>8, <1>9, <1>10, <1>11, <1>12, <1>13, <1>14, <1>15
  DEF RenderStep, ResetStep

\* Once a result can be read, no sample accepted before that finish is unread,
\* as long as the producer keeps to its contract and rests during a reset.
THEOREM SettledLeavesNothingHolds ==
  ASSUME QuiescentReset
  PROVE  Spec => []SettledLeavesNothing
<1>1. Init => LeftInv
  BY DEF Init, LeftInv, NoFinite, ResetSteps
<1>2. IInv /\ BurstInv /\ ClockInv /\ BoundaryInv /\ LeftInv /\ [Next]_vars => LeftInv'
  <2> SUFFICES ASSUME IInv, BurstInv, ClockInv, BoundaryInv, LeftInv, [Next]_vars
               PROVE  LeftInv'
    OBVIOUS
  <2>1. CASE ProducerStep
    BY <2>1, ProducerLeftStep
  <2>2. CASE RenderStep \/ ResetBegin \/ ResetStep
    BY <2>2, ConsumerLeftStep
  <2>3. CASE UNCHANGED vars
    BY <2>3 DEF vars, fifoVars, producerVars, localVars, stateVars, burstVars, LeftInv
  <2> QED BY <2>1, <2>2, <2>3 DEF Next
<1>3. IInv /\ LeftInv => SettledLeavesNothing
  BY DEF IInv, TypeOK, FifoTypes, BurstTypes, LeftInv, SettledLeavesNothing
<1> QED
  BY <1>1, <1>2, <1>3, Invariance, BurstInvariance, ClockInvariance, BoundaryInvariance, PTL
  DEF Spec
=============================================================================
