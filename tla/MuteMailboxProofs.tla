------------------------- MODULE MuteMailboxProofs -------------------------
(***************************************************************************)
(* Theorems about the mailbox for mute intervals, for batches of any size  *)
(* and any number of records: its unsafe slots never race, and it is a     *)
(* queue of whole batches.                                                 *)
(***************************************************************************)
EXTENDS MuteMailbox, SequenceTheorems, TLAPS

-----------------------------------------------------------------------------
(* Cursors and slots as linear arithmetic.                                 *)

Cursor == 0..(Modulus - 1)
Place(c, i) == (c + i - 1) % Queue

LEMMA Sizes == /\ Queue \in Nat /\ Queue >= 2 /\ Modulus = 2 * Queue
               /\ MaxSpans < Queue
BY SpansAssumption DEF Queue, Modulus

LEMMA DistanceLinear ==
  ASSUME NEW a \in Cursor, NEW b \in Cursor
  PROVE  /\ Distance(a, b) = IF a >= b THEN a - b ELSE a + Modulus - b
         /\ Distance(a, b) \in 0..(Modulus - 1)
<1>1. Distance(a, b) = IF a >= b THEN a - b ELSE a + Modulus - b
  BY Sizes DEF Distance, Cursor
<1> QED BY <1>1, Sizes DEF Cursor

LEMMA DistanceNat ==
  ASSUME NEW a \in Cursor, NEW b \in Cursor
  PROVE  Distance(a, b) \in Nat
<1>1. Distance(a, b) \in 0..(Modulus - 1)
  BY DistanceLinear
<1> QED BY <1>1, Sizes

LEMMA ThreeLaps ==
  ASSUME NEW x \in Nat, x < 3 * Queue
  PROVE  x % Queue = IF x < Queue THEN x ELSE IF x < 2 * Queue THEN x - Queue ELSE x - 2 * Queue
BY Sizes

LEMMA PlaceLinear ==
  ASSUME NEW c \in Cursor, NEW i \in 1..Queue
  PROVE  /\ Place(c, i) = IF c + i - 1 < Queue THEN c + i - 1
                          ELSE IF c + i - 1 < Modulus THEN c + i - 1 - Queue
                          ELSE c + i - 1 - Modulus
         /\ Place(c, i) \in Slot
<1>1. c + i - 1 \in Nat /\ c + i - 1 < 3 * Queue
  BY Sizes DEF Cursor
<1>2. Place(c, i) = IF c + i - 1 < Queue THEN c + i - 1
                    ELSE IF c + i - 1 < 2 * Queue THEN c + i - 1 - Queue
                    ELSE c + i - 1 - 2 * Queue
  <2>1. PICK x \in Nat : x = c + i - 1 /\ x < 3 * Queue
    BY <1>1
  <2>2. Place(c, i) = x % Queue
    BY <2>1 DEF Place
  <2>3. x % Queue = IF x < Queue THEN x ELSE IF x < 2 * Queue THEN x - Queue ELSE x - 2 * Queue
    BY <2>1, ThreeLaps
  <2>4. Place(c, i) = IF x < Queue THEN x ELSE IF x < 2 * Queue THEN x - Queue ELSE x - 2 * Queue
    BY <2>2, <2>3
  <2> QED BY <2>1, <2>4, Sizes DEF Cursor
<1>3. Place(c, i) \in 0..(Queue - 1)
  BY <1>1, <1>2, Sizes DEF Cursor
<1> QED BY <1>2, <1>3, Sizes DEF Slot

LEMMA StepLinear ==
  ASSUME NEW c \in Cursor
  PROVE  /\ (c + 1) % Modulus = IF c + 1 < Modulus THEN c + 1 ELSE 0
         /\ (c + 1) % Modulus \in Cursor
         /\ c % Queue = Place(c, 1)
<1>1. (c + 1) % Modulus = IF c + 1 < Modulus THEN c + 1 ELSE 0
  BY Sizes DEF Cursor
<1>2. c + 1 - 1 = c
  BY Sizes DEF Cursor
<1> QED BY <1>1, <1>2, Sizes DEF Cursor, Place

\* Records in one lap of slots do not share a slot.
LEMMA PlacesDiffer ==
  ASSUME NEW c \in Cursor, NEW i \in 1..Queue, NEW j \in 1..Queue, i # j
  PROVE  Place(c, i) # Place(c, j)
BY PlaceLinear, Sizes DEF Cursor

\* A cursor that is d ahead counts its places from d.
LEMMA PlaceShift ==
  ASSUME NEW c \in Cursor, NEW r \in Cursor, NEW i \in 1..Queue,
         Distance(c, r) + i <= Queue
  PROVE  Place(c, i) = Place(r, Distance(c, r) + i)
<1>1. Distance(c, r) = IF c >= r THEN c - r ELSE c + Modulus - r
  BY DistanceLinear
<1>2. Distance(c, r) \in Nat /\ Distance(c, r) + i \in 1..Queue
  BY DistanceLinear, Sizes
<1>3. /\ Place(c, i) = IF c + i - 1 < Queue THEN c + i - 1
                       ELSE IF c + i - 1 < Modulus THEN c + i - 1 - Queue
                       ELSE c + i - 1 - Modulus
  BY PlaceLinear
<1>4. \A k \in 1..Queue : Place(r, k) = IF r + k - 1 < Queue THEN r + k - 1
                       ELSE IF r + k - 1 < Modulus THEN r + k - 1 - Queue
                       ELSE r + k - 1 - Modulus
  BY PlaceLinear
<1> QED BY <1>1, <1>2, <1>3, <1>4, Sizes DEF Cursor

\* Distances along the lap add up while they stay within it.
LEMMA DistanceAdds ==
  ASSUME NEW a \in Cursor, NEW b \in Cursor, NEW c \in Cursor,
         Distance(a, b) + Distance(b, c) < Modulus
  PROVE  Distance(a, c) = Distance(a, b) + Distance(b, c)
<1>1. /\ Distance(a, b) = IF a >= b THEN a - b ELSE a + Modulus - b
      /\ Distance(b, c) = IF b >= c THEN b - c ELSE b + Modulus - c
      /\ Distance(a, c) = IF a >= c THEN a - c ELSE a + Modulus - c
  BY DistanceLinear
<1> QED BY <1>1, Sizes DEF Cursor

\* Moving the near end past part of the distance leaves the rest.
LEMMA DistanceLeft ==
  ASSUME NEW a \in Cursor, NEW b \in Cursor, NEW c \in Cursor,
         Distance(b, c) <= Distance(a, c)
  PROVE  Distance(a, b) = Distance(a, c) - Distance(b, c)
<1>1. /\ Distance(a, b) = IF a >= b THEN a - b ELSE a + Modulus - b
      /\ Distance(b, c) = IF b >= c THEN b - c ELSE b + Modulus - c
      /\ Distance(a, c) = IF a >= c THEN a - c ELSE a + Modulus - c
  BY DistanceLinear
<1> QED BY <1>1, Sizes DEF Cursor

LEMMA DistanceNext ==
  ASSUME NEW a \in Cursor, NEW b \in Cursor, Distance(a, b) < Modulus - 1
  PROVE  Distance((a + 1) % Modulus, b) = Distance(a, b) + 1
<1>1. (a + 1) % Modulus = IF a + 1 < Modulus THEN a + 1 ELSE 0
  BY StepLinear
<1>2. (a + 1) % Modulus \in Cursor
  BY StepLinear
<1> DEFINE n == (a + 1) % Modulus
<1>3. /\ Distance(n, b) = IF n >= b THEN n - b ELSE n + Modulus - b
      /\ Distance(a, b) = IF a >= b THEN a - b ELSE a + Modulus - b
  BY <1>2, DistanceLinear
<1> HIDE DEF n
<1>4. n = IF a + 1 < Modulus THEN a + 1 ELSE 0
  BY <1>1 DEF n
<1>5. Distance(n, b) = Distance(a, b) + 1
  BY <1>3, <1>4, Sizes DEF Cursor
<1> QED BY <1>5 DEF n

LEMMA DistanceOne ==
  ASSUME NEW c \in Cursor
  PROVE  Distance((c + 1) % Modulus, c) = 1 /\ Distance(c, c) = 0
<1>1. Distance(c, c) = 0
  BY DistanceLinear, Sizes DEF Cursor
<1>2. Distance(c, c) < Modulus - 1
  BY <1>1, Sizes
<1> QED BY <1>1, <1>2, DistanceNext

-----------------------------------------------------------------------------
(* The inductive invariant.  The unread records stand in the slots from    *)
(* read to written, the records of the batch that is being written in the  *)
(* slots behind them, and both together with what is left of the batch fit *)
(* one lap.  The consumer meanwhile only makes more room.                  *)

Types ==
  /\ slots \in [Slot -> 0..MaxRecords] /\ written \in Cursor /\ read \in Cursor
  /\ pstep \in {"idle", "write"} /\ left \in 0..MaxSpans /\ next \in Cursor
  /\ serial \in 0..MaxRecords
  /\ cstep \in {"idle", "copy", "release", "reset"} /\ copy \in 0..MaxRecords
  /\ snapshot \in Cursor
  /\ unread \in Seq(1..MaxRecords) /\ last \in 0..MaxRecords

QueueInv ==
  /\ Distance(written, read) = Len(unread) /\ Len(unread) <= Queue
  /\ \A i \in 1..Len(unread) : slots[Place(read, i)] = unread[i]

BatchInv ==
  pstep = "write" =>
    /\ serial + left <= MaxRecords
    /\ Distance(next, written) + left <= MaxSpans
    /\ Len(unread) + Distance(next, written) + left <= Queue
    /\ \A i \in 1..Distance(next, written) : slots[Place(written, i)] \in 1..MaxRecords

PopInv ==
  /\ cstep \in {"copy", "release"} => unread # <<>>
  /\ cstep = "release" => copy = unread[1]
  /\ cstep = "reset" => Distance(snapshot, read) <= Len(unread)

MailInv == Types /\ QueueInv /\ BatchInv /\ PopInv

LEMMA InitInv == Init => MailInv
<1> SUFFICES ASSUME Init PROVE MailInv
  OBVIOUS
<1>1. 0 \in Cursor /\ Distance(0, 0) = 0
  BY Sizes, DistanceOne DEF Cursor
<1>2. Types
  BY <1>1, SpansAssumption DEF Init, Types, NoRecord
<1> QED BY <1>1, <1>2, Sizes DEF Init, MailInv, QueueInv, BatchInv, PopInv

LEMMA TypesStep ==
  ASSUME MailInv, [Next]_vars
  PROVE  Types'
<1> USE Sizes, SpansAssumption DEF Types
<1>0. Types
  BY DEF MailInv
<1>1. ASSUME NEW n \in 0..MaxSpans, Reserve(n) PROVE Types'
  BY <1>0, <1>1 DEF Reserve, consumerVars
<1>2. CASE Clip
  BY <1>0, <1>2 DEF Clip, consumerVars
<1>3. CASE WriteRecord
  <2>1. serial + 1 \in 0..MaxRecords
    BY <1>0, <1>3 DEF MailInv, BatchInv, WriteRecord
  <2>2. (next + 1) % Modulus \in Cursor
    BY <1>0, StepLinear
  <2>3. slots' \in [Slot -> 0..MaxRecords]
    BY <1>0, <1>3, <2>1 DEF WriteRecord
  <2>4. left' \in 0..MaxSpans
    BY <1>0, <1>3 DEF WriteRecord
  <2> QED BY <1>0, <1>3, <2>1, <2>2, <2>3, <2>4 DEF WriteRecord, consumerVars
<1>4. CASE StoreWritten
  <2> DEFINE d == Distance(next, written)
  <2>1. d \in 0..MaxSpans
    <3>1. d \in Nat /\ left \in Nat
      BY <1>0, DistanceNat
    <3>2. d + left <= MaxSpans
      BY <1>4 DEF StoreWritten, MailInv, BatchInv
    <3> HIDE DEF d
    <3> QED BY <3>1, <3>2
  <2>2. \A i \in 1..d : slots[(written + i - 1) % Queue] \in 1..MaxRecords
    BY <1>4 DEF StoreWritten, MailInv, BatchInv, Place
  <2>3. Batch \in Seq(1..MaxRecords)
    <3>1. Batch = [i \in 1..d |-> slots[(written + i - 1) % Queue]]
      BY DEF Batch
    <3> HIDE DEF d
    <3>2. d \in Nat
      BY <2>1
    <3> QED BY <2>2, <3>1, <3>2, IsASeq
  <2>4. unread' \in Seq(1..MaxRecords)
    BY <1>0, <1>4, <2>3, ConcatProperties DEF StoreWritten
  <2> QED BY <1>0, <1>4, <2>4 DEF StoreWritten, consumerVars
<1>5. CASE PopLoad
  BY <1>0, <1>5 DEF PopLoad, producerVars
<1>6. CASE PopCopy
  <2>1. slots[read % Queue] \in 0..MaxRecords
    <3>1. Place(read, 1) \in Slot /\ read % Queue = Place(read, 1)
      BY <1>0, PlaceLinear, StepLinear
    <3> QED BY <1>0, <3>1
  <2> QED BY <1>0, <1>6, <2>1 DEF PopCopy, producerVars
<1>7. CASE PopRelease
  <2>1. (read + 1) % Modulus \in Cursor
    BY <1>0, StepLinear
  <2>2. unread # <<>>
    BY <1>7 DEF PopRelease, MailInv, PopInv
  <2>3. Tail(unread) \in Seq(1..MaxRecords)
    BY <1>0, <2>2, HeadTailProperties
  <2> QED BY <1>0, <1>7, <2>1, <2>3 DEF PopRelease, producerVars, NoRecord
<1>8. CASE ResetLoad
  BY <1>0, <1>8 DEF ResetLoad, producerVars
<1>9. CASE ResetStore
  <2> DEFINE d == Distance(snapshot, read)
  <2>1. d \in Nat
    BY <1>0, DistanceNat
  <2>2. SubSeq(unread, d + 1, Len(unread)) \in Seq(1..MaxRecords)
    <3> HIDE DEF d
    <3>1. \A i \in (d + 1)..Len(unread) : unread[i] \in 1..MaxRecords
      BY <1>0, <2>1
    <3> QED BY <1>0, <2>1, <3>1, SubSeqProperties
  <2> QED BY <1>0, <1>9, <2>2 DEF ResetStore, producerVars
<1>10. CASE UNCHANGED vars
  BY <1>0, <1>10 DEF vars, producerVars, consumerVars
<1> QED
  BY <1>1, <1>2, <1>3, <1>4, <1>5, <1>6, <1>7, <1>8, <1>9, <1>10 DEF Next, Producer, Consumer

-----------------------------------------------------------------------------
(* Steps of the producer.                                                  *)

LEMMA ReserveStep ==
  ASSUME MailInv, NEW n \in 0..MaxSpans, Reserve(n)
  PROVE  QueueInv' /\ BatchInv' /\ PopInv'
<1>0. Types /\ QueueInv /\ PopInv
  BY DEF MailInv
<1>1. Distance(written, written) = 0 /\ Len(unread) \in Nat
  BY <1>0, DistanceOne DEF Types
<1>2. n <= Queue - Len(unread) /\ next' = written /\ left' = n /\ serial + n <= MaxRecords
  BY <1>0 DEF Reserve, Free, QueueInv
<1>3. BatchInv'
  <2>1. UNCHANGED <<unread, written, serial, slots>>
    BY DEF Reserve
  <2> QED BY <1>1, <1>2, <2>1, Sizes DEF BatchInv
<1>4. QueueInv' /\ PopInv'
  BY <1>0 DEF Reserve, QueueInv, PopInv, consumerVars
<1> QED BY <1>3, <1>4

LEMMA ClipStep ==
  ASSUME MailInv, Clip
  PROVE  QueueInv' /\ BatchInv' /\ PopInv'
<1>0. Types /\ QueueInv /\ BatchInv /\ PopInv
  BY DEF MailInv
<1>1. Distance(next, written) \in Nat /\ Len(unread) \in Nat /\ left' = left - 1 /\ left \in Nat
  BY <1>0, DistanceNat, SpansAssumption DEF Types, Clip
<1>2. BatchInv'
  <2>1. UNCHANGED <<unread, written, next, serial, slots, pstep>>
    BY DEF Clip
  <2> QED BY <1>0, <1>1, <2>1, Sizes, SpansAssumption DEF BatchInv, Types
<1>3. QueueInv' /\ PopInv'
  BY <1>0 DEF Clip, QueueInv, PopInv, consumerVars
<1> QED BY <1>2, <1>3

\* The record goes into the first slot behind the batch so far, which is a
\* slot neither of the batch nor of an unread record.
LEMMA WriteStep ==
  ASSUME MailInv, WriteRecord
  PROVE  QueueInv' /\ BatchInv' /\ PopInv'
<1> DEFINE d == Distance(next, written)
           n == Len(unread)
<1>0. Types /\ QueueInv /\ BatchInv /\ PopInv
  BY DEF MailInv
<1>1. /\ d \in Nat /\ n \in Nat /\ left \in Nat /\ left > 0 /\ left' = left - 1
      /\ d + left <= MaxSpans /\ n + d + left <= Queue
  BY <1>0, DistanceLinear, Sizes, SpansAssumption DEF Types, WriteRecord, Cursor, BatchInv
<1>2. /\ next' = (next + 1) % Modulus /\ next' \in Cursor
      /\ UNCHANGED <<written, read, pstep, unread, cstep, copy, snapshot>>
  BY <1>0, StepLinear DEF Types, WriteRecord, consumerVars
<1>3. Distance(next', written) = d + 1
  <2>1. d < Modulus - 1
    <3> HIDE DEF d
    <3> QED BY <1>1, Sizes
  <2> QED BY <1>0, <1>2, <2>1, DistanceNext DEF Types
<1>4. Place(next, 1) = Place(written, d + 1) /\ Place(written, d + 1) = Place(read, n + d + 1)
  <2>1. d + 1 \in 1..Queue /\ n + d + 1 \in 1..Queue /\ 1 \in 1..Queue
    <3> HIDE DEF d, n
    <3> QED BY <1>1, Sizes
  <2>2. Place(next, 1) = Place(written, d + 1)
    BY <1>0, <2>1, PlaceShift, Sizes DEF Types
  <2>3. Distance(written, read) = n
    BY <1>0 DEF QueueInv
  <2>4. Distance(written, read) + (d + 1) <= Queue /\ n + (d + 1) = n + d + 1
    <3> HIDE DEF d, n
    <3> QED BY <1>1, <2>1, <2>3
  <2>5. Place(written, d + 1) = Place(read, Distance(written, read) + (d + 1))
    <3> HIDE DEF d, n
    <3> QED BY <1>0, <2>1, <2>4, PlaceShift DEF Types
  <2> QED BY <2>2, <2>3, <2>4, <2>5
<1>5. slots' = [slots EXCEPT ![Place(next, 1)] = serial + 1]
  BY <1>0, StepLinear DEF WriteRecord, Types
<1> HIDE DEF d, n
<1>6. ASSUME NEW i \in 1..n
      PROVE  slots'[Place(read, i)] = unread[i]
  <2>1. i \in 1..Queue /\ n + d + 1 \in 1..Queue /\ i # n + d + 1
    BY <1>1, Sizes
  <2>2. Place(read, i) # Place(next, 1) /\ Place(read, i) \in Slot
    BY <1>0, <1>4, <2>1, PlacesDiffer, PlaceLinear DEF Types
  <2>3. slots[Place(read, i)] = unread[i]
    BY <1>0 DEF QueueInv, n
  <2> QED BY <1>0, <1>5, <2>2, <2>3 DEF Types
<1>7. ASSUME NEW i \in 1..(d + 1)
      PROVE  slots'[Place(written, i)] \in 1..MaxRecords
  <2>1. serial + 1 \in 1..MaxRecords
    BY <1>0, <1>1, SpansAssumption DEF Types, BatchInv, WriteRecord
  <2>2. i \in 1..Queue /\ d + 1 \in 1..Queue
    BY <1>1, Sizes
  <2>3. Place(written, i) \in Slot
    BY <1>0, <2>2, PlaceLinear DEF Types
  <2>4. CASE i = d + 1
    BY <1>0, <1>4, <1>5, <2>1, <2>3, <2>4 DEF Types
  <2>5. CASE i # d + 1
    <3>1. Place(written, i) # Place(next, 1)
      BY <1>0, <1>4, <2>2, <2>5, PlacesDiffer DEF Types
    <3>2. slots[Place(written, i)] \in 1..MaxRecords
      <4>1. i \in 1..d
        BY <1>1, <2>5
      <4> QED BY <1>0, <4>1 DEF BatchInv, WriteRecord, d
    <3> QED BY <1>0, <1>5, <2>3, <3>1, <3>2 DEF Types
  <2> QED BY <2>4, <2>5
<1>8. QueueInv'
  BY <1>0, <1>2, <1>6 DEF QueueInv, n
<1>9. BatchInv'
  <2>1. serial' + left' <= MaxRecords
    BY <1>0, <1>1, SpansAssumption DEF Types, BatchInv, WriteRecord
  <2>2. Distance(next', written') = d + 1 /\ Len(unread') = n
    BY <1>2, <1>3 DEF n
  <2> QED BY <1>1, <1>2, <1>7, <2>1, <2>2 DEF BatchInv
<1>10. PopInv'
  BY <1>0, <1>2 DEF PopInv
<1> QED BY <1>8, <1>9, <1>10

\* What the batch appends to the unread records.
LEMMA BatchAppended ==
  ASSUME MailInv, StoreWritten
  PROVE  /\ Batch \in Seq(1..MaxRecords) /\ Len(Batch) = Distance(next, written)
         /\ Len(Batch) <= MaxSpans /\ Len(unread) + Len(Batch) <= Queue
         /\ \A i \in 1..Len(Batch) : Batch[i] = slots[Place(written, i)]
<1> DEFINE d == Distance(next, written)
<1>0. Types /\ BatchInv
  BY DEF MailInv
<1>1. d \in Nat /\ d <= MaxSpans /\ Len(unread) + d <= Queue
  <2>1. d \in Nat /\ Len(unread) \in Nat
    BY <1>0, DistanceNat DEF Types
  <2>2. d + left <= MaxSpans /\ Len(unread) + d + left <= Queue /\ left = 0
    BY <1>0 DEF StoreWritten, BatchInv
  <2> HIDE DEF d
  <2> QED BY <2>1, <2>2, Sizes, SpansAssumption
<1>2. \A i \in 1..d : slots[(written + i - 1) % Queue] \in 1..MaxRecords
  BY <1>0 DEF StoreWritten, BatchInv, Place
<1>3. Batch = [i \in 1..d |-> slots[(written + i - 1) % Queue]]
  BY DEF Batch
<1> HIDE DEF d
<1>4. Batch \in Seq(1..MaxRecords) /\ Len(Batch) = d
  BY <1>1, <1>2, <1>3, IsASeq
<1>5. \A i \in 1..Len(Batch) : Batch[i] = slots[Place(written, i)]
  BY <1>3, <1>4 DEF Place
<1> QED BY <1>1, <1>4, <1>5 DEF d

LEMMA StoreStep ==
  ASSUME MailInv, StoreWritten
  PROVE  QueueInv' /\ BatchInv' /\ PopInv'
<1> DEFINE d == Len(Batch)
           n == Len(unread)
<1>0. Types /\ QueueInv /\ PopInv
  BY DEF MailInv
<1>1. /\ unread' = unread \o Batch /\ written' = next
      /\ UNCHANGED <<slots, read, cstep, copy, snapshot>>
  BY DEF StoreWritten, consumerVars
<1>2. /\ d \in Nat /\ n \in Nat /\ n + d <= Queue
      /\ Distance(next, written) = d /\ Distance(written, read) = n
      /\ next \in Cursor /\ written \in Cursor /\ read \in Cursor
  BY <1>0, BatchAppended DEF Types, QueueInv
<1>3. /\ Len(unread') = n + d
      /\ \A i \in 1..(n + d) : unread'[i] = IF i <= n THEN unread[i] ELSE Batch[i - n]
  BY <1>0, <1>1, BatchAppended, ConcatProperties DEF Types
<1>4. Distance(next, read) = d + n
  <2>1. Distance(next, written) + Distance(written, read) < Modulus
    <3> HIDE DEF d, n
    <3> QED BY <1>2, Sizes
  <2> QED BY <1>2, <2>1, DistanceAdds
<1>5. \A i \in 1..d : Batch[i] = slots[Place(written, i)]
  BY BatchAppended
<1> HIDE DEF d
<1>6. ASSUME NEW i \in 1..(n + d)
      PROVE  slots[Place(read, i)] = unread'[i]
  <2>1. CASE i <= n
    BY <1>0, <1>2, <1>3, <2>1 DEF QueueInv
  <2>2. CASE i > n
    <3>1. i - n \in 1..d /\ i - n \in 1..Queue /\ n + (i - n) = i /\ i <= Queue
      <4> HIDE DEF n
      <4> QED BY <1>2, <2>2, Sizes
    <3>2. Distance(written, read) + (i - n) <= Queue
      <4> HIDE DEF n
      <4> QED BY <1>2, <3>1
    <3>3. Place(written, i - n) = Place(read, Distance(written, read) + (i - n))
      <4> HIDE DEF n
      <4> QED BY <1>2, <3>1, <3>2, PlaceShift
    <3>4. Place(written, i - n) = Place(read, i)
      BY <1>2, <3>1, <3>3
    <3>5. unread'[i] = Batch[i - n]
      <4> HIDE DEF n
      <4> QED BY <1>2, <1>3, <2>2
    <3> QED BY <1>5, <3>1, <3>4, <3>5
  <2> HIDE DEF n
  <2> QED BY <1>2, <2>1, <2>2
<1>7. QueueInv'
  <2> HIDE DEF n
  <2> QED BY <1>1, <1>2, <1>3, <1>4, <1>6 DEF QueueInv
<1>8. BatchInv'
  BY DEF StoreWritten, BatchInv
<1>9. PopInv'
  <2>1. cstep \in {"copy", "release"} => unread' # <<>> /\ unread'[1] = unread[1]
    <3> SUFFICES ASSUME cstep \in {"copy", "release"}
                 PROVE  unread' # <<>> /\ unread'[1] = unread[1]
      OBVIOUS
    <3>1. unread # <<>> /\ unread \in Seq(1..MaxRecords)
      BY <1>0 DEF PopInv, Types
    <3>2. n > 0
      BY <1>2, <3>1
    <3>3. Len(unread') > 0 /\ unread'[1] = unread[1]
      <4> HIDE DEF n
      <4> QED BY <1>2, <1>3, <3>2
    <3> QED BY <3>3
  <2>2. cstep = "reset" => Distance(snapshot, read) <= Len(unread')
    <3>1. Distance(snapshot, read) \in Nat
      BY <1>0, DistanceNat DEF Types
    <3>2. cstep = "reset" => Distance(snapshot, read) <= n
      BY <1>0 DEF PopInv
    <3> HIDE DEF n
    <3> QED BY <1>2, <1>3, <3>1, <3>2
  <2> QED BY <1>0, <1>1, <2>1, <2>2 DEF PopInv
<1> QED BY <1>7, <1>8, <1>9

-----------------------------------------------------------------------------
(* Steps of the consumer.                                                  *)

\* Giving room back leaves the batch where it is.
LEMMA BatchKept ==
  ASSUME Types, BatchInv, Len(unread') \in Nat, Len(unread') <= Len(unread),
         UNCHANGED <<slots, written, producerVars>>
  PROVE  BatchInv'
<1>1. Distance(next, written) \in Nat /\ left \in Nat /\ Len(unread) \in Nat
  BY DistanceNat, SpansAssumption DEF Types
<1> QED BY <1>1, Sizes DEF BatchInv, producerVars

LEMMA PopStep ==
  ASSUME MailInv, PopLoad \/ PopCopy
  PROVE  QueueInv' /\ BatchInv' /\ PopInv'
<1>0. Types /\ QueueInv /\ BatchInv /\ PopInv
  BY DEF MailInv
<1>1. UNCHANGED <<slots, written, read, producerVars, snapshot, unread, last>>
  BY DEF PopLoad, PopCopy
<1>2. QueueInv' /\ BatchInv'
  BY <1>0, <1>1 DEF QueueInv, BatchInv, producerVars
<1>3. CASE PopLoad
  <2>1. Distance(written, read) # 0
    <3>1. written \in Cursor /\ read \in Cursor /\ written # read
      BY <1>0, <1>3 DEF Types, PopLoad
    <3>2. Distance(written, read) = IF written >= read THEN written - read
                                    ELSE written + Modulus - read
      BY <3>1, DistanceLinear
    <3> QED BY <3>1, <3>2, Sizes DEF Cursor
  <2>2. unread # <<>>
    BY <1>0, <2>1 DEF QueueInv
  <2> QED BY <1>1, <1>2, <1>3, <2>2 DEF PopLoad, PopInv
<1>4. CASE PopCopy
  <2>1. unread # <<>> /\ unread \in Seq(1..MaxRecords)
    BY <1>0, <1>4 DEF PopCopy, PopInv, Types
  <2>2. 1 \in 1..Len(unread)
    BY <2>1
  <2>3. slots[read % Queue] = unread[1]
    BY <1>0, <2>2, StepLinear DEF QueueInv, Types
  <2> QED BY <1>1, <1>2, <1>4, <2>1, <2>3 DEF PopCopy, PopInv
<1> QED BY <1>3, <1>4

LEMMA ReleaseStep ==
  ASSUME MailInv, PopRelease
  PROVE  QueueInv' /\ BatchInv' /\ PopInv'
<1>0. Types /\ QueueInv /\ BatchInv /\ PopInv
  BY DEF MailInv
<1>1. unread \in Seq(1..MaxRecords) /\ unread # <<>>
  BY <1>0 DEF Types, PopInv, PopRelease
<1>2. /\ Len(unread) \in Nat /\ Len(unread) > 0
      /\ Len(unread') = Len(unread) - 1 /\ \A i \in 1..Len(unread') : unread'[i] = unread[i + 1]
  BY <1>1, HeadTailProperties DEF PopRelease
<1>3. /\ read' = (read + 1) % Modulus /\ read' \in Cursor /\ read \in Cursor /\ written \in Cursor
      /\ UNCHANGED <<slots, written, producerVars>> /\ cstep' = "idle"
  BY <1>0, StepLinear DEF PopRelease, Types
<1>4. Distance(read', read) = 1
  BY <1>3, DistanceOne
<1>5. Distance(written, read') = Len(unread')
  <2>1. Distance(written, read) = Len(unread)
    BY <1>0 DEF QueueInv
  <2>2. Distance(read', read) <= Distance(written, read)
    BY <1>2, <1>4, <2>1
  <2> QED BY <1>2, <1>3, <1>4, <2>1, <2>2, DistanceLeft
<1>6. ASSUME NEW i \in 1..Len(unread')
      PROVE  slots[Place(read', i)] = unread'[i]
  <2>1. i \in 1..Queue /\ i + 1 \in 1..Len(unread) /\ 1 + i <= Queue
    BY <1>0, <1>2, Sizes DEF QueueInv
  <2>2. Place(read', i) = Place(read, 1 + i)
    BY <1>3, <1>4, <2>1, PlaceShift
  <2>3. 1 + i = i + 1
    BY <2>1
  <2> QED BY <1>0, <1>2, <2>1, <2>2, <2>3 DEF QueueInv
<1>7. QueueInv'
  BY <1>0, <1>2, <1>3, <1>5, <1>6, Sizes DEF QueueInv
<1>8. BatchInv'
  BY <1>0, <1>2, <1>3, BatchKept
<1> QED BY <1>3, <1>7, <1>8 DEF PopInv

LEMMA ResetStep ==
  ASSUME MailInv, ResetLoad \/ ResetStore
  PROVE  QueueInv' /\ BatchInv' /\ PopInv'
<1>0. Types /\ QueueInv /\ BatchInv /\ PopInv
  BY DEF MailInv
<1>1. CASE ResetLoad
  BY <1>0, <1>1 DEF ResetLoad, QueueInv, BatchInv, PopInv, producerVars, Types
<1>2. CASE ResetStore
  <2> DEFINE d == Distance(snapshot, read)
             n == Len(unread)
  <2>1. /\ snapshot \in Cursor /\ read \in Cursor /\ written \in Cursor
        /\ d \in Nat /\ n \in Nat /\ d <= n /\ n <= Queue /\ Distance(written, read) = n
    BY <1>0, <1>2, DistanceNat DEF Types, QueueInv, PopInv, ResetStore
  <2>2. /\ read' = snapshot /\ unread' = SubSeq(unread, d + 1, n) /\ cstep' = "idle"
        /\ UNCHANGED <<slots, written, producerVars>>
    BY <1>2 DEF ResetStore
  <2>3. \A i \in (d + 1)..n : unread[i] \in 1..MaxRecords
    <3>1. unread \in Seq(1..MaxRecords)
      BY <1>0 DEF Types
    <3>2. \A i \in (d + 1)..n : i \in 1..n
      <4> HIDE DEF d, n
      <4> QED BY <2>1
    <3>3. \A i \in 1..n : unread[i] \in 1..MaxRecords
      BY <3>1, ElementOfSeq
    <3> HIDE DEF d, n
    <3> QED BY <3>2, <3>3
  <2>4. Distance(written, snapshot) = n - d
    BY <2>1, DistanceLeft
  <2>5. \A i \in 1..n : slots[Place(read, i)] = unread[i]
    BY <1>0 DEF QueueInv
  <2>6. /\ Len(SubSeq(unread, d + 1, n)) = IF d + 1 <= n THEN n - (d + 1) + 1 ELSE 0
        /\ \A i \in 1..(n - (d + 1) + 1) : SubSeq(unread, d + 1, n)[i] = unread[(d + 1) + i - 1]
    <3> HIDE DEF d, n
    <3> QED BY <2>1, <2>3, SubSeqProperties
  <2>d. d = Distance(snapshot, read)
    OBVIOUS
  <2>n. n = Len(unread)
    OBVIOUS
  <2> HIDE DEF d, n
  <2>7. Len(unread') = n - d /\ \A i \in 1..(n - d) : unread'[i] = unread[d + i]
    <3>1. \A i \in 1..(n - d) : i \in 1..(n - (d + 1) + 1) /\ (d + 1) + i - 1 = d + i
      BY <2>1
    <3> QED BY <2>1, <2>2, <2>6, <3>1
  <2>8. ASSUME NEW i \in 1..(n - d)
        PROVE  slots[Place(snapshot, i)] = unread'[i]
    <3>1. i \in 1..Queue /\ d + i \in 1..n /\ d + i <= Queue
      BY <2>1, Sizes
    <3>2. Place(snapshot, i) = Place(read, d + i)
      BY <2>1, <2>d, <3>1, PlaceShift
    <3> QED BY <2>5, <2>7, <3>1, <3>2
  <2>9. QueueInv'
    BY <2>1, <2>2, <2>4, <2>7, <2>8, Sizes DEF QueueInv
  <2>10. BatchInv'
    BY <1>0, <2>1, <2>2, <2>7, <2>n, BatchKept
  <2> QED BY <2>2, <2>9, <2>10 DEF PopInv
<1> QED BY <1>1, <1>2

-----------------------------------------------------------------------------
(* Theorems.                                                               *)

LEMMA NextInv == MailInv /\ [Next]_vars => MailInv'
<1> SUFFICES ASSUME MailInv, [Next]_vars PROVE MailInv'
  OBVIOUS
<1>1. Types'
  BY TypesStep
<1>2. CASE Producer
  BY <1>1, <1>2, ReserveStep, ClipStep, WriteStep, StoreStep DEF Producer, MailInv
<1>3. CASE Consumer
  BY <1>1, <1>3, PopStep, ReleaseStep, ResetStep DEF Consumer, MailInv
<1>4. CASE UNCHANGED vars
  BY <1>1, <1>4 DEF vars, producerVars, consumerVars, MailInv, QueueInv, BatchInv, PopInv
<1> QED BY <1>2, <1>3, <1>4 DEF Next

\* The unread records stand in their slots, the batch behind them, and both
\* fit, whatever the producer and the consumer interleave.
THEOREM MailInvariance == Spec => []MailInv
BY InitInv, NextInv, PTL DEF Spec

\* The producer never writes a slot the consumer copies, though the credit for
\* the whole batch was loaded before its first record.
THEOREM NoRecordRaceHolds == Spec => []NoRecordRace
<1>1. MailInv => NoRecordRace
  <2> SUFFICES ASSUME MailInv, pstep = "write", left > 0, cstep = "copy"
               PROVE  next % Queue # read % Queue
    BY DEF NoRecordRace
  <2> DEFINE d == Distance(next, written)
             n == Len(unread)
  <2>0. Types /\ QueueInv /\ BatchInv /\ PopInv
    BY DEF MailInv
  <2>1. /\ d \in Nat /\ n \in Nat /\ n > 0 /\ left \in Nat /\ n + d + left <= Queue
        /\ Distance(written, read) = n
    <3>1. d \in Nat /\ n \in Nat /\ left \in Nat
      BY <2>0, DistanceNat, SpansAssumption DEF Types
    <3>2. n > 0
      BY <2>0, EmptySeq DEF Types, PopInv
    <3>3. Distance(written, read) = n /\ n + d + left <= Queue
      BY <2>0 DEF QueueInv, BatchInv
    <3> QED BY <3>1, <3>2, <3>3
  <2>2. next \in Cursor /\ written \in Cursor /\ read \in Cursor
    BY <2>0 DEF Types
  <2>d. d = Distance(next, written)
    OBVIOUS
  <2> HIDE DEF d, n
  <2>3. d + n < Modulus /\ d + n + 1 \in 1..Queue /\ 1 \in 1..Queue /\ d + n + 1 # 1
    BY <2>1, Sizes
  <2>4. Distance(next, read) = d + n
    BY <2>1, <2>2, <2>3, <2>d, DistanceAdds
  <2>5. Place(next, 1) = Place(read, d + n + 1)
    BY <2>1, <2>2, <2>3, <2>4, PlaceShift
  <2>6. Place(read, d + n + 1) # Place(read, 1)
    BY <2>2, <2>3, PlacesDiffer
  <2> QED BY <2>2, <2>5, <2>6, StepLinear
<1> QED BY <1>1, MailInvariance, PTL

\* The mailbox implements a bounded queue of whole batches: StoreWritten publishes
\* the batch, PopRelease takes the oldest record, ResetStore drops what was seen.
THEOREM MailboxImplementsBatchFifo == Spec => MailSpec
<1>1. Init => Mail!Init
  BY DEF Init, Mail!Init
<1>2. MailInv /\ [Next]_vars => [Mail!Next]_(Mail!vars)
  <2> SUFFICES ASSUME MailInv, [Next]_vars
               PROVE  Mail!Next \/ UNCHANGED <<unread, last>>
    BY DEF Mail!vars
  <2>0. Types /\ QueueInv /\ PopInv
    BY DEF MailInv
  <2>1. CASE StoreWritten
    <3>1. /\ Batch \in Seq(1..MaxRecords) /\ Len(Batch) <= MaxSpans
          /\ Len(unread) + Len(Batch) <= Queue
      BY <2>1, BatchAppended
    <3>2. unread' = unread \o Batch /\ last' = last
      BY <2>1 DEF StoreWritten
    <3>3. CASE Batch = <<>>
      BY <2>0, <3>2, <3>3, ConcatEmptySeq DEF Types
    <3>4. CASE Batch # <<>>
      <4>1. Len(Batch) \in 1..MaxSpans /\ Batch \in [1..Len(Batch) -> 1..MaxRecords]
        BY <3>1, <3>4, LenProperties, EmptySeq, SpansAssumption
      <4>2. Mail!Publish(Batch)
        BY <3>1, <3>2 DEF Mail!Publish
      <4> QED BY <4>1, <4>2 DEF Mail!Next
    <3> QED BY <3>3, <3>4
  <2>2. CASE PopRelease
    <3>1. Mail!Take
      BY <2>0, <2>2 DEF PopRelease, PopInv, Types, Mail!Take
    <3> QED BY <3>1 DEF Mail!Next
  <2>3. CASE ResetStore
    <3> DEFINE d == Distance(snapshot, read)
    <3>1. d \in Nat /\ d <= Len(unread) /\ Len(unread) \in Nat
      BY <2>0, <2>3, DistanceNat DEF Types, PopInv, ResetStore
    <3>2. unread' = SubSeq(unread, d + 1, Len(unread)) /\ last' = last
      BY <2>3 DEF ResetStore
    <3> HIDE DEF d
    <3>3. CASE d = 0
      <4>1. SubSeq(unread, 1, Len(unread)) = unread
        BY <2>0, SubSeqFull DEF Types
      <4> QED BY <3>2, <3>3, <4>1
    <3>4. CASE d # 0
      <4>1. d \in 1..Len(unread) /\ Mail!Drop(d)
        BY <3>1, <3>2, <3>4 DEF Mail!Drop
      <4> QED BY <4>1 DEF Mail!Next
    <3> QED BY <3>3, <3>4
  <2>4. ASSUME NEW n \in 0..MaxSpans, Reserve(n) PROVE UNCHANGED <<unread, last>>
    BY <2>4 DEF Reserve
  <2>5. CASE Clip \/ WriteRecord
    BY <2>5 DEF Clip, WriteRecord
  <2>6. CASE PopLoad \/ PopCopy \/ ResetLoad
    BY <2>6 DEF PopLoad, PopCopy, ResetLoad
  <2>7. CASE UNCHANGED vars
    BY <2>7 DEF vars
  <2> QED BY <2>1, <2>2, <2>3, <2>4, <2>5, <2>6, <2>7 DEF Next, Producer, Consumer
<1> QED BY <1>1, <1>2, MailInvariance, PTL DEF Spec, MailSpec, Mail!Spec
=============================================================================
