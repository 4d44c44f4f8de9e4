--------------------------- MODULE MuteSyncProofs ---------------------------
(***************************************************************************)
(* Theorems about source muting from end to end, for any ring, converter   *)
(* delay and lookahead.                                                    *)
(***************************************************************************)
EXTENDS MuteSync, SequenceTheorems, FiniteSetTheorems, TLAPS

H == INSTANCE MuteHistoryProofs WITH Generations <- Nat, Horizon <- MaxSource, floor <- 0

-----------------------------------------------------------------------------
(* Samples and the timeline of the stamp.                                  *)

Stamps == [generation : Nat, source : FirstSource..MaxSource]
Sample == [stamp : Stamps \cup {None}, true : Stamps \cup {None}]

Types ==
  /\ queue \in Seq(Sample) /\ moved \in BOOLEAN /\ job \in Nat
  /\ generation \in Nat /\ position \in FirstSource..MaxSource /\ stamp \in Stamps \cup {None}
  /\ taken \in Nat /\ played \in Nat /\ converted \in Nat /\ end \in Nat \cup {NoEnd}
  /\ remaining \in 0..Lookahead

\* The stamp belongs to the burst that the consumer is in.
Live == stamp # None /\ ~moved

\* While a call publishes nothing completes or resets, and what has to fit still
\* fits.
Publishing == {"gate", "credit", "publish", "push", "plainGate"}
Control ==
  /\ pstep \in {"sync", "plain"} \cup Publishing => finish # "pending"
  /\ pstep \in Publishing => ~moved
  /\ pstep \in {"sync", "gate", "credit", "publish", "push"} => job >= 1 /\ position + job <= MaxSource
  /\ pstep \in {"publish", "push"} => Len(queue) + job <= Capacity
  /\ pstep \in {"plain", "plainGate"} => position + 1 <= MaxSource
  /\ pstep = "push" => stamp # None
  /\ end # NoEnd => finish = "pending"
  /\ cstep \in {"complete", "completeFailed", "retire", "ack"} => finish = "pending"
  /\ cstep \in {"retire", "ack"} => ~Live /\ end = NoEnd
  /\ moved => queue = <<>> \/ cstep = "retire"

\* How far the renderer is in the samples of its burst.
Pace ==
  /\ played <= converted /\ taken - played <= Quantum
  /\ taken - converted <= Quantum
  /\ cstep = "play" => played < converted
  /\ end # NoEnd => end = taken + Len(queue)
  /\ converted > taken => end # NoEnd /\ queue = <<>>
  /\ cstep \in {"tail", "complete"} \/ remaining # Lookahead => end # NoEnd /\ queue = <<>>

\* Where the unread samples lie.
Tag(i) == [generation |-> generation, source |-> position - Len(queue) + i - 1]
Mapped ==
  /\ Live => stamp = [generation |-> generation, source |-> position]
  /\ cstep # "retire" =>
       \A i \in 1..Len(queue) :
         /\ queue[i].stamp \in {None, Tag(i)} /\ queue[i].true \in {None, queue[i].stamp}
         /\ ~Live => queue[i].stamp = None

\* The stamped samples of a burst start with a tagged one.
FirstTagged ==
  /\ anchor = None /\ cstep # "retire" =>
       \A i \in 1..Len(queue) : queue[i].stamp # None => \E j \in 1..i : queue[j].true # None
  /\ Live /\ pstep # "push" => anchor # None \/ \E j \in 1..Len(queue) : queue[j].true # None

\* The base that the renderer maps with and the truth agree.
Offset == position - taken - Len(queue)
Based ==
  /\ ~Live => base = None
  /\ base = None <=> anchor = None
  /\ base # None =>
       /\ base = [generation |-> generation, offset |-> Offset]
       /\ anchor.generation = generation /\ anchor.offset = Offset
       /\ anchor.first \in FirstSource..MaxSource

CoreInv == Types /\ Control /\ Pace /\ Mapped /\ FirstTagged /\ Based

LEMMA BeginCore ==
  ASSUME CoreInv, AwaitsCompletion, NEW step \in {"sync", "plain", "mute"}, NEW n \in Nat,
         Begin(step, n), MayCall, step # "mute" => finish # "pending",
         step = "sync" => n >= 1 /\ position + n <= MaxSource,
         step = "plain" => position < MaxSource
  PROVE  CoreInv'
<1>1. /\ pstep' = step /\ job' = n /\ pstep = "idle"
      /\ UNCHANGED <<queue, moved, finish, stamp, generation, position, consumerVars>>
  BY DEF Begin, MayCall
<1>2. CASE step = "sync"
  BY <1>1, <1>2, SyncAssumption
  DEF consumerVars, cacheVars, CoreInv, Types, Control, Pace, Mapped, FirstTagged, Based, Live, Publishing, Offset, Tag
<1>3. CASE step = "plain"
  BY <1>1, <1>3, SyncAssumption
  DEF consumerVars, cacheVars, CoreInv, Types, Control, Pace, Mapped, FirstTagged, Based, Live, Publishing, Offset, Tag
<1>4. CASE step = "mute"
  BY <1>1, <1>4, SyncAssumption
  DEF consumerVars, cacheVars, CoreInv, Types, Control, Pace, Mapped, FirstTagged, Based, Live, Publishing, Offset, Tag
<1> QED BY <1>2, <1>3, <1>4

LEMMA SyncCore ==
  ASSUME CoreInv,
         Sync("sync", "gate") \/ Sync("plain", "plainGate") \/ Sync("mute", "mutePublish")
  PROVE  CoreInv'
<1>1. /\ stamp' = (IF moved THEN None ELSE stamp) /\ moved' = FALSE
      /\ UNCHANGED <<queue, finish, job, generation, position, consumerVars>>
  BY DEF Sync, SyncedStamp
<1>10. \/ pstep = "sync" /\ pstep' = "gate"
       \/ pstep = "plain" /\ pstep' = "plainGate"
       \/ pstep = "mute" /\ pstep' = "mutePublish"
  BY DEF Sync
<1>2. UNCHANGED <<cstep, base, taken, played, converted, end, anchor, remaining>>
  BY <1>1 DEF consumerVars, cacheVars
<1>3. Live' <=> Live
  BY <1>1 DEF Live
<1>4. Types'
  BY <1>1, <1>2 DEF CoreInv, Types
<1>5. Control'
  BY <1>1, <1>2, <1>3, <1>10 DEF CoreInv, Control, Publishing
<1>6. Pace'
  BY <1>1, <1>2 DEF CoreInv, Pace
<1>7. Mapped'
  <2>1. Live => stamp' = stamp
    BY <1>1 DEF Live
  <2>2. \A i : Tag(i)' = Tag(i)
    BY <1>1 DEF Tag
  <2> QED BY <1>1, <1>2, <1>3, <2>1, <2>2 DEF CoreInv, Mapped
<1>8. FirstTagged'
  BY <1>1, <1>2, <1>3, <1>10 DEF CoreInv, FirstTagged
<1>9. Based'
  BY <1>1, <1>2, <1>3 DEF CoreInv, Based, Offset
<1> QED BY <1>4, <1>5, <1>6, <1>7, <1>8, <1>9 DEF CoreInv

LEMMA GateCore ==
  ASSUME CoreInv, TaggedGate
  PROVE  CoreInv'
BY SyncAssumption
DEF TaggedGate, Return, consumerVars, cacheVars, CoreInv, Types, Control, Pace, Mapped, FirstTagged, Based, Live, Publishing, Offset, Tag

LEMMA CreditCore ==
  ASSUME CoreInv, TaggedCredit
  PROVE  CoreInv'
<1> DEFINE accepted == IF job < Room THEN job ELSE Room
<1>1. CASE /\ Room > 0 /\ pstep' = "publish" /\ job' = accepted
  <2>1. /\ accepted \in Nat /\ accepted >= 1 /\ position + accepted <= MaxSource
        /\ Len(queue) + accepted <= Capacity
    BY <1>1, SyncAssumption DEF TaggedCredit, Room, CoreInv, Types, Control
  <2> HIDE DEF accepted
  <2> QED BY <1>1, <2>1, SyncAssumption
      DEF TaggedCredit, consumerVars, cacheVars, CoreInv, Types, Control, Pace, Mapped, FirstTagged, Based, Live, Publishing, Offset, Tag
<1>2. CASE Return
  BY <1>2, SyncAssumption
  DEF TaggedCredit, Return, consumerVars, cacheVars, CoreInv, Types, Control, Pace, Mapped, FirstTagged, Based, Live, Publishing, Offset, Tag
<1> QED BY <1>1, <1>2 DEF TaggedCredit

LEMMA TaggedPublishCore ==
  ASSUME CoreInv, TaggedPublish
  PROVE  CoreInv'
<1>1. /\ pstep = "publish" /\ pstep' = "push"
      /\ stamp' = [generation |-> generation, source |-> position]
      /\ UNCHANGED <<queue, moved, finish, job, generation, position, consumerVars>>
  BY DEF TaggedPublish
<1>2. stamp' \in Stamps /\ stamp' # None
  BY <1>1 DEF CoreInv, Types, Stamps, None
<1>3. Types' /\ Control' /\ Pace'
  BY <1>1, <1>2, SyncAssumption
  DEF consumerVars, cacheVars, CoreInv, Types, Control, Pace, Live, Publishing
<1>4. Mapped' /\ FirstTagged' /\ Based'
  BY <1>1, <1>2, SyncAssumption
  DEF consumerVars, cacheVars, CoreInv, Types, Control, Pace, Mapped, FirstTagged, Based, Live, Publishing, Offset, Tag
<1> QED BY <1>3, <1>4 DEF CoreInv

\* One more sample at the end of the queue, and the position behind it.
LEMMA StoredCore ==
  ASSUME CoreInv, NEW left \in Nat, NEW tagged \in BOOLEAN, Stored(left, tagged),
         pstep \in {"push", "plainGate"}, tagged <=> pstep = "push", finish # "pending",
         Len(queue) + 1 + left <= Capacity, position + 1 + left <= MaxSource, ~tagged => left = 0
  PROVE  CoreInv'
<1> DEFINE sample == [stamp |-> stamp,
                      true |-> IF tagged THEN [generation |-> generation, source |-> position]
                               ELSE None]
<1>1. /\ ~moved /\ SyncedStamp = stamp /\ end = NoEnd
      /\ cstep \notin {"retire", "complete", "completeFailed", "ack"}
      /\ tagged => Live
  BY DEF CoreInv, Control, Publishing, SyncedStamp, Live
<1>2. /\ queue' = Append(queue, sample) /\ moved' = FALSE /\ position' = position + 1
      /\ stamp' = (IF stamp = None THEN None ELSE [stamp EXCEPT !.source = @ + 1])
      /\ \/ left = 0 /\ pstep' = "idle" /\ job' = 0
         \/ left # 0 /\ pstep' = "push" /\ job' = left /\ tagged
      /\ UNCHANGED <<finish, generation, consumerVars>>
  BY <1>1 DEF Stored, Return
<1>3. /\ stamp # None => stamp = [generation |-> generation, source |-> position]
      /\ stamp' = (IF stamp = None THEN None
                   ELSE [generation |-> generation, source |-> position + 1])
  BY <1>1, <1>2 DEF CoreInv, Mapped, Live
<1>4. sample \in Sample /\ sample.stamp = stamp
      /\ sample.true = IF tagged THEN [generation |-> generation, source |-> position] ELSE None
  BY <1>1 DEF CoreInv, Types, Sample, Stamps
<1> HIDE DEF sample
<1>5. /\ queue' \in Seq(Sample) /\ Len(queue') = Len(queue) + 1 /\ Len(queue) \in Nat
      /\ queue'[Len(queue) + 1] = sample /\ \A i \in 1..Len(queue) : queue'[i] = queue[i]
  BY <1>2, <1>4 DEF CoreInv, Types
<1>6. \A i \in 1..Len(queue') : i \in 1..Len(queue) \/ i = Len(queue) + 1
  BY <1>5
<1>14. /\ sample.stamp \in {None, [generation |-> generation, source |-> position]}
       /\ sample.true \in {None, sample.stamp}
       /\ tagged => sample.true # None
       /\ sample.stamp = None <=> stamp = None
  BY <1>1, <1>3, <1>4 DEF Live, None
<1>15. /\ position \in Nat /\ position + 1 \in FirstSource..MaxSource /\ generation \in Nat /\ MaxSource \in Nat
       /\ position + 1 + left <= MaxSource /\ Capacity \in Nat
  BY SyncAssumption DEF CoreInv, Types
<1>7. Types'
  <2>1. stamp' \in Stamps \cup {None}
    BY <1>3, <1>15 DEF Stamps
  <2>2. job' \in Nat /\ moved' \in BOOLEAN /\ position' \in FirstSource..MaxSource /\ generation' \in Nat
    BY <1>2, <1>15 DEF consumerVars, cacheVars, CoreInv, Types
  <2> QED BY <1>2, <1>5, <2>1, <2>2 DEF consumerVars, cacheVars, CoreInv, Types
<1>8. Control'
  <2>1. /\ pstep' \in {"idle", "push"} /\ moved' = FALSE /\ finish' = finish /\ end' = NoEnd
        /\ cstep' \notin {"retire", "complete", "completeFailed", "ack"}
    BY <1>1, <1>2 DEF consumerVars, cacheVars
  <2>2. pstep' = "push" => /\ job' >= 1 /\ position' + job' <= MaxSource
                          /\ Len(queue') + job' <= Capacity /\ stamp' # None
    <3> SUFFICES ASSUME pstep' = "push" PROVE /\ job' >= 1 /\ position' + job' <= MaxSource
                                             /\ Len(queue') + job' <= Capacity /\ stamp' # None
      OBVIOUS
    <3>1. left # 0 /\ job' = left /\ tagged
      BY <1>2
    <3>2. stamp' # None
      BY <1>1, <1>3, <3>1 DEF Live, None
    <3> QED BY <1>2, <1>5, <1>15, <3>1, <3>2
  <2> QED BY <2>1, <2>2 DEF Control, Publishing
<1>9. Pace'
  BY <1>1, <1>2, SyncAssumption DEF consumerVars, cacheVars, CoreInv, Types, Pace
<1>10. Mapped'
  <2>1. Live' <=> stamp # None
    BY <1>2, <1>3 DEF Live, None
  <2>2. ASSUME NEW i \in 1..Len(queue')
        PROVE  /\ queue'[i].stamp \in {None, Tag(i)'} /\ queue'[i].true \in {None, queue'[i].stamp}
               /\ ~Live' => queue'[i].stamp = None
    <3>1. CASE i \in 1..Len(queue)
      <4>1. Tag(i)' = Tag(i)
        BY <1>2, <1>5, <3>1 DEF consumerVars, Tag, CoreInv, Types
      <4>2. /\ queue[i].stamp \in {None, Tag(i)} /\ queue[i].true \in {None, queue[i].stamp}
            /\ ~Live => queue[i].stamp = None
        BY <1>1, <3>1 DEF CoreInv, Mapped
      <4>3. ~Live' => ~Live
        BY <2>1 DEF Live
      <4> QED BY <1>5, <3>1, <4>1, <4>2, <4>3
    <3>2. CASE i = Len(queue) + 1
      <4>1. Tag(i)' = [generation |-> generation, source |-> position]
        BY <1>2, <1>5, <3>2 DEF consumerVars, Tag, CoreInv, Types
      <4> QED BY <1>5, <1>14, <2>1, <3>2, <4>1
    <3> QED BY <1>6, <3>1, <3>2
  <2>3. Live' => stamp' = [generation |-> generation', source |-> position']
    BY <1>2, <1>3, <2>1
  <2> QED BY <2>2, <2>3 DEF Mapped
<1>11. FirstTagged'
  <2>1. Live' => Live
    BY <1>1, <1>2, <1>3 DEF Live, None
  <2>2. sample.stamp # None => anchor # None \/ \E j \in 1..(Len(queue) + 1) : queue'[j].true # None
    <3>1. CASE tagged
      <4>1. Len(queue) + 1 \in 1..(Len(queue) + 1)
        BY <1>5
      <4> QED BY <1>5, <1>14, <3>1, <4>1
    <3>2. CASE ~tagged
      <4>1. stamp # None => anchor # None \/ \E j \in 1..Len(queue) : queue[j].true # None
        BY <1>1, <3>2 DEF CoreInv, FirstTagged, Live
      <4>2. 1..Len(queue) \subseteq 1..(Len(queue) + 1)
        BY <1>5
      <4> QED BY <1>4, <1>5, <4>1, <4>2
    <3> QED BY <3>1, <3>2
  <2>3. anchor' = anchor /\ cstep' = cstep
    BY <1>2 DEF consumerVars, cacheVars
  <2>4. ASSUME anchor = None, NEW i \in 1..Len(queue'), queue'[i].stamp # None
        PROVE  \E j \in 1..i : queue'[j].true # None
    <3>1. CASE i \in 1..Len(queue)
      <4>1. \E j \in 1..i : queue[j].true # None
        <5>1. queue[i].stamp # None
          BY <1>5, <2>4, <3>1
        <5> QED BY <1>1, <2>4, <3>1, <5>1 DEF CoreInv, FirstTagged
      <4>2. \A j \in 1..i : j \in 1..Len(queue)
        BY <1>5, <3>1
      <4> QED BY <1>5, <4>1, <4>2
    <3>2. CASE i = Len(queue) + 1
      BY <1>5, <2>2, <2>4, <3>2
    <3> QED BY <1>6, <3>1, <3>2
  <2>5. Live' => anchor # None \/ \E j \in 1..Len(queue') : queue'[j].true # None
    <3>1. Live' => sample.stamp # None
      BY <1>2, <1>3, <1>4 DEF Live
    <3> QED BY <1>5, <2>2, <3>1
  <2> QED BY <2>3, <2>4, <2>5 DEF FirstTagged
<1>12. Based'
  <2>1. Offset' = Offset /\ (Live' <=> Live)
    <3>1. taken' = taken /\ taken \in Nat /\ position \in Nat /\ position' = position + 1
      BY <1>2, <1>15 DEF consumerVars, cacheVars, CoreInv, Types
    <3>2. Len(queue) \in Nat /\ Len(queue') = Len(queue) + 1
      BY <1>5
    <3>3. Offset' = Offset
      BY <3>1, <3>2 DEF Offset
    <3>4. Live' <=> Live
      BY <1>1, <1>2, <1>3 DEF Live, None
    <3> QED BY <3>3, <3>4
  <2>2. UNCHANGED <<base, anchor, generation>>
    BY <1>2 DEF consumerVars, cacheVars
  <2> QED BY <2>1, <2>2 DEF CoreInv, Based
<1> QED BY <1>7, <1>8, <1>9, <1>10, <1>11, <1>12 DEF CoreInv

LEMMA PushCore ==
  ASSUME CoreInv, PushOne
  PROVE  CoreInv'
<1>1. /\ job \in Nat /\ job >= 1 /\ position + job <= MaxSource /\ Len(queue) + job <= Capacity
      /\ pstep = "push" /\ finish # "pending" /\ Stored(job - 1, TRUE)
  BY DEF PushOne, CoreInv, Types, Control, Publishing
<1>2. /\ job - 1 \in Nat /\ Len(queue) \in Nat /\ position \in Nat
      /\ Len(queue) + 1 + (job - 1) <= Capacity /\ position + 1 + (job - 1) <= MaxSource
  BY <1>1, SyncAssumption DEF CoreInv, Types
<1> QED BY <1>1, <1>2, StoredCore

LEMMA PlainPushCore ==
  ASSUME CoreInv, PlainPush
  PROVE  CoreInv'
<1>1. CASE finish # "pending" /\ Room > 0 /\ Stored(0, FALSE)
  <2>1. /\ pstep = "plainGate" /\ Len(queue) + 1 + 0 <= Capacity /\ position + 1 + 0 <= MaxSource
    BY <1>1, SyncAssumption DEF PlainPush, Room, CoreInv, Types, Control
  <2> QED BY <1>1, <2>1, StoredCore
<1>2. CASE /\ Return
           /\ UNCHANGED <<queue, mail, moved, finish, stamp, generation, position,
                          consumerVars, wanted, carried>>
  <2>1. /\ pstep' = "idle" /\ job' = 0
        /\ UNCHANGED <<queue, moved, finish, stamp, generation, position, consumerVars>>
    BY <1>2 DEF Return
  <2>2. Types' /\ Control' /\ Pace'
    BY <2>1 DEF consumerVars, cacheVars, CoreInv, Types, Control, Pace, Publishing, Live
  <2>3. Mapped' /\ Based'
    BY <2>1 DEF consumerVars, cacheVars, CoreInv, Mapped, Based, Live, Offset, Tag
  <2>4. FirstTagged'
    <3>1. pstep # "push"
      BY DEF PlainPush
    <3> QED BY <2>1, <3>1 DEF consumerVars, cacheVars, CoreInv, FirstTagged, Live
  <2> QED BY <2>2, <2>3, <2>4 DEF CoreInv
<1> QED BY <1>1, <1>2 DEF PlainPush

LEMMA MutePublishCore ==
  ASSUME CoreInv, MutePublish
  PROVE  CoreInv'
BY SyncAssumption
DEF MutePublish, Return, consumerVars, cacheVars, CoreInv, Types, Control, Pace, Mapped, FirstTagged, Based, Live, Publishing, Offset, Tag

LEMMA FinishCore ==
  ASSUME CoreInv, Finish
  PROVE  CoreInv'
BY SyncAssumption
DEF Finish, MayCall, producerVars, consumerVars, cacheVars, CoreInv, Types, Control, Pace, Mapped, FirstTagged, Based, Live, Publishing, Offset, Tag

LEMMA NewGenerationCore ==
  ASSUME CoreInv, NewGeneration
  PROVE  CoreInv'
BY SyncAssumption
DEF NewGeneration, MayPublish, MayCall, consumerVars, cacheVars, CoreInv, Types, Control, Pace, Mapped, FirstTagged, Based, Live, Publishing, Offset, Tag

LEMMA RenderBeginCore ==
  ASSUME CoreInv, RenderBegin
  PROVE  CoreInv'
<1>1. /\ cstep = "idle" /\ cstep' \in {"idle", "tail", "refill"}
      /\ end' = IF finish = "pending" /\ end = NoEnd THEN taken + Len(queue) ELSE end
      /\ cstep' = "tail" => end' = 0 \/ remaining # Lookahead
      /\ UNCHANGED <<queue, moved, finish, producerVars, base, taken, played, converted, anchor,
                     remaining>>
  BY DEF RenderBegin
<1>2. Types' /\ Control'
  BY <1>1, SyncAssumption DEF producerVars, CoreInv, Types, Control, Publishing, Live
<1>4. Mapped' /\ FirstTagged' /\ Based'
  BY <1>1 DEF producerVars, CoreInv, Mapped, FirstTagged, Based, Live, Offset, Tag
<1>3. Pace'
  <2>1. end' = 0 => queue = <<>>
    BY <1>1 DEF CoreInv, Types, Pace, NoEnd
  <2> QED BY <1>1, <2>1, SyncAssumption DEF producerVars, CoreInv, Types, Pace, NoEnd
<1> QED BY <1>2, <1>3, <1>4 DEF CoreInv

LEMMA FirstIndex ==
  ASSUME NEW n \in Nat, NEW I, I \subseteq 1..n, I # {}
  PROVE  Min(I) \in I /\ \A i \in I : Min(I) <= i
<1>1. H!Min(I) \in I /\ \A i \in I : H!Min(I) <= i
  BY HistoryCapacityAssumption, SyncAssumption, H!FirstOf
<1>2. H!Min(I) = Min(I)
  BY DEF Min, H!Min
<1> QED BY <1>1, <1>2

\* The first of some samples that has a stamp, and the first tagged one.
LEMMA FirstStamp ==
  ASSUME NEW s \in Seq(Sample)
  PROVE  LET k == SelectInSeq(s, LAMBDA x : x.stamp # None) IN
         /\ k \in 0..Len(s) /\ (k # 0 => s[k].stamp # None)
         /\ (k = 0 => \A i \in 1..Len(s) : s[i].stamp = None)
<1> DEFINE I == {i \in 1..Len(s) : s[i].stamp # None}
           k == IF I # {} THEN Min(I) ELSE 0
<1>1. SelectInSeq(s, LAMBDA x : x.stamp # None) = k
  BY DEF SelectInSeq
<1>2. Len(s) \in Nat /\ I \subseteq 1..Len(s)
  OBVIOUS
<1>3. I # {} => Min(I) \in I
  BY <1>2, FirstIndex
<1>4. \A i \in 1..Len(s) : i \in I <=> s[i].stamp # None
  OBVIOUS
<1> QED BY <1>1, <1>2, <1>3, <1>4

LEMMA FirstTrue ==
  ASSUME NEW s \in Seq(Sample)
  PROVE  LET k == SelectInSeq(s, LAMBDA x : x.true # None) IN
         /\ k \in 0..Len(s) /\ (k # 0 => s[k].true # None)
         /\ (k = 0 => \A i \in 1..Len(s) : s[i].true = None)
<1> DEFINE I == {i \in 1..Len(s) : s[i].true # None}
           k == IF I # {} THEN Min(I) ELSE 0
<1>1. SelectInSeq(s, LAMBDA x : x.true # None) = k
  BY DEF SelectInSeq
<1>2. Len(s) \in Nat /\ I \subseteq 1..Len(s)
  OBVIOUS
<1>3. I # {} => Min(I) \in I
  BY <1>2, FirstIndex
<1>4. \A i \in 1..Len(s) : i \in I <=> s[i].true # None
  OBVIOUS
<1> QED BY <1>1, <1>2, <1>3, <1>4

\* What a refill takes agrees with the base, which it may fix.
Taking(n) ==
  /\ n \in 0..Len(queue) /\ taken + n - played <= Quantum
  /\ n = 0 => queue = <<>> \/ taken = converted + Quantum
  /\ queue' = SubSeq(queue, n + 1, Len(queue)) /\ taken' = taken + n
  /\ fault' = FALSE
  /\ \/ base' = base /\ (base # None \/ \A i \in 1..n : queue[i].stamp = None)
     \/ /\ base = None /\ base' = [generation |-> generation, offset |-> Offset]
        /\ \E i \in 1..n : queue[i].stamp # None
  /\ \/ anchor' = anchor /\ (anchor # None \/ \A i \in 1..n : queue[i].true = None)
     \/ /\ anchor = None
        /\ \E i \in 1..n :
             /\ queue[i].true # None
             /\ anchor' = [generation |-> generation, first |-> queue[i].true.source,
                           offset |-> Offset]
  /\ \/ converted' = taken' /\ cstep' = "play"
     \/ /\ converted' = converted /\ cstep' \in {"completeFailed", "starved"}
        /\ cstep' = "completeFailed" => end # NoEnd

LEMMA TakeFacts ==
  ASSUME CoreInv, cstep = "refill", played = converted, ~Pads, Take
  PROVE  \E n \in Nat : Taking(n)
<1> DEFINE wanting == Quantum - (taken - converted)
           n       == IF Len(queue) < wanting THEN Len(queue) ELSE wanting
           s       == SubSeq(queue, 1, n)
           stamped == SelectInSeq(s, LAMBDA x : x.stamp # None)
           fixed   == IF base # None \/ stamped = 0 THEN base
                      ELSE BaseOf(queue[stamped], taken + stamped - 1)
           broken  == \E i \in 1..n : BaseOf(queue[i], taken + i - 1) \notin {None, fixed}
           known   == SelectInSeq(s, LAMBDA x : x.true # None)
<1>1. /\ queue' = SubSeq(queue, n + 1, Len(queue)) /\ taken' = taken + n /\ base' = fixed
      /\ anchor' = (IF anchor # None \/ known = 0 THEN anchor
                    ELSE [generation |-> queue[known].true.generation,
                          first |-> queue[known].true.source,
                          offset |-> queue[known].true.source - (taken + known - 1)])
      /\ fault' = broken
      /\ \E converts \in BOOLEAN :
           /\ broken => ~converts
           /\ converted' = IF converts THEN taken' ELSE converted
           /\ cstep' = IF converts THEN "play" ELSE Failed(broken)
  BY DEF Take
<1>2. /\ Len(queue) \in Nat /\ wanting \in Nat /\ n \in 0..Len(queue) /\ n \in Nat /\ n <= wanting
      /\ taken + n - played <= Quantum
      /\ n = 0 => queue = <<>> \/ taken = converted + Quantum
  BY SyncAssumption DEF CoreInv, Types, Pace, Pads
<1>3. s \in Seq(Sample) /\ Len(s) = n /\ \A i \in 1..n : s[i] = queue[i] /\ i \in 1..Len(queue)
  BY <1>2 DEF CoreInv, Types
<1> HIDE DEF n, wanting, s
<1>4. /\ stamped \in 0..n /\ (stamped # 0 => s[stamped].stamp # None)
      /\ (stamped = 0 => \A i \in 1..n : s[i].stamp = None)
  BY <1>3, FirstStamp
<1>5. /\ known \in 0..n /\ (known # 0 => s[known].true # None)
      /\ (known = 0 => \A i \in 1..n : s[i].true = None)
  BY <1>3, FirstTrue
<1> HIDE DEF stamped, known
<1>6. ASSUME NEW i \in 1..n
      PROVE  /\ BaseOf(queue[i], taken + i - 1) \in {None, [generation |-> generation, offset |-> Offset]}
             /\ queue[i].stamp # None =>
                  BaseOf(queue[i], taken + i - 1) = [generation |-> generation, offset |-> Offset]
             /\ queue[i].true # None => /\ queue[i].true.generation = generation
                                        /\ queue[i].true.source - (taken + i - 1) = Offset
  <2>1. queue[i].stamp \in {None, Tag(i)} /\ queue[i].true \in {None, queue[i].stamp}
    BY <1>3 DEF CoreInv, Mapped
  <2>2. /\ Tag(i).generation = generation /\ Tag(i).source - (taken + i - 1) = Offset /\ Tag(i) # None
    BY <1>2, <1>3 DEF Tag, Offset, None, CoreInv, Types
  <2> QED BY <2>1, <2>2 DEF BaseOf
<1>7. /\ fixed = base /\ (base # None \/ \A i \in 1..n : queue[i].stamp = None)
      \/ /\ base = None /\ fixed = [generation |-> generation, offset |-> Offset]
         /\ \E i \in 1..n : queue[i].stamp # None
  <2>1. CASE base # None \/ stamped = 0
    BY <1>3, <1>4, <2>1
  <2>2. CASE ~(base # None \/ stamped = 0)
    <3>1. stamped \in 1..n /\ queue[stamped].stamp # None
      BY <1>2, <1>3, <1>4, <2>2
    <3> QED BY <1>6, <2>2, <3>1
  <2> QED BY <2>1, <2>2
<1>8. ~broken
  <2> SUFFICES ASSUME NEW i \in 1..n PROVE BaseOf(queue[i], taken + i - 1) \in {None, fixed}
    OBVIOUS
  <2>1. CASE queue[i].stamp = None
    BY <2>1 DEF BaseOf
  <2>2. CASE queue[i].stamp # None
    <3>1. fixed = [generation |-> generation, offset |-> Offset]
      BY <1>7, <2>2 DEF CoreInv, Based
    <3> QED BY <1>6, <2>2, <3>1
  <2> QED BY <2>1, <2>2
<1>9. \/ anchor' = anchor /\ (anchor # None \/ \A i \in 1..n : queue[i].true = None)
      \/ /\ anchor = None
         /\ \E i \in 1..n :
              /\ queue[i].true # None
              /\ anchor' = [generation |-> generation, first |-> queue[i].true.source,
                            offset |-> Offset]
  <2>1. CASE anchor # None \/ known = 0
    BY <1>1, <1>3, <1>5, <2>1
  <2>2. CASE ~(anchor # None \/ known = 0)
    <3>1. known \in 1..n /\ queue[known].true # None
      BY <1>2, <1>3, <1>5, <2>2
    <3> QED BY <1>1, <1>6, <2>2, <3>1
  <2> QED BY <2>1, <2>2
<1>10. \/ converted' = taken' /\ cstep' = "play"
       \/ /\ converted' = converted /\ cstep' \in {"completeFailed", "starved"}
          /\ cstep' = "completeFailed" => end # NoEnd
  BY <1>1, <1>8 DEF Failed
<1> HIDE DEF fixed, broken
<1>11. Taking(n)
  BY <1>1, <1>2, <1>7, <1>8, <1>9, <1>10 DEF Taking
<1> QED BY <1>2, <1>11

LEMMA TakeCore ==
  ASSUME CoreInv, cstep = "refill", played = converted, queue # <<>> \/ taken > converted,
         NEW n \in Nat, Taking(n),
         UNCHANGED <<moved, finish, producerVars, played, end, remaining>>
  PROVE  /\ CoreInv' /\ Offset' = Offset /\ Len(queue') = Len(queue) - n
         /\ \A i \in 1..Len(queue') : i + n \in 1..Len(queue) /\ queue'[i] = queue[i + n]
<1>1. /\ queue' = SubSeq(queue, n + 1, Len(queue)) /\ taken' = taken + n /\ fault' = FALSE
      /\ n \in 0..Len(queue) /\ queue \in Seq(Sample) /\ Len(queue) \in Nat
      /\ taken + n - played <= Quantum /\ taken \in Nat /\ played \in Nat /\ converted \in Nat
      /\ cstep' \in {"play", "completeFailed", "starved"}
      /\ UNCHANGED <<moved, finish, pstep, job, stamp, generation, position, played, end, remaining>>
  BY DEF Taking, CoreInv, Types, producerVars
<1>2. /\ queue' \in Seq(Sample) /\ Len(queue') = Len(queue) - n
      /\ \A i \in 1..Len(queue') : i + n \in 1..Len(queue) /\ queue'[i] = queue[i + n]
  <2>1. /\ SubSeq(queue, n + 1, Len(queue)) \in Seq(Sample)
        /\ Len(SubSeq(queue, n + 1, Len(queue))) = Len(queue) - n
    BY <1>1
  <2>2. \A i \in 1..(Len(queue) - n) : /\ i + n \in 1..Len(queue)
                                       /\ SubSeq(queue, n + 1, Len(queue))[i] = queue[i + n]
    BY <1>1
  <2> QED BY <1>1, <2>1, <2>2
<1>10. /\ position \in Nat /\ position' = position /\ generation' = generation /\ job \in Nat
       /\ Len(queue') \in Nat /\ Len(queue) \in Nat /\ Len(queue') <= Len(queue) /\ Capacity \in Nat
  BY <1>1, <1>2, SyncAssumption DEF CoreInv, Types
<1>3. Offset' = Offset /\ (Live' <=> Live) /\ \A i \in 1..Len(queue') : Tag(i)' = Tag(i + n)
  <2>1. Offset' = Offset
    BY <1>1, <1>2, <1>10 DEF Offset
  <2>2. Live' <=> Live
    BY <1>1 DEF Live
  <2>3. ASSUME NEW i \in 1..Len(queue') PROVE Tag(i)' = Tag(i + n)
    <3>1. i \in Nat /\ Len(queue') = Len(queue) - n
      BY <1>2
    <3>2. \A a, b, c, d \in Nat : a - (b - c) + d - 1 = a - b + (d + c) - 1
      OBVIOUS
    <3>3. position' - Len(queue') + i - 1 = position - Len(queue) + (i + n) - 1
      BY <1>10, <3>1, <3>2
    <3> QED BY <1>10, <3>3 DEF Tag
  <2> QED BY <2>1, <2>2, <2>3
<1>4. Types'
  <2>1. converted' \in {taken', converted}
    BY DEF Taking
  <2> QED BY <1>1, <1>2, <2>1 DEF CoreInv, Types
<1>5. Control'
  <2>1. cstep' = "completeFailed" => end # NoEnd
    BY DEF Taking
  <2>2. moved => queue' = <<>>
    BY <1>1, <1>2 DEF CoreInv, Control
  <2>3. pstep \in {"publish", "push"} => Len(queue') + job <= Capacity
    <3>1. pstep \in {"publish", "push"} => Len(queue) + job <= Capacity
      BY DEF CoreInv, Control
    <3> QED BY <1>10, <3>1
  <2> QED BY <1>1, <1>3, <2>1, <2>2, <2>3 DEF CoreInv, Control, Publishing
<1>6. Pace'
  <2>1. \/ converted' = taken' /\ cstep' = "play"
        \/ converted' = converted /\ cstep' # "play"
    BY <1>1 DEF Taking
  <2>2. /\ converted <= taken /\ taken - converted <= Quantum
        /\ end # NoEnd => end = taken + Len(queue)
        /\ remaining # Lookahead => end # NoEnd /\ queue = <<>>
    BY <1>1, SyncAssumption DEF CoreInv, Pace
  <2>3. n >= 1 \/ taken > converted
    <3>1. CASE n = 0 /\ queue # <<>>
      <4>1. taken = converted + Quantum
        BY <3>1 DEF Taking
      <4> QED BY <1>1, <4>1, SyncAssumption
    <3>2. CASE n = 0 /\ queue = <<>>
      BY <3>2
    <3> QED BY <1>1, <3>1, <3>2
  <2>4. queue = <<>> => queue' = <<>>
    BY <1>1, <1>2
  <2>5. /\ played' <= converted' /\ taken' - played' <= Quantum /\ taken' - converted' <= Quantum
        /\ cstep' = "play" => played' < converted'
        /\ converted' <= taken'
    BY <1>1, <2>1, <2>2, <2>3, SyncAssumption
  <2>6. end' # NoEnd => end' = taken' + Len(queue')
    BY <1>1, <1>2, <2>2
  <2>7. converted' \in Nat /\ taken' \in Nat
    BY <1>4 DEF Types
  <2>8. cstep' \notin {"tail", "complete"} /\ remaining' = remaining /\ end' = end
    BY <1>1
  <2> QED BY <2>2, <2>4, <2>5, <2>6, <2>7, <2>8 DEF Pace
<1>7. Mapped'
  <2>1. ASSUME NEW i \in 1..Len(queue')
        PROVE  /\ queue'[i].stamp \in {None, Tag(i)'} /\ queue'[i].true \in {None, queue'[i].stamp}
               /\ ~Live' => queue'[i].stamp = None
    BY <1>2, <1>3 DEF CoreInv, Mapped
  <2> QED BY <1>1, <1>3, <2>1 DEF CoreInv, Mapped
<1>8. FirstTagged'
  <2>1. anchor' = None => anchor = None /\ \A i \in 1..n : queue[i].true = None
    BY DEF Taking, None
  <2>2. ASSUME anchor' = None, NEW i \in 1..Len(queue'), queue'[i].stamp # None
        PROVE  \E j \in 1..i : queue'[j].true # None
    <3>1. PICK j \in 1..(i + n) : queue[j].true # None
      <4>1. queue[i + n].stamp # None /\ i + n \in 1..Len(queue)
        BY <1>2, <2>2
      <4> QED BY <2>1, <2>2, <4>1 DEF CoreInv, FirstTagged
    <3>3. ~(j \in 1..n)
      BY <2>1, <2>2, <3>1
    <3>2. j > n /\ j - n \in 1..i /\ j - n \in 1..Len(queue') /\ (j - n) + n = j
      <4>1. i \in Nat /\ Len(queue') \in Nat /\ i <= Len(queue') /\ j \in Nat /\ 1 <= j /\ j <= i + n
        BY <1>10
      <4>2. j > n
        BY <3>3, <4>1
      <4> QED BY <4>1, <4>2
    <3> QED BY <1>2, <3>1, <3>2
  <2>3. ASSUME Live', pstep' # "push", anchor' = None PROVE \E j \in 1..Len(queue') : queue'[j].true # None
    <3>1. PICK j \in 1..Len(queue) : queue[j].true # None
      BY <1>1, <1>3, <2>1, <2>3 DEF CoreInv, FirstTagged
    <3>2. j > n /\ j - n \in 1..Len(queue') /\ (j - n) + n = j
      <4>1. j \notin 1..n
        BY <2>1, <2>3, <3>1
      <4>2. j \in Nat /\ 1 <= j /\ j <= Len(queue) /\ Len(queue') = Len(queue) - n
        BY <1>2, <1>10
      <4>3. j > n
        BY <4>1, <4>2
      <4> QED BY <1>10, <4>2, <4>3
    <3> QED BY <1>2, <3>1, <3>2
  <2> QED BY <2>2, <2>3 DEF FirstTagged
<1>9. Based'
  <2>1. ASSUME NEW i \in 1..n, queue[i].true # None
        PROVE  queue[i].stamp # None /\ queue[i].true.source \in FirstSource..MaxSource
    <3>1. queue[i] \in Sample /\ queue[i].true \in {None, queue[i].stamp}
      BY <1>1 DEF CoreInv, Mapped
    <3> QED BY <2>1, <3>1 DEF Sample, Stamps, None
  <2>2. ASSUME NEW i \in 1..n, queue[i].stamp # None
        PROVE  anchor # None \/ \E j \in 1..n : queue[j].true # None
    <3>1. i \in 1..Len(queue) /\ 1..i \subseteq 1..n
      BY <1>1
    <3>2. anchor # None \/ \E j \in 1..i : queue[j].true # None
      BY <2>2, <3>1 DEF CoreInv, FirstTagged
    <3> QED BY <3>1, <3>2
  <2>3. ASSUME NEW i \in 1..n, queue[i].stamp # None PROVE Live
    BY <1>1, <2>3 DEF CoreInv, Mapped
  <2>4. base' # None => base' = [generation |-> generation, offset |-> Offset] /\ Live
    BY <2>3 DEF Taking, CoreInv, Based
  <2>5. anchor' # None => /\ anchor'.generation = generation /\ anchor'.offset = Offset
                          /\ anchor'.first \in FirstSource..MaxSource
    BY <2>1 DEF Taking, CoreInv, Based, None
  <2>6. base' = None <=> anchor' = None
    <3>1. base' # None => base # None \/ \E i \in 1..n : queue[i].stamp # None
      BY DEF Taking, None
    <3>2. base' = None => base = None /\ \A i \in 1..n : queue[i].stamp = None
      BY DEF Taking, None
    <3>3. anchor' = None => anchor = None /\ \A i \in 1..n : queue[i].true = None
      BY DEF Taking, None
    <3>4. anchor' # None => anchor # None \/ \E i \in 1..n : queue[i].true # None
      BY DEF Taking, None
    <3> QED BY <2>1, <2>2, <3>1, <3>2, <3>3, <3>4 DEF CoreInv, Based
  <2> QED BY <1>1, <1>3, <2>4, <2>5, <2>6 DEF Based
<1> QED BY <1>2, <1>3, <1>4, <1>5, <1>6, <1>7, <1>8, <1>9 DEF CoreInv

LEMMA PadCore ==
  ASSUME CoreInv, cstep = "refill", Pad, played = converted, taken <= converted, queue = <<>> \/ Pads,
         UNCHANGED <<moved, finish, producerVars, played, end, remaining>>
  PROVE  CoreInv'
BY SyncAssumption
DEF Pad, Pads, Failed, producerVars, CoreInv, Types, Control, Pace, Mapped, FirstTagged, Based, Live, Publishing, Offset, Tag

LEMMA RefillCore ==
  ASSUME CoreInv, Refill
  PROVE  CoreInv'
<1>1. CASE /\ played < converted /\ cstep' = "play"
           /\ UNCHANGED <<queue, fault, base, taken, converted, anchor>>
  BY <1>1 DEF Refill, producerVars, CoreInv, Types, Control, Pace, Mapped, FirstTagged, Based, Live, Publishing, Offset, Tag
<1>2. CASE played = converted /\ (queue # <<>> \/ taken > converted) /\ ~Pads /\ Take
  BY <1>2, TakeFacts, TakeCore DEF Refill
<1>3. CASE played = converted /\ taken <= converted /\ (queue = <<>> \/ Pads) /\ Pad
  BY <1>3, PadCore DEF Refill
<1> QED BY <1>1, <1>2, <1>3 DEF Refill

LEMMA PlayCore ==
  ASSUME CoreInv, Play
  PROVE  CoreInv'
<1>1. /\ cstep = "play" /\ UNCHANGED <<pstep, job, stamp, generation, position>>
      /\ \/ end # NoEnd /\ 2 * played - HalfDelay >= 2 * end /\ cstep' = "tail" /\ played' = played
         \/ played' = played + 1 /\ cstep' = "idle"
      /\ UNCHANGED <<queue, moved, finish, base, taken, converted, end, anchor, remaining>>
  BY DEF Play, producerVars
<1>2. played < converted /\ played \in Nat /\ converted \in Nat /\ taken \in Nat
  BY <1>1 DEF CoreInv, Types, Pace
<1>3. Live' <=> Live
  BY <1>1 DEF Live
<1>4. Types'
  BY <1>1, <1>2 DEF CoreInv, Types
<1>5. Control'
  BY <1>1, <1>3 DEF CoreInv, Control, Publishing
<1>6. Pace'
  <2>1. played' <= converted /\ taken - played' <= Quantum
    BY <1>1, <1>2, SyncAssumption DEF CoreInv, Pace
  <2>2. cstep' = "tail" => end # NoEnd /\ queue = <<>>
    <3>1. ASSUME end # NoEnd, 2 * played - HalfDelay >= 2 * end
          PROVE  converted > taken
      <4>1. end \in Nat /\ end >= taken /\ HalfDelay \in Nat
        BY <3>1, SyncAssumption DEF CoreInv, Types, Pace
      <4> QED BY <1>2, <3>1, <4>1
    <3> QED BY <1>1, <3>1 DEF CoreInv, Pace
  <2> QED BY <1>1, <2>1, <2>2 DEF CoreInv, Pace
<1>7. Mapped'
  <2>1. \A i : Tag(i)' = Tag(i)
    BY <1>1 DEF Tag
  <2> QED BY <1>1, <1>3, <2>1 DEF CoreInv, Mapped
<1>8. FirstTagged'
  BY <1>1, <1>3 DEF CoreInv, FirstTagged
<1>9. Based'
  BY <1>1, <1>3 DEF CoreInv, Based, Offset
<1> QED BY <1>4, <1>5, <1>6, <1>7, <1>8, <1>9 DEF CoreInv

LEMMA StarvedCore ==
  ASSUME CoreInv, Starved
  PROVE  CoreInv'
BY SyncAssumption
DEF Starved, producerVars, cacheVars, CoreInv, Types, Control, Pace, Mapped, FirstTagged, Based, Live, Publishing, Offset, Tag

LEMMA PlayTailCore ==
  ASSUME CoreInv, PlayTail
  PROVE  CoreInv'
BY SyncAssumption
DEF PlayTail, producerVars, cacheVars, CoreInv, Types, Control, Pace, Mapped, FirstTagged, Based, Live, Publishing, Offset, Tag

LEMMA CompleteCore ==
  ASSUME CoreInv, Complete
  PROVE  CoreInv'
BY SyncAssumption
DEF Complete, StateReset, producerVars, CoreInv, Types, Control, Pace, Mapped, FirstTagged, Based, Live, Publishing, Offset, Tag

LEMMA RetireBurstCore ==
  ASSUME CoreInv, RetireBurst
  PROVE  CoreInv'
BY SyncAssumption
DEF RetireBurst, producerVars, cacheVars, CoreInv, Types, Control, Pace, Mapped, FirstTagged, Based, Live, Publishing, Offset, Tag

LEMMA AckCore ==
  ASSUME CoreInv, Ack
  PROVE  CoreInv'
BY SyncAssumption
DEF Ack, producerVars, cacheVars, CoreInv, Types, Control, Pace, Mapped, FirstTagged, Based, Live, Publishing, Offset, Tag

LEMMA ConsumerResetCore ==
  ASSUME CoreInv, ConsumerReset
  PROVE  CoreInv'
BY SyncAssumption
DEF ConsumerReset, StateReset, CoreInv, Types, Control, Pace, Mapped, FirstTagged, Based, Live, Publishing, Offset, Tag

LEMMA CoreStep ==
  ASSUME CoreInv, AwaitsCompletion, [Next]_vars
  PROVE  CoreInv'
<1>1. CASE ProducerStep
  <2>1. ASSUME NEW n \in 1..Capacity, PushTagged(n) PROVE CoreInv'
    <3>1. n \in Nat /\ n >= 1
      BY SyncAssumption
    <3> QED BY <2>1, <3>1, BeginCore DEF PushTagged, MayPublish
  <2>2. CASE PushPlain
    BY <2>2, BeginCore DEF PushPlain, MayPublish
  <2>3. CASE MuteSpans
    BY <2>3, BeginCore DEF MuteSpans
  <2> QED BY <1>1, <2>1, <2>2, <2>3, SyncCore, GateCore, CreditCore, TaggedPublishCore, PushCore,
             PlainPushCore, MutePublishCore, FinishCore, NewGenerationCore DEF ProducerStep
<1>2. CASE ConsumerStep
  BY <1>2, RenderBeginCore, RefillCore, PlayCore, StarvedCore, PlayTailCore, CompleteCore,
     RetireBurstCore, AckCore, ConsumerResetCore DEF ConsumerStep
<1>3. CASE UNCHANGED vars
  BY <1>3 DEF vars, producerVars, cacheVars, CoreInv, Types, Control, Pace, Mapped, FirstTagged, Based, Live, Publishing, Offset, Tag
<1> QED BY <1>1, <1>2, <1>3 DEF Next

LEMMA CoreInit == Init => CoreInv
<1> SUFFICES ASSUME Init PROVE CoreInv
  OBVIOUS
<1>1. /\ queue = <<>> /\ queue \in Seq(Sample) /\ Len(queue) = 0 /\ moved = FALSE /\ finish = "none"
      /\ pstep = "idle" /\ job = 0 /\ stamp = None /\ generation = 1 /\ position = FirstSource
      /\ cstep = "idle" /\ base = None /\ taken = 0 /\ played = 0 /\ converted = 0 /\ end = NoEnd
      /\ anchor = None /\ remaining = Lookahead
  BY DEF Init
<1>2. Types
  <2>1. queue \in Seq(Sample) /\ moved \in BOOLEAN /\ stamp \in Stamps \cup {None}
    BY <1>1
  <2>2. /\ job \in Nat /\ generation \in Nat /\ position \in FirstSource..MaxSource
        /\ taken \in Nat /\ played \in Nat /\ converted \in Nat /\ end \in Nat \cup {NoEnd}
        /\ remaining \in 0..Lookahead
    BY <1>1, SyncAssumption
  <2> QED BY <2>1, <2>2 DEF Types
<1>4. Control
  BY <1>1 DEF Control, Publishing
<1>5. Pace
  BY <1>1, SyncAssumption DEF Pace, NoEnd
<1>3. Mapped /\ FirstTagged /\ Based
  BY <1>1 DEF Mapped, FirstTagged, Based, Live
<1> QED BY <1>2, <1>3, <1>4, <1>5 DEF CoreInv

\* For a caller that awaits the settlement of a finish, the stamps of the unread
\* samples and the base of the renderer are true to the positions pushed.
THEOREM CoreInvariance ==
  ASSUME AwaitsCompletion
  PROVE  Spec => []CoreInv
<1>1. CoreInv /\ [Next]_vars => CoreInv'
  BY CoreStep
<1> QED BY <1>1, CoreInit, PTL DEF Spec

-----------------------------------------------------------------------------
(* Records on their way from a call to the history.  The lemmas about      *)
(* inserting, looking up and retiring are those of MuteHistoryProofs.      *)

LEMMA InsertSame == \A s, e : H!Insert(s, e) = Insert(s, e)
<1> SUFFICES ASSUME NEW s, NEW e PROVE H!Insert(s, e) = Insert(s, e)
  OBVIOUS
<1> DEFINE first == [interval |-> e, kept |-> <<>>]
           pass == FoldLeft(Absorb, first, s)
           place == SelectLastInSeq(pass.kept, LAMBDA entry : Before(entry, pass.interval))
           full == [ok |-> FALSE, entries |-> pass.kept]
           stored == [ok |-> TRUE, entries |-> InsertAt(pass.kept, place + 1, pass.interval)]
           hpass == H!FoldLeft(H!Absorb, first, s)
           hplace == H!SelectLastInSeq(hpass.kept, LAMBDA entry : H!Before(entry, hpass.interval))
           hfull == [ok |-> FALSE, entries |-> hpass.kept]
           hstored == [ok |-> TRUE, entries |-> H!InsertAt(hpass.kept, hplace + 1, hpass.interval)]
<1>1. Insert(s, e) = IF Len(pass.kept) = HistoryCapacity THEN full ELSE stored
  BY DEF Insert
<1>2. H!Insert(s, e) = IF Len(hpass.kept) = HistoryCapacity THEN hfull ELSE hstored
  BY DEF H!Insert
<1>3. hpass = pass
  BY DEF Touches, H!Touches, Merge, H!Merge, Absorb, H!Absorb, FoldLeft, H!FoldLeft,
         MapThenFoldSet, H!MapThenFoldSet, Max, H!Max
<1> HIDE DEF pass, hpass
<1>4. hplace = place
  BY <1>3 DEF SelectLastInSeq, H!SelectLastInSeq, Max, H!Max, Before, H!Before
<1> HIDE DEF place, hplace
<1>5. \A k, i, x : H!InsertAt(k, i, x) = InsertAt(k, i, x)
  BY DEF InsertAt, H!InsertAt
<1> QED BY <1>1, <1>2, <1>3, <1>4, <1>5

LEMMA MutedSame == \A s, p : H!Muted(s, p) = Muted(s, p)
BY DEF Muted, H!Muted, SelectLastInSeq, H!SelectLastInSeq, Max, H!Max, H!Before, Before

LEMMA RetireSame == \A s, p : H!Retire(s, p) = Retire(s, p)
BY DEF Retire, H!Retire, SelectInSeq, H!SelectInSeq, Min, H!Min

LEMMA LastIndex ==
  ASSUME NEW s, s \subseteq Nat, NEW m \in s, \A y \in s : m >= y
  PROVE  Max(s) = m
<1>1. H!Max(s) = m
  BY HistoryCapacityAssumption, SyncAssumption, H!MaxIs
<1> QED BY <1>1 DEF Max, H!Max

Drains(h, base0, n, it) ==
  it = [s \in SUBSET (1..n) |->
          IF s = {} THEN base0 ELSE Delivered(it[s \ {Max(s)}], h[Max(s)])]

LEMMA DrainExists ==
  ASSUME NEW h, NEW base0, NEW n \in Nat
  PROVE  \E it : Drains(h, base0, n, it)
<1> DEFINE G(k, it) == Drains(h, base0, k, it)
           S == {k \in Nat : \E it : G(k, it)}
<1>1. 0 \in S
  <2>1. SUBSET (1..0) = {{}}
    OBVIOUS
  <2>2. G(0, [s \in {{}} |-> base0])
    BY <2>1 DEF Drains
  <2> QED BY <2>2
<1>2. ASSUME NEW k \in Nat, k \in S PROVE k + 1 \in S
  <2>1. PICK g : G(k, g)
    BY <1>2
  <2> DEFINE it == [s \in SUBSET (1..(k + 1)) |->
                      IF k + 1 \in s THEN Delivered(g[s \ {k + 1}], h[k + 1]) ELSE g[s]]
  <2>2. ASSUME NEW s \in SUBSET (1..(k + 1))
        PROVE  it[s] = IF s = {} THEN base0 ELSE Delivered(it[s \ {Max(s)}], h[Max(s)])
    <3>1. CASE k + 1 \in s
      <4>1. Max(s) = k + 1
        <5>1. s \subseteq Nat /\ \A y \in s : k + 1 >= y
          OBVIOUS
        <5> QED BY <3>1, <5>1, LastIndex
      <4>2. s \ {k + 1} \in SUBSET (1..(k + 1)) /\ k + 1 \notin s \ {k + 1}
        OBVIOUS
      <4>3. it[s \ {k + 1}] = g[s \ {k + 1}]
        BY <4>2
      <4> QED BY <3>1, <4>1, <4>3
    <3>2. CASE k + 1 \notin s
      <4>1. s \in SUBSET (1..k)
        BY <3>2
      <4>2. it[s] = g[s]
        BY <3>2
      <4>3. s \ {Max(s)} \in SUBSET (1..(k + 1)) /\ k + 1 \notin s \ {Max(s)}
        BY <3>2
      <4>4. it[s \ {Max(s)}] = g[s \ {Max(s)}]
        BY <4>3
      <4>5. g[s] = IF s = {} THEN base0 ELSE Delivered(g[s \ {Max(s)}], h[Max(s)])
        BY <2>1, <4>1 DEF Drains
      <4> QED BY <4>2, <4>4, <4>5
    <3> QED BY <3>1, <3>2
  <2>3. G(k + 1, it)
    <3> HIDE DEF it
    <3>1. it = [s \in SUBSET (1..(k + 1)) |-> it[s]]
      BY DEF it
    <3> QED BY <2>2, <3>1 DEF Drains
  <2>4. \E i : G(k + 1, i)
    <3> HIDE DEF it, G
    <3> QED BY <2>3
  <2> HIDE DEF G
  <2> QED BY <2>4
<1>3. Nat \subseteq S
  <2> HIDE DEF S
  <2> QED BY <1>1, <1>2, HistoryCapacityAssumption, SyncAssumption, H!Induction
<1> QED BY <1>3

Records == H!Entries(Nat, MaxSource)
Marked(s, g, p) == H!Covered(s, g, p)
Sound(m) == m \in Seq(Records) /\ \A i \in 1..Len(m) : m[i].start < m[i].end

\* What a part of the drain has done to the history h with the first n of m.
Drained(h, m, n, r) ==
  /\ r.ok \in BOOLEAN /\ H!Tidy(Records, r.entries) /\ Len(r.entries) <= HistoryCapacity
  /\ r.ok => \A g, p \in Nat :
       Marked(r.entries, g, p) <=> Marked(h, g, p) \/ \E i \in 1..n : H!Covers(m[i], g, p)

LEMMA DeliveredOne ==
  ASSUME NEW h, NEW m, Sound(m), NEW n \in Nat, n + 1 <= Len(m), NEW r, Drained(h, m, n, r)
  PROVE  Drained(h, m, n + 1, Delivered(r, m[n + 1]))
<1> DEFINE i == Insert(r.entries, m[n + 1])
<1>0. m \in Seq(Records) /\ Len(m) \in Nat /\ n + 1 \in 1..Len(m)
  BY DEF Sound
<1>1. m[n + 1] \in Records /\ m[n + 1].start < m[n + 1].end
  BY <1>0 DEF Sound
<1>2. /\ i.ok \in BOOLEAN /\ H!Tidy(Records, i.entries) /\ Len(i.entries) <= HistoryCapacity
      /\ i.ok => \A g, p \in Nat :
           Marked(i.entries, g, p) <=> H!Covers(m[n + 1], g, p) \/ Marked(r.entries, g, p)
  <2>1. H!Insert(r.entries, m[n + 1]) = i
    BY InsertSame
  <2>2. H!Tidy(H!Entries(Nat, MaxSource), r.entries) /\ Len(r.entries) <= HistoryCapacity
        /\ m[n + 1] \in H!Entries(Nat, MaxSource) /\ MaxSource \in Nat /\ Nat \subseteq Nat
    BY <1>1, SyncAssumption DEF Drained, Records
  <2> HIDE DEF i
  <2> QED BY <1>1, <2>1, <2>2, HistoryCapacityAssumption, H!InsertExact DEF Marked, Records
<1>3. Delivered(r, m[n + 1]) = [entries |-> i.entries, ok |-> r.ok /\ i.ok]
  BY DEF Delivered
<1> HIDE DEF i
<1>4. ASSUME r.ok, i.ok, NEW g \in Nat, NEW p \in Nat
      PROVE  Marked(i.entries, g, p) <=> Marked(h, g, p) \/ \E k \in 1..(n + 1) : H!Covers(m[k], g, p)
  <2>1. (\E k \in 1..(n + 1) : H!Covers(m[k], g, p))
          <=> H!Covers(m[n + 1], g, p) \/ \E k \in 1..n : H!Covers(m[k], g, p)
    OBVIOUS
  <2> QED BY <1>2, <1>4, <2>1 DEF Drained
<1> QED BY <1>2, <1>3, <1>4 DEF Drained

\* The drain, one record after the other.
LEMMA DrainSteps ==
  ASSUME NEW m, Sound(m), NEW base0
  PROVE  \E it :
           /\ it[{}] = base0
           /\ \A n \in 1..Len(m) : it[1..n] = Delivered(it[1..(n - 1)], m[n])
           /\ FoldLeft(Delivered, base0, m) = it[1..Len(m)]
<1> DEFINE it == CHOOSE it : Drains(m, base0, Len(m), it)
<1>0. m \in Seq(Records) /\ DOMAIN m = 1..Len(m) /\ Len(m) \in Nat
  BY DEF Sound
<1>1. Drains(m, base0, Len(m), it)
  BY <1>0, DrainExists
<1>2. FoldLeft(Delivered, base0, m) = it[DOMAIN m]
  BY <1>0 DEF FoldLeft, MapThenFoldSet, Drains
<1> HIDE DEF it
<1>3. it[{}] = base0
  BY <1>1 DEF Drains
<1>4. ASSUME NEW n \in 1..Len(m)
      PROVE  it[1..n] = Delivered(it[1..(n - 1)], m[n])
  <2>0. n \in Nat /\ n >= 1 /\ n <= Len(m)
    BY <1>0
  <2>1. Max(1..n) = n
    <3>1. 1..n \subseteq Nat /\ n \in 1..n /\ \A y \in 1..n : n >= y
      BY <2>0
    <3> QED BY <3>1, LastIndex
  <2>2. (1..n) \ {n} = 1..(n - 1) /\ 1..n # {} /\ 1..n \in SUBSET (1..Len(m))
    <3>1. 1..n \subseteq 1..Len(m) /\ n \in 1..n
      BY <1>0, <2>0
    <3>2. (1..n) \ {n} = 1..(n - 1)
      BY <2>0
    <3> QED BY <3>1, <3>2
  <2>3. it[1..n] = Delivered(it[(1..n) \ {Max(1..n)}], m[Max(1..n)])
    BY <1>1, <2>2 DEF Drains
  <2> QED BY <2>1, <2>2, <2>3
<1> QED BY <1>0, <1>2, <1>3, <1>4

\* A render call takes the whole mail into its history.
LEMMA DrainFacts ==
  ASSUME NEW h, H!Tidy(Records, h), Len(h) <= HistoryCapacity, NEW m, Sound(m)
  PROVE  Drained(h, m, Len(m), FoldLeft(Delivered, [entries |-> h, ok |-> TRUE], m))
<1> DEFINE base0 == [entries |-> h, ok |-> TRUE]
<1>0. Len(m) \in Nat
  BY DEF Sound
<1>1. Drained(h, m, 0, base0)
  BY DEF Drained
<1> HIDE DEF base0
<1>2. PICK it : /\ it[{}] = base0
                /\ \A n \in 1..Len(m) : it[1..n] = Delivered(it[1..(n - 1)], m[n])
                /\ FoldLeft(Delivered, base0, m) = it[1..Len(m)]
  BY DrainSteps
<1> DEFINE S == {n \in Nat : n <= Len(m) => Drained(h, m, n, it[1..n])}
<1>5. 0 \in S
  <2>1. it[1..0] = base0
    BY <1>2
  <2> QED BY <1>1, <2>1
<1>6. ASSUME NEW n \in Nat, n \in S PROVE n + 1 \in S
  <2> SUFFICES ASSUME n + 1 <= Len(m) PROVE Drained(h, m, n + 1, it[1..(n + 1)])
    OBVIOUS
  <2>1. Drained(h, m, n, it[1..n])
    BY <1>0, <1>6
  <2>2. it[1..(n + 1)] = Delivered(it[1..n], m[n + 1])
    <3>1. n + 1 \in 1..Len(m) /\ (n + 1) - 1 = n
      BY <1>0
    <3> QED BY <1>2, <3>1
  <2> QED BY <2>1, <2>2, DeliveredOne
<1>7. Nat \subseteq S
  <2> HIDE DEF S
  <2> QED BY <1>5, <1>6, HistoryCapacityAssumption, SyncAssumption, H!Induction
<1>8. Drained(h, m, Len(m), it[1..Len(m)])
  BY <1>0, <1>7
<1> QED BY <1>2, <1>8 DEF base0

\* An interval a call may bring, clipped.
AskedFrom(first, limit, e) ==
  e.generation = generation /\ e.end \in Nat /\ e.end <= limit /\ first < e.end + Capacity

\* The intervals a call brings are clipped to what it publishes.
LEMMA AskedFacts ==
  ASSUME CoreInv, NEW first \in Nat, NEW last \in Nat, NEW limit \in Nat, limit <= MaxSource,
         NEW spans \in SpansFrom(first, last)
  PROVE  LET c == Clipped(spans, limit) IN
         /\ Sound(c)
         /\ \A g, p \in Nat : (\E i \in 1..Len(c) : H!Covers(c[i], g, p)) <=> <<g, p>> \in Asked(spans, limit)
         /\ \A x \in Asked(spans, limit) : \E p \in Nat : x = <<generation, p>> /\ p < limit
         /\ \A i \in 1..Len(c) : AskedFrom(first, limit, c[i])
<1>0. generation \in Nat /\ Capacity \in Nat /\ MaxSource \in Nat
  BY SyncAssumption DEF CoreInv, Types
<1>1. CASE spans = <<>>
  <2>1. DOMAIN spans = {} /\ ToSet(spans) = {}
    BY <1>1 DEF ToSet
  <2>2. Clipped(spans, limit) = <<>> /\ Asked(spans, limit) = {}
    BY <2>1 DEF Clipped, Asked
  <2>3. Sound(<<>>) /\ Len(<<>>) = 0
    BY DEF Sound
  <2> QED BY <2>2, <2>3
<1>2. CASE spans # <<>>
  <2>1. PICK span \in [generation : {generation}, start : Oldest(first)..last, end : 0..last] :
               span.start < span.end /\ spans = <<span>>
    BY <1>2 DEF SpansFrom
  <2>2. /\ span.generation = generation /\ span.start \in Nat /\ span.end \in Nat
        /\ span = [generation |-> generation, start |-> span.start, end |-> span.end]
    BY <1>0, <2>1 DEF Oldest
  <2> DEFINE stop == IF limit < span.end THEN limit ELSE span.end
             r == [span EXCEPT !.end = IF limit < @ THEN limit ELSE @]
             cut == [i \in DOMAIN spans |-> [spans[i] EXCEPT !.end = IF limit < @ THEN limit ELSE @]]
  <2>3. r = [generation |-> generation, start |-> span.start, end |-> stop] /\ stop \in Nat /\ stop <= limit
    BY <2>2
  <2>4. cut = <<r>> /\ DOMAIN cut = {1} /\ cut[1] = r
    BY <2>1
  <2>5. Clipped(spans, limit) = IF span.start < stop THEN <<r>> ELSE <<>>
    <3>1. Clipped(spans, limit) = IF \E i \in DOMAIN cut : cut[i].start < cut[i].end THEN cut ELSE <<>>
      BY DEF Clipped
    <3> HIDE DEF cut, r
    <3> QED BY <2>3, <2>4, <3>1
  <2>6. ToSet(spans) = {span}
    BY <2>1 DEF ToSet
  <2>7. \A x : x \in Asked(spans, limit) <=> \E p \in span.start..(span.end - 1) : x = <<generation, p>> /\ p < limit
    <3>1. \A x : x \in Asked(spans, limit) <=> x \in Points(span) /\ x[2] < limit
      BY <2>6 DEF Asked
    <3>2. \A x : x \in Points(span) <=> \E p \in span.start..(span.end - 1) : x = <<generation, p>>
      BY <2>2 DEF Points
    <3> QED BY <3>1, <3>2
  <2>8. \A g, p \in Nat : <<g, p>> \in Asked(spans, limit) <=> g = generation /\ span.start <= p /\ p < stop
    BY <2>2, <2>3, <2>7
  <2>9. \A x \in Asked(spans, limit) : \E p \in Nat : x = <<generation, p>> /\ p < limit
    BY <2>2, <2>7
  <2>10. CASE span.start < stop
    <3>1. r \in Records
      BY <1>0, <2>2, <2>3, <2>10 DEF Records, H!Entries
    <3>2. Clipped(spans, limit) = <<r>> /\ <<r>> \in Seq(Records) /\ Len(<<r>>) = 1 /\ <<r>>[1] = r
      BY <2>5, <2>10, <3>1
    <3>3. Sound(<<r>>)
      BY <2>3, <2>10, <3>2 DEF Sound
    <3>4. \A g, p \in Nat : H!Covers(r, g, p) <=> g = generation /\ span.start <= p /\ p < stop
      BY <2>3 DEF H!Covers
    <3>5. AskedFrom(first, limit, r)
      <4>1. first <= span.start + Capacity
        BY <1>0, <2>1 DEF Oldest
      <4>2. first < stop + Capacity
        <5> HIDE DEF stop
        <5> QED BY <1>0, <2>2, <2>3, <2>10, <4>1
      <4> HIDE DEF stop
      <4> QED BY <2>3, <4>2 DEF AskedFrom
    <3>6. 1..Len(<<r>>) = {1}
      BY <3>2
    <3> HIDE DEF r
    <3> QED BY <2>8, <2>9, <3>2, <3>3, <3>4, <3>5, <3>6
  <2>11. CASE ~(span.start < stop)
    <3>1. Clipped(spans, limit) = <<>> /\ Len(<<>>) = 0 /\ Sound(<<>>)
      BY <2>5, <2>11 DEF Sound
    <3>2. ASSUME NEW g \in Nat, NEW p \in Nat PROVE <<g, p>> \notin Asked(spans, limit)
      <4>1. ~(span.start <= p /\ p < stop)
        BY <2>2, <2>3, <2>11
      <4> QED BY <2>8, <4>1
    <3> QED BY <2>9, <3>1, <3>2
  <2> QED BY <2>10, <2>11
<1> QED BY <1>1, <1>2

Mailed(g, p) == \E i \in 1..Len(mail) : H!Covers(mail[i], g, p)

\* A call adds what it asks for to the mail, and nothing else.
LEMMA PostedFacts ==
  ASSUME CoreInv, Sound(mail), NEW first \in Nat, NEW last \in Nat, NEW limit \in Nat, limit <= MaxSource,
         NEW spans \in SpansFrom(first, last), Posted(spans, limit)
  PROVE  /\ Sound(mail)'
         /\ \A g, p \in Nat : Mailed(g, p)' <=> Mailed(g, p) \/ <<g, p>> \in Asked(spans, limit)
         /\ wanted' = wanted \cup Asked(spans, limit)
         /\ \A x \in Asked(spans, limit) : \E p \in Nat : x = <<generation, p>> /\ p < limit
         /\ \A k \in 1..Len(mail') : \/ k \in 1..Len(mail) /\ mail'[k] = mail[k]
                                    \/ AskedFrom(first, limit, mail'[k])
<1> DEFINE c == Clipped(spans, limit)
<1>1. /\ Sound(c)
      /\ \A g, p \in Nat : (\E i \in 1..Len(c) : H!Covers(c[i], g, p)) <=> <<g, p>> \in Asked(spans, limit)
      /\ \A x \in Asked(spans, limit) : \E p \in Nat : x = <<generation, p>> /\ p < limit
      /\ \A i \in 1..Len(c) : AskedFrom(first, limit, c[i])
  BY AskedFacts
<1>2. mail' = mail \o c /\ wanted' = wanted \cup Asked(spans, limit)
  BY DEF Posted
<1> HIDE DEF c
<1>3. mail \in Seq(Records) /\ c \in Seq(Records) /\ Len(mail) \in Nat /\ Len(c) \in Nat
  BY <1>1 DEF Sound
<1>4. /\ mail' \in Seq(Records) /\ Len(mail') = Len(mail) + Len(c)
      /\ \A i \in 1..Len(mail) : mail'[i] = mail[i] /\ i \in 1..Len(mail')
      /\ \A i \in 1..Len(c) : mail'[Len(mail) + i] = c[i] /\ Len(mail) + i \in 1..Len(mail')
  <2>1. /\ mail \o c \in Seq(Records) /\ Len(mail \o c) = Len(mail) + Len(c)
        /\ \A i \in 1..(Len(mail) + Len(c)) :
             (mail \o c)[i] = IF i <= Len(mail) THEN mail[i] ELSE c[i - Len(mail)]
    BY <1>3, ConcatProperties
  <2>2. \A i \in 1..Len(mail) : i \in 1..(Len(mail) + Len(c)) /\ i <= Len(mail)
    BY <1>3
  <2>3. \A i \in 1..Len(c) : /\ Len(mail) + i \in 1..(Len(mail) + Len(c)) /\ ~(Len(mail) + i <= Len(mail))
                            /\ (Len(mail) + i) - Len(mail) = i
    BY <1>3
  <2> QED BY <1>2, <2>1, <2>2, <2>3
<1>5. ASSUME NEW k \in 1..Len(mail')
      PROVE  \/ k \in 1..Len(mail) /\ mail'[k] = mail[k]
             \/ \E i \in 1..Len(c) : mail'[k] = c[i]
  <2>1. CASE k <= Len(mail)
    BY <1>3, <1>4, <2>1
  <2>2. CASE ~(k <= Len(mail))
    <3>1. k - Len(mail) \in 1..Len(c) /\ Len(mail) + (k - Len(mail)) = k
      BY <1>3, <1>4, <2>2
    <3> QED BY <1>4, <3>1
  <2> QED BY <2>1, <2>2
<1>6. Sound(mail)'
  BY <1>1, <1>4, <1>5 DEF Sound
<1>7. ASSUME NEW g \in Nat, NEW p \in Nat
      PROVE  Mailed(g, p)' <=> Mailed(g, p) \/ <<g, p>> \in Asked(spans, limit)
  <2>1. Mailed(g, p)' <=> \E k \in 1..Len(mail') : H!Covers(mail'[k], g, p)
    BY DEF Mailed
  <2> QED BY <1>1, <1>4, <1>5, <2>1 DEF Mailed
<1>8. \A k \in 1..Len(mail') : (k \in 1..Len(mail) /\ mail'[k] = mail[k]) \/ AskedFrom(first, limit, mail'[k])
  BY <1>1, <1>5
<1> QED BY <1>1, <1>2, <1>6, <1>7, <1>8

-----------------------------------------------------------------------------
(* The delay line.  What is on it was placed when it was played, so its    *)
(* positions rise, and none of them is beyond the output played next.      *)

Positions == [generation : Nat, low : Nat, high : Nat]
Cells == [position : Positions \cup {None}, sources : SUBSET (Nat \X Int), tagged : SUBSET (Nat \X Int)]

\* A position that ends in front of sample 0 names no source, and a converter
\* with a fractional delay draws on sample 0 from there.  This hypothesis of the
\* theorems excludes it.
Startup == FirstSource >= 1 \/ HalfDelay % 2 = 0

Placed(e) ==
  /\ e.position # None =>
       /\ base # None /\ e.position.generation = generation /\ e.position.low <= e.position.high
       /\ e.position.low <= LowIndex + Offset
       /\ \A p \in e.position.low..e.position.high : <<generation, p>> \in e.sources
  /\ Startup =>
       \A x \in e.tagged :
         /\ base # None /\ e.position # None
         /\ \E p \in e.position.low..e.position.high :
              x = <<generation, p>> /\ p >= anchor.first /\ p < played + Offset

Carries ==
  /\ line \in Seq(Cells) /\ Len(line) = Lookahead
  /\ \A i \in 1..Lookahead : \A e \in Cells : e = line[i] => Placed(e)
  /\ \A i, j \in 1..Lookahead :
       i < j /\ line[i].position # None /\ line[j].position # None
         => line[i].position.low <= line[j].position.low

LEMMA CellFields ==
  ASSUME NEW e \in Cells, e.position # None
  PROVE  /\ e.position.low \in Nat /\ e.position.high \in Nat
         /\ e.position = [generation |-> e.position.generation, low |-> e.position.low,
                          high |-> e.position.high]
<1>1. e.position \in Positions
  BY DEF Cells
<1> QED BY <1>1 DEF Positions

LEMMA IndexFacts ==
  ASSUME CoreInv
  PROVE  /\ LowIndex \in Int /\ HighIndex \in Int /\ Offset \in Int /\ played \in Nat
         /\ LowIndex <= HighIndex /\ HighIndex <= LowIndex + 1 /\ HighIndex <= played
         /\ HalfDelay >= 2 => HighIndex < played
         /\ HalfDelay % 2 = 0 => HighIndex = LowIndex
<1>1. played \in Nat /\ HalfDelay \in Nat /\ Offset \in Int
  BY SyncAssumption DEF CoreInv, Types, Offset
<1>2. 2 * played - HalfDelay \in Int /\ 2 * played - HalfDelay + 1 \in Int
  BY <1>1
<1>3. LowIndex \in Int /\ 2 * LowIndex <= 2 * played - HalfDelay /\ 2 * played - HalfDelay <= 2 * LowIndex + 1
  BY <1>1, <1>2 DEF LowIndex
<1>4. HighIndex \in Int /\ 2 * HighIndex <= 2 * played - HalfDelay + 1 /\ 2 * played - HalfDelay <= 2 * HighIndex
  BY <1>1, <1>2 DEF HighIndex
<1>5. HalfDelay % 2 = 0 => \E k \in Int : HalfDelay = 2 * k
  <2>1. HalfDelay = 2 * (HalfDelay \div 2) + (HalfDelay % 2) /\ HalfDelay \div 2 \in Int
    BY <1>1
  <2> QED BY <2>1
<1> QED BY <1>1, <1>3, <1>4, <1>5

LEMMA NextIndex ==
  ASSUME CoreInv, played' = played + 1
  PROVE  LowIndex' = LowIndex + 1
<1>1. played \in Nat /\ HalfDelay \in Nat
  BY SyncAssumption DEF CoreInv, Types
<1>2. LowIndex' = (2 * (played + 1) - HalfDelay) \div 2
  BY DEF LowIndex
<1> QED BY <1>1, <1>2 DEF LowIndex

PlayEntry == [position |-> CachePosition, sources |-> TrueSources, tagged |-> Tagged(TrueSources)]

\* What the renderer plays next is placed by the base it maps with.
LEMMA EntryPlaced ==
  ASSUME CoreInv
  PROVE  /\ PlayEntry \in Cells
         /\ CachePosition # None =>
              /\ base # None /\ CachePosition.generation = generation
              /\ CachePosition.low <= CachePosition.high /\ CachePosition.low = LowIndex + Offset
              /\ \A p \in CachePosition.low..CachePosition.high : <<generation, p>> \in TrueSources
         /\ Startup =>
              \A x \in Tagged(TrueSources) :
                /\ base # None /\ CachePosition # None
                /\ \E p \in CachePosition.low..CachePosition.high :
                     /\ x = <<generation, p>> /\ p >= anchor.first /\ p <= played + Offset
                     /\ HalfDelay >= 2 => p < played + Offset
<1>1. /\ LowIndex \in Int /\ HighIndex \in Int /\ Offset \in Int /\ played \in Nat
      /\ LowIndex <= HighIndex /\ HighIndex <= LowIndex + 1 /\ HighIndex <= played
      /\ HalfDelay >= 2 => HighIndex < played
      /\ HalfDelay % 2 = 0 => HighIndex = LowIndex
  BY IndexFacts
<1>2. CASE base = None
  <2>1. anchor = None /\ CachePosition = None /\ TrueSources = {} /\ Tagged({}) = {}
    BY <1>2 DEF CoreInv, Based, CachePosition, TrueSources, Tagged
  <2> QED BY <2>1 DEF PlayEntry, Cells
<1>3. CASE base # None
  <2>1. /\ base.generation = generation /\ base.offset = Offset /\ anchor # None /\ generation \in Nat
        /\ anchor.generation = generation /\ anchor.offset = Offset /\ anchor.first \in FirstSource..MaxSource
    BY <1>3 DEF CoreInv, Based, Types
  <2>2. CachePosition = IF LowIndex + Offset < 0 THEN None
                        ELSE [generation |-> generation, low |-> LowIndex + Offset, high |-> HighIndex + Offset]
    BY <1>3, <2>1 DEF CachePosition
  <2>3. TrueSources = {<<generation, i + Offset>> : i \in LowIndex..HighIndex}
    BY <2>1 DEF TrueSources
  <2>4. Tagged(TrueSources) = {x \in TrueSources : x[2] >= anchor.first}
    BY DEF Tagged
  <2> HIDE DEF LowIndex, HighIndex, Offset, CachePosition, TrueSources
  <2>5. PlayEntry \in Cells
    <3>1. CachePosition \in Positions \cup {None}
      BY <1>1, <2>1, <2>2 DEF Positions
    <3>2. TrueSources \in SUBSET (Nat \X Int)
      BY <1>1, <2>1, <2>3
    <3>3. Tagged(TrueSources) \in SUBSET (Nat \X Int)
      BY <2>4, <3>2
    <3> QED BY <3>1, <3>2, <3>3 DEF PlayEntry, Cells
  <2>6. ASSUME CachePosition # None
        PROVE  /\ CachePosition.generation = generation
               /\ CachePosition.low <= CachePosition.high /\ CachePosition.low = LowIndex + Offset
               /\ CachePosition.high = HighIndex + Offset
    BY <1>1, <2>2, <2>6
  <2>7. ASSUME NEW p \in Int, LowIndex + Offset <= p, p <= HighIndex + Offset
        PROVE  <<generation, p>> \in TrueSources
    <3>1. p - Offset \in LowIndex..HighIndex /\ (p - Offset) + Offset = p
      BY <1>1, <2>7
    <3> QED BY <2>3, <3>1
  <2>8. ASSUME Startup, NEW x \in Tagged(TrueSources)
        PROVE  /\ CachePosition # None
               /\ \E p \in CachePosition.low..CachePosition.high :
                    /\ x = <<generation, p>> /\ p >= anchor.first /\ p <= played + Offset
                    /\ HalfDelay >= 2 => p < played + Offset
    <3>1. PICK i \in LowIndex..HighIndex : x = <<generation, i + Offset>> /\ i + Offset >= anchor.first
      BY <2>3, <2>4
    <3>2. anchor.first \in Nat /\ (FirstSource >= 1 => anchor.first >= 1)
      BY <2>1, SyncAssumption
    <3>3. LowIndex + Offset >= 0
      BY <1>1, <2>8, <3>1, <3>2 DEF Startup
    <3>4. CachePosition # None
      BY <1>1, <2>2, <3>3 DEF None
    <3>5. i + Offset \in CachePosition.low..CachePosition.high
      BY <1>1, <2>6, <3>1, <3>4
    <3>6. i + Offset <= played + Offset /\ (HalfDelay >= 2 => i + Offset < played + Offset)
      BY <1>1, <3>1
    <3> QED BY <3>1, <3>4, <3>5, <3>6
  <2>9. ASSUME CachePosition # None, NEW p \in CachePosition.low..CachePosition.high
        PROVE  <<generation, p>> \in TrueSources
    BY <1>1, <2>6, <2>7, <2>9
  <2> QED BY <1>3, <2>5, <2>6, <2>8, <2>9
<1> QED BY <1>2, <1>3

LEMMA CarriesKept ==
  ASSUME Carries, line' = line, played' = played,
         base = None \/ (base' # None /\ anchor' = anchor /\ generation' = generation /\ Offset' = Offset)
  PROVE  Carries'
<1>1. LowIndex' = LowIndex
  BY DEF LowIndex
<1>2. ASSUME NEW e, Placed(e) PROVE Placed(e)'
  <2>1. CASE base = None
    BY <1>2, <2>1 DEF Placed, Startup
  <2>2. CASE base # None /\ base' # None /\ anchor' = anchor /\ generation' = generation /\ Offset' = Offset
    <3> HIDE DEF LowIndex, Offset
    <3> QED BY <1>1, <1>2, <2>2 DEF Placed, Startup
  <2> QED BY <2>1, <2>2
<1>3. ASSUME NEW i \in 1..Lookahead, NEW e \in Cells, e = line'[i] PROVE Placed(e)'
  BY <1>2, <1>3 DEF Carries
<1> QED BY <1>3 DEF Carries

LEMMA IdleLine ==
  ASSUME NEW l, l = Idle
  PROVE  /\ l \in Seq(Cells) /\ Len(l) = Lookahead
         /\ \A i \in 1..Lookahead : l[i] = Nowhere
<1>1. Nowhere \in Cells
  BY DEF Nowhere, Cells
<1>2. l = [i \in 1..Lookahead |-> Nowhere] /\ Lookahead \in Nat
  BY SyncAssumption DEF Idle
<1>3. l \in [1..Lookahead -> Cells]
  BY <1>1, <1>2
<1>4. l \in Seq(Cells)
  BY <1>2, <1>3, SeqDef
<1>5. DOMAIN l = 1..Lookahead
  BY <1>2
<1> QED BY <1>2, <1>4, <1>5, LenProperties

LEMMA IdleCarries ==
  /\ line = Idle => Carries
  /\ line' = Idle => Carries'
<1>1. Nowhere.position = None /\ Nowhere.tagged = {}
  BY DEF Nowhere
<1>2. ASSUME NEW e, e = Nowhere PROVE Placed(e) /\ Placed(e)'
  BY <1>1, <1>2 DEF Placed
<1>3. ASSUME line = Idle PROVE Carries
  BY <1>1, <1>2, <1>3, IdleLine DEF Carries
<1>4. ASSUME line' = Idle PROVE Carries'
  <2>1. /\ line' \in Seq(Cells) /\ Len(line') = Lookahead
        /\ \A i \in 1..Lookahead : line'[i] = Nowhere
    BY <1>4, IdleLine
  <2> QED BY <1>1, <1>2, <2>1 DEF Carries
<1> QED BY <1>3, <1>4

Leaving(entry) == IF Lookahead = 0 THEN entry ELSE line[1]

\* An entry goes onto the line at one end and one leaves it at the other.
LEMMA EmitFacts ==
  ASSUME Carries, NEW entry \in Cells, Emit(entry)
  PROVE  /\ Leaving(entry) \in Cells
         /\ line' \in Seq(Cells) /\ Len(line') = Lookahead
         /\ \A i \in 1..Lookahead : line'[i] = IF i < Lookahead THEN line[i + 1] ELSE entry
         /\ due' = {}
         /\ history' = IF Leaving(entry).position = None THEN history
                       ELSE Retire(history, Leaving(entry).position)
<1>0. Lookahead \in Nat /\ line \in Seq(Cells) /\ Len(line) = Lookahead
  BY SyncAssumption DEF Carries
<1>1. Lookahead # 0 => Head(line) = line[1] /\ line[1] \in Cells
  BY <1>0
<1>2. /\ due' = {}
      /\ line' = IF Lookahead = 0 THEN line ELSE Append(Tail(line), entry)
      /\ history' = IF Leaving(entry).position = None THEN history
                    ELSE Retire(history, Leaving(entry).position)
  BY <1>1 DEF Emit, Leaving
<1>3. CASE Lookahead = 0
  BY <1>0, <1>2, <1>3 DEF Leaving
<1>4. CASE Lookahead # 0
  <2>1. /\ Tail(line) \in Seq(Cells) /\ Len(Tail(line)) = Lookahead - 1
        /\ \A i \in 1..(Lookahead - 1) : Tail(line)[i] = line[i + 1]
    BY <1>0, <1>4
  <2>2. /\ line' \in Seq(Cells) /\ Len(line') = Lookahead /\ line'[Lookahead] = entry
        /\ \A i \in 1..(Lookahead - 1) : line'[i] = Tail(line)[i]
    BY <1>0, <1>2, <1>4, <2>1
  <2>3. \A i \in 1..Lookahead : (i < Lookahead /\ i \in 1..(Lookahead - 1)) \/ i = Lookahead
    BY <1>0
  <2>4. \A i \in 1..Lookahead : line'[i] = IF i < Lookahead THEN line[i + 1] ELSE entry
    BY <1>0, <2>1, <2>2, <2>3
  <2> QED BY <1>1, <1>2, <1>4, <2>2, <2>4 DEF Leaving
<1> QED BY <1>3, <1>4

Ahead(p) ==
  \/ base = None
  \/ p >= LowIndex + Offset
  \/ \E i \in 1..Lookahead : line[i].position # None /\ line[i].position.low <= p

\* The line stays in order, and what is ahead of it is not behind what left it.
LEMMA EmitCarries ==
  ASSUME CoreInv, Carries, NEW entry \in Cells, Emit(entry), Placed(entry)',
         UNCHANGED <<base, anchor, generation>>, Offset' = Offset,
         played' \in {played, played + 1},
         entry.position # None => entry.position.low = LowIndex + Offset
  PROVE  /\ Carries'
         /\ \A p \in Nat : Ahead(p)' =>
              /\ Ahead(p)
              /\ base # None /\ Leaving(entry).position # None => p >= Leaving(entry).position.low
<1> DEFINE out == Leaving(entry)
<1>0. Lookahead \in Nat /\ line \in Seq(Cells) /\ Len(line) = Lookahead /\ LowIndex \in Int /\ Offset \in Int
  BY SyncAssumption, IndexFacts DEF Carries
<1>1. /\ line' \in Seq(Cells) /\ Len(line') = Lookahead
      /\ \A i \in 1..Lookahead : line'[i] = IF i < Lookahead THEN line[i + 1] ELSE entry
  BY EmitFacts
<1>2. LowIndex' \in Int /\ LowIndex' >= LowIndex /\ played \in Nat /\ played' >= played /\ played' \in Nat
  <2>1. CASE played' = played
    BY <1>0, <2>1, IndexFacts DEF LowIndex
  <2>2. CASE played' = played + 1
    BY <1>0, <2>2, NextIndex, IndexFacts
  <2> QED BY <2>1, <2>2
<1>3. ASSUME NEW e \in Cells, Placed(e) PROVE Placed(e)'
  <2>1. e.position # None => e.position.low <= LowIndex' + Offset
    <3>1. e.position # None => e.position.low \in Nat
      BY CellFields
    <3> HIDE DEF LowIndex, Offset
    <3> QED BY <1>0, <1>2, <1>3, <3>1 DEF Placed
  <2>2. ASSUME Startup, NEW x \in e.tagged
        PROVE  /\ base # None /\ e.position # None
               /\ \E p \in e.position.low..e.position.high :
                    x = <<generation, p>> /\ p >= anchor.first /\ p < played' + Offset
    <3>1. e.position # None
      BY <1>3, <2>2 DEF Placed
    <3>2. e.position.low \in Nat /\ e.position.high \in Nat
      BY <3>1, CellFields
    <3> HIDE DEF Offset
    <3>3. PICK p \in e.position.low..e.position.high :
                  x = <<generation, p>> /\ p >= anchor.first /\ p < played + Offset
      BY <1>3, <2>2 DEF Placed
    <3>4. p < played' + Offset
      BY <1>0, <1>2, <3>2, <3>3
    <3> QED BY <1>3, <2>2, <3>1, <3>3, <3>4 DEF Placed
  <2> HIDE DEF LowIndex, Offset
  <2> QED BY <1>3, <2>1, <2>2 DEF Placed, Startup
<1>4. \A i \in 1..Lookahead : i + 1 \in 1..Lookahead \/ i = Lookahead
  BY <1>0
<1>5. \A i \in 1..Lookahead : line[i] \in Cells /\ Placed(line[i])
  BY <1>0 DEF Carries
<1>6. ASSUME NEW i \in 1..Lookahead, NEW e \in Cells, e = line'[i] PROVE Placed(e)'
  <2>1. CASE i < Lookahead
    <3>1. i + 1 \in 1..Lookahead /\ e = line[i + 1]
      BY <1>0, <1>1, <1>6, <2>1
    <3>2. Placed(e)
      BY <1>5, <3>1
    <3> QED BY <1>3, <3>2
  <2>2. CASE ~(i < Lookahead)
    <3>1. e = entry
      BY <1>1, <1>6, <2>2
    <3> QED BY <3>1
  <2> QED BY <2>1, <2>2
<1>7. ASSUME NEW i \in 1..Lookahead, line[i].position # None
      PROVE  line[i].position.low \in Nat /\ line[i].position.low <= LowIndex + Offset /\ base # None
  BY <1>5, <1>7, CellFields DEF Placed
<1>8. ASSUME NEW i \in 1..Lookahead, NEW j \in 1..Lookahead, i < j,
             line'[i].position # None, line'[j].position # None
      PROVE  line'[i].position.low <= line'[j].position.low
  <2>1. i + 1 \in 1..Lookahead /\ line'[i] = line[i + 1]
    BY <1>0, <1>1, <1>8
  <2>2. CASE j < Lookahead
    <3>1. j + 1 \in 1..Lookahead /\ line'[j] = line[j + 1] /\ i + 1 < j + 1
      BY <1>0, <1>1, <1>8, <2>2
    <3> QED BY <1>8, <2>1, <3>1 DEF Carries
  <2>3. CASE ~(j < Lookahead)
    <3>1. line'[j] = entry
      BY <1>1, <2>3
    <3> QED BY <1>7, <1>8, <2>1, <3>1
  <2> QED BY <2>2, <2>3
<1>9. Carries'
  BY <1>1, <1>6, <1>8 DEF Carries
<1>10. ASSUME NEW p \in Nat, Ahead(p)', base # None
       PROVE  Ahead(p) /\ (out.position # None => p >= out.position.low)
  <2>0. out.position # None => out.position.low \in Nat /\ out.position.low <= LowIndex + Offset
    <3>1. CASE Lookahead = 0
      <4>1. out = entry
        BY <3>1 DEF Leaving
      <4>2. entry.position # None => entry.position.low \in Nat
        BY CellFields
      <4>3. LowIndex + Offset \in Int
        BY <1>0
      <4> QED BY <4>1, <4>2, <4>3
    <3>2. CASE Lookahead # 0
      <4>1. out = line[1] /\ 1 \in 1..Lookahead
        BY <1>0, <3>2 DEF Leaving
      <4> QED BY <1>7, <4>1
    <3> QED BY <3>1, <3>2
  <2> HIDE DEF out
  <2>1. CASE p >= LowIndex' + Offset
    <3>1. \A a, b, c \in Int : a >= b /\ p >= a + c => p >= b + c
      OBVIOUS
    <3>2. p >= LowIndex + Offset
      BY <1>0, <1>2, <2>1, <3>1
    <3> QED BY <1>0, <2>0, <3>2 DEF Ahead
  <2>2. CASE \E i \in 1..Lookahead : line'[i].position # None /\ line'[i].position.low <= p
    <3>1. PICK i \in 1..Lookahead : line'[i].position # None /\ line'[i].position.low <= p
      BY <2>2
    <3>2. CASE i < Lookahead
      <4>1. i + 1 \in 1..Lookahead /\ line'[i] = line[i + 1] /\ 1 \in 1..Lookahead /\ 1 < i + 1
        BY <1>0, <1>1, <3>2
      <4>2. Ahead(p)
        BY <3>1, <4>1 DEF Ahead
      <4>3. out = line[1]
        BY <1>0, <3>2 DEF out, Leaving
      <4>4. out.position # None => out.position.low <= line[i + 1].position.low
        BY <3>1, <4>1, <4>3 DEF Carries
      <4>5. line[i + 1].position.low \in Nat
        BY <1>7, <3>1, <4>1
      <4> QED BY <2>0, <3>1, <4>1, <4>2, <4>4, <4>5
    <3>3. CASE ~(i < Lookahead)
      <4>1. line'[i] = entry
        BY <1>1, <3>3
      <4>2. entry.position.low = LowIndex + Offset /\ entry.position.low <= p
        BY <3>1, <4>1
      <4> HIDE DEF LowIndex, Offset
      <4> QED BY <1>0, <2>0, <4>2 DEF Ahead
    <3> QED BY <3>2, <3>3
  <2>3. (p >= LowIndex' + Offset) \/ \E i \in 1..Lookahead : line'[i].position # None /\ line'[i].position.low <= p
    <3> HIDE DEF LowIndex, Offset
    <3> QED BY <1>10 DEF Ahead
  <2> QED BY <2>1, <2>2, <2>3
<1>11. base = None => \A p \in Nat : Ahead(p)
  BY DEF Ahead
<1> QED BY <1>9, <1>10, <1>11

-----------------------------------------------------------------------------
(* What is asked for and what is held.                                     *)

InCall == cstep \in {"refill", "play", "starved", "tail"}

Store ==
  /\ fault \in BOOLEAN /\ (InCall => ~fault)
  /\ H!Tidy(Records, history) /\ Len(history) <= HistoryCapacity /\ Sound(mail)

\* Samples are asked for up to the last one known accepted.
Pending == IF pstep = "push" THEN job ELSE 0
Asking ==
  /\ \A x \in wanted : \E p \in Nat : x = <<generation, p>> /\ p < position + Pending
  /\ carried \subseteq wanted
  /\ \A x \in due : \E g, p \in Nat : x = <<g, p>> /\ g <= generation
  /\ InCall => \A p \in Nat : <<generation, p>> \in due => <<generation, p>> \in wanted
  /\ pstep = "mutePublish" /\ stamp # None => stamp = [generation |-> generation, source |-> position]

\* Nothing is marked or in the mail that was not asked for.
OnlyAsked ==
  \A g, p \in Nat :
    g >= generation /\ ((~fault /\ Marked(history, g, p)) \/ Mailed(g, p)) => <<g, p>> \in wanted

\* The samples still to play that belong to a tagged push of this burst.
Counts(p) ==
  IF anchor # None THEN p >= anchor.first
  ELSE p >= position \/ \E j \in 1..Len(queue) : queue[j].true # None /\ queue[j].true.source <= p
Needed(p) == Counts(p) /\ Ahead(p)

\* Of those the store holds whatever was asked for, and for the running render
\* call the history holds what was due, and what came in front of a sample taken.
Held ==
  Live =>
    /\ ~fault => \A p \in Nat :
         <<generation, p>> \in wanted /\ Needed(p) => Marked(history, generation, p) \/ Mailed(generation, p)
    /\ InCall => \A p \in Nat :
         /\ <<generation, p>> \in due \/ (<<generation, p>> \in carried /\ p < played + Offset)
         /\ Needed(p)
         => Marked(history, generation, p)

MuteInv == CoreInv /\ Store /\ Carries /\ Asking /\ OnlyAsked /\ Held

LEMMA NeededSame ==
  ASSUME UNCHANGED <<queue, position, played, anchor, line, base>>, Offset' = Offset
  PROVE  \A p : Needed(p)' <=> Needed(p)
<1>1. LowIndex' = LowIndex
  BY DEF LowIndex
<1>2. ASSUME NEW p PROVE Counts(p)' <=> Counts(p)
  BY DEF Counts
<1>3. ASSUME NEW p PROVE Ahead(p)' <=> Ahead(p)
  BY <1>1 DEF Ahead
<1> QED BY <1>2, <1>3 DEF Needed

\* Steps that neither ask, nor push, nor play.
LEMMA Quiet ==
  ASSUME MuteInv, CoreInv',
         UNCHANGED <<queue, mail, generation, position, history, fault, base, taken, played, anchor,
                     line, wanted, carried, due>>,
         InCall' => InCall, Live' => Live, Pending' = Pending,
         pstep' = "mutePublish" =>
           (pstep = "mutePublish" /\ stamp' = stamp) \/ (stamp' # None => Live /\ stamp' = stamp)
  PROVE  MuteInv'
<1>1. Offset' = Offset
  BY DEF Offset
<1>2. Carries'
  BY <1>1, CarriesKept DEF MuteInv
<1>3. \A p : Needed(p)' <=> Needed(p)
  BY <1>1, NeededSame
<1>4. Store'
  BY DEF MuteInv, Store, Sound
<1>5. Asking'
  <2>1. pstep' = "mutePublish" /\ stamp' # None => stamp' = [generation |-> generation, source |-> position]
    BY DEF MuteInv, Asking, CoreInv, Mapped
  <2> QED BY <2>1 DEF MuteInv, Asking
<1>6. \A g, p : Mailed(g, p)' <=> Mailed(g, p)
  BY DEF Mailed
<1>7. OnlyAsked'
  BY <1>6 DEF MuteInv, OnlyAsked
<1>8. Held'
  BY <1>1, <1>3, <1>6 DEF MuteInv, Held
<1> QED BY <1>2, <1>4, <1>5, <1>7, <1>8 DEF MuteInv

LEMMA BeginMute ==
  ASSUME MuteInv, CoreInv', NEW step \in {"sync", "plain", "mute"}, NEW n, Begin(step, n), MayCall
  PROVE  MuteInv'
BY Quiet DEF Begin, MayCall, consumerVars, cacheVars, InCall, Live, Pending

LEMMA SyncMute ==
  ASSUME MuteInv, CoreInv',
         Sync("sync", "gate") \/ Sync("plain", "plainGate") \/ Sync("mute", "mutePublish")
  PROVE  MuteInv'
BY Quiet DEF Sync, SyncedStamp, consumerVars, cacheVars, InCall, Live, Pending

LEMMA GateMute ==
  ASSUME MuteInv, CoreInv', TaggedGate
  PROVE  MuteInv'
BY Quiet DEF TaggedGate, Return, consumerVars, cacheVars, InCall, Live, Pending

LEMMA CreditMute ==
  ASSUME MuteInv, CoreInv', TaggedCredit
  PROVE  MuteInv'
BY Quiet DEF TaggedCredit, Return, consumerVars, cacheVars, InCall, Live, Pending

LEMMA FinishMute ==
  ASSUME MuteInv, CoreInv', Finish
  PROVE  MuteInv'
BY Quiet DEF Finish, producerVars, consumerVars, cacheVars, InCall, Live, Pending

LEMMA AckMute ==
  ASSUME MuteInv, CoreInv', Ack
  PROVE  MuteInv'
BY Quiet DEF Ack, producerVars, cacheVars, InCall, Live, Pending

\* One more sample: the mail has the marks it was asked with.
LEMMA StoredMute ==
  ASSUME MuteInv, CoreInv', NEW left \in Nat, NEW tagged \in BOOLEAN, Stored(left, tagged),
         pstep \in {"push", "plainGate"}, tagged <=> pstep = "push", left = IF tagged THEN job - 1 ELSE 0
  PROVE  MuteInv'
<1> DEFINE sample == [stamp |-> SyncedStamp,
                      true |-> IF tagged THEN [generation |-> generation, source |-> position]
                               ELSE None]
<1>1. /\ queue' = Append(queue, sample) /\ moved' = FALSE /\ position' = position + 1
      /\ stamp' = (IF SyncedStamp = None THEN None ELSE [stamp EXCEPT !.source = @ + 1])
      /\ \/ left = 0 /\ pstep' = "idle" /\ job' = 0
         \/ left # 0 /\ pstep' = "push" /\ job' = left /\ tagged
      /\ UNCHANGED <<mail, finish, generation, consumerVars, wanted, carried>>
  BY DEF Stored, Return
<1>2. /\ queue \in Seq(Sample) /\ Len(queue) \in Nat /\ position \in Nat /\ taken \in Nat
      /\ sample.true = IF tagged THEN [generation |-> generation, source |-> position] ELSE None
  BY SyncAssumption DEF MuteInv, CoreInv, Types
<1> HIDE DEF sample
<1>3. /\ Len(queue') = Len(queue) + 1 /\ queue'[Len(queue) + 1] = sample
      /\ \A i \in 1..Len(queue) : queue'[i] = queue[i]
  <2>1. queue' \in Seq(Sample)
    BY DEF CoreInv, Types
  <2>2. sample \in Sample
    <3>1. Len(queue') \in Nat /\ Len(queue') = Len(queue) + 1
      BY <1>1, <1>2, <2>1
    <3>2. queue'[Len(queue) + 1] \in Sample
      BY <1>2, <2>1, <3>1
    <3> QED BY <1>1, <1>2, <3>1, <3>2
  <2> QED BY <1>1, <1>2, <2>2
<1>4. Offset' = Offset
  <2>1. taken' = taken
    BY <1>1 DEF consumerVars, cacheVars
  <2>2. position' - taken' - Len(queue') = (position + 1) - taken - (Len(queue) + 1)
    BY <1>1, <1>3, <2>1
  <2>3. (position + 1) - taken - (Len(queue) + 1) = position - taken - Len(queue)
    BY <1>2
  <2> QED BY <2>2, <2>3 DEF Offset
<1>5. Live' => Live
  BY <1>1 DEF Live, SyncedStamp
<1>6. Carries'
  BY <1>1, <1>4, CarriesKept DEF MuteInv, consumerVars, cacheVars
<1>7. Store'
  BY <1>1 DEF MuteInv, Store, Sound, InCall, consumerVars
<1>8. ASSUME NEW p \in Nat, Needed(p)' PROVE Needed(p)
  <2>1. Ahead(p)
    BY <1>1, <1>4, <1>8 DEF Needed, Ahead, LowIndex, consumerVars, cacheVars
  <2>2. Counts(p)
    <3>1. CASE anchor # None
      BY <1>1, <1>8, <3>1 DEF Needed, Counts, consumerVars, cacheVars
    <3>2. CASE anchor = None /\ p >= position'
      BY <1>1, <1>2, <3>2 DEF Counts
    <3>3. CASE anchor = None /\ \E j \in 1..Len(queue') : queue'[j].true # None /\ queue'[j].true.source <= p
      <4>1. PICK j \in 1..Len(queue') : queue'[j].true # None /\ queue'[j].true.source <= p
        BY <3>3
      <4>2. CASE j \in 1..Len(queue)
        BY <1>3, <3>3, <4>1, <4>2 DEF Counts
      <4>3. CASE j \notin 1..Len(queue)
        <5>1. j = Len(queue) + 1
          BY <1>2, <1>3, <4>1, <4>3
        <5> QED BY <1>2, <1>3, <3>3, <4>1, <5>1 DEF Counts
      <4> QED BY <4>2, <4>3
    <3> QED BY <1>1, <1>8, <3>1, <3>2, <3>3 DEF Needed, Counts, consumerVars, cacheVars
  <2> QED BY <2>1, <2>2 DEF Needed
<1>9. position' + Pending' = position + Pending \/ (Pending = 0 /\ Pending' = 0)
  <2>1. CASE tagged
    <3>1. Pending = job /\ job \in Nat /\ job >= 1 /\ left = job - 1
      BY <2>1 DEF Pending, MuteInv, CoreInv, Types, Control
    <3>2. Pending' = left
      BY <1>1 DEF Pending
    <3> QED BY <1>1, <1>2, <3>1, <3>2
  <2>2. CASE ~tagged
    BY <1>1, <2>2 DEF Pending
  <2> QED BY <2>1, <2>2
<1>10. Pending \in Nat /\ Pending' \in Nat
  BY DEF Pending, MuteInv, CoreInv, Types
<1>11. Asking'
  <2>1. ASSUME NEW x \in wanted
        PROVE  \E p \in Nat : x = <<generation, p>> /\ p < position' + Pending'
    <3>1. PICK p \in Nat : x = <<generation, p>> /\ p < position + Pending
      BY DEF MuteInv, Asking
    <3>2. p < position' + Pending'
      BY <1>1, <1>2, <1>9, <1>10, <3>1
    <3> QED BY <3>1, <3>2
  <2>2. pstep' # "mutePublish"
    BY <1>1
  <2> QED BY <1>1, <2>1, <2>2 DEF MuteInv, Asking, InCall, consumerVars
<1>12. \A g, p : Mailed(g, p)' <=> Mailed(g, p)
  BY <1>1 DEF Mailed
<1>13. OnlyAsked'
  BY <1>1, <1>12 DEF MuteInv, OnlyAsked, consumerVars
<1>14. Held'
  <2>1. UNCHANGED <<fault, wanted, due, carried, history, cstep, played, generation>>
    BY <1>1 DEF consumerVars, cacheVars
  <2> QED BY <1>4, <1>5, <1>8, <1>12, <2>1 DEF MuteInv, Held, InCall
<1> QED BY <1>6, <1>7, <1>11, <1>13, <1>14 DEF MuteInv

LEMMA PushMute ==
  ASSUME MuteInv, CoreInv', PushOne
  PROVE  MuteInv'
<1>1. job \in Nat /\ job >= 1 /\ pstep = "push" /\ Stored(job - 1, TRUE)
  BY DEF PushOne, MuteInv, CoreInv, Types, Control
<1>2. job - 1 \in Nat
  BY <1>1
<1> QED BY <1>1, <1>2, StoredMute

LEMMA PlainPushMute ==
  ASSUME MuteInv, CoreInv', PlainPush
  PROVE  MuteInv'
<1>1. CASE Stored(0, FALSE)
  BY <1>1, StoredMute DEF PlainPush
<1>2. CASE /\ Return
           /\ UNCHANGED <<queue, mail, moved, finish, stamp, generation, position,
                          consumerVars, wanted, carried>>
  BY <1>2, Quiet DEF PlainPush, Return, consumerVars, cacheVars, InCall, Live, Pending
<1> QED BY <1>1, <1>2 DEF PlainPush

\* A call that asks: what it asks for is in the mail when the call goes on.
LEMMA PostedMute ==
  ASSUME MuteInv, CoreInv', pstep \in {"publish", "mutePublish"}, pstep' \in {"push", "idle"},
         NEW first \in Nat, NEW last \in Nat, NEW limit \in Nat, limit <= MaxSource,
         NEW spans \in SpansFrom(first, last), Posted(spans, limit), limit <= position + Pending',
         UNCHANGED <<queue, moved, finish, generation, position, consumerVars>>,
         carried' \in {carried, carried \cup {x \in Asked(spans, limit) : x[2] >= position}},
         ((Live' => Live) /\ carried' = carried) \/ finish # "pending"
  PROVE  MuteInv'
<1> DEFINE asked == Asked(spans, limit)
<1>1. CoreInv /\ Store /\ Carries /\ Asking /\ OnlyAsked /\ Held
  BY DEF MuteInv
<1>2. /\ Sound(mail)' /\ wanted' = wanted \cup asked
      /\ \A g, p \in Nat : Mailed(g, p)' <=> Mailed(g, p) \/ <<g, p>> \in asked
      /\ \A x \in asked : \E p \in Nat : x = <<generation, p>> /\ p < limit
  BY <1>1, PostedFacts DEF Store
<1> HIDE DEF asked
<1>3. /\ Offset' = Offset /\ UNCHANGED <<cstep, history, fault, base, anchor, played, line, due>>
      /\ Pending = 0 /\ Pending' \in Nat /\ position \in Nat
  <2>1. Pending' \in Nat /\ position \in Nat
    BY <1>1, SyncAssumption DEF Pending, CoreInv, Types
  <2> QED BY <2>1 DEF Offset, consumerVars, cacheVars, Pending
<1>4. Carries'
  BY <1>1, <1>3, CarriesKept
<1>5. Store'
  BY <1>1, <1>2, <1>3 DEF Store, InCall
<1>6. \A p : Needed(p)' <=> Needed(p)
  BY <1>3, NeededSame
<1>7. carried' \subseteq wanted' /\ \A x \in carried' : x \in carried \/ (x \in asked /\ x[2] >= position)
  BY <1>1, <1>2 DEF Asking, asked
<1>8. Asking'
  <2>1. ASSUME NEW x \in wanted' PROVE \E p \in Nat : x = <<generation, p>> /\ p < position + Pending'
    <3>1. CASE x \in wanted
      <4>1. PICK p \in Nat : x = <<generation, p>> /\ p < position + Pending
        BY <1>1, <3>1 DEF Asking
      <4>2. \A a, b, c \in Nat : a < b + 0 => a < b + c
        OBVIOUS
      <4>3. p < position + Pending'
        BY <1>3, <4>1, <4>2
      <4> QED BY <4>1, <4>3
    <3>2. CASE x \in asked
      <4>1. PICK p \in Nat : x = <<generation, p>> /\ p < limit
        BY <1>2, <3>2
      <4>2. limit <= position + Pending'
        OBVIOUS
      <4>3. \A a, b, c, d \in Nat : a < b /\ b <= c + d => a < c + d
        OBVIOUS
      <4>4. p < position + Pending'
        BY <1>3, <4>1, <4>2, <4>3
      <4> QED BY <4>1, <4>4
    <3> QED BY <1>2, <3>1, <3>2
  <2>2. wanted \subseteq wanted'
    BY <1>2
  <2> QED BY <1>1, <1>3, <1>7, <2>1, <2>2 DEF Asking, InCall
<1>9. OnlyAsked'
  BY <1>1, <1>2, <1>3 DEF OnlyAsked
<1>10. ASSUME ~Live, Live', NEW p \in Nat, Needed(p) PROVE p >= position
  <2>1. anchor = None /\ finish # "pending" /\ cstep # "retire"
    BY <1>1, <1>10 DEF CoreInv, Based, Control
  <2>2. \A i \in 1..Len(queue) : queue[i].true = None
    BY <1>1, <1>10, <2>1 DEF CoreInv, Mapped
  <2> QED BY <1>10, <2>1, <2>2 DEF Needed, Counts
<1>11. ASSUME NEW p \in Nat, <<generation, p>> \in wanted PROVE p < position
  <2>1. PICK q \in Nat : <<generation, p>> = <<generation, q>> /\ q < position + Pending
    BY <1>1, <1>11 DEF Asking
  <2> QED BY <1>3, <2>1
<1>12. ASSUME finish # "pending" PROVE played + Offset <= position
  <2>1. played <= converted /\ converted <= taken /\ Len(queue) \in Nat
        /\ played \in Nat /\ converted \in Nat /\ taken \in Nat
    BY <1>1, <1>12 DEF CoreInv, Pace, Control, Types
  <2> QED BY <1>3, <2>1 DEF Offset
<1>13. Held'
  <2>1. ASSUME Live', ~fault, NEW p \in Nat, <<generation, p>> \in wanted', Needed(p)
        PROVE  Marked(history, generation, p) \/ Mailed(generation, p)'
    <3>1. CASE <<generation, p>> \in asked
      BY <1>1, <1>2, <3>1 DEF CoreInv, Types
    <3>2. CASE <<generation, p>> \in wanted
      <4>1. Live
        BY <1>3, <1>10, <1>11, <2>1, <3>2
      <4>2. Marked(history, generation, p) \/ Mailed(generation, p)
        BY <1>1, <2>1, <3>2, <4>1 DEF Held
      <4> QED BY <1>1, <1>2, <4>2 DEF CoreInv, Types
    <3> QED BY <1>2, <2>1, <3>1, <3>2
  <2>2. ASSUME Live', InCall, NEW p \in Nat, <<generation, p>> \in due, Needed(p)
        PROVE  Marked(history, generation, p)
    <3>1. <<generation, p>> \in wanted
      BY <1>1, <2>2 DEF Asking
    <3>2. Live
      BY <1>3, <1>10, <1>11, <2>2, <3>1
    <3> QED BY <1>1, <2>2, <3>2 DEF Held
  <2>3. ASSUME Live', InCall, NEW p \in Nat, <<generation, p>> \in carried', p < played + Offset, Needed(p)
        PROVE  Marked(history, generation, p)
    <3>1. <<generation, p>> \in carried
      <4>1. CASE finish # "pending"
        <5>1. played \in Nat /\ Offset \in Int
          BY <1>1, IndexFacts
        <5>2. ~(p >= position)
          BY <1>3, <1>12, <2>3, <4>1, <5>1
        <5> QED BY <1>7, <2>3, <5>2
      <4>2. CASE carried' = carried
        BY <2>3, <4>2
      <4> QED BY <4>1, <4>2
    <3>2. <<generation, p>> \in wanted
      BY <1>1, <3>1 DEF Asking
    <3>3. Live
      BY <1>3, <1>10, <1>11, <2>3, <3>2
    <3> QED BY <1>1, <2>3, <3>1, <3>3 DEF Held
  <2>4. InCall' <=> InCall
    BY <1>3 DEF InCall
  <2> QED BY <1>3, <1>6, <2>1, <2>2, <2>3, <2>4 DEF Held
<1> QED BY <1>4, <1>5, <1>8, <1>9, <1>13 DEF MuteInv

LEMMA TaggedPublishMute ==
  ASSUME MuteInv, CoreInv', TaggedPublish
  PROVE  MuteInv'
<1>1. /\ CoreInv /\ pstep = "publish" /\ pstep' = "push" /\ job \in Nat /\ job' = job
      /\ position \in Nat /\ position + job <= MaxSource /\ finish # "pending"
      /\ UNCHANGED <<queue, moved, finish, generation, position, consumerVars>>
  BY SyncAssumption DEF TaggedPublish, MuteInv, CoreInv, Types, Control, Publishing
<1>2. PICK spans \in SpansFrom(position, position + Capacity) :
             /\ Posted(spans, position + job)
             /\ carried' = carried \cup {x \in Asked(spans, position + job) : x[2] >= position}
  BY DEF TaggedPublish
<1>3. position + Capacity \in Nat /\ position + job \in Nat /\ position + job <= position + Pending'
  BY <1>1, SyncAssumption DEF Pending
<1>4. ASSUME NEW first \in Nat, NEW last \in Nat, NEW limit \in Nat,
             first = position, last = position + Capacity, limit = position + job
      PROVE  MuteInv'
  BY <1>1, <1>2, <1>3, <1>4, PostedMute
<1> QED BY <1>1, <1>3, <1>4

LEMMA MutePublishMute ==
  ASSUME MuteInv, CoreInv', MutePublish
  PROVE  MuteInv'
<1>1. /\ CoreInv /\ pstep = "mutePublish" /\ pstep' = "idle"
      /\ UNCHANGED <<queue, moved, finish, stamp, generation, position, consumerVars, carried>>
  BY DEF MutePublish, Return, MuteInv
<1>2. CASE /\ stamp # None /\ stamp.generation = generation
           /\ \E spans \in SpansFrom(stamp.source, stamp.source) : Posted(spans, stamp.source)
  <2>1. stamp.source = position /\ position \in Nat /\ position <= MaxSource
    BY <1>1, <1>2, SyncAssumption DEF MuteInv, Asking, CoreInv, Types
  <2>2. PICK spans \in SpansFrom(stamp.source, stamp.source) : Posted(spans, stamp.source)
    BY <1>2
  <2>3. position <= position + Pending'
    BY <1>1, <2>1 DEF Pending
  <2>4. ASSUME NEW first \in Nat, first = stamp.source PROVE MuteInv'
    BY <1>1, <2>1, <2>2, <2>3, <2>4, PostedMute DEF Live
  <2> QED BY <2>1, <2>4
<1>3. CASE UNCHANGED <<mail, wanted>>
  BY <1>1, <1>3, Quiet DEF consumerVars, cacheVars, InCall, Live, Pending
<1> QED BY <1>2, <1>3 DEF MutePublish

\* A new generation starts when no burst of the old one is live.
LEMMA NewGenerationMute ==
  ASSUME MuteInv, CoreInv', NewGeneration
  PROVE  MuteInv'
<1>1. /\ CoreInv /\ Store /\ Carries /\ Asking /\ OnlyAsked
      /\ generation \in Nat /\ generation' = generation + 1 /\ wanted' = {} /\ carried' = {} /\ pstep' = pstep
      /\ pstep = "idle" /\ UNCHANGED <<queue, mail, stamp, moved>> /\ ~Live /\ base = None
      /\ UNCHANGED <<cstep, history, fault, base, played, line, due>>
  BY DEF NewGeneration, MayPublish, MayCall, consumerVars, cacheVars, MuteInv, CoreInv, Types, Based, Live
<1>2. Carries'
  BY <1>1, CarriesKept
<1>3. Store'
  BY <1>1 DEF Store, Sound, InCall
<1>4. Asking'
  <2>1. ASSUME NEW x \in due PROVE \E g, p \in Nat : x = <<g, p>> /\ g <= generation'
    <3>1. PICK g \in Nat, p \in Nat : x = <<g, p>> /\ g <= generation
      BY <1>1 DEF Asking
    <3>2. g <= generation'
      BY <1>1, <3>1
    <3> QED BY <3>1, <3>2
  <2>2. ASSUME NEW p \in Nat PROVE <<generation', p>> \notin due
    <3> SUFFICES ASSUME <<generation', p>> \in due PROVE FALSE
      OBVIOUS
    <3>1. PICK g \in Nat, q \in Nat : <<generation', p>> = <<g, q>> /\ g <= generation
      BY <1>1 DEF Asking
    <3>2. g = generation + 1
      BY <1>1, <3>1
    <3> QED BY <1>1, <3>1, <3>2
  <2> QED BY <1>1, <2>1, <2>2 DEF Asking, InCall
<1>5. OnlyAsked'
  <2> SUFFICES ASSUME NEW g \in Nat, NEW p \in Nat, g >= generation + 1,
                      (~fault /\ Marked(history, g, p)) \/ Mailed(g, p)
               PROVE  FALSE
    BY <1>1 DEF OnlyAsked, Mailed
  <2>1. <<g, p>> \in wanted
    BY <1>1 DEF OnlyAsked
  <2>2. PICK q \in Nat : <<g, p>> = <<generation, q>>
    BY <1>1, <2>1 DEF Asking
  <2> QED BY <1>1, <2>2
<1>6. ~Live'
  BY <1>1 DEF Live
<1> QED BY <1>2, <1>3, <1>4, <1>5, <1>6 DEF MuteInv, Held

LEMMA RenderBeginMute ==
  ASSUME MuteInv, CoreInv', RenderBegin
  PROVE  MuteInv'
<1> DEFINE pass == FoldLeft(Delivered, [entries |-> history, ok |-> TRUE], mail)
<1>1. CoreInv /\ Store /\ Carries /\ Asking /\ OnlyAsked /\ Held
  BY DEF MuteInv
<1>2. Drained(history, mail, Len(mail), pass)
  BY <1>1, DrainFacts DEF Store
<1>3. /\ history' = pass.entries /\ fault' = (fault \/ ~pass.ok) /\ mail' = <<>> /\ due' = wanted
      /\ fault' => cstep' = "idle"
      /\ UNCHANGED <<queue, moved, finish, pstep, job, stamp, generation, position, base, taken, played,
                     converted, anchor, line, remaining, wanted, carried, verdict>>
  BY DEF RenderBegin, producerVars
<1> HIDE DEF pass
<1>4. Offset' = Offset
  BY <1>3 DEF Offset
<1>5. Carries'
  BY <1>1, <1>3, <1>4, CarriesKept
<1>6. \A p : Needed(p)' <=> Needed(p)
  BY <1>3, <1>4, NeededSame
<1>7. Sound(mail)'
  BY <1>3 DEF Sound
<1>8. Store'
  BY <1>1, <1>2, <1>3, <1>7 DEF Store, InCall, Drained
<1>9. \A g, p : ~Mailed(g, p)'
  BY <1>3 DEF Mailed
<1>10. ~fault' => ~fault /\ \A g, p \in Nat : Marked(history', g, p) <=> Marked(history, g, p) \/ Mailed(g, p)
  BY <1>1, <1>2, <1>3 DEF Store, Drained, Mailed
<1>11. Asking'
  <2>1. ASSUME NEW x \in due' PROVE \E g, p \in Nat : x = <<g, p>> /\ g <= generation
    <3>1. PICK p \in Nat : x = <<generation, p>>
      BY <1>1, <1>3, <2>1 DEF Asking
    <3>2. generation \in Nat /\ generation <= generation
      BY <1>1 DEF CoreInv, Types
    <3> QED BY <3>1, <3>2
  <2> QED BY <1>1, <1>3, <2>1 DEF Asking, InCall, Pending
<1>12. OnlyAsked'
  BY <1>1, <1>3, <1>9, <1>10 DEF OnlyAsked
<1>13. Held'
  <2> SUFFICES ASSUME Live', NEW p \in Nat, Needed(p), ~fault', <<generation, p>> \in wanted
               PROVE  Marked(history', generation, p)
    <3>1. carried' \subseteq wanted /\ due' = wanted /\ wanted' = wanted
      BY <1>1, <1>3 DEF Asking
    <3>2. InCall' => ~fault'
      BY <1>8 DEF Store
    <3> QED BY <1>3, <1>6, <3>1, <3>2 DEF Held
  <2>1. Live /\ generation \in Nat
    BY <1>1, <1>3 DEF Live, CoreInv, Types
  <2> QED BY <1>1, <1>10, <2>1 DEF Held
<1> QED BY <1>5, <1>8, <1>11, <1>12, <1>13 DEF MuteInv

\* Samples taken settle the base of a burst, and no mark gets lost by it.
LEMMA TakeMute ==
  ASSUME MuteInv, CoreInv', cstep = "refill", played = converted, queue # <<>> \/ taken > converted,
         NEW n \in Nat, Taking(n),
         UNCHANGED <<mail, moved, finish, producerVars, history, played, end, line, remaining,
                     wanted, carried, due, verdict>>
  PROVE  MuteInv'
<1>1. CoreInv /\ Store /\ Carries /\ Asking /\ OnlyAsked /\ Held
  BY DEF MuteInv
<1>2. /\ Offset' = Offset /\ Len(queue') = Len(queue) - n
      /\ \A i \in 1..Len(queue') : i + n \in 1..Len(queue) /\ queue'[i] = queue[i + n]
  BY <1>1, TakeCore
<1>3. /\ cstep' \in {"play", "completeFailed", "starved"} /\ fault' = FALSE /\ fault = FALSE /\ n \in 0..Len(queue)
      /\ UNCHANGED <<moved, pstep, job, stamp, generation, position>> /\ Len(queue) \in Nat
  BY <1>1 DEF Taking, producerVars, Store, InCall, CoreInv, Types
<1>4. base' = base \/ base = None
  BY DEF Taking
<1>5. \/ anchor' = anchor
      \/ /\ anchor = None
         /\ \E i \in 1..n : /\ queue[i].true # None /\ anchor' # None
                            /\ anchor'.first = queue[i].true.source
  <2>1. CASE anchor' = anchor
    BY <2>1
  <2>2. CASE anchor' # anchor
    <3>1. PICK i \in 1..n : /\ queue[i].true # None
                            /\ anchor' = [generation |-> generation, first |-> queue[i].true.source,
                                          offset |-> Offset]
      BY <2>2 DEF Taking
    <3>2. anchor' # None /\ anchor'.first = queue[i].true.source
      BY <3>1 DEF None
    <3> QED BY <2>2, <3>1, <3>2 DEF Taking
  <2> QED BY <2>1, <2>2
<1>6. Carries'
  <2>1. base # None => base' # None /\ anchor' = anchor
    BY <1>1, <1>4, <1>5 DEF CoreInv, Based
  <2> QED BY <1>1, <1>2, <1>3, <2>1, CarriesKept
<1>7. Store'
  BY <1>1, <1>3 DEF Store, Sound, InCall
<1>8. ASSUME NEW p \in Nat, Needed(p)' PROVE Needed(p)
  <2>1. Ahead(p)
    BY <1>2, <1>4, <1>8 DEF Needed, Ahead, LowIndex
  <2>2. Counts(p)
    <3>1. Counts(p)'
      BY <1>8 DEF Needed
    <3>2. CASE anchor' # anchor
      <4>1. PICK i \in 1..n : queue[i].true # None /\ anchor' # None /\ anchor'.first = queue[i].true.source
        BY <1>5, <3>2
      <4>2. anchor = None /\ i \in 1..Len(queue)
        BY <1>3, <1>5, <3>2
      <4> QED BY <3>1, <4>1, <4>2 DEF Counts
    <3>3. CASE anchor' = anchor /\ anchor # None
      BY <3>1, <3>3 DEF Counts
    <3>4. CASE anchor' = anchor /\ anchor = None
      BY <1>2, <1>3, <3>1, <3>4 DEF Counts
    <3> QED BY <3>2, <3>3, <3>4
  <2> QED BY <2>1, <2>2 DEF Needed
<1>9. Asking'
  BY <1>1, <1>3 DEF Asking, InCall, Pending
<1>10. \A g, p : Mailed(g, p)' <=> Mailed(g, p)
  BY DEF Mailed
<1>11. OnlyAsked'
  BY <1>1, <1>3, <1>10 DEF OnlyAsked
<1>12. Held'
  <2>1. (Live' <=> Live) /\ InCall
    BY <1>3 DEF Live, InCall
  <2> QED BY <1>1, <1>2, <1>3, <1>8, <1>10, <2>1 DEF Held
<1> QED BY <1>6, <1>7, <1>9, <1>11, <1>12 DEF MuteInv

LEMMA RefillMute ==
  ASSUME MuteInv, CoreInv', Refill
  PROVE  MuteInv'
<1>1. CASE played = converted /\ (queue # <<>> \/ taken > converted) /\ ~Pads /\ Take
  <2>1. CoreInv
    BY DEF MuteInv
  <2>2. PICK n \in Nat : Taking(n)
    BY <1>1, <2>1, TakeFacts DEF Refill
  <2> QED BY <1>1, <2>2, TakeMute DEF Refill
<1>2. CASE /\ played < converted /\ cstep' = "play"
           /\ UNCHANGED <<queue, fault, base, taken, converted, anchor>>
  BY <1>2, Quiet DEF Refill, producerVars, InCall, Live, Pending
<1>3. CASE Pad
  BY <1>3, Quiet DEF Refill, Pad, producerVars, InCall, Live, Pending
<1> QED BY <1>1, <1>2, <1>3 DEF Refill

\* A reset ends the burst on both sides.
LEMMA ResetMute ==
  ASSUME MuteInv, CoreInv', StateReset, cstep' \in {"ack", "retire", "idle"},
         mail' = mail \/ mail' = <<>>, UNCHANGED <<generation, stamp, pstep, job, due>>,
         UNCHANGED <<position, wanted, carried>> \/ (pstep = "idle" /\ wanted' = {} /\ carried' = {} /\ mail' = <<>>)
  PROVE  MuteInv'
<1>1. CoreInv /\ Store /\ Carries /\ Asking /\ OnlyAsked /\ Held
  BY DEF MuteInv
<1>2. history' = <<>> /\ fault' = FALSE /\ moved' = TRUE /\ line' = Idle
  BY DEF StateReset
<1>3. Carries'
  BY <1>2, IdleCarries
<1>4. Store'
  <2>1. Sound(<<>>)
    BY DEF Sound
  <2>2. Sound(mail')
    BY <1>1, <2>1 DEF Store
  <2>3. H!Tidy(Records, <<>>) /\ Len(<<>>) <= HistoryCapacity
    BY HistoryCapacityAssumption DEF H!Tidy
  <2> QED BY <1>2, <2>2, <2>3 DEF Store, InCall
<1>5. Asking'
  BY <1>1 DEF Asking, InCall, Pending
<1>6. OnlyAsked'
  <2>1. \A g, p : ~Marked(<<>>, g, p)
    BY DEF Marked, H!Covered
  <2>2. \A g, p : Mailed(g, p)' => Mailed(g, p) /\ mail' # <<>>
    BY DEF Mailed
  <2> QED BY <1>1, <1>2, <2>1, <2>2 DEF OnlyAsked
<1>7. ~Live'
  BY <1>2 DEF Live
<1> QED BY <1>3, <1>4, <1>5, <1>6, <1>7 DEF MuteInv, Held

LEMMA CompleteMute ==
  ASSUME MuteInv, CoreInv', Complete
  PROVE  MuteInv'
BY ResetMute DEF Complete, producerVars

LEMMA ConsumerResetMute ==
  ASSUME MuteInv, CoreInv', ConsumerReset
  PROVE  MuteInv'
BY ResetMute DEF ConsumerReset

LEMMA RetireBurstMute ==
  ASSUME MuteInv, CoreInv', RetireBurst
  PROVE  MuteInv'
<1>1. CoreInv /\ Store /\ Carries /\ Asking /\ OnlyAsked /\ Held
  BY DEF MuteInv
<1>2. /\ mail' = <<>> /\ cstep' = "ack" /\ ~Live /\ base = None
      /\ UNCHANGED <<moved, stamp, pstep, job, generation, position, history, fault, line, played, base,
                     wanted, carried, due>>
  BY <1>1 DEF RetireBurst, producerVars, cacheVars, CoreInv, Control, Based
<1>3. Carries'
  BY <1>1, <1>2, CarriesKept
<1>4. Store' /\ Asking'
  BY <1>1, <1>2 DEF Store, Sound, Asking, InCall, Pending
<1>5. OnlyAsked'
  <2>1. \A g, p : ~Mailed(g, p)'
    BY <1>2 DEF Mailed
  <2> QED BY <1>1, <1>2, <2>1 DEF OnlyAsked
<1>6. ~Live'
  BY <1>2 DEF Live
<1> QED BY <1>3, <1>4, <1>5, <1>6 DEF MuteInv, Held

\* What retirement leaves of s ends beyond the position left behind.
Remains(r, s, g, low) ==
  \A i \in 1..Len(r) : /\ \E j \in 1..Len(s) : r[i] = s[j]
                       /\ r[i].generation = g => r[i].end > low

\* Retirement adds nothing, and takes nothing that is still to play.
LEMMA Retired ==
  ASSUME Store, NEW g \in Nat, NEW low \in Nat, NEW high \in Nat
  PROVE  LET r == Retire(history, [generation |-> g, low |-> low, high |-> high]) IN
         /\ H!Tidy(Records, r) /\ Len(r) <= HistoryCapacity
         /\ \A p \in Nat : p >= low => (Marked(r, g, p) <=> Marked(history, g, p))
         /\ \A h, p : Marked(r, h, p) => Marked(history, h, p)
         /\ Remains(r, history, g, low)
<1> DEFINE r == Retire(history, [generation |-> g, low |-> low, high |-> high])
           I == {i \in 1..Len(history) : history[i].generation = g /\ history[i].end > low}
           f == IF I # {} THEN Min(I) ELSE 0
<1>1. history \in Seq(Records) /\ Len(history) \in Nat /\ Len(history) <= HistoryCapacity
      /\ \A i \in 1..Len(history) : history[i].start < history[i].end
  BY DEF Store, H!Tidy
<1>2. \A i \in 1..Len(history) : /\ history[i].generation \in Nat /\ history[i].start \in Nat
                                 /\ history[i].end \in Nat
  <2>1. \A i \in 1..Len(history) : history[i] \in H!Entries(Nat, MaxSource)
    BY <1>1 DEF Records
  <2> QED BY <2>1, SyncAssumption DEF H!Entries
<1>3. /\ H!Tidy(Records, r) /\ Len(r) <= Len(history)
      /\ \A p \in Nat : p >= low => (H!Covered(r, g, p) <=> H!Covered(history, g, p))
      /\ \A i \in 1..Len(r) : r[i].generation = g => r[i].end > low
  <2>1. H!Retire(history, [generation |-> g, low |-> low, high |-> high]) = r
    BY RetireSame
  <2> HIDE DEF r
  <2> QED BY <1>1, <1>2, <2>1, HistoryCapacityAssumption, SyncAssumption, H!RetireExact DEF Store
<1>4. r = IF f = 0 THEN <<>> ELSE SubSeq(history, f, Len(history))
  BY DEF Retire, SelectInSeq
<1>5. f \in 0..Len(history)
  <2>1. I \subseteq 1..Len(history)
    OBVIOUS
  <2>2. I # {} => Min(I) \in I
    BY <1>1, <2>1, FirstIndex
  <2>3. 0 \in 0..Len(history) /\ 1..Len(history) \subseteq 0..Len(history)
    BY <1>1
  <2>4. CASE I = {}
    BY <2>3, <2>4
  <2>5. CASE I # {}
    <3>1. f = Min(I)
      BY <2>5
    <3> HIDE DEF I, f
    <3> QED BY <2>1, <2>2, <2>3, <2>5, <3>1
  <2> QED BY <2>4, <2>5
<1> HIDE DEF f
<1>6. ASSUME NEW i \in 1..Len(r) PROVE \E j \in 1..Len(history) : r[i] = history[j]
  <2>1. f # 0
    BY <1>4
  <2>2. r = SubSeq(history, f, Len(history)) /\ f \in 1..Len(history)
    <3>1. f \in 1..Len(history)
      BY <1>1, <1>5, <2>1
    <3> QED BY <1>4, <2>1, <3>1
  <2> HIDE DEF r
  <2>3. i + f - 1 \in 1..Len(history) /\ r[i] = history[i + f - 1]
    BY <1>1, <2>2
  <2> QED BY <2>3
<1>9. \A h, p : Marked(r, h, p) => Marked(history, h, p)
  <2> HIDE DEF r
  <2> QED BY <1>6 DEF Marked, H!Covered
<1>7. Len(r) \in Nat
  BY <1>3 DEF H!Tidy
<1> HIDE DEF r
<1>8. Len(r) <= HistoryCapacity
  BY <1>1, <1>3, <1>7, HistoryCapacityAssumption
<1>10. Remains(r, history, g, low)
  BY <1>3, <1>6 DEF Remains
<1> QED BY <1>3, <1>8, <1>9, <1>10 DEF Marked, r

\* An output leaves the delay line.
LEMMA EmitMute ==
  ASSUME MuteInv, CoreInv', NEW entry \in Cells, Emit(entry), Placed(entry)',
         UNCHANGED <<queue, mail, moved, stamp, generation, position, pstep, job, fault, base, taken, anchor,
                     wanted, carried>>,
         played' \in {played, played + 1}, cstep' = "idle",
         entry.position # None => entry.position.low = LowIndex + Offset
  PROVE  MuteInv'
<1> DEFINE out == Leaving(entry)
<1>1. CoreInv /\ Store /\ Carries /\ Asking /\ OnlyAsked /\ Held
  BY DEF MuteInv
<1>2. Offset' = Offset
  BY DEF Offset
<1>3. /\ Carries'
      /\ \A p \in Nat : Ahead(p)' =>
           /\ Ahead(p)
           /\ base # None /\ out.position # None => p >= out.position.low
  BY <1>1, <1>2, EmitCarries
<1>4. /\ out \in Cells /\ due' = {}
      /\ history' = IF out.position = None THEN history ELSE Retire(history, out.position)
  BY <1>1, EmitFacts
<1>5. out.position # None => base # None /\ out.position.generation = generation
  <2>1. CASE Lookahead = 0
    <3>1. out = entry
      BY <2>1 DEF Leaving
    <3> QED BY <3>1 DEF Placed
  <2>2. CASE Lookahead # 0
    <3>1. 1 \in 1..Lookahead /\ out = line[1]
      BY <2>2, SyncAssumption DEF Leaving
    <3>2. Placed(out)
      <4>1. line[1] \in Cells
        BY <1>4, <3>1
      <4>2. ASSUME NEW e \in Cells, e = line[1] PROVE Placed(e)
        BY <1>1, <3>1, <4>2 DEF Carries
      <4> QED BY <3>1, <4>1, <4>2
    <3> QED BY <3>2 DEF Placed
  <2> QED BY <2>1, <2>2
<1> HIDE DEF out
<1>6. ~Live' <=> ~Live
  BY DEF Live
<1>7. /\ H!Tidy(Records, history') /\ Len(history') <= HistoryCapacity
      /\ \A p \in Nat : base # None /\ out.position # None /\ p >= out.position.low =>
           (Marked(history', generation, p) <=> Marked(history, generation, p))
      /\ \A g, p : Marked(history', g, p) => Marked(history, g, p)
  <2>1. CASE out.position = None
    BY <1>1, <1>4, <2>1 DEF Store
  <2>2. CASE out.position # None
    <3>1. /\ out.position = [generation |-> generation, low |-> out.position.low, high |-> out.position.high]
          /\ out.position.low \in Nat /\ out.position.high \in Nat /\ generation \in Nat
      BY <1>1, <1>4, <1>5, <2>2, CellFields DEF CoreInv, Types
    <3>2. history' = Retire(history, [generation |-> generation, low |-> out.position.low,
                                      high |-> out.position.high])
      BY <1>4, <2>2, <3>1
    <3> QED BY <1>1, <3>1, <3>2, Retired
  <2> QED BY <2>1, <2>2
<1>8. Store'
  BY <1>1, <1>7 DEF Store, Sound, InCall
<1>9. Asking'
  BY <1>1, <1>4 DEF Asking, InCall, Pending
<1>10. \A g, p : Mailed(g, p)' <=> Mailed(g, p)
  BY DEF Mailed
<1>11. OnlyAsked'
  BY <1>1, <1>7, <1>10 DEF OnlyAsked
<1>12. Held'
  <2> SUFFICES ASSUME Live, ~fault, NEW p \in Nat, <<generation, p>> \in wanted, Needed(p)'
               PROVE  Marked(history', generation, p) \/ Mailed(generation, p)
    BY <1>6, <1>10 DEF Held, InCall
  <2>1. Counts(p)
    BY DEF Needed, Counts
  <2>2. Ahead(p) /\ (base # None /\ out.position # None => p >= out.position.low)
    BY <1>3 DEF Needed
  <2>3. Marked(history, generation, p) \/ Mailed(generation, p)
    BY <1>1, <2>1, <2>2 DEF Held, Needed
  <2>4. CASE out.position = None
    BY <1>4, <2>3, <2>4
  <2>5. CASE out.position # None
    BY <1>5, <1>7, <2>2, <2>3, <2>5
  <2> QED BY <2>4, <2>5
<1> QED BY <1>3, <1>8, <1>9, <1>11, <1>12 DEF MuteInv

LEMMA NowhereFacts ==
  ASSUME NEW entry, entry = Nowhere
  PROVE  entry \in Cells /\ entry.position = None /\ entry.sources = {} /\ entry.tagged = {}
         /\ Placed(entry) /\ Placed(entry)'
<1>1. entry.position = None /\ entry.sources = {} /\ entry.tagged = {} /\ entry \in Cells
  BY DEF Nowhere, Cells
<1> QED BY <1>1 DEF Placed

LEMMA PlayMute ==
  ASSUME MuteInv, CoreInv', Play
  PROVE  MuteInv'
<1>1. CASE /\ cstep' = "tail" /\ UNCHANGED <<played, history, line, due, verdict>>
  BY <1>1, Quiet DEF Play, producerVars, InCall, Live, Pending
<1>2. CASE /\ Emit(PlayEntry) /\ played' = played + 1 /\ cstep' = "idle"
  <2>1. CoreInv /\ UNCHANGED <<queue, mail, moved, stamp, generation, position, pstep, job, fault, base, taken,
                               anchor, wanted, carried>>
    BY DEF Play, producerVars, MuteInv
  <2>2. /\ PlayEntry \in Cells /\ PlayEntry.position = CachePosition /\ PlayEntry.sources = TrueSources
        /\ PlayEntry.tagged = Tagged(TrueSources)
    BY <2>1, EntryPlaced DEF PlayEntry
  <2>3. Offset' = Offset /\ Offset \in Int /\ LowIndex' = LowIndex + 1 /\ LowIndex \in Int /\ played \in Nat
    BY <1>2, <2>1, NextIndex, IndexFacts DEF Offset
  <2>4. ASSUME NEW entry \in Cells, entry = PlayEntry PROVE MuteInv'
    <3>1. /\ entry.position # None =>
               /\ base # None /\ entry.position.generation = generation
               /\ entry.position.low <= entry.position.high /\ entry.position.low = LowIndex + Offset
               /\ \A p \in entry.position.low..entry.position.high : <<generation, p>> \in entry.sources
          /\ Startup =>
               \A x \in entry.tagged :
                 /\ base # None /\ entry.position # None
                 /\ \E p \in entry.position.low..entry.position.high :
                      /\ x = <<generation, p>> /\ p >= anchor.first /\ p <= played + Offset
      BY <2>1, <2>2, <2>4, EntryPlaced
    <3>2. entry.position # None => entry.position.low \in Nat /\ entry.position.high \in Nat
      BY CellFields
    <3>3. Placed(entry)'
      <4>1. entry.position # None => entry.position.low <= LowIndex' + Offset
        BY <2>3, <3>1, <3>2
      <4>2. ASSUME Startup, NEW x \in entry.tagged
            PROVE  /\ base # None /\ entry.position # None
                   /\ \E p \in entry.position.low..entry.position.high :
                        x = <<generation, p>> /\ p >= anchor.first /\ p < played' + Offset
        <5>1. PICK p \in entry.position.low..entry.position.high :
                     x = <<generation, p>> /\ p >= anchor.first /\ p <= played + Offset
          BY <3>1, <4>2
        <5>2. p \in Int /\ base # None /\ entry.position # None
          BY <3>1, <3>2, <4>2, <5>1
        <5>3. \A a, b, c \in Int : a <= b + c => a < (b + 1) + c
          OBVIOUS
        <5>4. p < played' + Offset
          BY <1>2, <2>3, <5>1, <5>2, <5>3
        <5> QED BY <5>1, <5>2, <5>4
      <4> QED BY <2>1, <2>3, <3>1, <4>1, <4>2 DEF Placed, Startup
    <3>4. entry.position # None => entry.position.low = LowIndex + Offset
      BY <3>1
    <3> QED BY <1>2, <2>1, <2>4, <3>3, <3>4, EmitMute
  <2> QED BY <2>2, <2>4
<1> QED BY <1>1, <1>2 DEF Play, PlayEntry

LEMMA SilentMute ==
  ASSUME MuteInv, CoreInv', Emit(Nowhere), cstep' = "idle",
         UNCHANGED <<queue, mail, producerVars, moved, fault, base, taken, played, anchor, wanted, carried>>
  PROVE  MuteInv'
<1> SUFFICES ASSUME NEW entry, entry = Nowhere PROVE MuteInv'
  OBVIOUS
<1>1. entry \in Cells /\ entry.position = None /\ Placed(entry)'
  BY NowhereFacts
<1> QED BY <1>1, EmitMute DEF producerVars

LEMMA StarvedMute ==
  ASSUME MuteInv, CoreInv', Starved
  PROVE  MuteInv'
BY SilentMute DEF Starved, producerVars, cacheVars

LEMMA PlayTailMute ==
  ASSUME MuteInv, CoreInv', PlayTail
  PROVE  MuteInv'
<1>1. CASE Emit(Nowhere) /\ cstep' = "idle"
  BY <1>1, SilentMute DEF PlayTail, producerVars, cacheVars
<1>2. CASE cstep' = "complete" /\ UNCHANGED <<history, line, remaining, due, verdict>>
  BY <1>2, Quiet DEF PlayTail, producerVars, cacheVars, InCall, Live, Pending
<1> QED BY <1>1, <1>2 DEF PlayTail

LEMMA MuteStep ==
  ASSUME MuteInv, AwaitsCompletion, [Next]_vars
  PROVE  MuteInv'
<1>0. CoreInv'
  BY CoreStep DEF MuteInv
<1>1. CASE ProducerStep
  <2>1. ASSUME NEW n \in 1..Capacity, PushTagged(n) PROVE MuteInv'
    BY <1>0, <2>1, BeginMute DEF PushTagged, MayPublish
  <2>2. CASE PushPlain
    BY <1>0, <2>2, BeginMute DEF PushPlain, MayPublish
  <2>3. CASE MuteSpans
    BY <1>0, <2>3, BeginMute DEF MuteSpans
  <2> QED BY <1>0, <1>1, <2>1, <2>2, <2>3, SyncMute, GateMute, CreditMute, TaggedPublishMute, PushMute,
             PlainPushMute, MutePublishMute, FinishMute, NewGenerationMute DEF ProducerStep
<1>2. CASE ConsumerStep
  BY <1>0, <1>2, RenderBeginMute, RefillMute, PlayMute, StarvedMute, PlayTailMute, CompleteMute,
     RetireBurstMute, AckMute, ConsumerResetMute DEF ConsumerStep
<1>3. CASE UNCHANGED vars
  BY <1>0, <1>3, Quiet DEF vars, producerVars, cacheVars, InCall, Live, Pending
<1> QED BY <1>1, <1>2, <1>3 DEF Next

LEMMA MuteInit == Init => MuteInv
<1> SUFFICES ASSUME Init PROVE MuteInv
  OBVIOUS
<1>1. CoreInv
  BY CoreInit
<1>2. Carries
  BY IdleCarries DEF Init
<1>3. /\ mail = <<>> /\ history = <<>> /\ fault = FALSE /\ wanted = {} /\ carried = {} /\ due = {}
      /\ cstep = "idle" /\ stamp = None /\ pstep = "idle"
  BY DEF Init
<1>4. Store
  <2>1. Sound(<<>>) /\ H!Tidy(Records, <<>>) /\ Len(<<>>) <= HistoryCapacity
    BY HistoryCapacityAssumption DEF Sound, H!Tidy
  <2> QED BY <1>3, <2>1 DEF Store, InCall
<1>5. Asking
  BY <1>3 DEF Asking, InCall
<1>6. OnlyAsked
  BY <1>3 DEF OnlyAsked, Marked, H!Covered, Mailed
<1>7. Held
  BY <1>3 DEF Held, Live
<1> QED BY <1>1, <1>2, <1>4, <1>5, <1>6, <1>7 DEF MuteInv

-----------------------------------------------------------------------------
(* What is played.                                                         *)

Hushed(out) == out.position # None /\ Muted(history, out.position)

\* What leaves the line knows what it draws on, and what it draws on is ahead.
LEMMA LeavingFacts ==
  ASSUME MuteInv, NEW entry \in Cells, entry = PlayEntry \/ entry = Nowhere,
         NEW out \in Cells, out = Leaving(entry)
  PROVE  /\ out.position # None =>
              /\ base # None /\ out.position.generation = generation
              /\ out.position.low <= out.position.high
              /\ \A p \in out.position.low..out.position.high : <<generation, p>> \in out.sources
         /\ Startup =>
              \A x \in out.tagged :
                /\ base # None /\ out.position # None
                /\ \E p \in out.position.low..out.position.high :
                     /\ x = <<generation, p>> /\ p >= anchor.first /\ Ahead(p)
                     /\ Lookahead # 0 \/ HalfDelay >= 2 => p < played + Offset
<1>1. CoreInv /\ Carries /\ LowIndex \in Int /\ Offset \in Int
  BY IndexFacts DEF MuteInv
<1>2. out.position # None => out.position.low \in Nat /\ out.position.high \in Nat
  BY CellFields
<1>3. CASE Lookahead # 0
  <2>1. 1 \in 1..Lookahead /\ out = line[1]
    BY <1>3, SyncAssumption DEF Leaving
  <2>2. Placed(out)
    BY <1>1, <2>1 DEF Carries
  <2>3. ASSUME Startup, NEW x \in out.tagged
        PROVE  /\ base # None /\ out.position # None
               /\ \E p \in out.position.low..out.position.high :
                    /\ x = <<generation, p>> /\ p >= anchor.first /\ Ahead(p) /\ p < played + Offset
    <3>1. base # None /\ out.position # None
      BY <2>2, <2>3 DEF Placed
    <3>2. PICK p \in out.position.low..out.position.high :
                 x = <<generation, p>> /\ p >= anchor.first /\ p < played + Offset
      BY <2>2, <2>3 DEF Placed
    <3>3. line[1].position.low <= p /\ line[1].position # None
      BY <1>2, <2>1, <3>1, <3>2
    <3>4. Ahead(p)
      BY <2>1, <3>3 DEF Ahead
    <3> QED BY <3>1, <3>2, <3>4
  <2> QED BY <2>2, <2>3 DEF Placed
<1>4. CASE Lookahead = 0 /\ entry = PlayEntry
  <2>1. /\ out = entry /\ out.position = CachePosition /\ out.sources = TrueSources
        /\ out.tagged = Tagged(TrueSources)
    BY <1>4 DEF Leaving, PlayEntry
  <2>2. /\ out.position # None =>
             /\ base # None /\ out.position.generation = generation
             /\ out.position.low <= out.position.high /\ out.position.low = LowIndex + Offset
             /\ \A p \in out.position.low..out.position.high : <<generation, p>> \in out.sources
        /\ Startup =>
             \A x \in out.tagged :
               /\ base # None /\ out.position # None
               /\ \E p \in out.position.low..out.position.high :
                    /\ x = <<generation, p>> /\ p >= anchor.first
                    /\ HalfDelay >= 2 => p < played + Offset
    <3>1. /\ CachePosition # None =>
               /\ base # None /\ CachePosition.generation = generation
               /\ CachePosition.low <= CachePosition.high /\ CachePosition.low = LowIndex + Offset
               /\ \A p \in CachePosition.low..CachePosition.high : <<generation, p>> \in TrueSources
          /\ Startup =>
               \A x \in Tagged(TrueSources) :
                 /\ base # None /\ CachePosition # None
                 /\ \E p \in CachePosition.low..CachePosition.high :
                      /\ x = <<generation, p>> /\ p >= anchor.first
                      /\ HalfDelay >= 2 => p < played + Offset
      BY <1>1, EntryPlaced
    <3> QED BY <2>1, <3>1
  <2>3. ASSUME out.position # None, NEW p \in out.position.low..out.position.high PROVE Ahead(p)
    <3>1. p \in Int /\ p >= LowIndex + Offset
      BY <1>1, <1>2, <2>2, <2>3
    <3> QED BY <3>1 DEF Ahead
  <2> QED BY <1>4, <2>2, <2>3
<1>5. CASE Lookahead = 0 /\ entry = Nowhere
  BY <1>5, NowhereFacts DEF Leaving
<1> QED BY <1>3, <1>4, <1>5

\* An output is silenced exactly for the marks of what it draws on.
LEMMA HushedFacts ==
  ASSUME MuteInv, NEW entry \in Cells, entry = PlayEntry \/ entry = Nowhere,
         NEW out \in Cells, out = Leaving(entry), out.position # None
  PROVE  Hushed(out) <=> \E p \in out.position.low..out.position.high : Marked(history, generation, p)
<1>1. /\ out.position.generation = generation /\ out.position.low <= out.position.high
  BY LeavingFacts
<1>2. /\ out.position = [generation |-> generation, low |-> out.position.low, high |-> out.position.high]
      /\ out.position.low \in Nat /\ out.position.high \in Nat /\ generation \in Nat
  BY <1>1, CellFields DEF MuteInv, CoreInv, Types
<1> DEFINE here == [generation |-> generation, low |-> out.position.low, high |-> out.position.high]
<1>3. H!Muted(history, here) = Muted(history, here)
  BY MutedSame
<1>4. H!Tidy(H!Entries(Nat, MaxSource), history) /\ MaxSource \in Nat /\ Nat \subseteq Nat
  BY SyncAssumption DEF MuteInv, Store, Records
<1>5. H!Muted(history, here) <=> \E p \in out.position.low..out.position.high : H!Covered(history, generation, p)
  BY <1>1, <1>2, <1>4, HistoryCapacityAssumption, SyncAssumption, H!MutedIffCovered
<1> QED BY <1>2, <1>3, <1>5 DEF Hushed, Marked

LEMMA HushedIsWanted ==
  ASSUME MuteInv, InCall, NEW entry \in Cells, entry = PlayEntry \/ entry = Nowhere,
         NEW out \in Cells, out = Leaving(entry), Hushed(out)
  PROVE  out.sources \cap wanted # {}
<1>1. out.position # None /\ out.position.low \in Nat /\ out.position.high \in Nat
  BY CellFields DEF Hushed
<1>2. PICK p \in out.position.low..out.position.high : Marked(history, generation, p)
  BY <1>1, HushedFacts
<1>3. p \in Nat /\ generation \in Nat /\ generation >= generation
  BY <1>1 DEF MuteInv, CoreInv, Types
<1>4. <<generation, p>> \in wanted
  BY <1>2, <1>3 DEF MuteInv, OnlyAsked, Store
<1>5. <<generation, p>> \in out.sources
  BY <1>1, LeavingFacts
<1> QED BY <1>4, <1>5

LEMMA TaggedIsHushed ==
  ASSUME MuteInv, InCall, Startup, NEW entry \in Cells, entry = PlayEntry \/ entry = Nowhere,
         NEW out \in Cells, out = Leaving(entry), NEW x \in out.tagged,
         x \in due \/ (x \in carried /\ (Lookahead # 0 \/ HalfDelay >= 2))
  PROVE  Hushed(out)
<1>1. base # None /\ out.position # None
  BY LeavingFacts
<1>2. PICK p \in out.position.low..out.position.high :
             /\ x = <<generation, p>> /\ p >= anchor.first /\ Ahead(p)
             /\ Lookahead # 0 \/ HalfDelay >= 2 => p < played + Offset
  BY LeavingFacts
<1>3. p \in Nat
  <2>1. out.position.low \in Nat /\ out.position.high \in Nat
    BY <1>1, CellFields
  <2> QED BY <2>1
<1>4. Live /\ anchor # None
  BY <1>1 DEF MuteInv, CoreInv, Based
<1>5. Needed(p)
  BY <1>2, <1>4 DEF Needed, Counts
<1>6. Marked(history, generation, p)
  BY <1>2, <1>3, <1>4, <1>5 DEF MuteInv, Held
<1> QED BY <1>1, <1>2, <1>6, HushedFacts

\* Only an output that leaves the line in a render call changes the verdict.
Judged(entry) ==
  LET out == Leaving(entry) IN
  /\ entry \in Cells /\ out \in Cells /\ (entry = PlayEntry \/ entry = Nowhere) /\ InCall
  /\ verdict'.missed <=> verdict.missed \/ (out.tagged \cap due # {} /\ ~Hushed(out))
  /\ verdict'.leaked <=> verdict.leaked \/ (out.tagged \cap carried # {} /\ ~Hushed(out))
  /\ verdict'.swallowed <=>
       verdict.swallowed \/ (Hushed(out) /\ out.sources # {} /\ out.sources \cap wanted = {})

LEMMA EmitJudged ==
  ASSUME MuteInv, InCall, NEW entry, entry = PlayEntry \/ entry = Nowhere, Emit(entry)
  PROVE  Judged(entry)
<1>1. entry \in Cells
  BY EntryPlaced, NowhereFacts DEF MuteInv
<1>2. Leaving(entry) \in Cells /\ (Lookahead # 0 => Head(line) = line[1])
  BY <1>1, EmitFacts, SyncAssumption DEF MuteInv, Carries
<1>3. (IF Lookahead = 0 THEN entry ELSE Head(line)) = Leaving(entry)
  BY <1>2 DEF Leaving
<1> QED BY <1>1, <1>2, <1>3 DEF Emit, Judged, Hushed

LEMMA JudgedStep ==
  ASSUME MuteInv, [Next]_vars
  PROVE  verdict' = verdict \/ \E entry : Judged(entry)
<1>1. CASE ProducerStep \/ UNCHANGED vars
  BY <1>1
  DEF ProducerStep, PushTagged, PushPlain, MuteSpans, Begin, Sync, TaggedGate, TaggedCredit, TaggedPublish,
      PushOne, PlainPush, Stored, MutePublish, Finish, NewGeneration, consumerVars, vars
<1>2. CASE ConsumerStep
  <2>1. CASE Play
    <3>1. CASE UNCHANGED verdict
      BY <3>1
    <3>2. CASE Emit(PlayEntry)
      BY <2>1, <3>2, EmitJudged DEF Play, InCall
    <3> QED BY <2>1, <3>1, <3>2 DEF Play, PlayEntry
  <2>2. CASE Starved \/ PlayTail
    <3>1. CASE UNCHANGED verdict
      BY <3>1
    <3>2. CASE Emit(Nowhere)
      BY <2>2, <3>2, EmitJudged DEF Starved, PlayTail, InCall
    <3> QED BY <2>2, <3>1, <3>2 DEF Starved, PlayTail
  <2>3. CASE ~(Play \/ Starved \/ PlayTail)
    BY <1>2, <2>3 DEF ConsumerStep, RenderBegin, Refill, Complete, RetireBurst, Ack, ConsumerReset
  <2> QED BY <2>1, <2>2, <2>3
<1> QED BY <1>1, <1>2 DEF Next

LEMMA VerdictStep ==
  ASSUME MuteInv, [Next]_vars
  PROVE  /\ OnlyWantedIsMuted => OnlyWantedIsMuted'
         /\ Startup /\ DueIsMuted => DueIsMuted'
         /\ Startup /\ HalfDelay + 2 * Lookahead >= 2 /\ CarriedIsMuted => CarriedIsMuted'
<1>1. CASE verdict' = verdict
  BY <1>1 DEF OnlyWantedIsMuted, DueIsMuted, CarriedIsMuted
<1>2. ASSUME NEW entry, Judged(entry)
      PROVE  /\ OnlyWantedIsMuted => OnlyWantedIsMuted'
             /\ Startup /\ DueIsMuted => DueIsMuted'
             /\ Startup /\ HalfDelay + 2 * Lookahead >= 2 /\ CarriedIsMuted => CarriedIsMuted'
  <2> SUFFICES ASSUME NEW out, out = Leaving(entry)
               PROVE  /\ OnlyWantedIsMuted => OnlyWantedIsMuted'
                      /\ Startup /\ DueIsMuted => DueIsMuted'
                      /\ Startup /\ HalfDelay + 2 * Lookahead >= 2 /\ CarriedIsMuted => CarriedIsMuted'
    OBVIOUS
  <2>1. /\ entry \in Cells /\ out \in Cells /\ (entry = PlayEntry \/ entry = Nowhere) /\ InCall
        /\ verdict'.missed <=> verdict.missed \/ (out.tagged \cap due # {} /\ ~Hushed(out))
        /\ verdict'.leaked <=> verdict.leaked \/ (out.tagged \cap carried # {} /\ ~Hushed(out))
        /\ verdict'.swallowed <=>
             verdict.swallowed \/ (Hushed(out) /\ out.sources # {} /\ out.sources \cap wanted = {})
    BY <1>2 DEF Judged
  <2>2. Hushed(out) => out.sources \cap wanted # {}
    BY <2>1, HushedIsWanted
  <2>3. Startup /\ out.tagged \cap due # {} => Hushed(out)
    BY <2>1, TaggedIsHushed
  <2>4. Startup /\ HalfDelay + 2 * Lookahead >= 2 /\ out.tagged \cap carried # {} => Hushed(out)
    <3>1. HalfDelay + 2 * Lookahead >= 2 => Lookahead # 0 \/ HalfDelay >= 2
      BY SyncAssumption
    <3> QED BY <2>1, <3>1, TaggedIsHushed
  <2>5. OnlyWantedIsMuted => OnlyWantedIsMuted'
    BY <2>1, <2>2 DEF OnlyWantedIsMuted
  <2>6. Startup /\ DueIsMuted => DueIsMuted'
    BY <2>1, <2>3 DEF DueIsMuted
  <2>7. Startup /\ HalfDelay + 2 * Lookahead >= 2 /\ CarriedIsMuted => CarriedIsMuted'
    BY <2>1, <2>4 DEF CarriedIsMuted
  <2> QED BY <2>5, <2>6, <2>7
<1> QED BY <1>1, <1>2, JudgedStep

\* Both sides together keep the records they share in step with the burst: what
\* is asked for is held until it has been played, and nothing else is.
THEOREM MuteInvariance ==
  ASSUME AwaitsCompletion
  PROVE  Spec => []MuteInv
<1>1. MuteInv /\ [Next]_vars => MuteInv'
  BY MuteStep
<1> QED BY <1>1, MuteInit, PTL DEF Spec

\* An output is silenced only if it draws on a sample that was asked to be muted.
THEOREM OnlyWantedHolds ==
  ASSUME AwaitsCompletion
  PROVE  Spec => []OnlyWantedIsMuted
<1>1. Init => OnlyWantedIsMuted
  BY DEF Init, OnlyWantedIsMuted
<1>2. MuteInv /\ OnlyWantedIsMuted /\ [Next]_vars => OnlyWantedIsMuted'
  BY VerdictStep
<1> QED BY <1>1, <1>2, MuteInvariance, PTL DEF Spec

\* A sample mailed as muted before a render call is not heard in it.
THEOREM DueIsMutedHolds ==
  ASSUME AwaitsCompletion, Startup
  PROVE  Spec => []DueIsMuted
<1>1. Init => DueIsMuted
  BY DEF Init, DueIsMuted
<1>2. MuteInv /\ DueIsMuted /\ [Next]_vars => DueIsMuted'
  BY VerdictStep
<1> QED BY <1>1, <1>2, MuteInvariance, PTL DEF Spec

\* Nor is a sample whose own push carried its interval, though the push raced
\* the render call, if converter and lookahead delay a sample at all.
THEOREM CarriedIsMutedHolds ==
  ASSUME AwaitsCompletion, Startup, HalfDelay + 2 * Lookahead >= 2
  PROVE  Spec => []CarriedIsMuted
<1>1. Init => CarriedIsMuted
  BY DEF Init, CarriedIsMuted
<1>2. MuteInv /\ CarriedIsMuted /\ [Next]_vars => CarriedIsMuted'
  BY VerdictStep
<1> QED BY <1>1, <1>2, MuteInvariance, PTL DEF Spec

-----------------------------------------------------------------------------
(* The room of the history.  Entries are apart, so of those that end within *)
(* some number of samples there are no more than half as many.             *)

Within(W, s) == \A i \in 1..Len(s) : <<s[i].generation, s[i].end>> \in W

\* The ends of one generation from a + 1 to a + n.
Window(g, a, n) == {<<g, e>> : e \in (a + 1)..(a + n)}

LEMMA RecordFields ==
  ASSUME NEW e \in Records
  PROVE  e.generation \in Nat /\ e.start \in Nat /\ e.end \in Nat /\ e.end >= 1
<1>1. e \in H!Entries(Nat, MaxSource) /\ MaxSource \in Nat
  BY SyncAssumption DEF Records
<1> QED BY <1>1 DEF H!Entries

\* Entries of two windows fit the halves of both.
LEMMA WindowRoom ==
  ASSUME NEW g \in Nat, NEW a \in Int, NEW n \in Nat,
         NEW h \in Nat, NEW b \in Int, NEW m \in Nat,
         NEW t, H!Tidy(Records, t), Within(Window(g, a, n) \cup Window(h, b, m), t)
  PROVE  Len(t) <= (n + 1) \div 2 + (m + 1) \div 2
<1> DEFINE k == (n + 1) \div 2
           l == (m + 1) \div 2
           Old(i) == t[i].generation = g /\ a < t[i].end /\ t[i].end <= a + n
           slot == [i \in 1..Len(t) |-> IF Old(i) THEN (t[i].end - a - 1) \div 2
                                        ELSE k + (t[i].end - b - 1) \div 2]
<1>1. /\ t \in Seq(Records) /\ Len(t) \in Nat
      /\ \A i \in 1..Len(t) : t[i] \in Records /\ t[i].start < t[i].end
      /\ \A i, j \in 1..Len(t) : i < j => H!Apart(t[i], t[j])
  BY DEF H!Tidy
<1>2. k \in Nat /\ l \in Nat
  OBVIOUS
<1>3. \A i \in 1..Len(t) : t[i].generation \in Nat /\ t[i].start \in Nat /\ t[i].end \in Nat
  BY <1>1, RecordFields
<1>4. ASSUME NEW i \in 1..Len(t), ~Old(i)
      PROVE  t[i].generation = h /\ b < t[i].end /\ t[i].end <= b + m
  <2>1. <<t[i].generation, t[i].end>> \in Window(g, a, n) \cup Window(h, b, m)
    BY DEF Within
  <2>2. <<t[i].generation, t[i].end>> \notin Window(g, a, n)
    BY <1>3, <1>4 DEF Window
  <2>3. <<t[i].generation, t[i].end>> \in {<<h, e>> : e \in (b + 1)..(b + m)}
    BY <2>1, <2>2 DEF Window
  <2>4. PICK e \in (b + 1)..(b + m) : <<t[i].generation, t[i].end>> = <<h, e>>
    BY <2>3
  <2>5. t[i].generation = h /\ t[i].end = e
    BY <2>4
  <2> QED BY <2>5
<1>5. ASSUME NEW e \in Nat, NEW c \in Int, NEW q \in Nat, c < e, e <= c + q
      PROVE  (e - c - 1) \div 2 \in 0..((q + 1) \div 2 - 1)
  BY <1>5
<1>6. ASSUME NEW i \in 1..Len(t)
      PROVE  IF Old(i) THEN slot[i] \in 0..(k - 1) ELSE slot[i] \in k..(k + l - 1)
  <2>1. CASE Old(i)
    <3>1. (t[i].end - a - 1) \div 2 \in 0..(k - 1)
      BY <1>3, <1>5, <2>1
    <3>2. slot[i] = (t[i].end - a - 1) \div 2
      BY <2>1
    <3> HIDE DEF slot, k, Old
    <3> QED BY <2>1, <3>1, <3>2
  <2>2. CASE ~Old(i)
    <3>1. (t[i].end - b - 1) \div 2 \in 0..(l - 1)
      BY <1>3, <1>4, <1>5, <2>2
    <3>2. slot[i] = k + (t[i].end - b - 1) \div 2
      BY <2>2
    <3> HIDE DEF slot, k, l, Old
    <3>3. \A x, y, z \in Int : x \in 0..(y - 1) => z + x \in z..(z + y - 1)
      OBVIOUS
    <3> QED BY <1>2, <2>2, <3>1, <3>2, <3>3
  <2> QED BY <2>1, <2>2
<1>7. ASSUME NEW i \in 1..Len(t), NEW j \in 1..Len(t), i < j PROVE slot[i] # slot[j]
  <2>1. H!Apart(t[i], t[j]) /\ t[j].start < t[j].end
    BY <1>1, <1>7
  <2>2. t[i].generation = t[j].generation => t[i].end + 2 <= t[j].end
    <3>1. t[i].generation = t[j].generation => t[i].end < t[j].start
      BY <1>3, <2>1 DEF H!Apart
    <3>2. \A x, y, z \in Nat : x < y /\ y < z => x + 2 <= z
      OBVIOUS
    <3> QED BY <1>3, <2>1, <3>1, <3>2
  <2>3. \A c \in Int : \A x, y \in Nat : x + 2 <= y => (x - c - 1) \div 2 < (y - c - 1) \div 2
    OBVIOUS
  <2>8. \A c \in Int : \A x \in Nat : (x - c - 1) \div 2 \in Int
    OBVIOUS
  <2>4. CASE Old(i) /\ Old(j)
    <3>1. slot[i] = (t[i].end - a - 1) \div 2 /\ slot[j] = (t[j].end - a - 1) \div 2
      BY <2>4
    <3>2. t[i].end \in Nat /\ t[j].end \in Nat /\ t[i].end + 2 <= t[j].end
      BY <1>3, <2>2, <2>4
    <3>3. (t[i].end - a - 1) \div 2 < (t[j].end - a - 1) \div 2
      BY <2>3, <3>2
    <3>4. (t[i].end - a - 1) \div 2 \in Int /\ (t[j].end - a - 1) \div 2 \in Int
      BY <2>8, <3>2
    <3> HIDE DEF slot, Old
    <3> QED BY <3>1, <3>3, <3>4
  <2>5. CASE ~Old(i) /\ ~Old(j)
    <3>1. /\ slot[i] = k + (t[i].end - b - 1) \div 2 /\ slot[j] = k + (t[j].end - b - 1) \div 2
      BY <2>5
    <3>2. t[i].end \in Nat /\ t[j].end \in Nat /\ t[i].end + 2 <= t[j].end
      BY <1>3, <1>4, <2>2, <2>5
    <3>3. (t[i].end - b - 1) \div 2 < (t[j].end - b - 1) \div 2
      BY <2>3, <3>2
    <3>4. (t[i].end - b - 1) \div 2 \in Int /\ (t[j].end - b - 1) \div 2 \in Int
      BY <2>8, <3>2
    <3> HIDE DEF slot, k, Old
    <3>5. \A x, y, z \in Int : x < y => z + x # z + y
      OBVIOUS
    <3> QED BY <1>2, <3>1, <3>3, <3>4, <3>5
  <2>6. CASE Old(i) /\ ~Old(j)
    <3>1. slot[i] \in 0..(k - 1) /\ slot[j] \in k..(k + l - 1)
      BY <1>6, <2>6
    <3> HIDE DEF slot, k, l, Old
    <3> QED BY <1>2, <3>1
  <2>7. CASE ~Old(i) /\ Old(j)
    <3>1. slot[i] \in k..(k + l - 1) /\ slot[j] \in 0..(k - 1)
      BY <1>6, <2>7
    <3> HIDE DEF slot, k, l, Old
    <3> QED BY <1>2, <3>1
  <2> HIDE DEF slot, Old
  <2> QED BY <2>4, <2>5, <2>6, <2>7
<1> HIDE DEF slot, k, l
<1>8. slot \in [1..Len(t) -> 0..(k + l - 1)]
  <2>1. \A i \in 1..Len(t) : slot[i] \in 0..(k + l - 1)
    <3> HIDE DEF Old
    <3> QED BY <1>2, <1>6
  <2> QED BY <2>1 DEF slot
<1>9. /\ IsFiniteSet(1..Len(t)) /\ Cardinality(1..Len(t)) = Len(t)
      /\ IsFiniteSet(0..(k + l - 1)) /\ Cardinality(0..(k + l - 1)) = k + l
  <2>1. IsFiniteSet(1..Len(t)) /\ Cardinality(1..Len(t)) = IF 1 > Len(t) THEN 0 ELSE Len(t) - 1 + 1
    BY <1>1, FS_Interval
  <2>2. /\ IsFiniteSet(0..(k + l - 1))
        /\ Cardinality(0..(k + l - 1)) = IF 0 > k + l - 1 THEN 0 ELSE k + l - 1 - 0 + 1
    BY <1>2, FS_Interval
  <2> QED BY <1>1, <1>2, <2>1, <2>2
<1>10. SUFFICES ASSUME Len(t) > k + l PROVE FALSE
  BY <1>1, <1>2 DEF k, l
<1>11. \E i, j \in 1..Len(t) : i # j /\ slot[i] = slot[j]
  <2>1. Cardinality(0..(k + l - 1)) < Cardinality(1..Len(t))
    BY <1>1, <1>2, <1>9, <1>10
  <2> QED BY <1>8, <1>9, <2>1, FS_PigeonHole
<1>12. PICK i \in 1..Len(t), j \in 1..Len(t) : i # j /\ slot[i] = slot[j]
  BY <1>11
<1>13. i < j \/ j < i
  BY <1>12
<1> QED BY <1>7, <1>12, <1>13

\* An entry of the history with an interval inserted ends where the interval or
\* an entry of the history ends.
LEMMA InsertedEnds ==
  ASSUME NEW s, H!Tidy(Records, s), NEW new \in Records, new.start < new.end, NEW t, H!Tidy(Records, t),
         H!Joined(t, new, s), NEW i \in 1..Len(t)
  PROVE  \/ t[i].generation = new.generation /\ t[i].end = new.end
         \/ \E j \in 1..Len(s) : t[i].generation = s[j].generation /\ t[i].end = s[j].end
<1> DEFINE g == t[i].generation
           e == t[i].end
<1>1. /\ \A j \in 1..Len(t) : t[j] \in Records /\ t[j].start < t[j].end
      /\ \A j, k \in 1..Len(t) : j < k => H!Apart(t[j], t[k])
      /\ \A j \in 1..Len(s) : s[j] \in Records
      /\ Len(t) \in Nat
  <2>1. t \in Seq(Records) /\ s \in Seq(Records)
    BY DEF H!Tidy
  <2>2. /\ \A j \in 1..Len(t) : t[j] \in Records
        /\ \A j \in 1..Len(s) : s[j] \in Records
        /\ Len(t) \in Nat
    BY <2>1
  <2>3. /\ \A j \in 1..Len(t) : t[j].start < t[j].end
        /\ \A j, k \in 1..Len(t) : j < k => H!Apart(t[j], t[k])
    BY DEF H!Tidy
  <2> QED BY <2>2, <2>3
<1>2. /\ \A j \in 1..Len(t) : t[j].generation \in Nat /\ t[j].start \in Nat /\ t[j].end \in Nat
      /\ \A j \in 1..Len(s) : s[j].generation \in Nat /\ s[j].start \in Nat /\ s[j].end \in Nat
      /\ new.generation \in Nat /\ new.start \in Nat /\ new.end \in Nat
  BY <1>1, RecordFields
<1>3. g \in Nat /\ e \in Nat /\ e - 1 \in Nat
  <2>1. t[i].start \in Nat /\ t[i].end \in Nat /\ t[i].start < t[i].end /\ t[i].generation \in Nat
    BY <1>1, <1>2
  <2> QED BY <2>1
<1>4. H!Covered(t, g, e - 1)
  <2>1. \A x, y \in Nat : x < y => x <= y - 1 /\ y - 1 < y
    OBVIOUS
  <2>2. t[i].start <= e - 1 /\ e - 1 < e
    BY <1>1, <1>2, <2>1
  <2>3. H!Covers(t[i], g, e - 1)
    BY <2>2 DEF H!Covers
  <2> QED BY <2>3 DEF H!Covered
<1>5. ~H!Covered(t, g, e)
  <2> SUFFICES ASSUME NEW j \in 1..Len(t), H!Covers(t[j], g, e) PROVE FALSE
    BY DEF H!Covered
  <2>1. t[j].generation = g /\ t[j].start <= e /\ e < t[j].end
    BY DEF H!Covers
  <2>2. CASE j = i
    BY <1>3, <2>1, <2>2
  <2>3. CASE j < i
    <3>1. t[j].end < t[i].start /\ t[i].start < e
      BY <1>1, <1>2, <2>1, <2>3 DEF H!Apart
    <3> HIDE DEF e
    <3> QED BY <1>2, <1>3, <2>1, <3>1
  <2>4. CASE i < j
    <3>1. e < t[j].start
      BY <1>1, <1>2, <2>1, <2>4 DEF H!Apart
    <3> HIDE DEF e
    <3> QED BY <1>2, <1>3, <2>1, <3>1
  <2> QED BY <1>1, <2>2, <2>3, <2>4
<1> HIDE DEF g, e
<1>6. ~H!Covers(new, g, e) /\ ~H!Covered(s, g, e)
  BY <1>3, <1>5 DEF H!Joined
<1>7. H!Covers(new, g, e - 1) \/ H!Covered(s, g, e - 1)
  BY <1>3, <1>4 DEF H!Joined
<1>8. CASE H!Covers(new, g, e - 1)
  <2>1. new.generation = g /\ new.end = e
    BY <1>2, <1>3, <1>6, <1>8 DEF H!Covers
  <2> QED BY <2>1 DEF g, e
<1>9. CASE H!Covered(s, g, e - 1)
  <2>1. PICK j \in 1..Len(s) : H!Covers(s[j], g, e - 1)
    BY <1>9 DEF H!Covered
  <2>2. ~H!Covers(s[j], g, e)
    BY <1>6 DEF H!Covered
  <2>3. s[j].generation = g /\ s[j].end = e
    BY <1>2, <1>3, <2>1, <2>2 DEF H!Covers
  <2> QED BY <2>3 DEF g, e
<1> QED BY <1>7, <1>8, <1>9

\* A drain finds room if what ends where its records and entries end has room.
Roomed(W, r) ==
  /\ r.ok = TRUE /\ H!Tidy(Records, r.entries) /\ Len(r.entries) <= HistoryCapacity
  /\ Within(W, r.entries)

LEMMA DrainRoom ==
  ASSUME NEW h, H!Tidy(Records, h), Len(h) <= HistoryCapacity, NEW m, Sound(m),
         NEW W, Within(W, h), Within(W, m),
         \A t : H!Tidy(Records, t) /\ Within(W, t) => Len(t) <= HistoryCapacity
  PROVE  Roomed(W, FoldLeft(Delivered, [entries |-> h, ok |-> TRUE], m))
<1> DEFINE base0 == [entries |-> h, ok |-> TRUE]
<1>0. Len(m) \in Nat /\ m \in Seq(Records)
  BY DEF Sound
<1>1. Roomed(W, base0)
  BY DEF Roomed
<1> HIDE DEF base0
<1>2. PICK it : /\ it[{}] = base0
                /\ \A n \in 1..Len(m) : it[1..n] = Delivered(it[1..(n - 1)], m[n])
                /\ FoldLeft(Delivered, base0, m) = it[1..Len(m)]
  BY DrainSteps
<1>3. ASSUME NEW r, Roomed(W, r), NEW n \in 1..Len(m)
      PROVE  Roomed(W, Delivered(r, m[n]))
  <2> DEFINE i == Insert(r.entries, m[n])
  <2>1. m[n] \in Records /\ m[n].start < m[n].end /\ <<m[n].generation, m[n].end>> \in W
    BY <1>0 DEF Sound, Within
  <2>2. /\ i.ok \in BOOLEAN /\ H!Tidy(Records, i.entries) /\ Len(i.entries) <= HistoryCapacity
        /\ \E t : /\ H!Tidy(Records, t) /\ H!Joined(t, m[n], r.entries)
                  /\ i.ok <=> Len(t) <= HistoryCapacity
                  /\ i.ok => i.entries = t
    <3>1. H!Insert(r.entries, m[n]) = i
      BY InsertSame
    <3> HIDE DEF i
    <3> DEFINE E == H!Entries(Nat, MaxSource)
    <3>2. /\ H!Tidy(E, r.entries) /\ Len(r.entries) <= HistoryCapacity
          /\ m[n] \in E /\ MaxSource \in Nat /\ Nat \subseteq Nat
      BY <1>3, <2>1, SyncAssumption DEF Roomed, Records
    <3>3. H!Whole(E, r.entries, m[n], H!Insert(r.entries, m[n]))
      BY <2>1, <3>2, HistoryCapacityAssumption, H!InsertWhole
    <3>4. H!Whole(Records, r.entries, m[n], i)
      BY <3>1, <3>3 DEF Records
    <3> QED BY <3>4 DEF H!Whole
  <2>3. Delivered(r, m[n]) = [entries |-> i.entries, ok |-> r.ok /\ i.ok]
    BY DEF Delivered
  <2> HIDE DEF i
  <2>4. PICK t : /\ H!Tidy(Records, t) /\ H!Joined(t, m[n], r.entries)
                 /\ i.ok <=> Len(t) <= HistoryCapacity
                 /\ i.ok => i.entries = t
    BY <2>2
  <2>5. Within(W, t)
    <3> SUFFICES ASSUME NEW k \in 1..Len(t) PROVE <<t[k].generation, t[k].end>> \in W
      BY DEF Within
    <3>1. \/ t[k].generation = m[n].generation /\ t[k].end = m[n].end
          \/ \E j \in 1..Len(r.entries) :
               t[k].generation = r.entries[j].generation /\ t[k].end = r.entries[j].end
      <4>1. H!Tidy(Records, r.entries) /\ H!Tidy(Records, t) /\ m[n] \in Records /\ m[n].start < m[n].end
        BY <1>3, <2>1, <2>4 DEF Roomed
      <4> QED BY <2>4, <4>1, InsertedEnds
    <3> QED BY <1>3, <2>1, <3>1 DEF Roomed, Within
  <2>6. i.ok = TRUE /\ i.entries = t
    BY <2>2, <2>4, <2>5
  <2> QED BY <1>3, <2>2, <2>3, <2>5, <2>6 DEF Roomed
<1> DEFINE S == {n \in Nat : n <= Len(m) => Roomed(W, it[1..n])}
<1>5. 0 \in S
  <2>1. it[1..0] = base0
    BY <1>2
  <2> QED BY <1>1, <2>1
<1>6. ASSUME NEW n \in Nat, n \in S PROVE n + 1 \in S
  <2> SUFFICES ASSUME n + 1 <= Len(m) PROVE Roomed(W, it[1..(n + 1)])
    OBVIOUS
  <2>1. Roomed(W, it[1..n])
    BY <1>0, <1>6
  <2>2. n + 1 \in 1..Len(m) /\ it[1..(n + 1)] = Delivered(it[1..n], m[n + 1])
    <3>1. n + 1 \in 1..Len(m) /\ (n + 1) - 1 = n
      BY <1>0
    <3> QED BY <1>2, <3>1
  <2> QED BY <1>3, <2>1, <2>2
<1>7. Nat \subseteq S
  <2> HIDE DEF S
  <2> QED BY <1>5, <1>6, HistoryCapacityAssumption, SyncAssumption, H!Induction
<1>8. Roomed(W, it[1..Len(m)])
  BY <1>0, <1>7
<1> QED BY <1>2, <1>8 DEF base0

\* What is reached is still to play, or can come to be: from here on positions
\* were or will be played in one piece.
Reached(p) ==
  IF base # None THEN Ahead(p)
  ELSE \/ p >= position
       \/ \E j \in 1..Len(queue) : queue[j].stamp # None /\ position - Len(queue) + j - 1 <= p

\* An interval is late if its burst ended less than a capacity beyond it.  It is
\* fresh if it reaches, with some slack, what is still to play.
Late(x, h, o) == x[1] = h /\ x[2] <= o /\ o < x[2] + Capacity
Fresh(x, slack) ==
  /\ Live /\ x[1] = generation /\ x[2] <= position + Pending
  /\ Reached(x[2] + slack)
Lates(h, o) == {x \in Nat \X Nat : Late(x, h, o)}
Allowed(h, o, slack) == {x \in Nat \X Nat : Late(x, h, o) \/ Fresh(x, slack)}

Stocked ==
  /\ fault = FALSE /\ Len(queue) <= Capacity /\ LowIndex <= taken + Len(queue)
  /\ cstep = "completeFailed" => end # NoEnd

\* Positions on the line follow one another without a gap, up to the next output.
Dense ==
  base # None =>
    \A i \in 1..Lookahead : line[i].position # None =>
      /\ LowIndex + Offset <= line[i].position.low + (Lookahead - i + 1)
      /\ \/ line[i].position.low + 1 = LowIndex + Offset
         \/ \E j \in (i + 1)..Lookahead :
              line[j].position # None /\ line[j].position.low = line[i].position.low + 1

\* A boundary that a render call has seen is behind everything in the mail.
Settled == end # NoEnd /\ cstep # "idle" => Within(Lates(generation, position), mail)

\* Only one burst that ended has intervals left.  In a render call the mail
\* still has to stand the output that the call plays.
Recent(h, o) ==
  /\ Within(Allowed(h, o, Capacity), history)
  /\ Within(Allowed(h, o, IF InCall THEN Capacity - 1 ELSE Capacity), mail)
  /\ pstep = "mutePublish" /\ stamp # None /\ ~Live => h = generation /\ o = position

RoomInv == MuteInv /\ Stocked /\ Dense /\ Settled /\ \E h, o \in Nat : Recent(h, o)

LEMMA RoomTypes ==
  ASSUME MuteInv
  PROVE  /\ LowIndex \in Int /\ Offset \in Int /\ position \in Nat /\ Len(queue) \in Nat /\ taken \in Nat
         /\ played \in Nat /\ Capacity \in Nat /\ Lookahead \in Nat /\ generation \in Nat /\ Pending \in Nat
         /\ LowIndex <= played /\ Offset = position - taken - Len(queue)
         /\ \A i \in 1..Lookahead : /\ line[i] \in Cells
                                    /\ line[i].position # None => line[i].position.low \in Nat
<1>1. LowIndex \in Int /\ Offset \in Int /\ played \in Nat /\ LowIndex <= played
  <2>1. LowIndex \in Int /\ HighIndex \in Int /\ LowIndex <= HighIndex /\ HighIndex <= played
    BY IndexFacts DEF MuteInv
  <2>2. Offset \in Int /\ played \in Nat
    BY IndexFacts DEF MuteInv
  <2> HIDE DEF LowIndex, HighIndex
  <2> QED BY <2>1, <2>2
<1>2. position \in Nat /\ Len(queue) \in Nat /\ taken \in Nat /\ generation \in Nat /\ job \in Nat
  BY SyncAssumption DEF MuteInv, CoreInv, Types
<1>3. Pending \in Nat
  BY <1>2 DEF Pending
<1>4. ASSUME NEW i \in 1..Lookahead
      PROVE  line[i] \in Cells /\ (line[i].position # None => line[i].position.low \in Nat)
  <2>1. line \in Seq(Cells) /\ Len(line) = Lookahead
    BY DEF MuteInv, Carries
  <2>2. line[i] \in Cells
    BY <2>1
  <2> QED BY <2>2, CellFields
<1> QED BY <1>1, <1>2, <1>3, <1>4, SyncAssumption DEF Offset

LEMMA ReachedUp ==
  ASSUME MuteInv, NEW p \in Int, NEW q \in Int, p <= q, Reached(p)
  PROVE  Reached(q)
<1>0. /\ LowIndex + Offset \in Int /\ position \in Int /\ Len(queue) \in Int
      /\ \A i \in 1..Lookahead : line[i].position # None => line[i].position.low \in Int
  <2>1. /\ LowIndex \in Int /\ Offset \in Int /\ position \in Nat /\ Len(queue) \in Nat
        /\ \A i \in 1..Lookahead : line[i].position # None => line[i].position.low \in Nat
    BY RoomTypes
  <2> HIDE DEF LowIndex, Offset
  <2> QED BY <2>1
<1>1. CASE base # None
  <2>1. Ahead(p)
    BY <1>1 DEF Reached
  <2>2. CASE p >= LowIndex + Offset
    <3>1. q >= LowIndex + Offset
      <4> DEFINE x == LowIndex + Offset
      <4> HIDE DEF x
      <4> QED BY <1>0, <2>2 DEF x
    <3> QED BY <1>1, <3>1 DEF Reached, Ahead
  <2>3. CASE \E i \in 1..Lookahead : line[i].position # None /\ line[i].position.low <= p
    <3>1. PICK i \in 1..Lookahead : line[i].position # None /\ line[i].position.low <= p
      BY <2>3
    <3>2. line[i].position.low <= q
      BY <1>0, <3>1
    <3> QED BY <1>1, <3>1, <3>2 DEF Reached, Ahead
  <2> QED BY <1>1, <2>1, <2>2, <2>3 DEF Ahead
<1>2. CASE base = None
  <2>1. CASE p >= position
    <3>1. q >= position
      BY <1>0, <2>1
    <3> QED BY <1>2, <3>1 DEF Reached
  <2>2. CASE \E j \in 1..Len(queue) : queue[j].stamp # None /\ position - Len(queue) + j - 1 <= p
    <3>1. PICK j \in 1..Len(queue) : queue[j].stamp # None /\ position - Len(queue) + j - 1 <= p
      BY <2>2
    <3>2. position - Len(queue) + j - 1 <= q
      BY <1>0, <3>1
    <3> QED BY <1>2, <3>1, <3>2 DEF Reached
  <2> QED BY <1>2, <2>1, <2>2 DEF Reached
<1> QED BY <1>1, <1>2

\* The next sample to come is reached.
LEMMA ReachedNext ==
  ASSUME MuteInv, Stocked
  PROVE  Reached(position)
<1>1. LowIndex + Offset <= position
  <2>1. LowIndex \in Int /\ Offset = position - taken - Len(queue) /\ LowIndex <= taken + Len(queue)
    BY RoomTypes DEF Stocked
  <2>2. \A a, b, c, d \in Int : a <= c + d => a + (b - c - d) <= b
    OBVIOUS
  <2>3. position \in Int /\ taken \in Int /\ Len(queue) \in Int
    BY RoomTypes
  <2> HIDE DEF LowIndex, Offset
  <2> QED BY <2>1, <2>2, <2>3
<1>2. position \in Int /\ LowIndex + Offset \in Int
  BY RoomTypes
<1> QED BY <1>1, <1>2 DEF Reached, Ahead

\* What is allowed stays so while no more than what is reached comes to be.
LEMMA AllowedKept ==
  ASSUME MuteInv, MuteInv', NEW h, NEW o, NEW a \in Int, NEW b \in Int,
         Live => Live' /\ generation' = generation /\ position + Pending <= position' + Pending',
         Live => \A e \in Nat : Reached(e + a) => Reached(e + b)'
  PROVE  Allowed(h, o, a) \subseteq Allowed(h, o, b)'
<1> SUFFICES ASSUME NEW x \in Nat \X Nat, Fresh(x, a) PROVE Fresh(x, b)'
  BY DEF Allowed
<1>1. Live /\ x[1] = generation /\ x[2] <= position + Pending /\ Reached(x[2] + a) /\ x[2] \in Nat
  BY DEF Fresh
<1>2. position + Pending \in Nat /\ position' + Pending' \in Nat
  <2>1. position \in Nat /\ Pending \in Nat
    BY RoomTypes
  <2>2. position' \in Nat /\ Pending' \in Nat
    <3>1. position' \in Nat /\ job' \in Nat
      BY SyncAssumption DEF MuteInv, CoreInv, Types
    <3> QED BY <3>1 DEF Pending
  <2>3. \A y, z \in Nat : y + z \in Nat
    OBVIOUS
  <2> QED BY <2>1, <2>2, <2>3
<1>3. x[2] <= position' + Pending'
  <2> DEFINE t == position + Pending
             u == position' + Pending'
  <2> HIDE DEF t, u
  <2> QED BY <1>1, <1>2 DEF t, u
<1>4. Reached(x[2] + b)'
  BY <1>1
<1> QED BY <1>1, <1>3, <1>4 DEF Fresh

LEMMA WithinBy ==
  ASSUME NEW s, NEW W, \A i \in 1..Len(s) : <<s[i].generation, s[i].end>> \in W
  PROVE  Within(W, s)
BY DEF Within

LEMMA WithinUp ==
  ASSUME NEW s, NEW V, NEW W, Within(V, s), V \subseteq W
  PROVE  Within(W, s)
BY DEF Within

\* The steps that add nothing to the mail and drop from the store either all or
\* nothing.
LEMMA RoomKept ==
  ASSUME RoomInv, MuteInv', Stocked', Dense', Settled', history' = history, mail' = mail \/ mail' = <<>>,
         Live => Live' /\ generation' = generation /\ position + Pending <= position' + Pending',
         Live => \A p \in Int : Reached(p) => Reached(p)', InCall' => InCall,
         pstep' = "mutePublish" /\ stamp' # None /\ ~Live' =>
           pstep = "mutePublish" /\ stamp # None /\ ~Live /\ generation' = generation /\ position' = position
  PROVE  RoomInv'
<1>1. PICK h \in Nat, o \in Nat : Recent(h, o)
  BY DEF RoomInv
<1>2. MuteInv /\ Capacity \in Nat
  BY SyncAssumption DEF RoomInv
<1>3. ASSUME NEW a \in Int, NEW b \in Int, a <= b, a >= -1 PROVE Allowed(h, o, a) \subseteq Allowed(h, o, b)'
  <2>1. ASSUME Live, NEW e \in Nat, Reached(e + a) PROVE Reached(e + b)'
    <3>1. e + a \in Int /\ e + b \in Int /\ e + a <= e + b
      BY <1>3
    <3>2. Reached(e + b)
      BY <1>2, <2>1, <3>1, ReachedUp
    <3> QED BY <2>1, <3>1, <3>2
  <2> QED BY <1>2, <2>1, AllowedKept
<1>4. PICK a \in Int, b \in Int : /\ a = (IF InCall THEN Capacity - 1 ELSE Capacity)
                                  /\ b = (IF InCall' THEN Capacity - 1 ELSE Capacity)
                                  /\ a <= b /\ a >= -1
  <2>1. Capacity \in Int /\ Capacity - 1 \in Int /\ Capacity - 1 <= Capacity /\ Capacity - 1 >= -1 /\ Capacity <= Capacity
    BY <1>2
  <2> QED BY <2>1
<1>5. Within(Allowed(h, o, a), mail) /\ Within(Allowed(h, o, Capacity), history)
  BY <1>1, <1>4 DEF Recent
<1>6. Allowed(h, o, a) \subseteq Allowed(h, o, b)'
  BY <1>3, <1>4
<1>7. Allowed(h, o, Capacity) \subseteq Allowed(h, o, Capacity)'
  BY <1>2, <1>3
<1>8. Within(Allowed(h, o, b)', mail')
  <2>1. CASE mail' = mail
    BY <1>5, <1>6, <2>1, WithinUp
  <2>2. CASE mail' = <<>>
    BY <2>2 DEF Within
  <2> QED BY <2>1, <2>2
<1>9. Within(Allowed(h, o, Capacity)', history')
  BY <1>5, <1>7, WithinUp
<1>10. pstep' = "mutePublish" /\ stamp' # None /\ ~Live' => h = generation' /\ o = position'
  BY <1>1 DEF Recent
<1>11. Recent(h, o)'
  <2>1. Within(Allowed(h, o, b), mail)' /\ Within(Allowed(h, o, Capacity), history)'
    BY <1>8, <1>9 DEF Within
  <2> QED BY <1>4, <1>10, <2>1 DEF Recent
<1> QED BY <1>1, <1>11 DEF RoomInv

\* Steps that move no sample, no interval and no output.
LEMMA RoomQuiet ==
  ASSUME RoomInv, MuteInv',
         UNCHANGED <<queue, mail, history, fault, base, taken, played, line, generation, position, end>>,
         Live' = Live, Pending' = Pending, InCall' => InCall,
         cstep' # cstep => cstep # "idle" /\ (cstep' = "completeFailed" => end # NoEnd),
         pstep' = "mutePublish" =>
           (pstep = "mutePublish" /\ stamp' = stamp) \/ (stamp' # None => Live)
  PROVE  RoomInv'
<1>1. LowIndex' = LowIndex /\ Offset' = Offset
  BY DEF LowIndex, Offset
<1>2. Stocked'
  BY <1>1 DEF RoomInv, Stocked
<1>3. Dense'
  BY <1>1 DEF RoomInv, Dense
<1>4. Settled'
  BY DEF RoomInv, Settled, Within, Lates, Late
<1>5. \A p : Reached(p)' <=> Reached(p)
  BY <1>1 DEF Reached, Ahead
<1>6. position + Pending <= position' + Pending'
  <2>1. position + Pending \in Int
    <3>1. position \in Nat /\ Pending \in Nat
      BY RoomTypes DEF RoomInv
    <3> QED BY <3>1
  <2> QED BY <2>1
<1> QED BY <1>2, <1>3, <1>4, <1>5, <1>6, RoomKept

LEMMA CallRoom ==
  ASSUME RoomInv, MuteInv',
         \/ \E step \in {"sync", "plain", "mute"} : \E n \in Nat : Begin(step, n) /\ MayCall
         \/ Sync("sync", "gate") \/ Sync("plain", "plainGate") \/ Sync("mute", "mutePublish")
         \/ TaggedGate \/ TaggedCredit \/ Finish \/ Ack
  PROVE  RoomInv'
<1>1. ASSUME NEW step \in {"sync", "plain", "mute"}, NEW n \in Nat, Begin(step, n), MayCall PROVE RoomInv'
  BY <1>1, RoomQuiet DEF Begin, MayCall, consumerVars, cacheVars, InCall, Live, Pending
<1>2. CASE Sync("sync", "gate") \/ Sync("plain", "plainGate") \/ Sync("mute", "mutePublish")
  BY <1>2, RoomQuiet DEF Sync, SyncedStamp, consumerVars, cacheVars, InCall, Live, Pending
<1>3. CASE TaggedGate
  BY <1>3, RoomQuiet DEF TaggedGate, Return, consumerVars, cacheVars, InCall, Live, Pending
<1>4. CASE TaggedCredit
  BY <1>4, RoomQuiet DEF TaggedCredit, Return, consumerVars, cacheVars, InCall, Live, Pending
<1>5. CASE Finish
  BY <1>5, RoomQuiet DEF Finish, producerVars, consumerVars, cacheVars, InCall, Live, Pending
<1>6. CASE Ack
  BY <1>6, RoomQuiet DEF Ack, producerVars, cacheVars, InCall, Live, Pending
<1> QED BY <1>1, <1>2, <1>3, <1>4, <1>5, <1>6

\* One more sample: what it adds is reached from its stamp on.
LEMMA StoredRoom ==
  ASSUME RoomInv, MuteInv', NEW left \in Nat, NEW tagged \in BOOLEAN, Stored(left, tagged),
         pstep \in {"push", "plainGate"}, tagged <=> pstep = "push", left = IF tagged THEN job - 1 ELSE 0,
         Len(queue) < Capacity
  PROVE  RoomInv'
<1> DEFINE sample == [stamp |-> SyncedStamp,
                      true |-> IF tagged THEN [generation |-> generation, source |-> position]
                               ELSE None]
<1>1. /\ queue' = Append(queue, sample) /\ moved' = FALSE /\ position' = position + 1
      /\ stamp' = (IF SyncedStamp = None THEN None ELSE [stamp EXCEPT !.source = @ + 1])
      /\ \/ left = 0 /\ pstep' = "idle" /\ job' = 0
         \/ left # 0 /\ pstep' = "push" /\ job' = left /\ tagged
      /\ UNCHANGED <<mail, finish, generation, consumerVars, wanted, carried>>
  BY DEF Stored, Return
<1>2. UNCHANGED <<mail, history, base, taken, played, line, generation, end, cstep, fault>>
  BY <1>1 DEF consumerVars, cacheVars
<1>3. /\ queue \in Seq(Sample) /\ Len(queue) \in Nat /\ position \in Nat /\ taken \in Nat
      /\ sample.stamp = SyncedStamp
  BY SyncAssumption DEF RoomInv, MuteInv, CoreInv, Types
<1> HIDE DEF sample
<1>4. /\ Len(queue') = Len(queue) + 1 /\ queue'[Len(queue) + 1] = sample
      /\ \A i \in 1..Len(queue) : queue'[i] = queue[i] /\ i \in 1..Len(queue')
      /\ Len(queue) + 1 \in 1..Len(queue')
  BY <1>1, <1>3
<1>5. Offset' = Offset
  <2>1. position' - taken' - Len(queue') = (position + 1) - taken - (Len(queue) + 1)
    BY <1>1, <1>2, <1>4
  <2>2. (position + 1) - taken - (Len(queue) + 1) = position - taken - Len(queue)
    BY <1>3
  <2> QED BY <2>1, <2>2 DEF Offset
<1>6. LowIndex' = LowIndex
  BY <1>2 DEF LowIndex
<1>7. Stocked'
  <2>1. LowIndex \in Int /\ LowIndex <= taken + Len(queue) /\ Capacity \in Nat
    BY RoomTypes DEF RoomInv, Stocked
  <2>2. LowIndex <= taken' + Len(queue')
    <3> HIDE DEF LowIndex
    <3> QED BY <1>2, <1>3, <1>4, <2>1
  <2>3. Len(queue') <= Capacity
    BY <1>3, <1>4, <2>1
  <2> QED BY <1>2, <1>6, <2>2, <2>3 DEF RoomInv, Stocked
<1>8. Dense'
  BY <1>2, <1>5, <1>6 DEF RoomInv, Dense
<1>9. end = NoEnd
  BY DEF RoomInv, MuteInv, CoreInv, Control, Publishing
<1>10. Settled'
  BY <1>2, <1>9 DEF Settled
<1>11. ASSUME Live
       PROVE  /\ Live' /\ generation' = generation /\ position + Pending <= position' + Pending'
              /\ \A p \in Int : Reached(p) => Reached(p)'
  <2>1. stamp # None /\ ~moved /\ SyncedStamp = stamp
    BY <1>11 DEF Live, SyncedStamp
  <2>2. stamp \in Stamps /\ stamp' = [stamp EXCEPT !.source = @ + 1]
    BY <1>1, <2>1 DEF RoomInv, MuteInv, CoreInv, Types
  <2>3. stamp' # None
    <3>1. stamp'.generation = stamp.generation /\ DOMAIN stamp' = DOMAIN stamp /\ DOMAIN stamp = {"generation", "source"}
      BY <2>2 DEF Stamps
    <3>2. DOMAIN None = {}
      BY DEF None
    <3> QED BY <3>1, <3>2
  <2>4. Live'
    BY <1>1, <2>3 DEF Live
  <2>5. position + Pending <= position' + Pending'
    <3>1. CASE tagged
      <4>1. Pending = job /\ job \in Nat /\ job >= 1 /\ left = job - 1
        BY <3>1 DEF Pending, RoomInv, MuteInv, CoreInv, Types, Control
      <4>2. Pending' = left
        BY <1>1 DEF Pending
      <4> QED BY <1>1, <1>3, <4>1, <4>2
    <3>2. CASE ~tagged
      <4>1. Pending = 0 /\ Pending' = 0
        BY <1>1, <3>2 DEF Pending
      <4> QED BY <1>1, <1>3, <4>1
    <3> QED BY <3>1, <3>2
  <2>6. ASSUME NEW p \in Int, Reached(p) PROVE Reached(p)'
    <3>1. CASE base # None
      BY <1>2, <1>5, <1>6, <2>6, <3>1 DEF Reached, Ahead
    <3>2. CASE base = None /\ p >= position
      <4>1. position' - Len(queue') + (Len(queue) + 1) - 1 <= p
        BY <1>1, <1>3, <1>4, <3>2
      <4>2. queue'[Len(queue) + 1].stamp # None
        BY <1>3, <1>4, <2>1
      <4> QED BY <1>2, <1>4, <3>2, <4>1, <4>2 DEF Reached
    <3>3. CASE base = None /\ ~(p >= position)
      <4>1. PICK j \in 1..Len(queue) : queue[j].stamp # None /\ position - Len(queue) + j - 1 <= p
        BY <2>6, <3>3 DEF Reached
      <4>2. position' - Len(queue') + j - 1 <= p
        BY <1>1, <1>3, <1>4, <4>1
      <4>3. queue'[j].stamp # None /\ j \in 1..Len(queue')
        BY <1>4, <4>1
      <4> QED BY <1>2, <3>3, <4>2, <4>3 DEF Reached
    <3> QED BY <3>1, <3>2, <3>3
  <2> QED BY <1>1, <2>4, <2>5, <2>6
<1>12. InCall' = InCall /\ pstep' # "mutePublish"
  BY <1>1, <1>2 DEF InCall
<1> QED BY <1>2, <1>7, <1>8, <1>10, <1>11, <1>12, RoomKept

LEMMA PushRoom ==
  ASSUME RoomInv, MuteInv', PushOne
  PROVE  RoomInv'
<1>1. job \in Nat /\ job >= 1 /\ pstep = "push" /\ Stored(job - 1, TRUE) /\ Len(queue) + job <= Capacity
  BY DEF PushOne, RoomInv, MuteInv, CoreInv, Types, Control
<1>2. Len(queue) < Capacity /\ job - 1 \in Nat
  <2>1. Len(queue) \in Nat /\ Capacity \in Nat
    BY RoomTypes DEF RoomInv
  <2> QED BY <1>1, <2>1
<1> QED BY <1>1, <1>2, StoredRoom

LEMMA PlainPushRoom ==
  ASSUME RoomInv, MuteInv', PlainPush
  PROVE  RoomInv'
<1>1. CASE Room > 0 /\ Stored(0, FALSE)
  <2>1. Len(queue) < Capacity
    <3>1. Len(queue) \in Nat /\ Capacity \in Nat
      BY RoomTypes DEF RoomInv
    <3> QED BY <1>1, <3>1 DEF Room
  <2> QED BY <1>1, <2>1, StoredRoom DEF PlainPush
<1>2. CASE /\ Return
           /\ UNCHANGED <<queue, mail, moved, finish, stamp, generation, position,
                          consumerVars, wanted, carried>>
  BY <1>2, RoomQuiet DEF PlainPush, Return, consumerVars, cacheVars, InCall, Live, Pending
<1> QED BY <1>1, <1>2 DEF PlainPush

LEMMA AskedWithin ==
  ASSUME NEW s, NEW t, NEW V, NEW W, NEW first, NEW limit, Within(V, s), V \subseteq W,
         \A i \in 1..Len(t) : (i \in 1..Len(s) /\ t[i] = s[i]) \/ AskedFrom(first, limit, t[i]),
         \A e \in Nat : e <= limit /\ first < e + Capacity => <<generation, e>> \in W
  PROVE  Within(W, t)
<1>1. ASSUME NEW i \in 1..Len(t) PROVE <<t[i].generation, t[i].end>> \in W
  <2>1. CASE i \in 1..Len(s) /\ t[i] = s[i]
    BY <2>1 DEF Within
  <2>2. CASE AskedFrom(first, limit, t[i])
    BY <2>2 DEF AskedFrom
  <2> QED BY <2>1, <2>2
<1> QED BY <1>1, WithinBy

\* A call that asks brings fresh intervals, or late ones of the burst it
\* belonged to.
LEMMA PostedRoom ==
  ASSUME RoomInv, MuteInv', NEW first \in Nat, NEW last \in Nat, NEW limit \in Nat, limit <= MaxSource,
         NEW spans \in SpansFrom(first, last), Posted(spans, limit), first = position,
         UNCHANGED <<queue, generation, position, history, fault, base, taken, played, line, end, cstep>>,
         Live => Live', limit <= position' + Pending', position + Pending <= position' + Pending',
         pstep' # "mutePublish",
         ~Live' => pstep = "mutePublish" /\ stamp # None /\ ~Live /\ limit = position,
         end # NoEnd => limit = position
  PROVE  RoomInv'
<1>1. PICK h \in Nat, o \in Nat : Recent(h, o)
  BY DEF RoomInv
<1>2. /\ MuteInv /\ Stocked /\ Dense /\ Settled /\ CoreInv /\ Sound(mail)
      /\ Capacity \in Nat /\ position \in Nat /\ generation \in Nat
  <2>1. MuteInv /\ Stocked /\ Dense /\ Settled /\ CoreInv /\ Sound(mail)
    BY DEF RoomInv, MuteInv, Store
  <2> QED BY <2>1, RoomTypes
<1>3. LowIndex' = LowIndex /\ Offset' = Offset
  BY DEF LowIndex, Offset
<1>4. \A p : Reached(p)' <=> Reached(p)
  BY <1>3 DEF Reached, Ahead
<1>5. Stocked' /\ Dense'
  BY <1>2, <1>3 DEF Stocked, Dense
<1>6. \A k \in 1..Len(mail') : \/ k \in 1..Len(mail) /\ mail'[k] = mail[k]
                              \/ AskedFrom(position, limit, mail'[k])
  BY <1>2, PostedFacts
<1>7. ASSUME NEW V, NEW W, Within(V, mail), V \subseteq W,
             \A e \in Nat : e <= limit /\ position < e + Capacity => <<generation, e>> \in W
      PROVE  Within(W, mail')
  BY <1>6, <1>7, AskedWithin
<1>8. ASSUME NEW e \in Nat, e <= position, position < e + Capacity PROVE <<generation, e>> \in Lates(generation, position)
  BY <1>2, <1>8 DEF Lates, Late
<1>9. Settled'
  <2>1. ASSUME end # NoEnd, cstep # "idle" PROVE Within(Lates(generation, position), mail')
    <3>1. Within(Lates(generation, position), mail) /\ limit = position
      BY <1>2, <2>1 DEF Settled
    <3> QED BY <1>7, <1>8, <3>1
  <2>2. Lates(generation, position)' = Lates(generation, position)
    BY DEF Lates, Late
  <2>3. end # NoEnd /\ cstep # "idle" => Within(Lates(generation, position)', mail')
    BY <2>1, <2>2
  <2> QED BY <2>3 DEF Settled
<1>10. PICK a \in Int : a = (IF InCall THEN Capacity - 1 ELSE Capacity) /\ a >= Capacity - 1
  BY <1>2
<1>11. Allowed(h, o, a) \subseteq Allowed(h, o, a)' /\ Allowed(h, o, Capacity) \subseteq Allowed(h, o, Capacity)'
  BY <1>2, <1>4, AllowedKept
<1>12. ASSUME NEW e \in Nat, e <= limit, position < e + Capacity PROVE <<generation, e>> \in Allowed(h, o, a)'
  <2>1. CASE Live'
    <3>1. Reached(e + a)
      <4>1. position \in Int /\ e + a \in Int /\ position <= e + a
        BY <1>2, <1>10, <1>12
      <4>2. Reached(position)
        BY <1>2, ReachedNext
      <4> QED BY <1>2, <4>1, <4>2, ReachedUp
    <3>2. e <= position' + Pending'
      <4>1. position' + Pending' \in Nat
        <5>1. position' \in Nat /\ job' \in Nat
          BY SyncAssumption DEF MuteInv, CoreInv, Types
        <5>2. Pending' \in Nat
          BY <5>1 DEF Pending
        <5>3. \A y, z \in Nat : y + z \in Nat
          OBVIOUS
        <5> QED BY <5>1, <5>2, <5>3
      <4> DEFINE t == position' + Pending'
      <4> HIDE DEF t
      <4> QED BY <1>12, <4>1 DEF t
    <3>3. Reached(e + a)'
      BY <1>4, <3>1
    <3> QED BY <1>2, <2>1, <3>2, <3>3 DEF Allowed, Fresh
  <2>2. CASE ~Live'
    <3>1. h = generation /\ o = position /\ limit = position
      BY <1>1, <2>2 DEF Recent
    <3> QED BY <1>2, <1>12, <3>1 DEF Allowed, Late
  <2> QED BY <2>1, <2>2
<1>13. Within(Allowed(h, o, a)', mail')
  <2>1. Within(Allowed(h, o, a), mail)
    BY <1>1, <1>10 DEF Recent
  <2> QED BY <1>7, <1>11, <1>12, <2>1
<1>14. Within(Allowed(h, o, Capacity)', history')
  <2>1. Within(Allowed(h, o, Capacity), history)
    BY <1>1 DEF Recent
  <2> QED BY <1>11, <2>1, WithinUp
<1>15. Recent(h, o)'
  <2>1. Within(Allowed(h, o, a), mail)' /\ Within(Allowed(h, o, Capacity), history)'
    BY <1>13, <1>14 DEF Within
  <2>2. a = (IF InCall' THEN Capacity - 1 ELSE Capacity)
    BY <1>10 DEF InCall
  <2> QED BY <2>1, <2>2 DEF Recent
<1> QED BY <1>5, <1>9, <1>15 DEF RoomInv

LEMMA TaggedPublishRoom ==
  ASSUME RoomInv, MuteInv', TaggedPublish
  PROVE  RoomInv'
<1>1. /\ CoreInv /\ pstep = "publish" /\ pstep' = "push" /\ job \in Nat /\ job' = job
      /\ position \in Nat /\ position + job <= MaxSource /\ finish # "pending" /\ ~moved
      /\ end = NoEnd /\ stamp' = [generation |-> generation, source |-> position]
      /\ UNCHANGED <<queue, moved, finish, generation, position, consumerVars>>
  BY SyncAssumption DEF TaggedPublish, RoomInv, MuteInv, CoreInv, Types, Control, Publishing
<1>2. PICK spans \in SpansFrom(position, position + Capacity) : Posted(spans, position + job)
  BY DEF TaggedPublish
<1>3. /\ position + Capacity \in Nat /\ position + job \in Nat /\ position + job <= position' + Pending'
      /\ position + Pending <= position' + Pending'
  BY <1>1, SyncAssumption DEF Pending
<1>4. Live'
  <2>1. DOMAIN stamp' = {"generation", "source"} /\ DOMAIN None = {}
    BY <1>1 DEF None
  <2> QED BY <1>1, <2>1 DEF Live
<1>5. UNCHANGED <<queue, generation, position, history, fault, base, taken, played, line, end, cstep>>
  BY <1>1 DEF consumerVars, cacheVars
<1>6. ASSUME NEW first \in Nat, NEW last \in Nat, NEW limit \in Nat,
             first = position, last = position + Capacity, limit = position + job
      PROVE  RoomInv'
  BY <1>1, <1>2, <1>3, <1>4, <1>5, <1>6, PostedRoom
<1> QED BY <1>1, <1>3, <1>6

LEMMA MutePublishRoom ==
  ASSUME RoomInv, MuteInv', MutePublish
  PROVE  RoomInv'
<1>1. /\ CoreInv /\ pstep = "mutePublish" /\ pstep' = "idle"
      /\ UNCHANGED <<queue, moved, finish, stamp, generation, position, consumerVars, carried>>
  BY DEF MutePublish, Return, RoomInv, MuteInv
<1>2. CASE /\ stamp # None /\ stamp.generation = generation
           /\ \E spans \in SpansFrom(stamp.source, stamp.source) : Posted(spans, stamp.source)
  <2>1. stamp.source = position /\ position \in Nat /\ position <= MaxSource
    BY <1>1, <1>2, SyncAssumption DEF RoomInv, MuteInv, Asking, CoreInv, Types
  <2>2. PICK spans \in SpansFrom(stamp.source, stamp.source) : Posted(spans, stamp.source)
    BY <1>2
  <2>3. position <= position' + Pending' /\ position + Pending <= position' + Pending'
    BY <1>1, <2>1 DEF Pending
  <2>4. UNCHANGED <<queue, generation, position, history, fault, base, taken, played, line, end, cstep>>
    BY <1>1 DEF consumerVars, cacheVars
  <2>5. Live' = Live
    BY <1>1 DEF Live
  <2>6. ASSUME NEW first \in Nat, first = stamp.source PROVE RoomInv'
    BY <1>1, <1>2, <2>1, <2>2, <2>3, <2>4, <2>5, <2>6, PostedRoom
  <2> QED BY <2>1, <2>6
<1>3. CASE UNCHANGED <<mail, wanted>>
  BY <1>1, <1>3, RoomQuiet DEF consumerVars, cacheVars, InCall, Live, Pending
<1> QED BY <1>2, <1>3 DEF MutePublish

LEMMA NewGenerationRoom ==
  ASSUME RoomInv, MuteInv', AwaitsCompletion, NewGeneration
  PROVE  RoomInv'
<1>1. /\ ~Live /\ base = None /\ end = NoEnd /\ pstep = "idle" /\ pstep' = "idle"
      /\ UNCHANGED <<queue, mail, stamp, moved, cstep, history, fault, base, taken, played, line, end>>
  BY DEF NewGeneration, MayPublish, MayCall, consumerVars, cacheVars, producerVars, RoomInv, MuteInv, CoreInv,
         Control, Based, Live
<1>2. Stocked' /\ Dense' /\ Settled'
  BY <1>1 DEF RoomInv, Stocked, LowIndex, Dense, Settled
<1> QED BY <1>1, <1>2, RoomKept DEF InCall

\* As far as an interval that is fresh can end from the last sample known
\* accepted: two capacities, what a refill takes ahead, the lookahead and the
\* converter delay.  A history with room for the entries of such a stretch and
\* of the capacity an ended burst leaves is ample.
Delay   == (HalfDelay + 1) \div 2
Stretch == 2 * Capacity + Quantum + Lookahead + Delay + 1
Ample   == (Capacity + 1) \div 2 + (Stretch + 1) \div 2 <= HistoryCapacity

\* What is reached is not far behind what is accepted.
LEMMA ReachedNear ==
  ASSUME RoomInv, NEW p \in Int, Reached(p)
  PROVE  position + Pending <= p + Capacity + Quantum + Lookahead + Delay
<1>1. /\ LowIndex \in Int /\ position \in Nat /\ Len(queue) \in Nat /\ taken \in Nat
      /\ played \in Nat /\ Capacity \in Nat /\ Lookahead \in Nat /\ Pending \in Nat
      /\ Offset = position - taken - Len(queue) /\ Quantum \in Nat
      /\ \A i \in 1..Lookahead : line[i].position # None => line[i].position.low \in Nat
  BY RoomTypes, SyncAssumption DEF RoomInv
<1>2. Delay \in Nat /\ LowIndex = played - Delay
  <2>1. HalfDelay \in Nat
    BY SyncAssumption
  <2>2. \A a, b \in Nat : (2 * a - b) \div 2 = a - (b + 1) \div 2 /\ (b + 1) \div 2 \in Nat
    OBVIOUS
  <2> QED BY <1>1, <2>1, <2>2 DEF LowIndex, Delay
<1>3. Len(queue) + Pending <= Capacity
  <2>1. Len(queue) <= Capacity /\ job \in Nat /\ (pstep = "push" => Len(queue) + job <= Capacity)
    BY DEF RoomInv, Stocked, MuteInv, CoreInv, Types, Control
  <2> QED BY <1>1, <2>1 DEF Pending
<1>4. taken - played <= Quantum
  BY DEF RoomInv, MuteInv, CoreInv, Pace
<1> DEFINE low == LowIndex + Offset
<1>5. low \in Int /\ position + Pending <= low + Capacity + Quantum + Delay
  <2>1. low = played - Delay + (position - taken - Len(queue))
    BY <1>1, <1>2
  <2>2. \A c, d, k, l, n, q, t, x, z \in Int :
          l + n <= c /\ t - k <= q => z + n <= (k - d + (z - t - l)) + c + q + d
    OBVIOUS
  <2>3. \A d, k, l, t, z \in Int : k - d + (z - t - l) \in Int
    OBVIOUS
  <2> HIDE DEF low, LowIndex, Offset, Delay
  <2>4. Capacity \in Int /\ Delay \in Int /\ played \in Int /\ Len(queue) \in Int /\ Pending \in Int
        /\ Quantum \in Int /\ taken \in Int /\ position \in Int
    BY <1>1, <1>2
  <2> QED BY <1>3, <1>4, <2>1, <2>2, <2>3, <2>4
<1>6. CASE base # None
  <2>1. Ahead(p)
    BY <1>6 DEF Reached
  <2>2. CASE p >= low
    <3> HIDE DEF low, Delay
    <3> QED BY <1>1, <1>2, <1>5, <2>2
  <2>3. CASE \E i \in 1..Lookahead : line[i].position # None /\ line[i].position.low <= p
    <3>1. PICK i \in 1..Lookahead : line[i].position # None /\ line[i].position.low <= p
      BY <2>3
    <3>2. low <= line[i].position.low + (Lookahead - i + 1)
      BY <1>6, <3>1 DEF RoomInv, Dense
    <3>3. line[i].position.low \in Nat /\ i \in Nat /\ i >= 1
      BY <1>1, <3>1
    <3>4. \A c, d, i1, k, l, q, v, x, z \in Int :
            /\ x <= v + (l - i1 + 1) /\ i1 >= 1 /\ v <= p /\ z <= x + c + q + d
            => z <= p + c + q + l + d
      OBVIOUS
    <3>5. position + Pending \in Int
      BY <1>1
    <3> HIDE DEF low, Delay
    <3> QED BY <1>1, <1>2, <1>5, <3>1, <3>2, <3>3, <3>4, <3>5
  <2> QED BY <1>6, <2>1, <2>2, <2>3 DEF Ahead
<1>7. CASE base = None
  <2>1. p >= position - Len(queue)
    <3>1. CASE p >= position
      BY <1>1, <3>1
    <3>2. CASE ~(p >= position)
      <4>1. PICK j \in 1..Len(queue) : position - Len(queue) + j - 1 <= p
        BY <1>7, <3>2 DEF Reached
      <4> QED BY <1>1, <4>1
    <3> QED BY <3>1, <3>2
  <2> HIDE DEF Delay
  <2> QED BY <1>1, <1>2, <1>3, <2>1
<1> QED BY <1>6, <1>7

\* So what is allowed lies in two windows, for which an ample history has room.
LEMMA AllowedFits ==
  ASSUME RoomInv, Ample, NEW h \in Nat, NEW o \in Nat,
         NEW t, H!Tidy(Records, t), Within(Allowed(h, o, Capacity), t)
  PROVE  Len(t) <= HistoryCapacity
<1> DEFINE T == position + Pending
           a == T - Stretch
<1>1. /\ Capacity \in Nat /\ generation \in Nat /\ T \in Nat /\ Stretch \in Nat /\ a \in Int /\ Delay \in Nat
      /\ Quantum \in Nat /\ Lookahead \in Nat
  <2>1. Capacity \in Nat /\ generation \in Nat /\ position \in Nat /\ Pending \in Nat
    BY RoomTypes DEF RoomInv
  <2>2. Delay \in Nat /\ Quantum \in Nat /\ Lookahead \in Nat
    BY SyncAssumption DEF Delay
  <2>3. Stretch \in Nat
    <3> HIDE DEF Delay
    <3> QED BY <2>1, <2>2 DEF Stretch
  <2> HIDE DEF Stretch
  <2> QED BY <2>1, <2>2, <2>3
<1>2. Allowed(h, o, Capacity) \subseteq Window(generation, a, Stretch) \cup Window(h, o - Capacity, Capacity)
  <2> SUFFICES ASSUME NEW x \in Nat \X Nat, Late(x, h, o) \/ Fresh(x, Capacity)
               PROVE  x \in Window(generation, a, Stretch) \cup Window(h, o - Capacity, Capacity)
    BY DEF Allowed
  <2>1. x = <<x[1], x[2]>> /\ x[1] \in Nat /\ x[2] \in Nat
    OBVIOUS
  <2>2. CASE Late(x, h, o)
    <3>1. x[1] = h /\ x[2] \in (o - Capacity + 1)..((o - Capacity) + Capacity)
      BY <1>1, <2>1, <2>2 DEF Late
    <3>2. <<h, x[2]>> \in Window(h, o - Capacity, Capacity)
      BY <3>1 DEF Window
    <3> QED BY <2>1, <3>1, <3>2
  <2>3. CASE Fresh(x, Capacity)
    <3>1. x[1] = generation /\ x[2] <= T /\ Reached(x[2] + Capacity)
      BY <2>3 DEF Fresh
    <3>2. T <= (x[2] + Capacity) + Capacity + Quantum + Lookahead + Delay
      <4>1. x[2] + Capacity \in Int
        BY <1>1, <2>1
      <4> QED BY <3>1, <4>1, ReachedNear
    <3>3. x[2] \in (a + 1)..(a + Stretch)
      <4> HIDE DEF T, Delay
      <4> QED BY <1>1, <2>1, <3>1, <3>2 DEF Stretch
    <3>4. <<generation, x[2]>> \in Window(generation, a, Stretch)
      <4> HIDE DEF a, Stretch
      <4> QED BY <3>3 DEF Window
    <3> QED BY <2>1, <3>1, <3>4
  <2> QED BY <2>2, <2>3
<1>3. Within(Window(generation, a, Stretch) \cup Window(h, o - Capacity, Capacity), t)
  BY <1>2, WithinUp
<1>4. o - Capacity \in Int
  BY <1>1
<1>5. Len(t) <= (Stretch + 1) \div 2 + (Capacity + 1) \div 2
  <2> HIDE DEF a, Stretch
  <2> QED BY <1>1, <1>3, <1>4, WindowRoom
<1>6. Len(t) \in Nat /\ HistoryCapacity \in Nat
  BY HistoryCapacityAssumption DEF H!Tidy
<1> HIDE DEF Stretch
<1> QED BY <1>1, <1>5, <1>6 DEF Ample

\* A render call finds room for the whole mail.
LEMMA RenderBeginRoom ==
  ASSUME RoomInv, MuteInv', Ample, RenderBegin
  PROVE  RoomInv'
<1> DEFINE pass == FoldLeft(Delivered, [entries |-> history, ok |-> TRUE], mail)
<1>1. PICK h \in Nat, o \in Nat : Recent(h, o)
  BY DEF RoomInv
<1>2. /\ MuteInv /\ Stocked /\ Dense /\ Store /\ Capacity \in Nat
  BY SyncAssumption DEF RoomInv, MuteInv
<1>3. /\ history' = pass.entries /\ fault' = (fault \/ ~pass.ok) /\ mail' = <<>> /\ cstep = "idle"
      /\ cstep' \in {"idle", "tail", "refill"}
      /\ UNCHANGED <<queue, moved, finish, pstep, job, stamp, generation, position, base, taken, played, line>>
  BY DEF RenderBegin, producerVars
<1> HIDE DEF pass
<1>4. Within(Allowed(h, o, Capacity), history) /\ Within(Allowed(h, o, Capacity), mail)
  BY <1>1, <1>3 DEF Recent, InCall
<1>5. Roomed(Allowed(h, o, Capacity), pass)
  <2>1. \A t : H!Tidy(Records, t) /\ Within(Allowed(h, o, Capacity), t) => Len(t) <= HistoryCapacity
    BY AllowedFits
  <2>2. H!Tidy(Records, history) /\ Len(history) <= HistoryCapacity /\ Sound(mail)
    BY <1>2 DEF Store
  <2> QED BY <1>4, <2>1, <2>2, DrainRoom DEF pass
<1>6. LowIndex' = LowIndex /\ Offset' = Offset
  BY <1>3 DEF LowIndex, Offset
<1>7. \A p : Reached(p)' <=> Reached(p)
  BY <1>3, <1>6 DEF Reached, Ahead
<1>8. Stocked'
  BY <1>2, <1>3, <1>5, <1>6 DEF Stocked, Roomed
<1>9. Dense'
  BY <1>2, <1>3, <1>6 DEF Dense
<1>10. \A W : Within(W, mail')
  BY <1>3 DEF Within
<1>11. Settled'
  <2>1. Within(Lates(generation, position)', mail')
    BY <1>10
  <2> QED BY <2>1 DEF Settled
<1>12. Live' = Live /\ Pending' = Pending
  BY <1>3 DEF Live, Pending
<1>13. position + Pending <= position' + Pending'
  <2>1. position \in Nat /\ Pending \in Nat
    BY <1>2, RoomTypes
  <2>2. \A x, y \in Nat : x + y <= x + y
    OBVIOUS
  <2> QED BY <1>3, <1>12, <2>1, <2>2
<1>14. Allowed(h, o, Capacity) \subseteq Allowed(h, o, Capacity)'
  BY <1>2, <1>3, <1>7, <1>12, <1>13, AllowedKept
<1>15. Within(Allowed(h, o, Capacity)', history')
  BY <1>3, <1>5, <1>14, WithinUp DEF Roomed
<1>16. Recent(h, o)'
  <2>1. PICK b : b = (IF InCall' THEN Capacity - 1 ELSE Capacity)
    OBVIOUS
  <2>2. Within(Allowed(h, o, b), mail)' /\ Within(Allowed(h, o, Capacity), history)'
    BY <1>10, <1>15 DEF Within
  <2>3. pstep' = "mutePublish" /\ stamp' # None /\ ~Live' => h = generation' /\ o = position'
    BY <1>1, <1>3, <1>12 DEF Recent
  <2> QED BY <2>1, <2>2, <2>3 DEF Recent
<1> QED BY <1>8, <1>9, <1>11, <1>16 DEF RoomInv

\* Samples taken stay reached, by their stamps or by the base that these fix.
LEMMA TakeRoom ==
  ASSUME RoomInv, MuteInv', cstep = "refill", played = converted, ~Pads, queue # <<>> \/ taken > converted,
         NEW n \in Nat, Taking(n),
         UNCHANGED <<mail, moved, finish, producerVars, history, played, end, line, remaining,
                     wanted, carried, due, verdict>>
  PROVE  RoomInv'
<1>1. /\ MuteInv /\ CoreInv /\ Stocked /\ Dense /\ Settled /\ Carries
      /\ LowIndex \in Int /\ position \in Nat /\ Len(queue) \in Nat /\ taken \in Nat /\ played \in Nat
      /\ LowIndex <= played /\ Offset = position - taken - Len(queue) /\ Capacity \in Nat
  <2>1. MuteInv /\ CoreInv /\ Stocked /\ Dense /\ Settled /\ Carries
    BY DEF RoomInv, MuteInv
  <2> QED BY <2>1, RoomTypes
<1>2. /\ Offset' = Offset /\ Len(queue') = Len(queue) - n
      /\ \A i \in 1..Len(queue') : i + n \in 1..Len(queue) /\ queue'[i] = queue[i + n]
  BY <1>1, TakeCore
<1>3. /\ n \in 0..Len(queue) /\ taken' = taken + n /\ fault' = FALSE
      /\ cstep' \in {"play", "completeFailed", "starved"} /\ (cstep' = "completeFailed" => end # NoEnd)
      /\ base' = base \/ (base = None /\ base' = [generation |-> generation, offset |-> Offset])
      /\ base' = base => base # None \/ \A i \in 1..n : queue[i].stamp = None
      /\ UNCHANGED <<position, generation, stamp, pstep, job>>
  <2>1. base' = base => base # None \/ \A i \in 1..n : queue[i].stamp = None
    <3>1. [generation |-> generation, offset |-> Offset] # None
      <4>1. DOMAIN [generation |-> generation, offset |-> Offset] = {"generation", "offset"} /\ DOMAIN None = {}
        BY DEF None
      <4> QED BY <4>1
    <3> QED BY <3>1 DEF Taking
  <2> QED BY <2>1 DEF Taking, producerVars
<1>4. LowIndex' = LowIndex
  BY DEF LowIndex
<1>5. Stocked'
  <2>1. LowIndex <= taken' + Len(queue')
    <3>1. taken' + Len(queue') = taken + Len(queue)
      BY <1>1, <1>2, <1>3
    <3> QED BY <1>1, <3>1 DEF Stocked
  <2>2. Len(queue') <= Capacity
    BY <1>1, <1>2, <1>3 DEF Stocked
  <2> QED BY <1>3, <1>4, <2>1, <2>2 DEF Stocked
<1>6. Dense'
  <2>1. CASE base' = base
    BY <1>1, <1>2, <1>4, <2>1 DEF Dense
  <2>2. CASE base = None
    <3>1. ASSUME NEW i \in 1..Lookahead PROVE line[i].position = None
      <4>1. line[i] \in Cells
        BY RoomTypes, <1>1
      <4>2. ASSUME NEW e \in Cells, e = line[i] PROVE Placed(e)
        BY <1>1, <4>2 DEF Carries
      <4>3. ASSUME NEW e \in Cells, e = line[i] PROVE e.position = None
        BY <2>2, <4>2, <4>3 DEF Placed
      <4> QED BY <4>1, <4>3
    <3> QED BY <3>1 DEF Dense
  <2> QED BY <1>3, <2>1, <2>2
<1>7. Settled'
  BY <1>1, <1>3 DEF Settled, Within, Lates, Late
<1>8. ASSUME NEW p \in Int, Reached(p) PROVE Reached(p)'
  <2>1. CASE base # None
    <3>1. base' = base
      BY <1>3, <2>1
    <3> QED BY <1>2, <1>4, <1>8, <2>1, <3>1 DEF Reached, Ahead
  <2>2. CASE base = None /\ base' = base
    <3>1. CASE p >= position
      BY <1>3, <2>2, <3>1 DEF Reached
    <3>2. CASE ~(p >= position)
      <4>1. PICK j \in 1..Len(queue) : queue[j].stamp # None /\ position - Len(queue) + j - 1 <= p
        BY <1>8, <2>2, <3>2 DEF Reached
      <4>2. j \notin 1..n
        BY <1>3, <2>2, <4>1
      <4>3. j - n \in 1..Len(queue') /\ (j - n) + n = j
        BY <1>1, <1>2, <1>3, <4>1, <4>2
      <4>4. queue'[j - n].stamp # None
        BY <1>2, <4>1, <4>3
      <4>5. position' - Len(queue') + (j - n) - 1 <= p
        <5>1. \A a, b, c, d \in Int : a - (b - c) + (d - c) - 1 = a - b + d - 1
          OBVIOUS
        <5>2. position' - Len(queue') + (j - n) - 1 = position - Len(queue) + j - 1
          BY <1>1, <1>2, <1>3, <5>1
        <5> QED BY <4>1, <5>2
      <4> QED BY <2>2, <4>3, <4>4, <4>5 DEF Reached
    <3> QED BY <3>1, <3>2
  <2>3. CASE base = None /\ base' # base
    <3>1. position - Len(queue) <= p
      <4>1. CASE p >= position
        BY <1>1, <4>1
      <4>2. CASE ~(p >= position)
        <5>1. PICK j \in 1..Len(queue) : position - Len(queue) + j - 1 <= p
          BY <1>8, <2>3, <4>2 DEF Reached
        <5> QED BY <1>1, <5>1
      <4> QED BY <4>1, <4>2
    <3>2. played <= taken
      <4>1. converted \in Nat
        BY <1>1 DEF CoreInv, Types
      <4> QED BY <1>1, <4>1 DEF Pads
    <3>3. LowIndex' + Offset' <= p
      <4>1. \A a, b, c, d, e \in Int : a <= e /\ e <= c /\ b - d <= p => a + (b - c - d) <= p
        OBVIOUS
      <4>2. LowIndex + Offset <= p
        <5>1. LowIndex \in Int /\ position \in Int /\ taken \in Int /\ Len(queue) \in Int /\ played \in Int
          BY <1>1
        <5> HIDE DEF LowIndex, Offset
        <5> QED BY <1>1, <3>1, <3>2, <4>1, <5>1
      <4> QED BY <1>2, <1>4, <4>2
    <3>4. p >= LowIndex' + Offset'
      <4>1. LowIndex' + Offset' \in Int
        <5>1. LowIndex \in Int /\ Offset \in Int
          BY <1>1
        <5>2. \A x, y \in Int : x + y \in Int
          OBVIOUS
        <5> QED BY <1>2, <1>4, <5>1, <5>2
      <4> DEFINE x == LowIndex' + Offset'
      <4> HIDE DEF x
      <4> QED BY <3>3, <4>1 DEF x
    <3>5. base' # None
      BY <2>3
    <3> QED BY <3>4, <3>5 DEF Reached, Ahead
  <2> QED BY <2>1, <2>2, <2>3
<1>9. Live' = Live /\ Pending' = Pending /\ (InCall' => InCall)
  BY <1>3 DEF Live, Pending, InCall
<1>10. position + Pending <= position' + Pending'
  <2>1. position \in Nat /\ Pending \in Nat
    BY <1>1, RoomTypes
  <2>2. \A x, y \in Nat : x + y <= x + y
    OBVIOUS
  <2> QED BY <1>3, <1>9, <2>1, <2>2
<1> QED BY <1>3, <1>5, <1>6, <1>7, <1>8, <1>9, <1>10, RoomKept

LEMMA RefillRoom ==
  ASSUME RoomInv, MuteInv', Refill
  PROVE  RoomInv'
<1>1. CASE played = converted /\ (queue # <<>> \/ taken > converted) /\ ~Pads /\ Take
  <2>1. CoreInv
    BY DEF RoomInv, MuteInv
  <2>2. PICK n \in Nat : Taking(n)
    BY <1>1, <2>1, TakeFacts DEF Refill
  <2> QED BY <1>1, <2>2, TakeRoom DEF Refill
<1>2. CASE /\ played < converted /\ cstep' = "play"
           /\ UNCHANGED <<queue, fault, base, taken, converted, anchor>>
  BY <1>2, RoomQuiet DEF Refill, producerVars, InCall, Live, Pending
<1>3. CASE Pad
  <2>1. /\ UNCHANGED <<queue, mail, history, fault, base, taken, played, line, generation, position, end>>
        /\ UNCHANGED <<moved, pstep, job, stamp>>
        /\ cstep = "refill" /\ cstep' \in {"play", "completeFailed", "starved"}
        /\ cstep' = "completeFailed" => end # NoEnd
    BY <1>3 DEF Refill, Pad, Failed, producerVars
  <2> QED BY <2>1, RoomQuiet DEF InCall, Live, Pending
<1> QED BY <1>1, <1>2, <1>3 DEF Refill

\* What an output sends onto the line: its own position and a sample further, or
\* no position.
Sending(entry) ==
  \/ played' = played /\ entry.position = None
  \/ /\ played' = played + 1
     /\ IF base = None \/ LowIndex + Offset < 0 THEN entry.position = None
        ELSE entry.position # None /\ entry.position.low = LowIndex + Offset

\* The line stays dense, and an output moves the reach by one sample at most.
LEMMA EmitReached ==
  ASSUME MuteInv, Dense, NEW entry \in Cells, Emit(entry), Sending(entry),
         UNCHANGED <<queue, base, taken, position>>
  PROVE  /\ Dense'
         /\ \A p \in Int : Reached(p) => Reached(p + 1)'
         /\ Leaving(entry).position = None => \A p \in Nat : Reached(p) => Reached(p)'
         /\ base # None /\ Leaving(entry).position # None => Reached(Leaving(entry).position.low)
<1> DEFINE out == Leaving(entry)
<1>1. /\ LowIndex \in Int /\ Offset \in Int /\ Lookahead \in Nat /\ played \in Nat /\ position \in Nat
      /\ Len(queue) \in Nat
      /\ \A i \in 1..Lookahead : line[i].position # None => line[i].position.low \in Nat
  BY RoomTypes
<1>2. \A i \in 1..Lookahead : line'[i] = IF i < Lookahead THEN line[i + 1] ELSE entry
  BY EmitFacts DEF MuteInv
<1>3. Offset' = Offset
  BY DEF Offset
<1>4. \/ LowIndex' = LowIndex /\ entry.position = None
      \/ /\ LowIndex' = LowIndex + 1
         /\ IF base = None \/ LowIndex + Offset < 0 THEN entry.position = None
            ELSE entry.position # None /\ entry.position.low = LowIndex + Offset
  <2>1. CASE played' = played
    <3>1. LowIndex' = LowIndex
      BY <2>1 DEF LowIndex
    <3> QED BY <1>1, <2>1, <3>1 DEF Sending
  <2>2. CASE played' = played + 1
    <3>1. LowIndex' = LowIndex + 1
      BY <2>2, NextIndex DEF MuteInv
    <3>2. played' # played
      BY <1>1, <2>2
    <3> QED BY <2>2, <3>1, <3>2 DEF Sending
  <2> QED BY <2>1, <2>2 DEF Sending
<1>5. PICK u \in Int, v \in Int : /\ u = LowIndex + Offset /\ v = LowIndex' + Offset'
                                  /\ v = u \/ v = u + 1
  <2>1. LowIndex' \in Int /\ Offset' \in Int
    BY <1>1, <1>3, <1>4
  <2>2. LowIndex + Offset \in Int /\ LowIndex' + Offset' \in Int
    <3>1. \A x, y \in Int : x + y \in Int
      OBVIOUS
    <3> QED BY <1>1, <2>1, <3>1
  <2>3. \A x, y \in Int : (x + 1) + y = (x + y) + 1
    OBVIOUS
  <2>4. LowIndex' + Offset' = LowIndex + Offset \/ LowIndex' + Offset' = (LowIndex + Offset) + 1
    BY <1>1, <1>3, <1>4, <2>3
  <2> QED BY <2>2, <2>4
<1>6. \/ v = u /\ entry.position = None
      \/ /\ v = u + 1
         /\ IF base = None \/ u < 0 THEN entry.position = None
            ELSE entry.position # None /\ entry.position.low = u
  <2>1. LowIndex' = LowIndex => v = u
    BY <1>3, <1>5
  <2>2. LowIndex' = LowIndex + 1 => v = u + 1
    <3>1. \A x, y \in Int : (x + 1) + y = (x + y) + 1
      OBVIOUS
    <3> QED BY <1>1, <1>3, <1>5, <3>1
  <2>3. LowIndex + Offset < 0 <=> u < 0
    BY <1>5
  <2> QED BY <1>4, <1>5, <2>1, <2>2, <2>3
<1>7. /\ \A p : Ahead(p) <=> \/ base = None \/ p >= u
                             \/ \E i \in 1..Lookahead : line[i].position # None /\ line[i].position.low <= p
      /\ \A p : Ahead(p)' <=> \/ base = None \/ p >= v
                              \/ \E i \in 1..Lookahead : line'[i].position # None /\ line'[i].position.low <= p
  BY <1>5 DEF Ahead
<1>8. base # None =>
        \A i \in 1..Lookahead : line[i].position # None =>
          /\ u <= line[i].position.low + (Lookahead - i + 1)
          /\ \/ line[i].position.low + 1 = u
             \/ \E j \in (i + 1)..Lookahead :
                  line[j].position # None /\ line[j].position.low = line[i].position.low + 1
  BY <1>5 DEF Dense
<1>9. base = None => \A p : Reached(p)' <=> Reached(p)
  BY DEF Reached
\* A position at the end of the line or the next output: the one after u.
<1>10. ASSUME base # None, u >= 1, NEW p \in Int, p >= u PROVE Lookahead >= 1 => Ahead(p)'
  <2>1. CASE v = u
    BY <1>7, <1>10, <2>1
  <2>2. CASE v # u
    <3>1. entry.position # None /\ entry.position.low = u
      BY <1>5, <1>6, <1>10, <2>2
    <3>2. Lookahead >= 1 => Lookahead \in 1..Lookahead /\ line'[Lookahead] = entry
      BY <1>1, <1>2
    <3> QED BY <1>7, <1>10, <3>1, <3>2
  <2> QED BY <2>1, <2>2
\* What was on the line behind its first place still is.
<1>11. ASSUME NEW j \in 2..Lookahead
       PROVE  j - 1 \in 1..Lookahead /\ line'[j - 1] = line[j] /\ j \in 1..Lookahead
  <2>1. j - 1 \in 1..Lookahead /\ j - 1 < Lookahead /\ (j - 1) + 1 = j /\ j \in 1..Lookahead
    BY <1>1
  <2> QED BY <1>2, <2>1
<1>12. Dense'
  <2> SUFFICES ASSUME base # None, NEW i \in 1..Lookahead, line'[i].position # None
               PROVE  /\ v <= line'[i].position.low + (Lookahead - i + 1)
                      /\ \/ line'[i].position.low + 1 = v
                         \/ \E j \in (i + 1)..Lookahead :
                              line'[j].position # None /\ line'[j].position.low = line'[i].position.low + 1
    BY <1>5 DEF Dense
  <2>1. CASE i < Lookahead
    <3>1. i + 1 \in 1..Lookahead /\ line'[i] = line[i + 1] /\ Lookahead \in 1..Lookahead /\ i + 1 <= Lookahead
      BY <1>1, <1>2, <2>1
    <3>2. PICK l \in Nat : l = line[i + 1].position.low /\ l = line'[i].position.low
      BY <1>1, <3>1
    <3>3. /\ u <= l + (Lookahead - (i + 1) + 1)
          /\ \/ l + 1 = u
             \/ \E j \in (i + 2)..Lookahead : line[j].position # None /\ line[j].position.low = l + 1
      <4>1. (i + 1) + 1 = i + 2
        OBVIOUS
      <4> QED BY <1>8, <3>1, <3>2, <4>1
    <3>4. v <= l + (Lookahead - i + 1)
      <4>1. \A w, x, y, z \in Int : w <= x + (y - (z + 1) + 1) => w + 1 <= x + (y - z + 1) /\ w <= x + (y - z + 1)
        OBVIOUS
      <4>3. u \in Int /\ l \in Int /\ Lookahead \in Int /\ i \in Int /\ u <= l + (Lookahead - (i + 1) + 1)
        BY <1>1, <3>3
      <4>2. u + 1 <= l + (Lookahead - i + 1) /\ u <= l + (Lookahead - i + 1)
        BY <4>1, <4>3
      <4> QED BY <1>5, <4>2
    <3>5. CASE l + 1 = u
      <4>1. CASE v = u
        BY <3>2, <3>4, <3>5, <4>1
      <4>2. CASE v # u
        <5>1. entry.position # None /\ entry.position.low = l + 1
          BY <1>5, <1>6, <3>5, <4>2
        <5>2. line'[Lookahead] = entry /\ Lookahead \in (i + 1)..Lookahead
          BY <1>1, <1>2, <3>1
        <5> QED BY <3>2, <3>4, <5>1, <5>2
      <4> QED BY <4>1, <4>2
    <3>6. CASE \E j \in (i + 2)..Lookahead : line[j].position # None /\ line[j].position.low = l + 1
      <4>1. PICK j \in (i + 2)..Lookahead : line[j].position # None /\ line[j].position.low = l + 1
        BY <3>6
      <4>2. j \in 2..Lookahead /\ j - 1 \in (i + 1)..Lookahead
        BY <1>1
      <4>3. line'[j - 1] = line[j]
        BY <1>11, <4>2
      <4> QED BY <3>2, <3>4, <4>1, <4>2, <4>3
    <3> QED BY <3>3, <3>5, <3>6
  <2>2. CASE ~(i < Lookahead)
    <3>1. i = Lookahead /\ line'[i] = entry
      BY <1>1, <1>2, <2>2
    <3>2. entry.position.low = u /\ v = u + 1
      BY <1>5, <1>6, <3>1
    <3>3. v <= entry.position.low + (Lookahead - i + 1) /\ entry.position.low + 1 = v
      BY <1>1, <1>5, <3>1, <3>2
    <3> QED BY <3>1, <3>3
  <2> QED BY <2>1, <2>2
<1>13. ASSUME NEW p \in Int, Reached(p) PROVE Reached(p + 1)'
  <2>1. CASE base = None
    <3>1. Reached(p + 1)
      BY <1>13, ReachedUp
    <3> QED BY <1>9, <2>1, <3>1
  <2>2. CASE base # None
    <3> SUFFICES Ahead(p + 1)'
      BY <2>2 DEF Reached
    <3>1. Ahead(p)
      BY <1>13, <2>2 DEF Reached
    <3>2. CASE p >= u
      <4>1. p + 1 >= v
        BY <1>5, <3>2
      <4> QED BY <1>7, <4>1
    <3>3. ASSUME NEW i \in 1..Lookahead, line[i].position # None, line[i].position.low <= p PROVE Ahead(p + 1)'
      <4>1. CASE i >= 2
        <5>1. i \in 2..Lookahead
          BY <4>1
        <5>2. line[i].position.low <= p + 1
          BY <1>1, <3>3
        <5> QED BY <1>7, <1>11, <3>3, <5>1, <5>2
      <4>2. CASE line[i].position.low + 1 = u
        <5>1. line[i].position.low \in Nat
          BY <1>1, <3>3
        <5>2. p + 1 >= u /\ u >= 1
          <6>1. \A w \in Nat : w <= p => p + 1 >= w + 1 /\ w + 1 >= 1
            OBVIOUS
          <6> QED BY <3>3, <4>2, <5>1, <6>1
        <5>3. Lookahead >= 1
          BY <1>1
        <5>4. p + 1 \in Int
          OBVIOUS
        <5> QED BY <1>10, <2>2, <5>2, <5>3, <5>4
      <4>3. CASE \E j \in (i + 1)..Lookahead :
                   line[j].position # None /\ line[j].position.low = line[i].position.low + 1
        <5>1. PICK j \in (i + 1)..Lookahead :
                     line[j].position # None /\ line[j].position.low = line[i].position.low + 1
          BY <4>3
        <5>2. j \in 2..Lookahead
          BY <1>1
        <5>3. line[j].position.low <= p + 1
          <6>1. \A w \in Nat : w <= p => w + 1 <= p + 1
            OBVIOUS
          <6> QED BY <1>1, <3>3, <5>1, <6>1
        <5> QED BY <1>7, <1>11, <5>1, <5>2, <5>3
      <4> QED BY <1>8, <2>2, <3>3, <4>2, <4>3
    <3> QED BY <1>7, <2>2, <3>1, <3>2, <3>3
  <2> QED BY <2>1, <2>2
<1>14. ASSUME out.position = None, NEW p \in Nat, Reached(p) PROVE Reached(p)'
  <2>1. CASE base = None
    BY <1>9, <1>14, <2>1
  <2>2. CASE base # None
    <3> SUFFICES Ahead(p)'
      BY <2>2 DEF Reached
    <3>1. Ahead(p)
      BY <1>14, <2>2 DEF Reached
    <3>2. CASE p >= u
      <4>1. CASE v = u
        BY <1>7, <3>2, <4>1
      <4>2. CASE v # u /\ u < 0
        <5>1. p >= v
          BY <1>5, <4>2
        <5> QED BY <1>7, <5>1
      <4>3. CASE v # u /\ ~(u < 0)
        <5>1. entry.position # None /\ entry.position.low = u
          BY <1>5, <1>6, <2>2, <4>3
        <5>2. Lookahead # 0
          BY <1>14, <5>1 DEF Leaving
        <5>3. Lookahead \in 1..Lookahead /\ line'[Lookahead] = entry
          BY <1>1, <1>2, <5>2
        <5> QED BY <1>7, <3>2, <5>1, <5>3
      <4> QED BY <4>1, <4>2, <4>3
    <3>3. ASSUME NEW i \in 1..Lookahead, line[i].position # None, line[i].position.low <= p PROVE Ahead(p)'
      <4>1. i # 1
        BY <1>14, <3>3 DEF Leaving
      <4>2. i \in 2..Lookahead
        BY <4>1
      <4> QED BY <1>7, <1>11, <3>3, <4>2
    <3> QED BY <1>7, <2>2, <3>1, <3>2, <3>3
  <2> QED BY <2>1, <2>2
<1>15. ASSUME base # None, out.position # None PROVE Reached(out.position.low)
  <2>1. CASE Lookahead = 0
    <3>1. out = entry
      BY <2>1 DEF Leaving
    <3>2. entry.position.low = u
      BY <1>6, <1>15, <3>1
    <3>3. u >= u
      BY <1>5
    <3> QED BY <1>5, <1>7, <1>15, <3>1, <3>2, <3>3 DEF Reached
  <2>2. CASE Lookahead # 0
    <3>1. out = line[1] /\ 1 \in 1..Lookahead
      BY <1>1, <2>2 DEF Leaving
    <3>2. out.position.low \in Nat
      BY <1>1, <1>15, <3>1
    <3>3. line[1].position.low <= out.position.low
      BY <3>1, <3>2
    <3> QED BY <1>7, <1>15, <3>1, <3>2, <3>3 DEF Reached
  <2> QED BY <2>1, <2>2
<1> QED BY <1>12, <1>13, <1>14, <1>15

LEMMA LeavingFrom ==
  ASSUME MuteInv, NEW entry \in Cells, Emit(entry),
         entry.position # None => base # None /\ entry.position.generation = generation
  PROVE  /\ Leaving(entry) \in Cells
         /\ Leaving(entry).position # None => base # None /\ Leaving(entry).position.generation = generation
         /\ history' = IF Leaving(entry).position = None THEN history
                       ELSE Retire(history, Leaving(entry).position)
<1>1. /\ Leaving(entry) \in Cells
      /\ history' = IF Leaving(entry).position = None THEN history
                    ELSE Retire(history, Leaving(entry).position)
  BY EmitFacts DEF MuteInv
<1>2. CASE Lookahead = 0
  BY <1>1, <1>2 DEF Leaving
<1>3. CASE Lookahead # 0
  <2>1. 1 \in 1..Lookahead /\ Leaving(entry) = line[1]
    BY <1>3, SyncAssumption DEF Leaving
  <2>2. ASSUME NEW e \in Cells, e = line[1] PROVE e.position # None => base # None /\ e.position.generation = generation
    <3>1. Placed(e)
      BY <2>1, <2>2 DEF MuteInv, Carries
    <3> QED BY <3>1 DEF Placed
  <2> QED BY <1>1, <2>1, <2>2
<1> QED BY <1>2, <1>3

\* An output moves the reach by a sample, which the mail has in reserve; of the
\* history it leaves what ends beyond it.
LEMMA EmitRoom ==
  ASSUME RoomInv, MuteInv', NEW entry \in Cells, Emit(entry), Sending(entry), InCall, cstep' = "idle",
         entry.position # None => base # None /\ entry.position.generation = generation,
         UNCHANGED <<queue, mail, moved, stamp, generation, position, pstep, job, fault, base, taken, end>>,
         LowIndex' <= taken + Len(queue)
  PROVE  RoomInv'
<1> DEFINE out == Leaving(entry)
<1>1. PICK h \in Nat, o \in Nat : Recent(h, o)
  BY DEF RoomInv
<1>2. MuteInv /\ Stocked /\ Dense /\ Store /\ Capacity \in Nat /\ generation \in Nat
  <2>1. MuteInv /\ Stocked /\ Dense /\ Store
    BY DEF RoomInv, MuteInv
  <2> QED BY <2>1, RoomTypes
<1>3. /\ Dense'
      /\ \A p \in Int : Reached(p) => Reached(p + 1)'
      /\ out.position = None => \A p \in Nat : Reached(p) => Reached(p)'
      /\ base # None /\ out.position # None => Reached(out.position.low)
  BY <1>2, EmitReached
<1>4. /\ out \in Cells
      /\ out.position # None => base # None /\ out.position.generation = generation
      /\ history' = IF out.position = None THEN history ELSE Retire(history, out.position)
  BY <1>2, LeavingFrom
<1> HIDE DEF out
<1>5. Stocked' /\ Settled'
  BY <1>2 DEF Stocked, Settled
<1>6. Live' = Live /\ Pending' = Pending
  BY DEF Live, Pending
<1>7. position + Pending <= position' + Pending'
  <2>1. position \in Nat /\ Pending \in Nat
    BY <1>2, RoomTypes
  <2>2. \A x, y \in Nat : x + y <= x + y
    OBVIOUS
  <2> QED BY <1>6, <2>1, <2>2
<1>8. Within(Allowed(h, o, Capacity)', mail')
  <2>1. Within(Allowed(h, o, Capacity - 1), mail)
    BY <1>1 DEF Recent
  <2>2. ASSUME NEW e \in Nat, Reached(e + (Capacity - 1)) PROVE Reached(e + Capacity)'
    <3>1. e + (Capacity - 1) \in Int /\ (e + (Capacity - 1)) + 1 = e + Capacity
      BY <1>2
    <3>2. Reached((e + (Capacity - 1)) + 1)'
      BY <1>3, <2>2, <3>1
    <3> QED BY <3>1, <3>2
  <2>3. Capacity - 1 \in Int /\ Capacity \in Int
    BY <1>2
  <2>4. Allowed(h, o, Capacity - 1) \subseteq Allowed(h, o, Capacity)'
    BY <1>2, <1>6, <1>7, <2>2, <2>3, AllowedKept
  <2> QED BY <2>1, <2>4, WithinUp
<1>9. Within(Allowed(h, o, Capacity)', history')
  <2>1. Within(Allowed(h, o, Capacity), history)
    BY <1>1 DEF Recent
  <2>2. CASE out.position = None
    <3>1. \A e \in Nat : Reached(e + Capacity) => Reached(e + Capacity)'
      <4>1. \A e \in Nat : e + Capacity \in Nat
        BY <1>2
      <4> QED BY <1>3, <2>2, <4>1
    <3>2. Allowed(h, o, Capacity) \subseteq Allowed(h, o, Capacity)'
      BY <1>2, <1>6, <1>7, <3>1, AllowedKept
    <3> QED BY <1>4, <2>1, <2>2, <3>2, WithinUp
  <2>3. CASE out.position # None
    <3>1. PICK low \in Nat, high \in Nat :
                 out.position = [generation |-> generation, low |-> low, high |-> high] /\ low = out.position.low
      <4>1. /\ out.position.low \in Nat /\ out.position.high \in Nat
            /\ out.position = [generation |-> out.position.generation, low |-> out.position.low,
                               high |-> out.position.high]
        BY <1>4, <2>3, CellFields
      <4> QED BY <1>4, <2>3, <4>1
    <3>2. PICK r : r = Retire(history, [generation |-> generation, low |-> low, high |-> high])
      OBVIOUS
    <3>3. history' = r
      BY <1>4, <2>3, <3>1, <3>2
    <3>4. \A i \in 1..Len(r) : /\ \E j \in 1..Len(history) : r[i] = history[j]
                               /\ r[i].generation = generation => r[i].end > low
      <4>1. Remains(Retire(history, [generation |-> generation, low |-> low, high |-> high]),
                    history, generation, low)
        BY <1>2, Retired
      <4> QED BY <3>2, <4>1 DEF Remains
    <3>5. Reached(low)
      <4>1. base # None
        BY <1>4, <2>3
      <4>2. Reached(out.position.low)
        BY <1>3, <2>3, <4>1
      <4> QED BY <3>1, <4>2
    <3>6. ASSUME NEW i \in 1..Len(r) PROVE <<r[i].generation, r[i].end>> \in Allowed(h, o, Capacity)'
      <4>1. PICK x \in Nat \X Nat : x = <<r[i].generation, r[i].end>> /\ (Late(x, h, o) \/ Fresh(x, Capacity))
        <5>1. PICK j \in 1..Len(history) : r[i] = history[j]
          BY <3>4
        <5>2. <<history[j].generation, history[j].end>> \in Allowed(h, o, Capacity)
          BY <2>1 DEF Within
        <5> QED BY <5>1, <5>2 DEF Allowed
      <4>2. CASE Late(x, h, o)
        BY <4>1, <4>2 DEF Allowed
      <4>3. CASE Fresh(x, Capacity)
        <5>1. Live /\ x[1] = generation /\ x[2] <= position + Pending /\ x[2] \in Nat
          BY <4>3 DEF Fresh
        <5>2. x[2] > low
          BY <3>4, <4>1, <5>1
        <5>3. PICK q \in Int : q = x[2] + Capacity - 1 /\ q + 1 = x[2] + Capacity /\ low <= q
          BY <1>2, <5>1, <5>2
        <5>4. Reached(q)
          <6>1. low \in Int
            OBVIOUS
          <6> QED BY <1>2, <3>5, <5>3, <6>1, ReachedUp
        <5>5. Reached(x[2] + Capacity)'
          <6>1. Reached(q + 1)'
            BY <1>3, <5>4
          <6> QED BY <5>3, <6>1
        <5>6. x[2] <= position' + Pending'
          BY <1>6, <5>1
        <5>7. Fresh(x, Capacity)'
          BY <1>6, <5>1, <5>5, <5>6 DEF Fresh
        <5> QED BY <4>1, <5>7 DEF Allowed
      <4> QED BY <4>1, <4>2, <4>3
    <3>7. \A i \in 1..Len(r) : <<r[i].generation, r[i].end>> \in Allowed(h, o, Capacity)'
      BY <3>6
    <3>8. Within(Allowed(h, o, Capacity)', r)
      BY <3>7, WithinBy
    <3> QED BY <3>3, <3>8
  <2> QED BY <2>2, <2>3
<1>10. Recent(h, o)'
  <2>1. Within(Allowed(h, o, Capacity), mail)' /\ Within(Allowed(h, o, Capacity), history)'
    BY <1>8, <1>9 DEF Within
  <2>2. pstep' = "mutePublish" /\ stamp' # None /\ ~Live' => h = generation' /\ o = position'
    BY <1>1, <1>6 DEF Recent
  <2>3. ~InCall'
    BY DEF InCall
  <2> QED BY <2>1, <2>2, <2>3 DEF Recent
<1> QED BY <1>3, <1>5, <1>10 DEF RoomInv

LEMMA PlayRoom ==
  ASSUME RoomInv, MuteInv', Play
  PROVE  RoomInv'
<1>1. CASE /\ cstep' = "tail" /\ UNCHANGED <<played, history, line, due, verdict>>
  BY <1>1, RoomQuiet DEF Play, producerVars, InCall, Live, Pending
<1>2. CASE /\ Emit(PlayEntry) /\ played' = played + 1 /\ cstep' = "idle"
           /\ end = NoEnd \/ 2 * played - HalfDelay < 2 * end
  <2>1. /\ CoreInv /\ cstep = "play"
        /\ UNCHANGED <<queue, mail, moved, stamp, generation, position, pstep, job, fault, base, taken, end>>
    BY DEF Play, producerVars, RoomInv, MuteInv
  <2>2. /\ LowIndex \in Int /\ played \in Nat /\ LowIndex <= played /\ taken \in Nat /\ Len(queue) \in Nat
        /\ LowIndex' = LowIndex + 1 /\ HalfDelay \in Nat
    <3>1. LowIndex' = LowIndex + 1
      BY <1>2, <2>1, NextIndex
    <3> QED BY <3>1, RoomTypes, SyncAssumption DEF RoomInv
  <2>3. LowIndex' <= taken + Len(queue)
    <3>1. CASE end = NoEnd
      <4>1. played < converted /\ converted <= taken /\ converted \in Nat
        BY <2>1, <2>2, <3>1 DEF CoreInv, Pace, Types
      <4> HIDE DEF LowIndex
      <4> QED BY <2>2, <4>1
    <3>2. CASE end # NoEnd
      <4>1. end = taken + Len(queue) /\ 2 * played - HalfDelay < 2 * end
        BY <1>2, <2>1, <3>2 DEF CoreInv, Pace
      <4>2. \A a, b, c \in Nat : 2 * a - b < 2 * c => (2 * a - b) \div 2 + 1 <= c
        OBVIOUS
      <4>3. taken + Len(queue) \in Nat
        BY <2>2
      <4>4. LowIndex + 1 <= taken + Len(queue)
        BY <2>2, <4>1, <4>2, <4>3 DEF LowIndex
      <4> QED BY <2>2, <4>4
    <3> QED BY <3>1, <3>2
  <2>4. /\ CachePosition # None => base # None /\ CachePosition.generation = generation
        /\ IF base = None \/ LowIndex + Offset < 0 THEN CachePosition = None
           ELSE CachePosition # None /\ CachePosition.low = LowIndex + Offset
    <3>1. CachePosition # None =>
            base # None /\ CachePosition.generation = generation /\ CachePosition.low = LowIndex + Offset
      BY <2>1, EntryPlaced
    <3>2. base # None => base.offset = Offset
      BY <2>1 DEF CoreInv, Based
    <3>3. CachePosition = None <=> base = None \/ LowIndex + base.offset < 0
      <4>1. \A g, l, u : [generation |-> g, low |-> l, high |-> u] # None
        <5>1. \A g, l, u : DOMAIN [generation |-> g, low |-> l, high |-> u] = {"generation", "low", "high"}
          OBVIOUS
        <5>2. DOMAIN None = {}
          BY DEF None
        <5> QED BY <5>1, <5>2
      <4> QED BY <4>1 DEF CachePosition
    <3> QED BY <3>1, <3>2, <3>3
  <2>5. PlayEntry \in Cells /\ PlayEntry.position = CachePosition
    BY <2>1, EntryPlaced DEF PlayEntry
  <2>6. ASSUME NEW entry \in Cells, entry = PlayEntry PROVE RoomInv'
    <3>1. Sending(entry)
      BY <1>2, <2>4, <2>5, <2>6 DEF Sending
    <3>2. entry.position # None => base # None /\ entry.position.generation = generation
      BY <2>4, <2>5, <2>6
    <3>3. InCall
      BY <2>1 DEF InCall
    <3> QED BY <1>2, <2>1, <2>3, <2>6, <3>1, <3>2, <3>3, EmitRoom
  <2> QED BY <2>5, <2>6
<1> QED BY <1>1, <1>2 DEF Play, PlayEntry

LEMMA SilentRoom ==
  ASSUME RoomInv, MuteInv', Emit(Nowhere), cstep' = "idle", InCall,
         UNCHANGED <<queue, mail, producerVars, moved, fault, base, taken, played, end>>
  PROVE  RoomInv'
<1> SUFFICES ASSUME NEW entry, entry = Nowhere PROVE RoomInv'
  OBVIOUS
<1>1. entry \in Cells /\ entry.position = None
  BY NowhereFacts
<1>2. LowIndex' <= taken + Len(queue)
  BY DEF LowIndex, RoomInv, Stocked
<1>3. Sending(entry)
  BY <1>1 DEF Sending
<1> QED BY <1>1, <1>2, <1>3, EmitRoom DEF producerVars

LEMMA StarvedRoom ==
  ASSUME RoomInv, MuteInv', Starved
  PROVE  RoomInv'
BY SilentRoom DEF Starved, producerVars, cacheVars, InCall

LEMMA PlayTailRoom ==
  ASSUME RoomInv, MuteInv', PlayTail
  PROVE  RoomInv'
<1>1. CASE Emit(Nowhere) /\ cstep' = "idle"
  BY <1>1, SilentRoom DEF PlayTail, producerVars, cacheVars, InCall
<1>2. CASE cstep' = "complete" /\ UNCHANGED <<history, line, remaining, due, verdict>>
  BY <1>2, RoomQuiet DEF PlayTail, producerVars, cacheVars, InCall, Live, Pending
<1> QED BY <1>1, <1>2 DEF PlayTail

\* A reset leaves at most the late intervals of its burst.
LEMMA ResetRoom ==
  ASSUME RoomInv, MuteInv', StateReset, cstep' \in {"ack", "retire", "idle"}, generation' = generation,
         queue' = queue \/ queue' = <<>>,
         \/ mail' = mail /\ position' = position /\ Within(Lates(generation, position), mail)
         \/ mail' = <<>> /\ pstep' = "idle"
  PROVE  RoomInv'
<1>1. /\ Capacity \in Nat /\ position \in Nat /\ generation \in Nat /\ Len(queue) \in Nat /\ HalfDelay \in Nat
      /\ Len(queue) <= Capacity
  BY RoomTypes, SyncAssumption DEF RoomInv, Stocked
<1>2. Len(queue') \in Nat /\ Len(queue') <= Capacity
  <2>1. Len(<<>>) = 0
    OBVIOUS
  <2> QED BY <1>1, <2>1
<1>3. Stocked'
  <2>1. LowIndex' <= taken' + Len(queue')
    <3>1. taken' = 0 /\ LowIndex' = (2 * 0 - HalfDelay) \div 2
      BY DEF StateReset, LowIndex
    <3>2. \A a \in Nat : (2 * 0 - a) \div 2 \in Int /\ (2 * 0 - a) \div 2 <= 0
      OBVIOUS
    <3>3. LowIndex' \in Int /\ LowIndex' <= 0
      BY <1>1, <3>1, <3>2
    <3> QED BY <1>2, <3>1, <3>3
  <2> QED BY <1>2, <2>1 DEF StateReset, Stocked
<1>4. Dense' /\ Settled' /\ ~Live' /\ ~InCall' /\ history' = <<>>
  BY DEF StateReset, Dense, Settled, Live, InCall
<1>5. Recent(generation, position)'
  <2>1. PICK g \in Nat, o \in Nat : g = generation' /\ o = position'
    BY SyncAssumption DEF MuteInv, CoreInv, Types
  <2>2. Within(Allowed(g, o, Capacity)', mail')
    <3>1. CASE mail' = mail /\ position' = position /\ Within(Lates(generation, position), mail)
      <4>1. Within(Lates(g, o), mail)
        BY <2>1, <3>1
      <4>2. Lates(g, o) \subseteq Allowed(g, o, Capacity)'
        BY DEF Lates, Allowed
      <4> QED BY <3>1, <4>1, <4>2, WithinUp
    <3>2. CASE mail' = <<>>
      BY <3>2 DEF Within
    <3> QED BY <3>1, <3>2
  <2>3. Within(Allowed(g, o, Capacity)', history')
    BY <1>4 DEF Within
  <2>4. Within(Allowed(g, o, Capacity), mail)' /\ Within(Allowed(g, o, Capacity), history)'
    BY <2>2, <2>3 DEF Within
  <2>5. Recent(g, o)'
    BY <1>4, <2>1, <2>4 DEF Recent
  <2> QED BY <2>1, <2>5 DEF Recent
<1>6. generation' \in Nat /\ position' \in Nat
  BY SyncAssumption DEF MuteInv, CoreInv, Types
<1> QED BY <1>3, <1>4, <1>5, <1>6 DEF RoomInv

LEMMA CompleteRoom ==
  ASSUME RoomInv, MuteInv', Complete
  PROVE  RoomInv'
<1>1. end # NoEnd /\ cstep # "idle"
  BY DEF Complete, RoomInv, Stocked, MuteInv, CoreInv, Pace
<1>2. Within(Lates(generation, position), mail)
  BY <1>1 DEF RoomInv, Settled
<1> QED BY <1>2, ResetRoom DEF Complete, producerVars

LEMMA ConsumerResetRoom ==
  ASSUME RoomInv, MuteInv', ConsumerReset
  PROVE  RoomInv'
BY ResetRoom DEF ConsumerReset

LEMMA RetireBurstRoom ==
  ASSUME RoomInv, MuteInv', RetireBurst
  PROVE  RoomInv'
<1>1. /\ queue' = <<>> /\ mail' = <<>> /\ cstep' = "ack" /\ ~Live /\ base = None /\ end = NoEnd
      /\ UNCHANGED <<moved, stamp, pstep, job, generation, position, history, fault, taken, played, base, end>>
  BY DEF RetireBurst, producerVars, cacheVars, RoomInv, MuteInv, CoreInv, Control, Based
<1>2. Stocked'
  <2>1. LowIndex \in Int /\ LowIndex <= played /\ played \in Nat /\ taken \in Nat /\ Capacity \in Nat
    BY RoomTypes DEF RoomInv
  <2>2. converted \in Nat /\ played <= converted /\ ~(converted > taken)
    BY <1>1 DEF RoomInv, MuteInv, CoreInv, Types, Pace
  <2>3. LowIndex <= taken + Len(<<>>) /\ Len(<<>>) <= Capacity
    <3>1. Len(<<>>) = 0
      OBVIOUS
    <3> HIDE DEF LowIndex
    <3> QED BY <2>1, <2>2, <3>1
  <2>4. LowIndex' = LowIndex
    BY <1>1 DEF LowIndex
  <2> QED BY <1>1, <2>3, <2>4 DEF RoomInv, Stocked
<1>3. Dense' /\ Settled'
  BY <1>1 DEF Dense, Settled
<1>4. ~Live' /\ ~InCall'
  BY <1>1 DEF Live, InCall
<1> QED BY <1>1, <1>2, <1>3, <1>4, RoomKept

LEMMA RoomStep ==
  ASSUME RoomInv, AwaitsCompletion, Ample, [Next]_vars
  PROVE  RoomInv'
<1>0. MuteInv'
  BY MuteStep DEF RoomInv
<1>1. CASE ProducerStep
  <2>1. ASSUME NEW n \in 1..Capacity, PushTagged(n) PROVE RoomInv'
    <3>1. n \in Nat
      BY <2>1
    <3> QED BY <1>0, <2>1, <3>1, CallRoom DEF PushTagged, MayPublish
  <2>2. CASE PushPlain
    BY <1>0, <2>2, CallRoom DEF PushPlain, MayPublish
  <2>3. CASE MuteSpans
    BY <1>0, <2>3, CallRoom DEF MuteSpans
  <2> QED BY <1>0, <1>1, <2>1, <2>2, <2>3, CallRoom, TaggedPublishRoom, PushRoom, PlainPushRoom,
             MutePublishRoom, NewGenerationRoom DEF ProducerStep
<1>2. CASE ConsumerStep
  BY <1>0, <1>2, RenderBeginRoom, RefillRoom, PlayRoom, StarvedRoom, PlayTailRoom, CompleteRoom,
     RetireBurstRoom, CallRoom, ConsumerResetRoom DEF ConsumerStep
<1>3. CASE UNCHANGED vars
  BY <1>0, <1>3, RoomQuiet DEF vars, producerVars, cacheVars, InCall, Live, Pending
<1> QED BY <1>1, <1>2, <1>3 DEF Next

LEMMA RoomInit == Init => RoomInv
<1> SUFFICES ASSUME Init PROVE RoomInv
  OBVIOUS
<1>1. MuteInv
  BY MuteInit
<1>2. /\ queue = <<>> /\ mail = <<>> /\ history = <<>> /\ fault = FALSE /\ base = None /\ end = NoEnd
      /\ taken = 0 /\ played = 0 /\ cstep = "idle" /\ pstep = "idle"
  BY DEF Init
<1>3. Stocked
  <2>1. Len(queue) = 0 /\ Capacity \in Nat /\ HalfDelay \in Nat
    BY <1>2, SyncAssumption
  <2>2. \A a \in Nat : (2 * 0 - a) \div 2 \in Int /\ (2 * 0 - a) \div 2 <= 0
    OBVIOUS
  <2>3. LowIndex <= taken + Len(queue)
    BY <1>2, <2>1, <2>2 DEF LowIndex
  <2> QED BY <1>2, <2>1, <2>3 DEF Stocked
<1>4. Dense /\ Settled
  BY <1>2 DEF Dense, Settled
<1>5. Recent(0, 0)
  BY <1>2 DEF Recent, Within
<1> QED BY <1>1, <1>3, <1>4, <1>5 DEF RoomInv

\* The intervals outstanding stay within what an ample history holds.
THEOREM RoomInvariance ==
  ASSUME AwaitsCompletion, Ample
  PROVE  Spec => []RoomInv
<1>1. Init => RoomInv
  BY RoomInit
<1>2. RoomInv /\ [Next]_vars => RoomInv'
  BY RoomStep
<1> QED BY <1>1, <1>2, PTL DEF Spec

\* What Ring::create allocates for the history, two capacities and the delay in
\* whole samples and two (mute_history in ring.rs), is ample as long as quantum
\* and lookahead together do not exceed the capacity and the delay.
THEOREM AllocationAmple ==
  ASSUME HistoryCapacity >= 2 * Capacity + Delay + 2, Quantum + Lookahead <= Capacity + Delay
  PROVE  Ample
<1>1. /\ Capacity \in Nat /\ Quantum \in Nat /\ Lookahead \in Nat /\ HalfDelay \in Nat
      /\ HistoryCapacity \in Nat
  BY SyncAssumption, HistoryCapacityAssumption
<1>2. Delay \in Nat
  BY <1>1 DEF Delay
<1>3. \A c, q, l, d, h \in Nat :
        h >= 2 * c + d + 2 /\ q + l <= c + d
        => (c + 1) \div 2 + (2 * c + q + l + d + 1 + 1) \div 2 <= h
  OBVIOUS
<1> HIDE DEF Delay
<1> QED BY <1>1, <1>2, <1>3 DEF Ample, Stretch

\* A caller that keeps to the documented order never loses the mapping from
\* outputs to source samples, and the history never overflows
\* (the sites that set mute_fault in ring.rs).
THEOREM NoMuteFaultHolds ==
  ASSUME AwaitsCompletion, Ample
  PROVE  Spec => []NoMuteFault
<1>1. RoomInv => NoMuteFault
  BY DEF RoomInv, Stocked, NoMuteFault
<1> QED BY <1>1, RoomInvariance, PTL
=============================================================================
